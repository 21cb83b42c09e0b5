------------------------- MODULE MCIdempotency -------------------------
(***************************************************************************)
(* Bodies for the runs of Idempotency: the last request comes with a body  *)
(* of its own, the others are retries of one another.                      *)
(***************************************************************************)
EXTENDS Idempotency

CONSTANT Others   \* the requests that reuse the key for another body

MCBody == [r \in Request |-> r \in Others]

=============================================================================
