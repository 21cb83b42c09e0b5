---------------------------- MODULE MCCaches ---------------------------
(***************************************************************************)
(* The instance TLC checks: two requests in one process and one in another.*)
(***************************************************************************)
EXTENDS Caches, TLC

CONSTANTS r1, r2, r3, p1, p2

MCOn == (r1 :> p1) @@ (r2 :> p1) @@ (r3 :> p2)

============================================================================
