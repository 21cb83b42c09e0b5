------------------------- MODULE MCConfirmation -------------------------
(***************************************************************************)
(* Subjects for the run of Confirmation: the calls in Other are for        *)
(* another tool or input, the rest are the model trying the same again.    *)
(***************************************************************************)
EXTENDS Confirmation

CONSTANT Other   \* the calls about something else

MCSubject == [c \in Call |-> c \in Other]

=============================================================================
