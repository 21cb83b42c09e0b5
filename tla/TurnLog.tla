---------------------------- MODULE TurnLog ----------------------------
(***************************************************************************)
(* What the session lock promises, said without any lock: the history of a *)
(* session is a sequence of whole turns.  One turn is open at a time, only *)
(* the open turn writes, and a turn that ended never writes again.         *)
(* SessionTurn implements this module while no turn outlives its lock.     *)
(***************************************************************************)
EXTENDS Sequences

CONSTANTS
  Request,      \* the HTTP requests that want a turn on the session
  Kind,         \* the kinds of entries a turn writes
  NoRequest     \* not a request

VARIABLES
  log,          \* the entries of the session, oldest first
  open,         \* the request whose turn is open, or NoRequest
  over          \* the requests that are answered or lost

tvars == <<log, open, over>>

TInit ==
  /\ log = <<>>
  /\ open = NoRequest
  /\ over = {}

\* A turn opens only when none is open, and only once for each request.
Open(r) ==
  /\ open = NoRequest
  /\ r \notin over
  /\ open' = r
  /\ UNCHANGED <<log, over>>

\* The open turn writes an entry at the end of the history.
Say(r, k) ==
  /\ open = r
  /\ log' = Append(log, [req |-> r, kind |-> k])
  /\ UNCHANGED <<open, over>>

\* The open turn ends, for whatever reason.
Close(r) ==
  /\ open = r
  /\ open' = NoRequest
  /\ over' = over \cup {r}
  /\ UNCHANGED log

\* A request is turned away without a turn; it has written nothing.
Refuse(r) ==
  /\ open # r
  /\ r \notin over
  /\ over' = over \cup {r}
  /\ UNCHANGED <<log, open>>

TNext ==
  \E r \in Request :
    \/ Open(r)
    \/ \E k \in Kind : Say(r, k)
    \/ Close(r)
    \/ Refuse(r)

TSpec == TInit /\ [][TNext]_tvars

=============================================================================
