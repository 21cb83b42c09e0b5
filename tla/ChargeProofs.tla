--------------------------- MODULE ChargeProofs ---------------------------
(***************************************************************************)
(* What a caller is charged: once for a request, however often it is       *)
(* retried (Idempotency), and for no more tokens than it used, give or     *)
(* take the calls in flight (Quota).                                       *)
(*                                                                         *)
(* One idempotency key, for any requests, bodies and TTL.  The inductive   *)
(* invariant says that as long as nobody has worked on the                 *)
(* key without owning its row, whoever is at work owns it: the row is his, *)
(* it has not expired, and until he completes it, it is in progress.       *)
(* Exclusion follows, since a row is only one request's; so does that a    *)
(* completed row is left alone, since the only steps that change one need  *)
(* it to be expired or in progress.                                        *)
(*                                                                         *)
(* The quota, for any sessions and limits.  The books of a key balance:    *)
(* its count, what is still owed to it and the table move together in each *)
(* of the few ways a step can touch them (Accounted), and a sum about to   *)
(* fill the key is no older than what is owed explains.  Behind a limit    *)
(* are those that passed their check; each turn that did may book one more *)
(* call, so that usage stays below the limit by a call for each turn that  *)
(* did not (Bounded).  What is owed is counted token by token, as the      *)
(* cardinality of a set, so that no sum over turns needs an induction.     *)
(***************************************************************************)
EXTENDS Idempotency, Quota, FiniteSetTheorems, TLAPS


----------------------------------------------------------------------------
\* Idempotency: who owns the row

\* A request at work owns a live row.
Owns(r) ==
  /\ row.by = r
  /\ left > 0
  /\ row.status # "absent"
  /\ pc[r] # "unwinding" => row.status = "in_progress"

\* A completed row holds its owner's response, and that is no failure.
Stored ==
  row.status = "completed" =>
    /\ row.resp = row.by
    /\ row.by \in Request
    /\ result[row.by] \in {"ok", "refused"}

\* A request that has a result is past its run; one that completes has a
\* result worth storing.
ResultsFit ==
  \A r \in Request :
    /\ pc[r] \in {"idle", "conflict", "running"} => result[r] = "none"
    /\ pc[r] = "completing" => result[r] \in {"ok", "refused"}

KeyInv ==
  /\ TypeOK
  /\ ResultsFit
  /\ row.status = "absent" <=> row = Absent
  /\ unguarded = {} =>
       /\ \A r \in Request : AtWork(r) => Owns(r)
       /\ Stored
  /\ ReplayFaithful

----------------------------------------------------------------------------

\* Type correctness is preserved by every action.
LEMMA TypeStep == TypeOK /\ [Next]_vars => TypeOK'
<1> SUFFICES ASSUME TypeOK, [Next]_vars PROVE TypeOK'
  OBVIOUS
<1> USE TtlAssumption DEF TypeOK, Stage, Working, Results, Goto
<1>1. ASSUME NEW r \in Request, Claim(r) PROVE TypeOK'
  BY <1>1 DEF Claim, Placeholder
<1>2. ASSUME NEW r \in Request, Conflict(r) PROVE TypeOK'
  BY <1>2 DEF Conflict
<1>3. ASSUME NEW r \in Request, RowVanished(r) PROVE TypeOK'
  BY <1>3 DEF RowVanished
<1>4. ASSUME NEW r \in Request, Refuse(r) PROVE TypeOK'
  BY <1>4 DEF Refuse
<1>5. ASSUME NEW r \in Request, Replay(r) PROVE TypeOK'
  BY <1>5 DEF Replay
<1>6. ASSUME NEW r \in Request, RunReturns(r) PROVE TypeOK'
  BY <1>6 DEF RunReturns
<1>7. ASSUME NEW r \in Request, RunFails(r) PROVE TypeOK'
  BY <1>7 DEF RunFails
<1>8. ASSUME NEW r \in Request, RunThrows(r) PROVE TypeOK'
  BY <1>8 DEF RunThrows
<1>9. ASSUME NEW r \in Request, Complete(r) PROVE TypeOK'
  BY <1>9 DEF Complete, Completed
<1>10. ASSUME NEW r \in Request, Release(r) PROVE TypeOK'
  BY <1>10 DEF Release, Deleted, Absent
<1>11. ASSUME NEW r \in Request, Unwind(r) PROVE TypeOK'
  BY <1>11 DEF Unwind, Deleted, Absent
<1>12. ASSUME NEW r \in Request, Crash(r) PROVE TypeOK'
  BY <1>12 DEF Crash
<1>13. ASSUME PurgeExpired PROVE TypeOK'
  BY <1>13 DEF PurgeExpired, Absent
<1>14. ASSUME Tick PROVE TypeOK'
  BY <1>14 DEF Tick
<1>15. CASE UNCHANGED vars
  BY <1>15 DEF vars
<1> QED
  BY <1>1, <1>2, <1>3, <1>4, <1>5, <1>6, <1>7, <1>8, <1>9, <1>10, <1>11,
     <1>12, <1>13, <1>14, <1>15 DEF Next

\* Type correctness: no row outlives its TTL.
THEOREM TypeCorrect == Spec => []TypeOK
<1>1. Init => TypeOK
  BY TtlAssumption DEF Init, TypeOK, Absent, Stage, Working, Results
<1> QED
  BY <1>1, TypeStep, PTL DEF Spec

----------------------------------------------------------------------------

\* The invariant is preserved by every action, if no request outlives its row.
LEMMA KeyStep ==
  ASSUME RunsFitTtl, KeyInv, [Next]_vars
  PROVE  KeyInv'
<1> USE RequestAssumption, TtlAssumption
        DEF KeyInv, ResultsFit, AtWork, Owns, Stored, ReplayFaithful, Working,
            Goto
<1>0. TypeOK'
  BY TypeStep
<1>1. ASSUME NEW r \in Request, Claim(r) PROVE KeyInv'
  BY <1>0, <1>1 DEF TypeOK, Claim, Placeholder, Absent
<1>2. ASSUME NEW r \in Request, Conflict(r) PROVE KeyInv'
  BY <1>0, <1>2 DEF TypeOK, Conflict
<1>3. ASSUME NEW r \in Request, RowVanished(r) PROVE KeyInv'
  BY <1>0, <1>3 DEF TypeOK, RowVanished
<1>4. ASSUME NEW r \in Request, Refuse(r) PROVE KeyInv'
  BY <1>0, <1>4 DEF TypeOK, Refuse
<1>5. ASSUME NEW r \in Request, Replay(r) PROVE KeyInv'
  BY <1>0, <1>5 DEF TypeOK, Replay
<1>6. ASSUME NEW r \in Request, RunReturns(r) PROVE KeyInv'
  BY <1>0, <1>6 DEF TypeOK, RunReturns
<1>7. ASSUME NEW r \in Request, RunFails(r) PROVE KeyInv'
  BY <1>0, <1>7 DEF TypeOK, RunFails
<1>8. ASSUME NEW r \in Request, RunThrows(r) PROVE KeyInv'
  BY <1>0, <1>8 DEF TypeOK, RunThrows
<1>9. ASSUME NEW r \in Request, Complete(r) PROVE KeyInv'
  BY <1>0, <1>9 DEF TypeOK, Complete, Completed, Absent
<1>10. ASSUME NEW r \in Request, Release(r) PROVE KeyInv'
  BY <1>0, <1>10 DEF TypeOK, Release, Deleted, Absent
<1>11. ASSUME NEW r \in Request, Unwind(r) PROVE KeyInv'
  BY <1>0, <1>11 DEF TypeOK, Unwind, Deleted, Absent
<1>12. ASSUME NEW r \in Request, Crash(r) PROVE KeyInv'
  BY <1>0, <1>12 DEF TypeOK, Crash
<1>13. ASSUME PurgeExpired PROVE KeyInv'
  BY <1>0, <1>13 DEF TypeOK, PurgeExpired, Absent
<1>14. ASSUME Tick PROVE KeyInv'
  BY <1>0, <1>14 DEF TypeOK, Tick
<1>15. CASE UNCHANGED vars
  BY <1>0, <1>15 DEF TypeOK, vars
<1> QED
  BY <1>1, <1>2, <1>3, <1>4, <1>5, <1>6, <1>7, <1>8, <1>9, <1>10, <1>11,
     <1>12, <1>13, <1>14, <1>15 DEF Next

\* It holds of every run that fits the TTL.
LEMMA KeyInvariant ==
  ASSUME RunsFitTtl
  PROVE  Spec => []KeyInv
<1>1. Init => KeyInv
  BY RequestAssumption, TtlAssumption
     DEF Init, KeyInv, TypeOK, ResultsFit, AtWork, Stored, ReplayFaithful,
         Absent, Stage, Working, Results
<1>2. KeyInv /\ [Next]_vars => KeyInv'
  BY KeyStep
<1> QED
  BY <1>1, <1>2, PTL DEF Spec

----------------------------------------------------------------------------

\* At most one request with a key is at work at a time, as long as nobody has
\* worked without owning the row and no work outlives the TTL.
THEOREM OneAtWorkHolds ==
  ASSUME RunsFitTtl
  PROVE  Spec => []OneAtWork
<1>1. KeyInv => OneAtWork
  BY DEF KeyInv, OneAtWork, Owns
<1> QED
  BY <1>1, KeyInvariant, PTL

\* What is replayed is a success or a refusal of the same body.
THEOREM ReplaysAreFaithful ==
  ASSUME RunsFitTtl
  PROVE  Spec => []ReplayFaithful
<1>1. KeyInv => ReplayFaithful
  BY DEF KeyInv
<1> QED
  BY <1>1, KeyInvariant, PTL

\* A completed row is left alone until it expires.
LEMMA KeepStep ==
  ASSUME KeyInv, [Next]_vars, unguarded' = {},
         row.status = "completed", left > 0
  PROVE  row' = row
<1> USE DEF KeyInv, TypeOK, AtWork, Owns, Working, Goto
<1>0. unguarded = {}
  <2>1. unguarded \subseteq unguarded'
    BY DEF Next, Claim, Conflict, RowVanished, Refuse, Replay, RunReturns,
           RunFails, RunThrows, Complete, Release, Unwind, Crash,
           PurgeExpired, Tick, vars
  <2> QED
    BY <2>1
<1>1. ASSUME NEW r \in Request, Claim(r) PROVE row' = row
  BY <1>1 DEF Claim, Absent
<1>2. ASSUME NEW r \in Request, Complete(r) PROVE row' = row
  BY <1>0, <1>2 DEF Complete
<1>3. ASSUME NEW r \in Request, Release(r) \/ Unwind(r) PROVE row' = row
  BY <1>3 DEF Release, Unwind, Deleted
<1>4. ASSUME PurgeExpired PROVE row' = row
  BY <1>4 DEF PurgeExpired
<1>5. ASSUME NEW r \in Request,
             \/ Conflict(r) \/ RowVanished(r) \/ Refuse(r) \/ Replay(r)
             \/ RunReturns(r) \/ RunFails(r) \/ RunThrows(r) \/ Crash(r)
      PROVE  row' = row
  BY <1>5 DEF Conflict, RowVanished, Refuse, Replay, RunReturns, RunFails,
              RunThrows, Crash
<1>6. CASE Tick \/ UNCHANGED vars
  BY <1>6 DEF Tick, vars
<1> QED
  BY <1>1, <1>2, <1>3, <1>4, <1>5, <1>6 DEF Next

\* No claim, release, completion or sweep touches a stored response before
\* its TTL is over.
THEOREM StoredResponsesStay ==
  ASSUME RunsFitTtl
  PROVE  Spec => CompletedIsKept
<1>1. KeyInv /\ [Next]_vars =>
        [unguarded' = {} /\ row.status = "completed" /\ left > 0
           => row' = row]_vars
  BY KeepStep
<1> QED
  BY <1>1, KeyInvariant, PTL DEF Spec, CompletedIsKept

----------------------------------------------------------------------------
\* Failures release their key

\* A request that is over with a failure to give back has called release():
\* the result of a request says which exit it is on, and the exits of a
\* failure lead to `done' only through Release or Unwind.  This needs neither
\* the row nor any bound on how long the work takes.
ExitInv ==
  \A r \in Request :
    /\ pc[r] \in {"idle", "conflict", "running"} => result[r] = "none"
    /\ pc[r] = "completing" => result[r] \in {"ok", "refused"}
    /\ pc[r] = "done" /\ result[r] = "failed" /\ r \notin Stream => r \in released
    /\ pc[r] = "done" /\ result[r] = "threw" => r \in released

\* Every way out keeps to it.
LEMMA ExitStep ==
  ASSUME TypeOK, ExitInv, [Next]_vars
  PROVE  ExitInv'
<1> USE DEF TypeOK, ExitInv, Goto, Working
<1>1. ASSUME NEW r \in Request, Claim(r) \/ Conflict(r) \/ RowVanished(r)
      PROVE  ExitInv'
  BY <1>1 DEF Claim, Conflict, RowVanished
<1>2. ASSUME NEW r \in Request, Refuse(r) \/ Replay(r) PROVE ExitInv'
  BY <1>2 DEF Refuse, Replay
<1>3. ASSUME NEW r \in Request, RunReturns(r) PROVE ExitInv'
  BY <1>3 DEF RunReturns
<1>4. ASSUME NEW r \in Request, RunFails(r) \/ RunThrows(r) PROVE ExitInv'
  BY <1>4 DEF RunFails, RunThrows
<1>5. ASSUME NEW r \in Request, Complete(r) PROVE ExitInv'
  BY <1>5 DEF Complete
<1>6. ASSUME NEW r \in Request, Release(r) \/ Unwind(r) PROVE ExitInv'
  BY <1>6 DEF Release, Unwind
<1>7. ASSUME NEW r \in Request, Crash(r) PROVE ExitInv'
  BY <1>7 DEF Crash
<1>8. CASE PurgeExpired \/ Tick \/ UNCHANGED vars
  BY <1>8 DEF PurgeExpired, Tick, vars
<1> QED
  BY <1>1, <1>2, <1>3, <1>4, <1>5, <1>6, <1>7, <1>8 DEF Next

\* No failed request leaves its key to the TTL without having called
\* release(), however requests, expiry and the sweeper interleave.
THEOREM FailuresRelease == Spec => []FailureReleases
<1>1. Init => ExitInv
  BY DEF Init, ExitInv
<1>2. TypeOK /\ ExitInv /\ [Next]_vars => ExitInv'
  BY ExitStep
<1>3. ExitInv => FailureReleases
  BY DEF ExitInv, FailureReleases
<1> QED
  BY <1>1, <1>2, <1>3, TypeCorrect, PTL DEF Spec


----------------------------------------------------------------------------
\* Quota: where a turn can be

\* The turn of s is in an operation while it checks or records and in none
\* otherwise, on its session or the tenant; the table alone is asked no more
\* than needed.
Fits(s) ==
  LET t == turn[s]
  IN  /\ t.at \in {"preflight", "check", "record"} => t.on \in {s, Tenant} /\ t.op # "none"
      /\ t.at \in {"idle", "model", "append"} => t.op = "none"
      /\ t.op \in {"incr", "reread"} => t.at = "record"
      /\ t.kind = "db" => t.op \in {"none", "fallback", "reread"}
      /\ t.kind = "db" /\ t.at = "record" => t.op = "reread"

Shapes ==
  /\ QTypeOK
  /\ lapsed \subseteq everLapsed
  /\ \A s \in Session : Fits(s)

\* Only the turn of s moves, and it is well formed afterwards.
OnlyMoves(s) ==
  /\ turn' \in [Session -> Turn]
  /\ Fits(s)'
  /\ \A q \in Session \ {s} : turn'[q] = turn[q]

\* What the constants are.
LEMMA KeysOf ==
  /\ Session \subseteq Key /\ Tenant \in Key
  /\ \A k \in Key : Limit[k] \in Nat
  /\ MaxCall \in Nat /\ MaxCall >= 1
BY QuotaAssumption DEF Key

\* Place moves one turn and keeps its tokens and process.
LEMMA Placed ==
  ASSUME QTypeOK, NEW s \in Session,
         NEW at \in TurnStage, NEW on \in Key, NEW op \in Step, NEW got \in Nat,
         Place(s, at, on, op, got)
  PROVE  /\ turn' \in [Session -> Turn]
         /\ \A q \in Session \ {s} : turn'[q] = turn[q]
         /\ turn'[s].at = at /\ turn'[s].on = on /\ turn'[s].op = op
         /\ turn'[s].got = got
         /\ turn'[s].tokens = turn[s].tokens /\ turn'[s].kind = turn[s].kind
<1>1. turn[s] \in Turn
  BY DEF QTypeOK
<1>2. [at |-> at, on |-> on, op |-> op, got |-> got,
       tokens |-> turn[s].tokens, kind |-> turn[s].kind] \in Turn
  BY <1>1 DEF Turn
<1> QED
  BY <1>2 DEF Place, QTypeOK

\* The tokens of s that are still owed to the count of k.
Weight(s, k) == IF Owes(s, k) THEN turn[s].tokens ELSE 0

\* It is no more than a call uses.
LEMMA WeightIsNatural ==
  ASSUME QTypeOK, NEW s \in Session, NEW k \in Key
  PROVE  Weight(s, k) \in 0..MaxCall
<1>1. turn[s] \in Turn
  BY DEF QTypeOK
<1>2. turn[s].tokens \in 0..MaxCall
  BY <1>1 DEF Turn
<1> QED
  BY <1>2, KeysOf DEF Weight

\* A turn that is sent on with its tokens and process.
SentTo(s, at, on, op) ==
  /\ OnlyMoves(s)
  /\ turn'[s].at = at /\ turn'[s].on = on /\ turn'[s].op = op
  /\ turn'[s].tokens = turn[s].tokens /\ turn'[s].kind = turn[s].kind

\* The end of a turn.
LEMMA Ends ==
  ASSUME Shapes, NEW s \in Session, EndTurn(s)
  PROVE  SentTo(s, "idle", Tenant, "none")
<1>1. "idle" \in TurnStage /\ "none" \in Step /\ 0 \in Nat
  BY DEF TurnStage, Step
<1>2. Tenant \in Key /\ QTypeOK
  BY KeysOf DEF Shapes
<1>3. Place(s, "idle", Tenant, "none", 0)
  BY DEF EndTurn
<1>4. /\ turn' \in [Session -> Turn]
      /\ \A q \in Session \ {s} : turn'[q] = turn[q]
      /\ turn'[s].at = "idle" /\ turn'[s].on = Tenant /\ turn'[s].op = "none"
      /\ turn'[s].tokens = turn[s].tokens /\ turn'[s].kind = turn[s].kind
  BY <1>1, <1>2, <1>3, Placed
<1>5. Fits(s)'
  BY <1>4 DEF Fits
<1> QED
  BY <1>4, <1>5 DEF SentTo, OnlyMoves

\* A check asks for a count.
LEMMA Asks ==
  ASSUME Shapes, NEW s \in Session, NEW at \in {"preflight", "check"},
         NEW k \in {s, Tenant}, Ask(s, at, k)
  PROVE  /\ SentTo(s, at, k, turn'[s].op)
         /\ turn'[s].op \in {"get", "fallback"}
<1> DEFINE op == IF turn[s].kind = "redis" THEN "get" ELSE "fallback"
<1>1. at \in TurnStage /\ op \in Step /\ 0 \in Nat
  BY DEF TurnStage, Step
<1>2. k \in Key /\ QTypeOK
  BY KeysOf DEF Shapes
<1>3. Place(s, at, k, op, 0)
  BY DEF Ask
<1>4. /\ turn' \in [Session -> Turn]
      /\ \A q \in Session \ {s} : turn'[q] = turn[q]
      /\ turn'[s].at = at /\ turn'[s].on = k /\ turn'[s].op = op
      /\ turn'[s].tokens = turn[s].tokens /\ turn'[s].kind = turn[s].kind
  BY <1>1, <1>2, <1>3, Placed
<1>5. Fits(s)'
  BY <1>4 DEF Fits
<1> QED
  BY <1>4, <1>5 DEF SentTo, OnlyMoves

\* An increment begins.
LEMMA Adds ==
  ASSUME Shapes, NEW s \in Session, NEW k \in {s, Tenant}, Add(s, k)
  PROVE  SentTo(s, "record", k, IF turn[s].kind = "redis" THEN "get" ELSE "reread")
<1> DEFINE op == IF turn[s].kind = "redis" THEN "get" ELSE "reread"
<1>1. "record" \in TurnStage /\ op \in Step /\ 0 \in Nat
  BY DEF TurnStage, Step
<1>2. k \in Key /\ QTypeOK
  BY KeysOf DEF Shapes
<1>3. Place(s, "record", k, op, 0)
  BY DEF Add
<1>4. /\ turn' \in [Session -> Turn]
      /\ \A q \in Session \ {s} : turn'[q] = turn[q]
      /\ turn'[s].at = "record" /\ turn'[s].on = k /\ turn'[s].op = op
      /\ turn'[s].tokens = turn[s].tokens /\ turn'[s].kind = turn[s].kind
  BY <1>1, <1>2, <1>3, Placed
<1>5. turn[s].kind \in {"redis", "db"}
  BY <1>2 DEF QTypeOK, Turn, Kind
<1>6. Fits(s)'
  BY <1>4, <1>5 DEF Fits
<1> QED
  BY <1>4, <1>6 DEF SentTo, OnlyMoves

\* An operation goes on to its next await.
LEMMA Proceeds ==
  ASSUME Shapes, NEW s \in Session, NEW op \in Step, NEW got \in Nat,
         Proceed(s, op, got), turn[s].at \in {"preflight", "check", "record"},
         op \in {"sum", "fill", "fallback", "incr", "reread"},
         op \in {"incr", "reread"} => turn[s].at = "record",
         op # "reread" => turn[s].kind = "redis"
  PROVE  SentTo(s, turn[s].at, turn[s].on, op) /\ turn'[s].got = got
<1>1. QTypeOK /\ turn[s] \in Turn /\ Fits(s)
  BY DEF Shapes, QTypeOK
<1>2. turn[s].at \in TurnStage /\ turn[s].on \in Key
  BY <1>1 DEF Turn
<1>3. Place(s, turn[s].at, turn[s].on, op, got)
  BY DEF Proceed
<1>4. /\ turn' \in [Session -> Turn]
      /\ \A q \in Session \ {s} : turn'[q] = turn[q]
      /\ turn'[s].at = turn[s].at /\ turn'[s].on = turn[s].on /\ turn'[s].op = op
      /\ turn'[s].got = got
      /\ turn'[s].tokens = turn[s].tokens /\ turn'[s].kind = turn[s].kind
  BY <1>1, <1>2, <1>3, Placed
<1>5. Fits(s)'
  BY <1>1, <1>4 DEF Fits
<1> QED
  BY <1>4, <1>5 DEF SentTo, OnlyMoves

\* The turn of s has passed its check of k, or is about to by what it read.
Admitted(s, k) ==
  LET t == turn[s]
  IN  \/ t.at \in {"model", "append"}
      \/ t.at = "check" /\ t.on = s /\ k = Tenant
      \/ t.at = "check" /\ t.on = k /\ t.op = "fill" /\ t.got < Limit[k]

\* An answer of get() moves nothing but the turn, which owes what it owed, and
\* has passed no check but the one it was in.
LEMMA AnswerMoves ==
  ASSUME Shapes, NEW s \in Session, NEW v, Answered(s, v),
         turn[s].at \in {"preflight", "check", "record"},
         turn[s].op \in {"get", "fill", "fallback"}
  PROVE  /\ OnlyMoves(s)
         /\ turn'[s].op # "fill"
         /\ \A k \in Key : Weight(s, k)' = Weight(s, k)
         /\ \A k \in {s, Tenant} : Admitted(s, k)' =>
              \/ Admitted(s, k)
              \/ k = turn[s].on /\ turn[s].at = "check" /\ ~Over(k, v)
<1>1. turn[s] \in Turn /\ Fits(s) /\ QTypeOK
  BY DEF Shapes, QTypeOK
<1>2. turn[s].on \in {s, Tenant} /\ s # Tenant
  BY <1>1, QuotaAssumption DEF Fits
<1>3. CASE turn[s].at = "record" /\ Proceed(s, "incr", 0)
  <2>1. "incr" \in Step /\ 0 \in Nat /\ turn[s].kind = "redis"
    BY <1>1, <1>3 DEF Step, Fits, Turn, Kind
  <2>2. SentTo(s, "record", turn[s].on, "incr")
    BY <1>3, <2>1, Proceeds
  <2> QED
    BY <1>1, <1>3, <2>2 DEF SentTo, Weight, Owes, Admitted
<1>4. CASE turn[s].at # "record" /\ EndTurn(s)
  <2>1. SentTo(s, "idle", Tenant, "none")
    BY <1>4, Ends
  <2> QED
    BY <1>1, <1>4, <2>1 DEF SentTo, Weight, Owes, Admitted
<1>5. CASE /\ turn[s].at # "record" /\ turn[s].on = Tenant
           /\ ~Over(Tenant, v)
           /\ Ask(s, turn[s].at, s)
  <2>1. /\ SentTo(s, turn[s].at, s, turn'[s].op)
        /\ turn'[s].op \in {"get", "fallback"}
    BY <1>5, Asks
  <2> QED
    BY <1>1, <1>2, <1>5, <2>1 DEF SentTo, Weight, Owes, Admitted
<1>6. CASE /\ turn[s].at = "preflight" /\ turn[s].on = s
           /\ Ask(s, "check", Tenant)
  <2>1. /\ SentTo(s, "check", Tenant, turn'[s].op)
        /\ turn'[s].op \in {"get", "fallback"}
    BY <1>6, Asks
  <2> QED
    BY <1>1, <1>2, <1>6, <2>1 DEF SentTo, Weight, Owes, Admitted
<1>7. CASE /\ turn[s].at = "check" /\ turn[s].on = s
           /\ ~Over(s, v)
           /\ Place(s, "model", s, "none", 0)
  <2>1. "model" \in TurnStage /\ "none" \in Step /\ 0 \in Nat /\ s \in Key
    BY KeysOf DEF TurnStage, Step
  <2>2. /\ turn' \in [Session -> Turn]
        /\ \A q \in Session \ {s} : turn'[q] = turn[q]
        /\ turn'[s].at = "model" /\ turn'[s].op = "none"
        /\ turn'[s].kind = turn[s].kind
    BY <1>1, <1>7, <2>1, Placed
  <2>3. OnlyMoves(s)
    BY <2>2 DEF OnlyMoves, Fits
  <2>4. Admitted(s, Tenant)
    BY <1>7 DEF Admitted
  <2> QED
    BY <1>1, <1>7, <2>2, <2>3, <2>4 DEF Weight, Owes
<1> QED
  BY <1>3, <1>4, <1>5, <1>6, <1>7 DEF Answered

----------------------------------------------------------------------------
\* Counting the tokens that are owed

\* The tokens of weights w on the set S, one by one.
Tokens(S, w) == {o \in S \X (1..MaxCall) : o[2] <= w[o[1]]}

\* The tokens of one turn and those of the others.
LEMMA TokensSplit ==
  ASSUME NEW S, IsFiniteSet(S), NEW w \in [S -> 0..MaxCall], NEW s \in S
  PROVE  /\ Cardinality(Tokens(S, w)) \in Nat
         /\ Cardinality(Tokens(S \ {s}, w)) \in Nat
         /\ Cardinality(Tokens(S, w)) = Cardinality(Tokens(S \ {s}, w)) + w[s]
<1> DEFINE Mine == {s} \X (1..w[s])
           Rest == Tokens(S \ {s}, w)
<1>1. w[s] \in 0..MaxCall /\ w[s] \in Nat /\ MaxCall \in Nat
  BY KeysOf
<1>2. IsFiniteSet(1..MaxCall) /\ IsFiniteSet(1..w[s]) /\ Cardinality(1..w[s]) = w[s]
  BY <1>1, FS_Interval
<1>3. IsFiniteSet({s}) /\ Cardinality({s}) = 1
  BY FS_Singleton
<1>4. IsFiniteSet(Mine) /\ Cardinality(Mine) = w[s]
  <2>1. \A A, B : IsFiniteSet(A) /\ IsFiniteSet(B) =>
          /\ IsFiniteSet(A \X B)
          /\ Cardinality(A \X B) = Cardinality(A) * Cardinality(B)
    BY FS_Product
  <2>2. IsFiniteSet(Mine) /\ Cardinality(Mine) = Cardinality({s}) * Cardinality(1..w[s])
    BY <1>2, <1>3, <2>1
  <2> QED
    BY <1>1, <1>2, <1>3, <2>2
<1>5. IsFiniteSet(S \X (1..MaxCall))
  BY <1>2, FS_Product
<1>6. Rest \subseteq S \X (1..MaxCall)
  BY DEF Tokens
<1>7. IsFiniteSet(Rest) /\ Cardinality(Rest) \in Nat
  BY <1>5, <1>6, FS_Subset, FS_CardinalityType
<1>8. Tokens(S, w) = Rest \cup Mine
  BY <1>1 DEF Tokens
<1>9. Rest \cap Mine = {}
  BY DEF Tokens
<1>10. Cardinality(Tokens(S, w)) = Cardinality(Rest) + Cardinality(Mine) - 0
  <2> HIDE DEF Mine, Rest
  <2>1. Cardinality(Rest \cup Mine)
          = Cardinality(Rest) + Cardinality(Mine) - Cardinality(Rest \cap Mine)
    BY <1>4, <1>7, FS_Union
  <2> QED
    BY <1>8, <1>9, <2>1, FS_EmptySet
<1> QED
  BY <1>1, <1>4, <1>7, <1>10

\* No more tokens than MaxCall for each member that has any.
LEMMA TokensBounded ==
  ASSUME NEW S, IsFiniteSet(S), NEW w \in [S -> 0..MaxCall],
         NEW P \in SUBSET S, \A t \in S \ P : w[t] = 0
  PROVE  /\ Cardinality(P) \in Nat
         /\ Cardinality(Tokens(S, w)) \in Nat
         /\ Cardinality(Tokens(S, w)) <= Cardinality(P) * MaxCall
<1>1. IsFiniteSet(1..MaxCall) /\ Cardinality(1..MaxCall) = MaxCall
  BY KeysOf, FS_Interval
<1>2. IsFiniteSet(P) /\ Cardinality(P) \in Nat
  BY FS_Subset, FS_CardinalityType
<1>3. /\ IsFiniteSet(P \X (1..MaxCall))
      /\ Cardinality(P \X (1..MaxCall)) = Cardinality(P) * MaxCall
  BY <1>1, <1>2, FS_Product
<1>4. Tokens(S, w) \subseteq P \X (1..MaxCall)
  BY KeysOf DEF Tokens
<1>5. IsFiniteSet(Tokens(S, w)) /\ Cardinality(Tokens(S, w)) <= Cardinality(P \X (1..MaxCall))
  BY <1>3, <1>4, FS_Subset
<1> QED
  BY <1>2, <1>3, <1>5, FS_CardinalityType

Weights(k) == [s \in Sharers(k) |-> Weight(s, k)]

\* The turns that share a key are finitely many, and s is one of them if k is its
\* session or the tenant.
LEMMA SharersAreFinite ==
  ASSUME NEW k \in Key
  PROVE  /\ Sharers(k) \subseteq Session
         /\ IsFiniteSet(Sharers(k)) /\ Cardinality(Sharers(k)) \in Nat
         /\ \A s \in Session : s \in Sharers(k) <=> k \in {s, Tenant}
<1>1. Sharers(k) \subseteq Session
  BY DEF Sharers, Key
<1> QED
  BY <1>1, QuotaAssumption, FS_Subset, FS_CardinalityType DEF Sharers, Key

\* A step of s alone changes what is owed by what it changes in its own turn.
LEMMA OwingMoves ==
  ASSUME QTypeOK, QTypeOK', NEW k \in Key, NEW s \in Session,
         \A q \in Session \ {s} : turn'[q] = turn[q]
  PROVE  /\ Owing(k) \in Nat /\ Owing(k)' \in Nat
         /\ Weight(s, k) \in 0..MaxCall /\ Weight(s, k)' \in 0..MaxCall
         /\ Owing(k)' + Weight(s, k) = Owing(k) + Weight(s, k)'
<1> DEFINE S == Sharers(k)
<1>1. S \subseteq Session /\ IsFiniteSet(S) /\ (s \in S <=> k \in {s, Tenant})
  BY SharersAreFinite
<1>2. \A q \in Session : /\ turn[q] \in Turn /\ turn'[q] \in Turn
                         /\ turn[q].tokens \in 0..MaxCall
                         /\ turn'[q].tokens \in 0..MaxCall
  BY DEF QTypeOK, Turn
<1>3. /\ Weight(s, k) \in 0..MaxCall /\ Weight(s, k)' \in 0..MaxCall
      /\ Weights(k) \in [S -> 0..MaxCall] /\ Weights(k)' \in [S -> 0..MaxCall]
  BY <1>1, <1>2, KeysOf DEF Weight, Weights
<1>4. Owed(k) = Tokens(S, Weights(k))
  BY <1>1, <1>2, KeysOf DEF Owed, Tokens, Weights, Weight
<1>5. Owed(k)' = Tokens(S, Weights(k)')
  BY <1>1, <1>2, KeysOf DEF Owed, Tokens, Weights, Weight
<1>6. \A q \in S \ {s} : Weights(k)'[q] = Weights(k)[q]
  BY <1>1 DEF Weights, Weight, Owes
<1>7. Tokens(S \ {s}, Weights(k)') = Tokens(S \ {s}, Weights(k))
  BY <1>6 DEF Tokens
<1>8. CASE s \in S
  <2>1. Weights(k)[s] = Weight(s, k) /\ Weights(k)'[s] = Weight(s, k)'
    BY <1>8 DEF Weights
  <2>2. /\ Cardinality(Tokens(S, Weights(k))) \in Nat
        /\ Cardinality(Tokens(S \ {s}, Weights(k))) \in Nat
        /\ Cardinality(Tokens(S, Weights(k)))
             = Cardinality(Tokens(S \ {s}, Weights(k))) + Weights(k)[s]
    BY <1>1, <1>3, <1>8, TokensSplit
  <2>3. /\ Cardinality(Tokens(S, Weights(k)')) \in Nat
        /\ Cardinality(Tokens(S, Weights(k)'))
             = Cardinality(Tokens(S \ {s}, Weights(k)')) + Weights(k)'[s]
    BY <1>1, <1>3, <1>8, TokensSplit
  <2> QED
    BY <1>3, <1>4, <1>5, <1>7, <2>1, <2>2, <2>3, KeysOf DEF Owing
<1>9. CASE s \notin S
  <2>1. Weight(s, k) = 0 /\ Weight(s, k)' = 0
    BY <1>1, <1>9 DEF Weight, Owes
  <2>2. Tokens(S, Weights(k)') = Tokens(S, Weights(k))
    BY <1>7, <1>9 DEF Tokens
  <2>3. \A t \in S \ S : Weights(k)[t] = 0
    OBVIOUS
  <2>4. Cardinality(Tokens(S, Weights(k))) \in Nat
    BY <1>1, <1>3, <2>3, TokensBounded
  <2> QED
    BY <1>3, <1>4, <1>5, <2>1, <2>2, <2>4 DEF Owing
<1> QED
  BY <1>8, <1>9

\* What is owed to k is owed by turns in P, if all that owe it are.
LEMMA OwingBounded ==
  ASSUME QTypeOK, NEW k \in Key, NEW P \in SUBSET Sharers(k),
         \A s \in Sharers(k) : Owes(s, k) => s \in P
  PROVE  /\ Owing(k) \in Nat /\ Cardinality(P) \in Nat
         /\ Owing(k) <= Cardinality(P) * MaxCall
<1> DEFINE S == Sharers(k)
<1>1. S \subseteq Session /\ IsFiniteSet(S)
  BY SharersAreFinite
<1>2. \A q \in Session : turn[q] \in Turn /\ turn[q].tokens \in 0..MaxCall
  BY DEF QTypeOK, Turn
<1>3. Weights(k) \in [S -> 0..MaxCall] /\ \A t \in S \ P : Weights(k)[t] = 0
  BY <1>1, <1>2, KeysOf DEF Weight, Weights
<1>4. Owed(k) = Tokens(S, Weights(k))
  BY <1>1, <1>2, KeysOf DEF Owed, Tokens, Weights, Weight
<1> QED
  BY <1>1, <1>3, <1>4, TokensBounded DEF Owing

----------------------------------------------------------------------------
\* The books of a key: its count, the table, and what is owed

FillsUp(s, k) == turn[s].op = "fill" /\ turn[s].on = k

Covers(k) ==
  counter[k] # NoCount /\ k \notin lapsed => counter[k] + Owing(k) >= usage[k]

Charged(k) ==
  counter[k] # NoCount =>
    counter[k] + Owing(k) <= usage[k] + Cardinality(Sharers(k)) * MaxCall

\* A sum that is about to fill the key is no more than the table, and with what
\* is owed no less.
FillsFit(k) ==
  \A t \in Session : FillsUp(t, k) =>
    /\ turn[t].got <= usage[k]
    /\ counter[k] = NoCount /\ k \notin lapsed => turn[t].got + Owing(k) >= usage[k]

Balanced(k) == Covers(k) /\ Charged(k) /\ FillsFit(k)

\* What a step of s may be to the books of k: nothing,
Quiet(s, k) ==
  /\ usage'[k] = usage[k] /\ counter'[k] = counter[k]
  /\ Weight(s, k)' = Weight(s, k)
  /\ k \in lapsed => k \in lapsed'

\* tokens in the table that the count will never see,
Loses(s, k) ==
  /\ usage'[k] >= usage[k] /\ counter'[k] = counter[k]
  /\ Weight(s, k)' <= Weight(s, k)
  /\ \/ k \in lapsed'
     \/ counter[k] = NoCount /\ \A t \in Session : ~FillsUp(t, k)'

\* the increment that is owed,
Counts(s, k) ==
  /\ usage'[k] = usage[k]
  /\ counter'[k] = (IF counter[k] = NoCount THEN 0 ELSE counter[k]) + Weight(s, k)
  /\ Weight(s, k)' = 0
  /\ k \in lapsed \/ counter[k] = NoCount => k \in lapsed'

\* a row in the table that is owed from then on,
Books(s, k) ==
  /\ usage'[k] = usage[k] + Weight(s, k)' /\ counter'[k] = counter[k]
  /\ Weight(s, k) = 0
  /\ k \in lapsed => k \in lapsed'

\* or the fill with a sum read earlier.
FillsIn(s, k) ==
  /\ FillsUp(s, k)
  /\ usage'[k] = usage[k]
  /\ counter'[k] = IF counter[k] = NoCount THEN turn[s].got ELSE counter[k]
  /\ Weight(s, k)' = Weight(s, k)
  /\ k \in lapsed => k \in lapsed'

Accounted(s, k) ==
  /\ Quiet(s, k) \/ Loses(s, k) \/ Counts(s, k) \/ Books(s, k) \/ FillsIn(s, k)
  /\ FillsUp(s, k)' => turn'[s].got = usage'[k]

\* Each of these keeps the books balanced.
LEMMA StaysBalanced ==
  ASSUME QTypeOK, QTypeOK', NEW k \in Key, NEW s \in Session,
         \A q \in Session \ {s} : turn'[q] = turn[q],
         Balanced(k), Accounted(s, k)
  PROVE  Balanced(k)'
<1> DEFINE most == Cardinality(Sharers(k)) * MaxCall
<1>1. /\ Owing(k) \in Nat /\ Owing(k)' \in Nat
      /\ Weight(s, k) \in 0..MaxCall /\ Weight(s, k)' \in 0..MaxCall
      /\ Owing(k)' + Weight(s, k) = Owing(k) + Weight(s, k)'
  BY OwingMoves
<1>2. PICK o, p, w, v \in Nat :
        /\ o = Owing(k) /\ p = Owing(k)' /\ w = Weight(s, k) /\ v = Weight(s, k)'
        /\ p + w = o + v
  BY <1>1, KeysOf
<1>3. Owing(k) <= most /\ most \in Nat
  <2>1. Owing(k) <= most /\ Cardinality(Sharers(k)) \in Nat
    BY OwingBounded
  <2> QED
    BY <2>1, KeysOf
<1>4. /\ usage[k] \in Nat /\ usage'[k] \in Nat
      /\ counter[k] \in Nat \cup {NoCount} /\ counter'[k] \in Nat \cup {NoCount}
      /\ NoCount = -1
      /\ \A t \in Session : turn[t].got \in Nat /\ turn'[t].got \in Nat
  BY DEF QTypeOK, Turn, NoCount
<1>5. \A t \in Session : FillsUp(t, k)' =>
        \/ FillsUp(t, k) /\ turn'[t].got = turn[t].got
        \/ t = s /\ turn'[t].got = usage'[k]
  BY DEF FillsUp, Accounted
<1>6. \A t \in Session : FillsUp(t, k) =>
        /\ turn[t].got <= usage[k]
        /\ counter[k] = NoCount /\ k \notin lapsed => turn[t].got + o >= usage[k]
  BY <1>2 DEF Balanced, FillsFit
<1>7. counter[k] # NoCount /\ k \notin lapsed => counter[k] + o >= usage[k]
  BY <1>2 DEF Balanced, Covers
<1>8. counter[k] # NoCount => counter[k] + o <= usage[k] + most
  BY <1>2 DEF Balanced, Charged
<1>9. \/ usage'[k] = usage[k] /\ counter'[k] = counter[k] /\ v = w
         /\ (k \in lapsed => k \in lapsed')
      \/ /\ usage'[k] >= usage[k] /\ counter'[k] = counter[k] /\ v <= w
         /\ \/ k \in lapsed'
            \/ counter[k] = NoCount /\ \A t \in Session : ~FillsUp(t, k)'
      \/ /\ usage'[k] = usage[k]
         /\ counter'[k] = (IF counter[k] = NoCount THEN 0 ELSE counter[k]) + w
         /\ v = 0
         /\ k \in lapsed \/ counter[k] = NoCount => k \in lapsed'
      \/ /\ usage'[k] = usage[k] + v /\ counter'[k] = counter[k] /\ w = 0
         /\ k \in lapsed => k \in lapsed'
      \/ /\ FillsUp(s, k) /\ usage'[k] = usage[k] /\ v = w
         /\ counter'[k] = IF counter[k] = NoCount THEN turn[s].got ELSE counter[k]
         /\ k \in lapsed => k \in lapsed'
  BY <1>2 DEF Accounted, Quiet, Loses, Counts, Books, FillsIn
<1> HIDE DEF most
<1>10. \A t \in Session : FillsUp(t, k)' =>
        /\ turn'[t].got <= usage'[k]
        /\ counter'[k] = NoCount /\ k \notin lapsed' => turn'[t].got + p >= usage'[k]
  BY <1>2, <1>4, <1>5, <1>6, <1>9
<1>11. counter'[k] # NoCount /\ k \notin lapsed' => counter'[k] + p >= usage'[k]
  BY <1>2, <1>4, <1>6, <1>7, <1>9
<1>12. counter'[k] # NoCount => counter'[k] + p <= usage'[k] + most
  BY <1>2, <1>3, <1>4, <1>6, <1>8, <1>9
<1> QED
  BY <1>2, <1>10, <1>11, <1>12 DEF most, Balanced, Covers, Charged, FillsFit

----------------------------------------------------------------------------
\* How far a limit is overshot

\* The turns that have not passed their check of k.
Free(k) == {s \in Sharers(k) : ~Admitted(s, k)}

\* A turn that passed may still use MaxCall tokens, and whoever is behind it has
\* used as many at most.
Bounded(k) ==
  Limit[k] > 0 /\ k \notin everLapsed =>
    usage[k] < Limit[k] + Cardinality(Free(k)) * MaxCall

\* What a step of s may be to the limit of k: nothing to do with it, no pass, a
\* pass that all usage but what is owed allowed, or the row of the call made.
Checked(s, k) ==
  \/ usage'[k] = usage[k] /\ (k \in {s, Tenant} /\ Admitted(s, k)' => Admitted(s, k))
  \/ /\ usage'[k] = usage[k] /\ turn[s].at = "check"
     /\ Limit[k] > 0 /\ k \notin everLapsed => usage[k] < Limit[k] + Owing(k)
  \/ /\ k \in {s, Tenant} /\ Admitted(s, k) /\ ~Admitted(s, k)'
     /\ usage'[k] <= usage[k] + MaxCall

\* The arithmetic of a call for each turn.
LEMMA Scales ==
  ASSUME NEW a \in Nat, NEW b \in Nat, NEW m \in Nat, a <= b
  PROVE  a * m <= b * m /\ (a + 1) * m = a * m + m /\ a * m \in Nat /\ b * m \in Nat
OBVIOUS

\* Each of these keeps the limit bounded.
LEMMA StaysBounded ==
  ASSUME QTypeOK, QTypeOK', NEW k \in Key, NEW s \in Session,
         \A q \in Session \ {s} : turn'[q] = turn[q],
         everLapsed \subseteq everLapsed',
         Bounded(k), Checked(s, k)
  PROVE  Bounded(k)'
<1> SUFFICES ASSUME Limit[k] > 0, k \notin everLapsed'
             PROVE  usage'[k] < Limit[k] + Cardinality(Free(k)') * MaxCall
  BY DEF Bounded
<1>1. usage[k] \in Nat /\ usage'[k] \in Nat /\ Limit[k] \in Nat /\ MaxCall \in Nat
  BY KeysOf DEF QTypeOK
<1>2. /\ Sharers(k) \subseteq Session /\ IsFiniteSet(Sharers(k))
      /\ s \in Sharers(k) <=> k \in {s, Tenant}
  BY SharersAreFinite
<1>3. Free(k) \subseteq Sharers(k) /\ Free(k)' \subseteq Sharers(k)
  BY DEF Free
<1>4. /\ IsFiniteSet(Free(k)) /\ Cardinality(Free(k)) \in Nat
      /\ IsFiniteSet(Free(k)') /\ Cardinality(Free(k)') \in Nat
  BY <1>2, <1>3, FS_Subset, FS_CardinalityType
<1>5. usage[k] < Limit[k] + Cardinality(Free(k)) * MaxCall
  BY DEF Bounded
<1>6. \A q \in Sharers(k) : q # s => (q \in Free(k) <=> q \in Free(k)')
  BY <1>2 DEF Free, Admitted
<1>7. CASE usage'[k] = usage[k] /\ (k \in {s, Tenant} /\ Admitted(s, k)' => Admitted(s, k))
  <2>1. Free(k) \subseteq Free(k)'
    BY <1>2, <1>3, <1>6, <1>7 DEF Free
  <2>2. Cardinality(Free(k)) <= Cardinality(Free(k)')
    BY <1>4, <2>1, FS_Subset
  <2>3. /\ Cardinality(Free(k)) * MaxCall <= Cardinality(Free(k)') * MaxCall
        /\ Cardinality(Free(k)) * MaxCall \in Nat
        /\ Cardinality(Free(k)') * MaxCall \in Nat
    BY <1>1, <1>4, <2>2, Scales
  <2> QED
    BY <1>1, <1>5, <1>7, <2>3
<1>8. CASE /\ usage'[k] = usage[k] /\ turn[s].at = "check"
           /\ Limit[k] > 0 /\ k \notin everLapsed => usage[k] < Limit[k] + Owing(k)
  <2> DEFINE P == {q \in Sharers(k) : Owes(q, k)}
  <2>1. P \subseteq Free(k)'
    BY <1>2, <1>8 DEF Free, Admitted, Owes
  <2>2. /\ Owing(k) \in Nat /\ Cardinality(P) \in Nat
        /\ Owing(k) <= Cardinality(P) * MaxCall
    BY OwingBounded
  <2>3. Cardinality(P) <= Cardinality(Free(k)')
    BY <1>4, <2>1, FS_Subset
  <2>4. /\ Cardinality(P) * MaxCall <= Cardinality(Free(k)') * MaxCall
        /\ Cardinality(P) * MaxCall \in Nat
        /\ Cardinality(Free(k)') * MaxCall \in Nat
    BY <1>1, <1>4, <2>2, <2>3, Scales
  <2> HIDE DEF P
  <2> QED
    BY <1>1, <1>8, <2>2, <2>4
<1>9. CASE /\ k \in {s, Tenant} /\ Admitted(s, k) /\ ~Admitted(s, k)'
           /\ usage'[k] <= usage[k] + MaxCall
  <2>1. Free(k)' = Free(k) \cup {s} /\ s \notin Free(k)
    BY <1>2, <1>3, <1>6, <1>9 DEF Free
  <2>2. Cardinality(Free(k)') = Cardinality(Free(k)) + 1
    BY <1>4, <2>1, FS_AddElement
  <2>3. /\ Cardinality(Free(k)') * MaxCall = Cardinality(Free(k)) * MaxCall + MaxCall
        /\ Cardinality(Free(k)) * MaxCall \in Nat
    BY <1>1, <1>4, <2>2, Scales
  <2> QED
    BY <1>1, <1>5, <1>9, <2>3
<1> QED
  BY <1>7, <1>8, <1>9 DEF Checked

----------------------------------------------------------------------------
\* The steps of a turn

QuotaInv == Shapes /\ \A k \in Key : Balanced(k) /\ Bounded(k)

\* What every step of the turn of s is.
Sound(s) ==
  /\ Shapes'
  /\ \A q \in Session \ {s} : turn'[q] = turn[q]
  /\ everLapsed \subseteq everLapsed'
  /\ \A k \in Key : Accounted(s, k) /\ Checked(s, k)

\* The other turns fit as before.
LEMMA FitAfter ==
  ASSUME Shapes, NEW s \in Session, OnlyMoves(s)
  PROVE  \A q \in Session : Fits(q)'
BY DEF Shapes, OnlyMoves, Fits

\* Only the turn moves.
LEMMA TurnAlone ==
  ASSUME Shapes, NEW s \in Session, OnlyMoves(s),
         UNCHANGED <<usage, counter, lapsed, everLapsed>>,
         calls' \in 0..MaxCalls, faults' \in 0..MaxFaults,
         \A k \in Key : Weight(s, k)' = Weight(s, k),
         \A k \in Key : FillsUp(s, k)' => turn'[s].got = usage[k],
         \A k \in {s, Tenant} : Checked(s, k)
  PROVE  Sound(s)
<1>1. Shapes'
  BY FitAfter DEF Shapes, QTypeOK, OnlyMoves
<1>2. \A k \in Key : Accounted(s, k)
  BY DEF Accounted, Quiet
<1>3. \A k \in Key : Checked(s, k)
  BY DEF Checked
<1> QED
  BY <1>1, <1>2, <1>3 DEF Sound, OnlyMoves

\* get() returns to a check what the count says, or what the table says.
LEMMA AnswersAreSound ==
  ASSUME QuotaInv, NEW s \in Session, NEW v, Answered(s, v),
         turn[s].at \in {"preflight", "check", "record"},
         turn[s].op \in {"get", "fallback"},
         UNCHANGED <<usage, counter, calls, faults, lapsed, everLapsed>>,
         LET k == turn[s].on
         IN  \/ Limit[k] = 0
             \/ v = usage[k]
             \/ v = counter[k] /\ counter[k] # NoCount
  PROVE  Sound(s)
<1> DEFINE k == turn[s].on
<1>1. Shapes /\ QTypeOK /\ turn[s] \in Turn /\ k \in Key /\ lapsed \subseteq everLapsed
  BY DEF QuotaInv, Shapes, QTypeOK, Turn
<1>2. /\ OnlyMoves(s)
      /\ turn'[s].op # "fill"
      /\ \A j \in Key : Weight(s, j)' = Weight(s, j)
      /\ \A j \in {s, Tenant} : Admitted(s, j)' =>
           \/ Admitted(s, j)
           \/ j = k /\ turn[s].at = "check" /\ ~Over(j, v)
  BY <1>1, AnswerMoves
<1>3. Limit[k] \in Nat /\ usage[k] \in Nat /\ Owing(k) \in Nat
  <2>1. \A q \in Sharers(k) : Owes(q, k) => q \in Sharers(k)
    OBVIOUS
  <2>2. Owing(k) \in Nat
    BY <1>1, <2>1, OwingBounded
  <2> QED
    BY <1>1, <2>2, KeysOf DEF QTypeOK
<1>4. ~Over(k, v) => (Limit[k] > 0 /\ k \notin everLapsed => usage[k] < Limit[k] + Owing(k))
  <2> SUFFICES ASSUME ~Over(k, v), Limit[k] > 0, k \notin everLapsed
               PROVE  usage[k] < Limit[k] + Owing(k)
    OBVIOUS
  <2>1. k \notin lapsed
    BY <1>1
  <2>2. CASE v = usage[k]
    BY <1>3, <2>2 DEF Over
  <2>3. CASE v = counter[k] /\ counter[k] # NoCount
    <3>1. counter[k] + Owing(k) >= usage[k] /\ counter[k] \in Nat
      BY <1>1, <2>1, <2>3 DEF QuotaInv, Balanced, Covers, QTypeOK
    <3> QED
      BY <1>3, <2>3, <3>1 DEF Over
  <2> QED
    BY <1>3, <2>2, <2>3
<1>5. \A j \in {s, Tenant} : Checked(s, j)
  <2> HIDE DEF k
  <2> QED
    BY <1>2, <1>4 DEF Checked
<1>6. calls' \in 0..MaxCalls /\ faults' \in 0..MaxFaults
  BY <1>1 DEF QTypeOK
<1> QED
  BY <1>1, <1>2, <1>5, <1>6, TurnAlone DEF FillsUp

\* A turn that goes on or ends after a call owes nothing.
LEMMA GoesOn ==
  ASSUME Shapes, NEW s \in Session, GoOn(s)
  PROVE  /\ OnlyMoves(s) /\ turn'[s].op # "fill"
         /\ \A k \in Key : Weight(s, k)' = 0
         /\ \A k \in {s, Tenant} : ~Admitted(s, k)'
<1>1. s # Tenant
  BY QuotaAssumption
<1>2. CASE Ask(s, "check", Tenant)
  <2>1. SentTo(s, "check", Tenant, turn'[s].op) /\ turn'[s].op \in {"get", "fallback"}
    BY <1>2, Asks
  <2> QED
    BY <1>1, <2>1 DEF SentTo, Weight, Owes, Admitted
<1>3. CASE EndTurn(s)
  <2>1. SentTo(s, "idle", Tenant, "none")
    BY <1>3, Ends
  <2> QED
    BY <2>1 DEF SentTo, Weight, Owes, Admitted
<1> QED
  BY <1>2, <1>3 DEF GoOn

\* After the count of the session that of the tenant is owed, and nothing else.
LEMMA CountedMoves ==
  ASSUME Shapes, NEW s \in Session, Counted(s), turn[s].at = "record"
  PROVE  /\ OnlyMoves(s) /\ turn'[s].op # "fill"
         /\ \A k \in Key : Weight(s, k)' = IF k = turn[s].on THEN 0 ELSE Weight(s, k)
         /\ \A k \in {s, Tenant} : ~Admitted(s, k)'
<1>1. s # Tenant /\ s \in Key /\ Tenant \in Key /\ turn[s] \in Turn
  BY QuotaAssumption, KeysOf DEF Shapes, QTypeOK
<1>2. CASE turn[s].on = s /\ Add(s, Tenant)
  <2>1. SentTo(s, "record", Tenant, IF turn[s].kind = "redis" THEN "get" ELSE "reread")
    BY <1>2, Adds
  <2> QED
    BY <1>1, <1>2, <2>1 DEF SentTo, Weight, Owes, Admitted
<1>3. CASE turn[s].on = Tenant /\ GoOn(s)
  <2>1. \A k \in Key : k # Tenant => Weight(s, k) = 0
    BY <1>1, <1>3 DEF Weight, Owes
  <2> QED
    BY <1>1, <1>3, <2>1, GoesOn
<1> QED
  BY <1>2, <1>3 DEF Counted

\* The start of a turn, and its model call.
LEMMA CallSteps ==
  ASSUME QuotaInv, NEW s \in Session,
         Start(s) \/ ModelAnswers(s) \/ ModelFails(s)
  PROVE  Sound(s)
<1>1. Shapes /\ QTypeOK /\ turn[s] \in Turn /\ Fits(s)
  BY DEF QuotaInv, Shapes, QTypeOK
<1>2. s # Tenant /\ s \in Key /\ Tenant \in Key
  BY QuotaAssumption, KeysOf
<1>3. CASE Start(s)
  <2>1. PICK which \in Kind :
          turn' = [turn EXCEPT ![s] =
                  [at |-> "preflight", on |-> Tenant,
                   op |-> IF which = "redis" THEN "get" ELSE "fallback",
                   got |-> 0, tokens |-> 0, kind |-> which]]
    BY <1>3 DEF Start
  <2> DEFINE new == [at |-> "preflight", on |-> Tenant,
                     op |-> IF which = "redis" THEN "get" ELSE "fallback",
                     got |-> 0, tokens |-> 0, kind |-> which]
  <2>2. new \in Turn
    BY <1>2, KeysOf DEF Turn, TurnStage, Step
  <2>3. turn' \in [Session -> Turn] /\ turn'[s] = new
        /\ \A q \in Session \ {s} : turn'[q] = turn[q]
    BY <1>1, <2>1, <2>2 DEF QTypeOK
  <2>4. Fits(s)'
    BY <2>3 DEF Fits
  <2>5. \A k \in Key : Weight(s, k)' = Weight(s, k)
    BY <1>3, <2>3 DEF Start, Weight, Owes
  <2>6. \A k \in {s, Tenant} : Checked(s, k)
    BY <1>3, <2>3 DEF Start, Checked, Admitted
  <2> HIDE DEF new
  <2>7. turn'[s].op # "fill"
    BY <2>3 DEF new
  <2>8. OnlyMoves(s)
    BY <2>3, <2>4 DEF OnlyMoves
  <2>9. /\ UNCHANGED <<usage, counter, lapsed, everLapsed>>
        /\ calls' \in 0..MaxCalls /\ faults' \in 0..MaxFaults
    BY <1>1, <1>3 DEF Start, QTypeOK
  <2> QED
    BY <1>1, <2>5, <2>6, <2>7, <2>8, <2>9, TurnAlone DEF FillsUp
<1>4. CASE ModelAnswers(s)
  <2>1. PICK n \in Billed :
          turn' = [turn EXCEPT ![s] =
                  [at |-> "append", on |-> s, op |-> "none", got |-> 0,
                   tokens |-> n, kind |-> turn[s].kind]]
    BY <1>4 DEF ModelAnswers
  <2> DEFINE new == [at |-> "append", on |-> s, op |-> "none", got |-> 0,
                     tokens |-> n, kind |-> turn[s].kind]
  <2>2. n \in 0..MaxCall
    BY <2>1 DEF Billed
  <2>3. new \in Turn
    BY <1>1, <1>2, <2>2 DEF Turn, TurnStage, Step
  <2>4. turn' \in [Session -> Turn] /\ turn'[s] = new
        /\ \A q \in Session \ {s} : turn'[q] = turn[q]
    BY <1>1, <2>1, <2>3 DEF QTypeOK
  <2>5. Fits(s)'
    BY <2>4 DEF Fits
  <2>6. \A k \in Key : Weight(s, k)' = Weight(s, k)
    BY <1>4, <2>4 DEF ModelAnswers, Weight, Owes
  <2>7. \A k \in {s, Tenant} : Checked(s, k)
    BY <1>4, <2>4 DEF ModelAnswers, Checked, Admitted
  <2>8. turn'[s].op # "fill"
    BY <2>4
  <2>9. OnlyMoves(s)
    BY <2>4, <2>5 DEF OnlyMoves
  <2>10. /\ UNCHANGED <<usage, counter, lapsed, everLapsed>>
         /\ calls' \in 0..MaxCalls /\ faults' \in 0..MaxFaults
    BY <1>1, <1>4, QuotaAssumption DEF ModelAnswers, QTypeOK
  <2> QED
    BY <1>1, <2>6, <2>7, <2>8, <2>9, <2>10, TurnAlone DEF FillsUp
<1>5. CASE ModelFails(s)
  <2>1. SentTo(s, "idle", Tenant, "none")
    BY <1>1, <1>5, Ends DEF ModelFails
  <2>2. \A k \in Key : Weight(s, k)' = Weight(s, k)
    BY <1>5, <2>1 DEF ModelFails, SentTo, Weight, Owes
  <2>3. \A k \in {s, Tenant} : Checked(s, k)
    BY <1>5, <2>1 DEF ModelFails, SentTo, Checked, Admitted
  <2>4. /\ UNCHANGED <<usage, counter, lapsed, everLapsed>>
        /\ calls' \in 0..MaxCalls /\ faults' \in 0..MaxFaults
    BY <1>1, <1>5 DEF ModelFails, QTypeOK
  <2> QED
    BY <1>1, <2>1, <2>2, <2>3, <2>4, TurnAlone DEF FillsUp, SentTo
<1> QED
  BY <1>3, <1>4, <1>5

\* The steps of get() that leave the count as it is.
LEMMA ReadSteps ==
  ASSUME QuotaInv, NEW s \in Session,
         NoLimit(s) \/ Hit(s) \/ Miss(s) \/ Sum(s) \/ Fallback(s)
  PROVE  Sound(s)
<1> DEFINE k == turn[s].on
<1>1. Shapes /\ QTypeOK /\ turn[s] \in Turn /\ Fits(s) /\ k \in Key
  BY DEF QuotaInv, Shapes, QTypeOK, Turn
<1>2. CASE NoLimit(s)
  BY <1>2, AnswersAreSound DEF NoLimit
<1>3. CASE Hit(s)
  BY <1>3, AnswersAreSound DEF Hit, InGet
<1>4. CASE Fallback(s)
  BY <1>4, AnswersAreSound DEF Fallback, InGet
<1>5. CASE Miss(s) \/ Sum(s)
  <2>1. /\ turn[s].at \in {"preflight", "check", "record"}
        /\ turn[s].op \in {"get", "sum"} /\ turn[s].kind = "redis"
    BY <1>1, <1>5 DEF Miss, Sum, InGet, Fits, Turn, Kind
  <2>2. PICK op \in {"sum", "fill"}, got \in Nat :
          Proceed(s, op, got) /\ (op = "fill" => got = usage[k])
    BY <1>1, <1>5 DEF Miss, Sum, QTypeOK
  <2>3. SentTo(s, turn[s].at, k, op) /\ turn'[s].got = got
    <3>1. op \in Step
      BY <2>2 DEF Step
    <3> QED
      BY <1>1, <2>1, <2>2, <3>1, Proceeds
  <2>4. /\ UNCHANGED <<usage, counter, lapsed, everLapsed>>
        /\ calls' \in 0..MaxCalls /\ faults' \in 0..MaxFaults
    BY <1>1, <1>5 DEF Miss, Sum, QTypeOK
  <2>5. \A j \in Key : Weight(s, j)' = Weight(s, j)
    BY <2>1, <2>2, <2>3 DEF SentTo, Weight, Owes
  <2>6. \A j \in Key : FillsUp(s, j)' => turn'[s].got = usage[j]
    BY <2>2, <2>3 DEF SentTo, FillsUp
  <2>7. Owing(k) \in Nat /\ Limit[k] \in Nat /\ usage[k] \in Nat
    <3>1. \A q \in Sharers(k) : Owes(q, k) => q \in Sharers(k)
      OBVIOUS
    <3>2. Owing(k) \in Nat
      BY <1>1, <3>1, OwingBounded
    <3> QED
      BY <1>1, <3>2, KeysOf DEF QTypeOK
  <2>8. \A j \in {s, Tenant} : Checked(s, j)
    <3> TAKE j \in {s, Tenant}
    <3>1. Admitted(s, j)' =>
            \/ Admitted(s, j)
            \/ j = k /\ turn[s].at = "check" /\ usage[k] < Limit[k]
      <4>1. /\ turn'[s].at = turn[s].at /\ turn'[s].on = turn[s].on
            /\ turn'[s].op = op /\ turn'[s].got = got
        BY <2>3 DEF SentTo
      <4>2. Admitted(s, j)' =>
              \/ turn[s].at = "check" /\ turn[s].on = s /\ j = Tenant
              \/ turn[s].at = "check" /\ turn[s].on = j /\ op = "fill" /\ got < Limit[j]
        BY <2>1, <4>1 DEF Admitted
      <4> QED
        BY <2>2, <4>2 DEF Admitted
    <3> HIDE DEF k
    <3> QED
      BY <2>4, <2>7, <3>1 DEF Checked
  <2> QED
    BY <1>1, <2>3, <2>4, <2>5, <2>6, <2>8, TurnAlone DEF SentTo
<1> QED
  BY <1>2, <1>3, <1>4, <1>5

\* The steps that may fill the key.
LEMMA FillSteps ==
  ASSUME QuotaInv, NEW s \in Session, Fill(s) \/ GetFails(s)
  PROVE  Sound(s)
<1>1. Shapes /\ QTypeOK /\ turn[s] \in Turn /\ Fits(s)
  BY DEF QuotaInv, Shapes, QTypeOK
<1>2. PICK k \in Key : k = turn[s].on
  BY <1>1 DEF Turn
<1>3. /\ turn[s].at \in {"preflight", "check", "record"}
      /\ turn[s].op \in {"get", "sum", "fill"} /\ turn[s].kind = "redis"
      /\ turn[s].got \in Nat
  BY <1>1 DEF Fill, GetFails, InGet, Fits, Turn, Kind
<1>4. /\ \/ counter' = counter
         \/ /\ turn[s].op = "fill"
            /\ counter' = [counter EXCEPT ![k] = IF @ = NoCount THEN turn[s].got ELSE @]
      /\ UNCHANGED <<usage, lapsed, everLapsed>>
      /\ calls' \in 0..MaxCalls /\ faults' \in 0..MaxFaults
  <2>1. CASE Fill(s)
    BY <1>1, <1>2, <2>1 DEF Fill, InGet, QTypeOK
  <2>2. CASE GetFails(s)
    BY <1>1, <1>2, <2>2, QuotaAssumption DEF GetFails, Fault, QTypeOK
  <2> QED
    BY <2>1, <2>2
<1>5. /\ OnlyMoves(s)
      /\ turn'[s].op # "fill"
      /\ \A j \in Key : Weight(s, j)' = Weight(s, j)
      /\ \A j \in {s, Tenant} : Admitted(s, j)' =>
           \/ Admitted(s, j)
           \/ j = k /\ turn[s].at = "check" /\ turn[s].op = "fill" /\ ~Over(j, turn[s].got)
  <2>1. CASE Fill(s)
    BY <1>1, <1>2, <1>3, <2>1, AnswerMoves DEF Fill, InGet
  <2>2. CASE GetFails(s)
    <3>1. Proceed(s, "fallback", 0) /\ "fallback" \in Step /\ 0 \in Nat
      BY <2>2 DEF GetFails, Step
    <3>2. SentTo(s, turn[s].at, turn[s].on, "fallback")
      BY <1>1, <1>3, <3>1, Proceeds
    <3> QED
      BY <1>3, <3>2 DEF SentTo, Weight, Owes, Admitted
  <2> QED
    BY <2>1, <2>2
<1>6. Shapes'
  <2>1. counter' \in [Key -> Nat \cup {NoCount}]
    BY <1>1, <1>3, <1>4 DEF QTypeOK
  <2>2. turn' \in [Session -> Turn] /\ \A q \in Session : Fits(q)'
    BY <1>1, <1>5, FitAfter DEF OnlyMoves
  <2> QED
    BY <1>1, <1>4, <2>1, <2>2 DEF Shapes, QTypeOK
<1>7. \A j \in Key : Accounted(s, j)
  <2> TAKE j \in Key
  <2>1. ~FillsUp(s, j)'
    BY <1>5 DEF FillsUp
  <2>2. CASE counter'[j] = counter[j]
    BY <1>4, <1>5, <2>1, <2>2 DEF Accounted, Quiet
  <2>3. CASE counter'[j] # counter[j]
    <3>1. /\ j = k /\ turn[s].op = "fill"
          /\ counter'[k] = IF counter[k] = NoCount THEN turn[s].got ELSE counter[k]
      BY <1>1, <1>4, <2>3 DEF QTypeOK
    <3>2. FillsIn(s, j)
      BY <1>2, <1>4, <1>5, <3>1 DEF FillsIn, FillsUp
    <3> QED
      BY <2>1, <3>2 DEF Accounted
  <2> QED
    BY <2>2, <2>3
<1>8. \A j \in Key : Checked(s, j)
  <2> TAKE j \in Key
  <2>1. CASE j = k /\ turn[s].at = "check" /\ turn[s].op = "fill" /\ ~Over(j, turn[s].got)
    <3>1. Limit[j] \in Nat
      BY KeysOf
    <3>2. CASE Limit[j] = 0
      BY <1>4, <2>1, <3>2 DEF Checked
    <3>3. CASE Limit[j] > 0
      <4>1. Admitted(s, j)
        BY <1>2, <1>3, <2>1, <3>1, <3>3 DEF Over, Admitted
      <4> QED
        BY <1>4, <4>1 DEF Checked
    <3> QED
      BY <3>1, <3>2, <3>3
  <2> QED
    BY <1>4, <1>5, <2>1 DEF Checked
<1> QED
  BY <1>1, <1>4, <1>5, <1>6, <1>7, <1>8 DEF Sound, OnlyMoves

\* The keys whose count will lack tokens are marked, unless a fill will make good.
LEMMA LapseMarks ==
  ASSUME QTypeOK, lapsed \subseteq everLapsed, NEW K \in SUBSET Key, Lapse(K)
  PROVE  /\ lapsed \subseteq lapsed' /\ lapsed' \subseteq Key
         /\ everLapsed \subseteq everLapsed' /\ everLapsed' \subseteq Key
         /\ lapsed' \subseteq everLapsed'
         /\ \A k \in K : \/ k \in lapsed'
                         \/ counter[k] = NoCount /\ \A t \in Session : ~FillsUp(t, k)
BY DEF Lapse, QTypeOK, FillsUp

\* The row of the call, which is the one step that spends.
LEMMA RowSteps ==
  ASSUME QuotaInv, NEW s \in Session, Insert(s) \/ InsertFails(s)
  PROVE  Sound(s)
<1>1. Shapes /\ QTypeOK /\ turn[s] \in Turn /\ Fits(s) /\ lapsed \subseteq everLapsed
  BY DEF QuotaInv, Shapes, QTypeOK
<1>2. s # Tenant /\ s \in Key /\ Tenant \in Key
  BY QuotaAssumption, KeysOf
<1>3. PICK n \in 0..MaxCall : n = turn[s].tokens
  BY <1>1 DEF Turn
<1>4. turn[s].at = "append" /\ counter' = counter /\ calls' = calls
      /\ faults' \in 0..MaxFaults
  BY <1>1, QuotaAssumption DEF Insert, InsertFails, Fault, QTypeOK
<1>5. /\ OnlyMoves(s) /\ turn'[s].op # "fill"
      /\ \A k \in Key : \/ Weight(s, k)' = 0
                        \/ /\ Insert(s) /\ turn[s].kind = "redis" /\ k \in {s, Tenant}
                           /\ Weight(s, k)' = n
      /\ Insert(s) /\ turn[s].kind # "db" => \A k \in {s, Tenant} : Weight(s, k)' = n
      /\ \A k \in {s, Tenant} : ~Admitted(s, k)'
  <2>1. CASE Insert(s)
    <3>1. SentTo(s, "record", s, IF turn[s].kind = "redis" THEN "get" ELSE "reread")
      BY <1>1, <2>1, Adds DEF Insert
    <3>2. turn[s].kind \in {"redis", "db"}
      BY <1>1 DEF Turn, Kind
    <3> QED
      BY <1>2, <1>3, <2>1, <3>1, <3>2 DEF SentTo, Weight, Owes, Admitted
  <2>2. CASE InsertFails(s) /\ ~Insert(s)
    BY <1>1, <2>2, GoesOn DEF InsertFails
  <2> QED
    BY <2>1, <2>2
<1>6. \A k \in Key : Weight(s, k) = 0
  BY <1>4 DEF Weight, Owes
<1>7. \/ UNCHANGED <<usage, lapsed, everLapsed>> /\ ~Insert(s)
      \/ Book(s) /\ Lapse({s, Tenant}) /\ \A k \in Key : Weight(s, k)' = 0
      \/ /\ Book(s) /\ UNCHANGED <<lapsed, everLapsed>>
         /\ \A k \in {s, Tenant} : Weight(s, k)' = n
  BY <1>5 DEF Insert, InsertFails
<1>8. /\ lapsed \subseteq lapsed' /\ lapsed' \subseteq Key
      /\ everLapsed \subseteq everLapsed' /\ everLapsed' \subseteq Key
      /\ lapsed' \subseteq everLapsed'
  BY <1>1, <1>2, <1>7, LapseMarks DEF QTypeOK
<1>9. /\ usage' \in [Key -> Nat]
      /\ \A k \in Key \ {s, Tenant} : usage'[k] = usage[k]
      /\ \A k \in {s, Tenant} : \/ usage'[k] = usage[k] /\ usage' = usage
                                \/ usage'[k] = usage[k] + n /\ Book(s)
  BY <1>1, <1>2, <1>3, <1>7, KeysOf DEF Book, QTypeOK
<1>10. Shapes'
  <2>1. turn' \in [Session -> Turn] /\ \A q \in Session : Fits(q)'
    BY <1>1, <1>5, FitAfter DEF OnlyMoves
  <2> QED
    BY <1>1, <1>4, <1>8, <1>9, <2>1 DEF Shapes, QTypeOK
<1>11. \A k \in Key : Accounted(s, k)
  <2> TAKE k \in Key
  <2>1. ~FillsUp(s, k)'
    BY <1>5 DEF FillsUp
  <2>2. usage[k] \in Nat /\ n \in Nat
    BY <1>1, <1>3, KeysOf DEF QTypeOK
  <2>3. CASE k \notin {s, Tenant}
    BY <1>4, <1>5, <1>6, <1>8, <1>9, <2>1, <2>3 DEF Accounted, Quiet
  <2>4. CASE k \in {s, Tenant} /\ UNCHANGED <<usage, lapsed, everLapsed>> /\ ~Insert(s)
    BY <1>4, <1>5, <1>6, <2>1, <2>4 DEF Accounted, Quiet
  <2>5. CASE k \in {s, Tenant} /\ Book(s) /\ Lapse({s, Tenant}) /\ Weight(s, k)' = 0
    <3>1. \/ k \in lapsed'
          \/ counter[k] = NoCount /\ \A t \in Session : ~FillsUp(t, k)
      BY <1>1, <1>2, <2>5, LapseMarks
    <3>2. \A t \in Session : FillsUp(t, k)' => FillsUp(t, k)
      BY <1>5, <2>1 DEF OnlyMoves, FillsUp
    <3>3. usage'[k] = usage[k] + n
      BY <1>3, <2>5 DEF Book
    <3>4. Loses(s, k)
      BY <1>4, <1>6, <2>2, <2>5, <3>1, <3>2, <3>3 DEF Loses
    <3> QED
      BY <2>1, <3>4 DEF Accounted
  <2>6. CASE k \in {s, Tenant} /\ Book(s) /\ lapsed' = lapsed /\ Weight(s, k)' = n
    <3>1. usage'[k] = usage[k] + n
      BY <1>3, <2>6 DEF Book
    <3>2. Books(s, k)
      BY <1>4, <1>6, <2>6, <3>1 DEF Books
    <3> QED
      BY <2>1, <3>2 DEF Accounted
  <2> QED
    BY <1>7, <2>3, <2>4, <2>5, <2>6
<1>12. \A k \in Key : Checked(s, k)
  <2> TAKE k \in Key
  <2>1. CASE k \notin {s, Tenant}
    BY <1>9, <2>1 DEF Checked
  <2>2. CASE k \in {s, Tenant}
    <3>1. usage'[k] <= usage[k] + MaxCall
      BY <1>1, <1>3, <1>9, <2>2, KeysOf DEF QTypeOK
    <3>2. Admitted(s, k) /\ ~Admitted(s, k)'
      BY <1>4, <1>5, <2>2 DEF Admitted
    <3> QED
      BY <2>2, <3>1, <3>2 DEF Checked
  <2> QED
    BY <2>1, <2>2
<1> QED
  BY <1>5, <1>8, <1>10, <1>11, <1>12 DEF Sound, OnlyMoves

\* A step after the check that books nothing and passes nobody.
LEMMA CountsAlone ==
  ASSUME Shapes, NEW s \in Session, OnlyMoves(s), turn'[s].op # "fill",
         usage' = usage, counter' \in [Key -> Nat \cup {NoCount}],
         calls' \in 0..MaxCalls, faults' \in 0..MaxFaults,
         lapsed' \subseteq everLapsed', everLapsed' \subseteq Key,
         everLapsed \subseteq everLapsed',
         \A k \in Key : Quiet(s, k) \/ Loses(s, k) \/ Counts(s, k),
         \A k \in {s, Tenant} : Admitted(s, k)' => Admitted(s, k)
  PROVE  Sound(s)
<1>1. Shapes'
  BY FitAfter DEF Shapes, QTypeOK, OnlyMoves
<1>2. \A k \in Key : Accounted(s, k)
  BY DEF Accounted, FillsUp
<1>3. \A k \in Key : Checked(s, k)
  BY DEF Checked
<1> QED
  BY <1>1, <1>2, <1>3 DEF Sound, OnlyMoves

\* A mark is all a loss needs.
LEMMA LapseLoses ==
  ASSUME Shapes, NEW s \in Session, OnlyMoves(s), turn'[s].op # "fill",
         UNCHANGED <<usage, counter>>, NEW K \in SUBSET Key, Lapse(K),
         NEW k \in K, Weight(s, k)' <= Weight(s, k)
  PROVE  Loses(s, k)
<1>1. \/ k \in lapsed'
      \/ counter[k] = NoCount /\ \A t \in Session : ~FillsUp(t, k)
  BY LapseMarks DEF Shapes
<1>2. \A t \in Session : FillsUp(t, k)' => FillsUp(t, k)
  BY DEF OnlyMoves, FillsUp
<1>3. usage[k] \in Nat
  BY DEF Shapes, QTypeOK
<1> QED
  BY <1>1, <1>2, <1>3 DEF Loses

\* The increment of the key the turn is on.
LEMMA IncrementCounts ==
  ASSUME Shapes, NEW s \in Session, NEW k \in Key, k = turn[s].on,
         InGet(s, "incr"), Incremented(s), FromNothing(s), usage' = usage
  PROVE  /\ Weight(s, k)' = 0 => Counts(s, k)
         /\ counter' \in [Key -> Nat \cup {NoCount}]
         /\ \A j \in Key \ {k} : counter'[j] = counter[j] /\ (j \in lapsed => j \in lapsed')
         /\ lapsed' \subseteq everLapsed' /\ everLapsed' \subseteq Key
         /\ everLapsed \subseteq everLapsed'
<1>1. QTypeOK /\ turn[s] \in Turn /\ Fits(s) /\ lapsed \subseteq everLapsed
  BY DEF Shapes, QTypeOK
<1>2. turn[s].op = "incr" /\ turn[s].at = "record" /\ turn[s].on \in {s, Tenant}
      /\ turn[s].kind = "redis"
  BY <1>1 DEF InGet, Fits, Turn, Kind
<1>3. Weight(s, k) = turn[s].tokens
  BY <1>2 DEF Weight, Owes
<1>4. turn[s].tokens \in Nat
  BY <1>1, KeysOf DEF Turn
<1>5. counter' = [counter EXCEPT ![k] = (IF @ = NoCount THEN 0 ELSE @) + turn[s].tokens]
  BY DEF Incremented
<1>6. counter' \in [Key -> Nat \cup {NoCount}]
  BY <1>1, <1>4, <1>5 DEF QTypeOK
<1>7. counter'[k] = (IF counter[k] = NoCount THEN 0 ELSE counter[k]) + Weight(s, k)
  BY <1>1, <1>3, <1>5 DEF QTypeOK
<1>8. k \in lapsed \/ counter[k] = NoCount => k \in lapsed'
  BY DEF FromNothing
<1> QED
  BY <1>1, <1>5, <1>6, <1>7, <1>8 DEF Counts, FromNothing, QTypeOK

\* A turn that is left to read the table again owes its key nothing any more.
LEMMA Rereads ==
  ASSUME Shapes, NEW s \in Session, turn[s].at = "record", Proceed(s, "reread", 0)
  PROVE  /\ OnlyMoves(s) /\ turn'[s].op # "fill"
         /\ \A k \in Key : k # turn[s].on => Weight(s, k)' = Weight(s, k)
         /\ \A k \in Key : k = turn[s].on => Weight(s, k)' = 0
         /\ \A k \in {s, Tenant} : ~Admitted(s, k)'
<1>1. s # Tenant /\ Fits(s)
  BY QuotaAssumption DEF Shapes
<1>2. "reread" \in Step /\ 0 \in Nat
  BY DEF Step
<1>3. SentTo(s, turn[s].at, turn[s].on, "reread")
  BY <1>2, Proceeds
<1> QED
  BY <1>1, <1>3 DEF SentTo, Weight, Owes, Admitted, Fits

\* The increments, what becomes of them, and a turn that dies.
LEMMA CountSteps ==
  ASSUME QuotaInv, NEW s \in Session,
         Incr(s) \/ IncrFails(s) \/ Reread(s) \/ RereadFails(s) \/ FallbackFails(s) \/ TurnDies(s)
  PROVE  Sound(s)
<1>1. Shapes /\ QTypeOK /\ turn[s] \in Turn /\ Fits(s) /\ lapsed \subseteq everLapsed
  BY DEF QuotaInv, Shapes, QTypeOK
<1>2. s # Tenant /\ s \in Key /\ Tenant \in Key
  BY QuotaAssumption, KeysOf
<1>3. PICK k \in Key : k = turn[s].on
  BY <1>1 DEF Turn
<1>4. \A j \in Key : Weight(s, j) \in Nat
  BY <1>1, WeightIsNatural, KeysOf
<1>5. usage' = usage /\ calls' \in 0..MaxCalls /\ faults' \in 0..MaxFaults
      /\ lapsed \subseteq Key /\ everLapsed \subseteq Key
      /\ counter \in [Key -> Nat \cup {NoCount}]
  BY <1>1, QuotaAssumption
     DEF Incr, IncrFails, Reread, RereadFails, FallbackFails, TurnDies, Fault, QTypeOK
<1>6. CASE Incr(s)
  <2>1. InGet(s, "incr") /\ Incremented(s) /\ FromNothing(s) /\ Counted(s)
        /\ turn[s].at = "record"
    BY <1>1, <1>6 DEF Incr, InGet, Fits
  <2>2. /\ OnlyMoves(s) /\ turn'[s].op # "fill"
        /\ \A j \in Key : Weight(s, j)' = IF j = k THEN 0 ELSE Weight(s, j)
        /\ \A j \in {s, Tenant} : ~Admitted(s, j)'
    BY <1>1, <1>3, <2>1, CountedMoves
  <2>3. /\ Counts(s, k)
        /\ counter' \in [Key -> Nat \cup {NoCount}]
        /\ \A j \in Key \ {k} : counter'[j] = counter[j] /\ (j \in lapsed => j \in lapsed')
        /\ lapsed' \subseteq everLapsed' /\ everLapsed' \subseteq Key
        /\ everLapsed \subseteq everLapsed'
    BY <1>1, <1>3, <1>5, <2>1, <2>2, IncrementCounts
  <2>4. \A j \in Key : Quiet(s, j) \/ Counts(s, j)
    BY <1>5, <2>2, <2>3 DEF Quiet
  <2> QED
    BY <1>1, <1>5, <2>2, <2>3, <2>4, CountsAlone
<1>7. CASE IncrFails(s) /\ Incremented(s) /\ FromNothing(s)
  <2>1. InGet(s, "incr") /\ Proceed(s, "reread", 0) /\ turn[s].at = "record"
    BY <1>1, <1>7 DEF IncrFails, InGet, Fits
  <2>2. /\ OnlyMoves(s) /\ turn'[s].op # "fill"
        /\ \A j \in Key : j # k => Weight(s, j)' = Weight(s, j)
        /\ Weight(s, k)' = 0
        /\ \A j \in {s, Tenant} : ~Admitted(s, j)'
    BY <1>1, <1>3, <2>1, Rereads
  <2>3. /\ Counts(s, k)
        /\ counter' \in [Key -> Nat \cup {NoCount}]
        /\ \A j \in Key \ {k} : counter'[j] = counter[j] /\ (j \in lapsed => j \in lapsed')
        /\ lapsed' \subseteq everLapsed' /\ everLapsed' \subseteq Key
        /\ everLapsed \subseteq everLapsed'
    BY <1>1, <1>3, <1>5, <1>7, <2>1, <2>2, IncrementCounts
  <2>4. \A j \in Key : Quiet(s, j) \/ Counts(s, j)
    BY <1>5, <2>2, <2>3 DEF Quiet
  <2> QED
    BY <1>1, <1>5, <2>2, <2>3, <2>4, CountsAlone
<1>8. ASSUME turn[s].at = "record", Proceed(s, "reread", 0), Lapse({k}), counter' = counter
      PROVE  Sound(s)
  <2>1. /\ OnlyMoves(s) /\ turn'[s].op # "fill"
        /\ \A j \in Key : j # k => Weight(s, j)' = Weight(s, j)
        /\ Weight(s, k)' = 0
        /\ \A j \in {s, Tenant} : ~Admitted(s, j)'
    BY <1>1, <1>3, <1>8, Rereads
  <2>2. /\ lapsed \subseteq lapsed' /\ lapsed' \subseteq everLapsed'
        /\ everLapsed' \subseteq Key /\ everLapsed \subseteq everLapsed'
    BY <1>1, <1>8, LapseMarks
  <2>3. Loses(s, k)
    BY <1>1, <1>4, <1>5, <1>8, <2>1, LapseLoses
  <2>4. \A j \in Key : Quiet(s, j) \/ Loses(s, j)
    BY <1>5, <1>8, <2>1, <2>2, <2>3 DEF Quiet
  <2> QED
    BY <1>1, <1>5, <1>8, <2>1, <2>2, <2>4, CountsAlone
<1>9. CASE IncrFails(s) /\ counter' = counter /\ Lapse({k})
  BY <1>1, <1>8, <1>9 DEF IncrFails, InGet, Fits
<1>10. CASE FallbackFails(s)
  <2>1. CASE turn[s].at = "record"
    BY <1>3, <1>8, <1>10, <2>1 DEF FallbackFails
  <2>2. CASE turn[s].at # "record"
    <3>1. EndTurn(s) /\ UNCHANGED <<counter, lapsed, everLapsed>>
      BY <1>10, <2>2 DEF FallbackFails
    <3>2. SentTo(s, "idle", Tenant, "none")
      BY <1>1, <3>1, Ends
    <3>3. \A j \in Key : Quiet(s, j)
      BY <1>5, <2>2, <3>1, <3>2 DEF Quiet, SentTo, Weight, Owes
    <3>4. \A j \in {s, Tenant} : ~Admitted(s, j)'
      BY <3>2 DEF SentTo, Admitted
    <3> QED
      BY <1>1, <1>5, <3>1, <3>2, <3>3, <3>4, CountsAlone DEF SentTo
  <2> QED
    BY <2>1, <2>2
<1>11. CASE Reread(s)
  <2>1. /\ Counted(s) /\ turn[s].at = "record" /\ turn[s].op = "reread"
        /\ UNCHANGED <<counter, lapsed, everLapsed>>
    BY <1>1, <1>11 DEF Reread, InGet, Fits
  <2>2. /\ OnlyMoves(s) /\ turn'[s].op # "fill"
        /\ \A j \in Key : Weight(s, j)' = IF j = k THEN 0 ELSE Weight(s, j)
        /\ \A j \in {s, Tenant} : ~Admitted(s, j)'
    BY <1>1, <1>3, <2>1, CountedMoves
  <2>3. Weight(s, k) = 0
    BY <1>2, <1>3, <2>1 DEF Weight, Owes
  <2>4. \A j \in Key : Quiet(s, j)
    BY <1>5, <2>1, <2>2, <2>3 DEF Quiet
  <2> QED
    BY <1>1, <1>5, <2>1, <2>2, <2>4, CountsAlone
<1>12. CASE RereadFails(s)
  <2>1. /\ GoOn(s) /\ turn[s].at = "record" /\ turn[s].op = "reread" /\ counter' = counter
    BY <1>1, <1>12 DEF RereadFails, InGet, Fits
  <2>2. /\ OnlyMoves(s) /\ turn'[s].op # "fill"
        /\ \A j \in Key : Weight(s, j)' = 0
        /\ \A j \in {s, Tenant} : ~Admitted(s, j)'
    BY <1>1, <2>1, GoesOn
  <2>3. \A j \in Key : Weight(s, j) = 0 \/ (j = Tenant /\ turn[s].on = s)
    BY <1>2, <2>1 DEF Weight, Owes
  <2>4. CASE turn[s].on = s
    <3>1. Lapse({Tenant})
      BY <1>12, <2>4 DEF RereadFails
    <3>2. /\ lapsed \subseteq lapsed' /\ lapsed' \subseteq everLapsed'
          /\ everLapsed' \subseteq Key /\ everLapsed \subseteq everLapsed'
      BY <1>1, <1>2, <3>1, LapseMarks
    <3>3. Weight(s, Tenant)' <= Weight(s, Tenant)
      BY <1>2, <1>4, <2>2
    <3>4. Loses(s, Tenant)
      BY <1>1, <1>2, <1>5, <2>1, <2>2, <3>1, <3>3, LapseLoses
    <3>5. \A j \in Key : Quiet(s, j) \/ Loses(s, j)
      BY <1>5, <2>1, <2>2, <2>3, <3>2, <3>4 DEF Quiet
    <3> QED
      BY <1>1, <1>5, <2>1, <2>2, <3>2, <3>5, CountsAlone
  <2>5. CASE turn[s].on # s
    <3>1. UNCHANGED <<lapsed, everLapsed>>
      BY <1>12, <2>5 DEF RereadFails
    <3>2. \A j \in Key : Quiet(s, j)
      BY <1>5, <2>1, <2>2, <2>3, <2>5, <3>1 DEF Quiet
    <3> QED
      BY <1>1, <1>5, <2>1, <2>2, <3>1, <3>2, CountsAlone
  <2> QED
    BY <2>4, <2>5
<1>13. CASE TurnDies(s)
  <2> DEFINE K == {j \in Key : Owes(s, j)}
  <2>1. EndTurn(s) /\ Lapse(K) /\ counter' = counter /\ K \in SUBSET Key
    BY <1>13 DEF TurnDies
  <2>2. SentTo(s, "idle", Tenant, "none")
    BY <1>1, <2>1, Ends
  <2>3. /\ \A j \in Key : Weight(s, j)' = 0
        /\ \A j \in {s, Tenant} : ~Admitted(s, j)'
        /\ OnlyMoves(s) /\ turn'[s].op # "fill"
    BY <2>2 DEF SentTo, Weight, Owes, Admitted
  <2>4. \A j \in Key : j \notin K => Weight(s, j) = 0
    BY DEF Weight
  <2> HIDE DEF K
  <2>5. /\ lapsed \subseteq lapsed' /\ lapsed' \subseteq everLapsed'
        /\ everLapsed' \subseteq Key /\ everLapsed \subseteq everLapsed'
    BY <1>1, <2>1, LapseMarks
  <2>6. \A j \in K : Loses(s, j)
    BY <1>1, <1>4, <1>5, <2>1, <2>3, LapseLoses
  <2>7. \A j \in Key : Quiet(s, j) \/ Loses(s, j)
    BY <1>5, <2>1, <2>3, <2>4, <2>5, <2>6 DEF Quiet
  <2> QED
    BY <1>1, <1>5, <2>1, <2>3, <2>5, <2>7, CountsAlone
<1>14. IncrFails(s) => \/ Incremented(s) /\ FromNothing(s)
                       \/ counter' = counter /\ Lapse({k})
  BY <1>3 DEF IncrFails
<1> QED
  BY <1>6, <1>7, <1>9, <1>10, <1>11, <1>12, <1>13, <1>14

----------------------------------------------------------------------------
\* The environment, and the theorems

\* A lost key has no count, and is marked if an old sum may still fill it.
LEMMA KeyLostKeeps ==
  ASSUME QuotaInv, NEW l \in Key, KeyLost(l)
  PROVE  QuotaInv'
<1>1. QTypeOK /\ lapsed \subseteq everLapsed /\ \A s \in Session : Fits(s)
  BY DEF QuotaInv, Shapes
<1>2. UNCHANGED <<usage, turn, calls>> /\ faults' \in 0..MaxFaults
      /\ counter' = [counter EXCEPT ![l] = NoCount]
  BY <1>1, QuotaAssumption DEF KeyLost, Fault, QTypeOK
<1>3. /\ everLapsed \subseteq everLapsed' /\ lapsed' \subseteq everLapsed'
      /\ everLapsed' \subseteq Key
      /\ \A k \in Key \ {l} : k \in lapsed <=> k \in lapsed'
      /\ l \in lapsed' \/ \A t \in Session : ~FillsUp(t, l)
  BY <1>1 DEF KeyLost, FillsUp, QTypeOK
<1>4. /\ counter' \in [Key -> Nat \cup {NoCount}]
      /\ counter'[l] = NoCount
      /\ \A k \in Key \ {l} : counter'[k] = counter[k]
  BY <1>1, <1>2 DEF QTypeOK
<1>5. Shapes'
  BY <1>1, <1>2, <1>3, <1>4 DEF Shapes, QTypeOK, Fits
<1>6. ASSUME NEW k \in Key
      PROVE  Balanced(k)'
  <2>1. /\ Owing(k)' = Owing(k)
        /\ \A t \in Session : FillsUp(t, k)' <=> FillsUp(t, k)
    BY <1>2 DEF Owing, Owed, Owes, FillsUp
  <2>2. Balanced(k)
    BY <1>6 DEF QuotaInv
  <2>3. CASE k = l
    BY <1>2, <1>3, <1>4, <2>1, <2>2, <2>3 DEF Balanced, Covers, Charged, FillsFit
  <2>4. CASE k # l
    BY <1>2, <1>3, <1>4, <2>1, <2>2, <2>4 DEF Balanced, Covers, Charged, FillsFit
  <2> QED
    BY <2>3, <2>4
<1>7. ASSUME NEW k \in Key
      PROVE  Bounded(k)'
  <2>1. Free(k)' = Free(k)
    BY <1>2 DEF Free, Admitted
  <2>2. Bounded(k)
    BY <1>7 DEF QuotaInv
  <2> QED
    BY <1>2, <1>3, <2>1, <2>2 DEF Bounded
<1> QED
  BY <1>5, <1>6, <1>7 DEF QuotaInv

\* A step of a turn keeps every key as it should be.
LEMMA TurnKeeps ==
  ASSUME QuotaInv, NEW s \in Session, SessionNext(s)
  PROVE  QuotaInv'
<1>1. Sound(s)
  BY CallSteps, ReadSteps, FillSteps, RowSteps, CountSteps DEF SessionNext
<1>2. /\ QTypeOK /\ QTypeOK' /\ Shapes'
      /\ \A q \in Session \ {s} : turn'[q] = turn[q]
      /\ everLapsed \subseteq everLapsed'
  BY <1>1 DEF Sound, QuotaInv, Shapes
<1>3. ASSUME NEW k \in Key
      PROVE  Balanced(k)' /\ Bounded(k)'
  <2>1. Accounted(s, k) /\ Checked(s, k) /\ Balanced(k) /\ Bounded(k)
    BY <1>1 DEF Sound, QuotaInv
  <2> QED
    BY <1>2, <2>1, StaysBalanced, StaysBounded
<1> QED
  BY <1>2, <1>3 DEF QuotaInv

\* The invariant is inductive,
LEMMA QuotaStep == QuotaInv /\ [QNext]_qvars => QuotaInv'
<1> SUFFICES ASSUME QuotaInv, [QNext]_qvars PROVE QuotaInv'
  OBVIOUS
<1>1. CASE QNext
  BY <1>1, TurnKeeps, KeyLostKeeps DEF QNext
<1>2. CASE UNCHANGED qvars
  BY <1>2 DEF qvars, QuotaInv, Shapes, QTypeOK, Fits, Balanced, Covers, Charged, FillsFit,
              FillsUp, Bounded, Free, Admitted, Owing, Owed, Owes
<1> QED
  BY <1>1, <1>2

\* holds at the start,
LEMMA QuotaStart == QInit => QuotaInv
<1> SUFFICES ASSUME QInit PROVE QuotaInv
  OBVIOUS
<1>1. QTypeOK
  BY QuotaAssumption DEF QInit, QTypeOK, Turn, TurnStage, Step, Kind, Key, NoCount
<1>2. lapsed \subseteq everLapsed /\ \A s \in Session : Fits(s)
  BY DEF QInit, Fits
<1>3. \A k \in Key : Balanced(k)
  BY DEF QInit, Balanced, Covers, Charged, FillsFit, FillsUp
<1>4. \A k \in Key : Bounded(k)
  <2> TAKE k \in Key
  <2>1. IsFiniteSet(Free(k)) /\ Cardinality(Free(k)) \in Nat
    <3>1. Free(k) \subseteq Sharers(k)
      BY DEF Free
    <3> QED
      BY <3>1, SharersAreFinite, FS_Subset, FS_CardinalityType
  <2>2. Cardinality(Free(k)) * MaxCall \in Nat /\ Limit[k] \in Nat
    BY <2>1, KeysOf
  <2> QED
    BY <2>2 DEF QInit, Bounded
<1> QED
  BY <1>1, <1>2, <1>3, <1>4 DEF QuotaInv, Shapes

\* and so always.
LEMMA BooksHold == QSpec => []QuotaInv
<1> QED
  BY QuotaStart, QuotaStep, PTL DEF QSpec

\* Every variable of the quota keeps its type, for any sessions and limits.
THEOREM QuotaTypes == QSpec => []QTypeOK
<1>1. QuotaInv => QTypeOK
  BY DEF QuotaInv, Shapes
<1> QED
  BY <1>1, BooksHold, PTL

\* The Redis counter never hides usage, for any sessions and limits and however
\* often keys are lost: what it says, with the increments still owed, covers the
\* usage table, unless an increment was left out (RedisQuotaCounter).
THEOREM CountsCoverTheTable == QSpec => []CounterCoversTable
<1>1. QuotaInv => CounterCoversTable
  BY DEF QuotaInv, Balanced, Covers, CounterCoversTable
<1> QED
  BY <1>1, BooksHold, PTL

\* A count is above the table by at most one call of each turn that shares it, for
\* any number of turns and whatever fails (RedisQuotaCounter.get and add).
THEOREM OverchargesAreSmall == QSpec => []OverchargeBounded
<1>1. QuotaInv => OverchargeBounded
  BY DEF QuotaInv, Balanced, Charged, OverchargeBounded
<1> QED
  BY <1>1, BooksHold, PTL

\* Turns that pass the check together overshoot a limit by at most one call each,
\* for any number of turns and any limit, while no increment was left out
\* (QuotaService.check and record).
THEOREM OvershootsAreSmall == QSpec => []OvershootBounded
<1>1. ASSUME QuotaInv
      PROVE  OvershootBounded
  <2> SUFFICES ASSUME NEW k \in Key, Limit[k] > 0, k \notin everLapsed
               PROVE  usage[k] < Limit[k] + Cardinality(Sharers(k)) * MaxCall
    BY DEF OvershootBounded
  <2>1. usage[k] < Limit[k] + Cardinality(Free(k)) * MaxCall
    BY <1>1 DEF QuotaInv, Bounded
  <2>2. /\ Cardinality(Free(k)) \in Nat /\ Cardinality(Sharers(k)) \in Nat
        /\ Cardinality(Free(k)) <= Cardinality(Sharers(k))
    <3>1. Free(k) \subseteq Sharers(k)
      BY DEF Free
    <3> QED
      BY <3>1, SharersAreFinite, FS_Subset, FS_CardinalityType
  <2>3. /\ Cardinality(Free(k)) * MaxCall <= Cardinality(Sharers(k)) * MaxCall
        /\ Cardinality(Free(k)) * MaxCall \in Nat
        /\ Cardinality(Sharers(k)) * MaxCall \in Nat
    BY <2>2, KeysOf, Scales
  <2>4. usage[k] \in Nat /\ Limit[k] \in Nat
    BY <1>1, KeysOf DEF QuotaInv, Shapes, QTypeOK
  <2> QED
    BY <2>1, <2>3, <2>4
<1> QED
  BY <1>1, BooksHold, PTL

----------------------------------------------------------------------------
\* The price table

\* Every set of naturals with a member has a least one.
LEMMA Least ==
  ASSUME NEW T \in SUBSET Nat, NEW e \in T
  PROVE  \E x \in T : \A y \in T : x <= y
<1>1. {ss \in Nat \X Nat : ss[1] < ss[2]} = OpToRel(<, Nat)
  BY DEF OpToRel
<1>2. PICK R : R = {ss \in Nat \X Nat : ss[1] < ss[2]} /\ IsWellFoundedOn(R, Nat)
  BY <1>1, NatLessThanWellFounded
<1>3. PICK x \in T : \A y \in T : ~(<<y, x>> \in R)
  BY <1>2, WFMin
<1>4. \A y \in T : ~(y < x)
  BY <1>2, <1>3
<1> QED
  BY <1>4

\* A price window, with None for an open end; days are positive.
PriceWindow == [from : Nat, until : Nat]

\* Of an accepted table only the first window may be open at its start and the
\* last at its end, and each ends before any later one begins.
LEMMA WindowsAreOrdered ==
  ASSUME NEW n \in Nat, NEW ws \in [1..n -> PriceWindow], ValidWindows(ws)
  PROVE  /\ n >= 1 /\ Len(ws) = n
         /\ \A i \in 1..n : ws[i].from \in Nat /\ ws[i].until \in Nat
         /\ \A i \in 1..n, j \in 1..n : i < j => ws[i].until < ws[j].from
         /\ \A i \in 1..n : /\ i > 1 => ws[i].from # None
                            /\ i < n => ws[i].until # None
                            /\ i > 1 => ws[i].from = ws[i - 1].until + 1
                            /\ i > 1 /\ i < n => ws[i].from <= ws[i].until
<1>1. Len(ws) = n /\ DOMAIN ws = 1..n
  OBVIOUS
<1>2. n >= 1
  BY <1>1 DEF ValidWindows
<1>3. \A i \in 1..n : ws[i].from \in Nat /\ ws[i].until \in Nat
  <2> TAKE i \in 1..n
  <2>1. ws[i] \in PriceWindow
    OBVIOUS
  <2> QED
    BY <2>1 DEF PriceWindow
<1>4. \A i \in 1..n : /\ i > 1 => ws[i].from # None
                      /\ i < n => ws[i].until # None
                      /\ i > 1 => ws[i].from = ws[i - 1].until + 1
                      /\ i > 1 /\ i < n => ws[i].from <= ws[i].until
  BY <1>1 DEF ValidWindows
<1>5. \A i \in 1..n, j \in 1..n : i < j => ws[i].until < ws[j].from
  <2> SUFFICES ASSUME NEW i \in 1..n, NEW e \in 1..n, i < e, ~(ws[i].until < ws[e].from)
               PROVE  FALSE
    OBVIOUS
  <2> DEFINE T == {j \in 1..n : i < j /\ ~(ws[i].until < ws[j].from)}
  <2>1. T \in SUBSET Nat /\ e \in T
    OBVIOUS
  <2>2. PICK j \in T : \A y \in T : j <= y
    BY <2>1, Least
  <2>3. j \in 1..n /\ i < j /\ ~(ws[i].until < ws[j].from)
    BY <2>2
  <2>4. ws[j].from = ws[j - 1].until + 1
    BY <1>4, <2>3
  <2>5. j - 1 \in 1..n /\ j - 1 >= i
    BY <2>3
  <2>6. CASE j - 1 = i
    BY <1>3, <2>3, <2>4, <2>6
  <2>7. CASE j - 1 > i
    <3>1. j - 1 \notin T
      BY <2>2, <2>3
    <3>2. ws[i].until < ws[j - 1].from
      BY <2>5, <2>7, <3>1
    <3>3. ws[j - 1].from <= ws[j - 1].until
      BY <1>4, <2>3, <2>5, <2>7
    <3> QED
      BY <1>3, <2>3, <2>4, <2>5, <3>2, <3>3
  <2> QED
    BY <2>5, <2>6, <2>7
<1> QED
  BY <1>1, <1>2, <1>3, <1>4, <1>5

\* What the prices of a day are looked up in.
Nearest(ws, day) ==
  LET r == Resolve(ws, day)
      hits == {i \in DOMAIN ws : Holds(ws[i], day)}
  IN  /\ Cardinality(hits) <= 1
      /\ r.resolved = "exact" <=> hits = {r.window}
      /\ r.resolved = "before-first" => \A i \in DOMAIN ws : day < ws[i].from
      /\ r.resolved = "after-last" => \A i \in DOMAIN ws : day > ws[i].until

\* Whatever the number of windows of an accepted table, a day is priced by exactly
\* one of them, or by the nearest (validatePriceWindows and resolveFromWindows).
THEOREM OneWindowPrices ==
  ASSUME NEW n \in Nat, NEW ws \in [1..n -> PriceWindow], ValidWindows(ws),
         NEW day \in Nat \ {0}
  PROVE  Nearest(ws, day)
<1> DEFINE hits == {i \in 1..n : Holds(ws[i], day)}
           r == Resolve(ws, day)
<1>1. /\ n >= 1 /\ Len(ws) = n /\ DOMAIN ws = 1..n
      /\ \A i \in 1..n : ws[i].from \in Nat /\ ws[i].until \in Nat
      /\ \A i \in 1..n, j \in 1..n : i < j => ws[i].until < ws[j].from
      /\ \A i \in 1..n : /\ i > 1 => ws[i].from # None
                         /\ i < n => ws[i].until # None
                         /\ i > 1 => ws[i].from = ws[i - 1].until + 1
                         /\ i > 1 /\ i < n => ws[i].from <= ws[i].until
  BY WindowsAreOrdered
<1>2. \A i, j \in hits : i = j
  <2> SUFFICES ASSUME NEW i \in hits, NEW j \in hits, i < j PROVE FALSE
    BY <1>1
  <2>1. ws[i].until < ws[j].from /\ ws[i].until # None /\ ws[j].from # None
    BY <1>1
  <2> QED
    BY <1>1, <2>1 DEF Holds
<1>3. CASE hits # {}
  <2>1. PICK x \in hits : hits = {x}
    BY <1>2, <1>3
  <2>2. Cardinality(hits) <= 1
    <3>1. Cardinality({x}) = 1
      BY FS_Singleton
    <3> HIDE DEF hits
    <3> QED
      BY <2>1, <3>1
  <2>3. (CHOOSE i \in hits : \A j \in hits : i <= j) = x
    BY <2>1
  <2>4. r = [window |-> x, resolved |-> "exact"]
    BY <1>1, <1>3, <2>3 DEF Resolve
  <2> QED
    BY <1>1, <2>1, <2>2, <2>4 DEF Nearest
<1>4. CASE hits = {} /\ ws[1].from # None /\ day < ws[1].from
  <2>1. r.resolved = "before-first" /\ r.window = 1
    BY <1>1, <1>4 DEF Resolve
  <2>2. \A i \in 1..n : day < ws[i].from
    <3> TAKE i \in 1..n
    <3>1. CASE i = 1
      BY <1>4, <3>1
    <3>2. CASE i > 1
      <4>1. 1 \in 1..n /\ ws[1].until < ws[i].from /\ ws[1].until # None
        BY <1>1, <3>2
      <4>2. ws[1].from <= ws[1].until
        BY <1>1, <1>4, <4>1 DEF ValidWindows
      <4> QED
        BY <1>1, <1>4, <4>1, <4>2
    <3> QED
      BY <3>1, <3>2
  <2>3. Cardinality(hits) <= 1
    <3> HIDE DEF hits
    <3> QED
      BY <1>4, FS_EmptySet
  <2> QED
    BY <1>1, <1>4, <2>1, <2>2, <2>3 DEF Nearest
<1>5. CASE hits = {} /\ ~(ws[1].from # None /\ day < ws[1].from)
  <2>1. r.resolved = "after-last" /\ r.window = n
    BY <1>1, <1>5 DEF Resolve
  <2>2. \A i \in 1..n : ~Holds(ws[i], day)
    BY <1>5
  <2>3. \A i \in 1..n : day > ws[i].until
    <3> SUFFICES ASSUME NEW e \in 1..n, ~(day > ws[e].until) PROVE FALSE
      OBVIOUS
    <3> DEFINE T == {i \in 1..n : ~(day > ws[i].until)}
    <3>1. T \in SUBSET Nat /\ e \in T
      OBVIOUS
    <3>2. PICK i \in T : \A y \in T : i <= y
      BY <3>1, Least
    <3>3. i \in 1..n /\ ~(day > ws[i].until) /\ (i > 1 => day > ws[i - 1].until)
      <4>1. i \in 1..n /\ ~(day > ws[i].until)
        BY <3>2
      <4>2. i > 1 => i - 1 \in 1..n /\ i - 1 \notin T
        BY <3>2, <4>1
      <4> QED
        BY <4>1, <4>2
    <3>4. ws[i].from = None \/ day >= ws[i].from
      <4>1. CASE i = 1
        BY <1>1, <1>5, <4>1
      <4>2. CASE i > 1
        <5>1. i - 1 \in 1..n /\ ws[i].from = ws[i - 1].until + 1 /\ day > ws[i - 1].until
          BY <1>1, <3>3, <4>2
        <5> QED
          BY <1>1, <5>1
      <4> QED
        BY <3>3, <4>1, <4>2
    <3>5. day <= ws[i].until
      BY <1>1, <3>3
    <3> QED
      BY <2>2, <3>3, <3>4, <3>5 DEF Holds
  <2>4. Cardinality(hits) <= 1
    <3> HIDE DEF hits
    <3> QED
      BY <1>5, FS_EmptySet
  <2> QED
    BY <1>1, <1>5, <2>1, <2>3, <2>4 DEF Nearest
<1> QED
  BY <1>3, <1>4, <1>5

\* The tables TLC tries are among them.
THEOREM PricesAreUnambiguous == QSpec => []PricesUnambiguous
<1> DEFINE Day == 1..4
           W == [from : Day \cup {None}, until : Day \cup {None}]
<1>1. Unambiguous
  <2> SUFFICES ASSUME NEW n \in 1..3, NEW ws \in [1..n -> W], ValidWindows(ws),
                      NEW day \in Day
               PROVE  Nearest(ws, day)
    BY DEF Unambiguous, Nearest
  <2>1. W \subseteq PriceWindow
    BY DEF PriceWindow, None
  <2>2. ws \in [1..n -> PriceWindow]
    BY <2>1
  <2> QED
    BY <2>2, OneWindowPrices
<1>2. PricesUnambiguous
  BY <1>1 DEF PricesUnambiguous
<1> QED
  BY <1>2, PTL

============================================================================
