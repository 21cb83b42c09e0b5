----------------------- MODULE SessionTurnProofs -----------------------
(***************************************************************************)
(* Proofs about SessionTurn, for every set of requests, every TTL and      *)
(* every number of model calls.  Those about exclusion assume, like the    *)
(* lock itself, that no turn outlives its lock (TurnsFitTtl).              *)
(***************************************************************************)
EXTENDS SessionTurn, TLAPS

Entry == [req : Request, kind : Kind]

\* Appending an entry adds one place at the end and leaves the others alone.
LEMMA WriteAppends ==
  ASSUME TypeOK, NEW r \in Request, NEW k \in Kind, Write(r, k)
  PROVE  /\ log' \in Seq([req : Request, kind : Kind])
         /\ DOMAIN log = 1..Len(log)
         /\ Len(log) \in Nat
         /\ DOMAIN log' = 1..(Len(log) + 1)
         /\ \A i \in DOMAIN log : log'[i] = log[i]
         /\ log'[Len(log) + 1] = [req |-> r, kind |-> k]
<1>1. [req |-> r, kind |-> k] \in [req : Request, kind : Kind]
  OBVIOUS
<1>2. QED
  BY <1>1 DEF TypeOK, Write

\* Every step keeps the types.  What an action can disturb, besides where its
\* request is, is the log, the lock or the record of a rejected run.
LEMMA TypeStep ==
  ASSUME TypeOK, [Next]_vars
  PROVE  TypeOK'
<1> USE DEF TypeOK, Goto, End, Stage, Holding, Running
<1>appends.
  ASSUME NEW r \in Request,
         \/ AppendUser(r) \/ ModelReplies(r)
         \/ ModelCallsTool(r) \/ ToolReturns(r)
  PROVE  TypeOK'
  <2>1. PICK k \in Kind : Write(r, k)
    BY <1>appends DEF AppendUser, ModelReplies, ModelCallsTool, ToolReturns, Kind
  <2>2. log' \in Seq([req : Request, kind : Kind])
    BY <2>1, WriteAppends
  <2>3. QED
    BY <1>appends, <2>2 DEF AppendUser, ModelReplies, ModelCallsTool, ToolReturns
<1>locks.
  ASSUME NEW r \in Request, AcquireTurnLock(r) \/ Release(r)
  PROVE  TypeOK'
  <2>1. lost' \subseteq Request
    BY <1>locks DEF AcquireTurnLock, Release, Owning
  <2>2. QED
    BY <1>locks, <2>1, TtlAssumption DEF AcquireTurnLock, Release
<1>moves.
  ASSUME NEW r \in Request,
         \/ ResolveForTenant(r) \/ PreflightAnswers(r)
         \/ ClaimWon(r) \/ TurnStops(r) \/ RunThrows(r)
  PROVE  TypeOK'
  BY <1>moves DEF ResolveForTenant, PreflightAnswers, ClaimWon, TurnStops, RunThrows
<1>leaves.
  ASSUME NEW r \in Request,
         \/ SessionBusy(r) \/ PreflightThrows(r) \/ ClaimLost(r) \/ Crash(r)
  PROVE  TypeOK'
  <2>1. PICK stage \in {"busy", "done", "crashed"} : End(r, stage)
    BY <1>leaves DEF SessionBusy, PreflightThrows, ClaimLost, Crash
  <2>2. /\ lock' = lock /\ log' = log /\ owner' = owner
        /\ lost' = lost /\ freed' = freed /\ threw' = threw
    BY <1>leaves DEF SessionBusy, PreflightThrows, ClaimLost, Crash
  <2>3. pc' \in [Request -> Stage]
    BY <2>1
  <2>4. view' \in [Request -> Nat]
    BY <2>1
  <2>5. QED
    BY <2>2, <2>3, <2>4
<1>restores. ASSUME NEW r \in Request, Restore(r) PROVE TypeOK'
  BY <1>restores DEF Restore
<1>time. ASSUME Tick \/ UNCHANGED vars PROVE TypeOK'
  <2>1. lost' \subseteq Request
    BY <1>time DEF Tick, Owning, vars
  <2>2. QED
    BY <1>time, <2>1, TtlAssumption DEF Tick, vars
<1> HIDE DEF TypeOK
<1> QED
  BY <1>appends, <1>locks, <1>moves, <1>leaves, <1>restores, <1>time
  DEF Next, Serve

\* Every variable keeps its type and a lock never exceeds its TTL.
THEOREM TypeCorrect == Spec => []TypeOK
<1>1. Init => TypeOK
  BY TtlAssumption DEF Init, TypeOK, Stage
<1>2. QED
  BY <1>1, TypeStep, PTL DEF Spec

----------------------------------------------------------------------------
\* Mutual exclusion

\* A holder's lock is live and its own, or the holder is known to have lost it.
LostInv ==
  \A r \in Request : HoldsTurn(r) => r \in lost \/ (lock > 0 /\ owner = r)

\* The strengthening of TurnExclusion: nobody has lost its lock.  Without the
\* first conjunct a compare-and-set could win beside a holder, without the
\* second two holders could share one lock.
LockInv ==
  \A r \in Request : HoldsTurn(r) => lock > 0 /\ owner = r

\* One step keeps LostInv, whether or not turns fit the TTL.
LEMMA LostInvStep ==
  ASSUME TypeOK, LostInv, [Next]_vars
  PROVE  LostInv'
<1> USE DEF LostInv, HoldsTurn, Goto, End, Stage, Holding, Running
<1>1. ASSUME NEW r \in Request, Restore(r) PROVE LostInv'
  BY <1>1 DEF Restore, TypeOK
<1>2. ASSUME NEW r \in Request, Crash(r) PROVE LostInv'
  BY <1>2 DEF Crash, TypeOK
<1>3. CASE Tick
  <2>1. ASSUME NEW q \in Request, HoldsTurn(q)'
        PROVE  q \in lost' \/ (lock' > 0 /\ owner' = q)
    <3>1. HoldsTurn(q) /\ lost \subseteq lost'
      BY <1>3, <2>1 DEF Tick
    <3>2. CASE q \in lost
      BY <3>1, <3>2
    <3>3. CASE owner = q /\ lock > 1
      BY <1>3, <3>3, TtlAssumption DEF Tick, TypeOK
    <3>4. CASE owner = q /\ lock = 1
      BY <1>3, <3>1, <3>4 DEF Tick, Owning
    <3>5. lock \in Nat
      BY TtlAssumption DEF TypeOK
    <3>6. QED
      BY <3>1, <3>2, <3>3, <3>4, <3>5
  <2>2. QED
    BY <2>1
<1>4. ASSUME NEW r \in Request, AcquireTurnLock(r) PROVE LostInv'
  \* The compare-and-set wins only on a free lock: every holder has lost its own.
  <2>1. \A q \in Request : HoldsTurn(q) => q \in lost
    BY <1>4 DEF AcquireTurnLock
  <2>2. lock' = Ttl /\ owner' = r /\ Ttl > 0 /\ lost' = lost
    BY <1>4, TtlAssumption DEF AcquireTurnLock
  <2>3. \A q \in Request : q # r => pc'[q] = pc[q]
    BY <1>4 DEF AcquireTurnLock, TypeOK
  <2>4. QED
    BY <2>1, <2>2, <2>3
<1>5. ASSUME NEW r \in Request, Release(r) PROVE LostInv'
  \* The releasing request holds no turn any more; whoever's lock it frees has
  \* lost it.
  <2>1. ~HoldsTurn(r)' /\ \A q \in Request : q # r => pc'[q] = pc[q]
    BY <1>5 DEF Release, TypeOK
  <2>2. CASE UNCHANGED <<lock, owner, lost>>
    BY <2>1, <2>2
  <2>3. CASE lost' = lost \cup (Owning \ {r})
    BY <2>1, <2>3 DEF Owning
  <2>4. QED
    BY <1>5, <2>2, <2>3 DEF Release
<1>6. ASSUME NEW r \in Request, SessionBusy(r) PROVE LostInv'
  BY <1>6 DEF SessionBusy, TypeOK
<1>7. ASSUME NEW r \in Request,
             \/ ResolveForTenant(r) \/ PreflightAnswers(r) \/ PreflightThrows(r)
             \/ ClaimWon(r) \/ ClaimLost(r) \/ AppendUser(r) \/ ModelReplies(r)
             \/ ModelCallsTool(r) \/ ToolReturns(r) \/ TurnStops(r) \/ RunThrows(r)
      PROVE LostInv'
  <2>1. HoldsTurn(r) /\ UNCHANGED <<lock, owner, lost>>
    BY <1>7 DEF ResolveForTenant, PreflightAnswers, PreflightThrows, ClaimWon,
                ClaimLost, AppendUser, ModelReplies, ModelCallsTool,
                ToolReturns, TurnStops, RunThrows
  <2>2. \A q \in Request : q # r => pc'[q] = pc[q]
    BY <1>7 DEF ResolveForTenant, PreflightAnswers, PreflightThrows, ClaimWon,
                ClaimLost, AppendUser, ModelReplies, ModelCallsTool,
                ToolReturns, TurnStops, RunThrows, TypeOK
  <2>3. QED
    BY <2>1, <2>2
<1>8. CASE UNCHANGED vars
  BY <1>8 DEF vars
<1>9. QED
  BY <1>1, <1>2, <1>3, <1>4, <1>5, <1>6, <1>7, <1>8 DEF Next, Serve

\* LostInv holds in every reachable state.
LEMMA LostInvariant == Spec => []LostInv
<1>1. Init => LostInv
  BY DEF Init, LostInv, HoldsTurn, Holding, Running
<1>2. TypeOK /\ LostInv /\ [Next]_vars => LostInv'
  BY LostInvStep
<1>3. QED
  BY <1>1, <1>2, TypeCorrect, PTL DEF Spec

\* As long as locks are not outlived nobody loses one: the clock does not take
\* it, and who releases a lock is its owner.
LEMMA NoneLostStep ==
  ASSUME TurnsFitTtl, LostInv, lost = {}, [Next]_vars
  PROVE  lost' = {}
<1>1. ASSUME NEW r \in Request, Release(r) PROVE lost' = {}
  <2>1. owner = r
    BY <1>1 DEF Release, LostInv, HoldsTurn, Holding
  <2>2. Owning \ {r} = {}
    BY <2>1 DEF Owning
  <2>3. QED
    BY <1>1, <2>2 DEF Release
<1>2. CASE Tick
  BY <1>2 DEF Tick
<1>3. CASE UNCHANGED lost
  BY <1>3
<1>4. QED
  BY <1>1, <1>2, <1>3
     DEF Next, Serve, vars, Restore, Crash, AcquireTurnLock, SessionBusy,
         ResolveForTenant, PreflightAnswers, PreflightThrows, ClaimWon,
         ClaimLost, AppendUser, ModelReplies, ModelCallsTool, ToolReturns,
         TurnStops, RunThrows

\* LockInv holds in every reachable state.
LEMMA LockInvariant == ASSUME TurnsFitTtl PROVE Spec => []LockInv
<1>1. Init => lost = {}
  BY DEF Init
<1>2. LostInv /\ lost = {} /\ [Next]_vars => (lost = {})'
  BY NoneLostStep
<1>3. Spec => [](lost = {})
  BY <1>1, <1>2, LostInvariant, PTL DEF Spec
<1>4. LostInv /\ lost = {} => LockInv
  BY DEF LostInv, LockInv
<1>5. QED
  BY <1>3, <1>4, LostInvariant, PTL

\* Two requests never hold a turn of the session at the same time, whatever
\* crashes, failed releases and exits without a release came before.
THEOREM Exclusion == ASSUME TurnsFitTtl PROVE Spec => []TurnExclusion
<1>1. LockInv => TurnExclusion
  BY DEF LockInv, TurnExclusion
<1>2. QED
  BY <1>1, LockInvariant, PTL

\* A step that frees a lock is its running out or the release of a request
\* that took it or has lost its own.
LEMMA FreeStep ==
  ASSUME TypeOK, LostInv, [Next]_vars, lock > 0, lock' = 0
  PROVE  \/ lock = 1 /\ UNCHANGED pc
         \/ \E r \in Request :
              /\ pc[r] = "releasing" /\ pc'[r] = "done"
              /\ owner = r \/ r \in lost
<1>1. ASSUME NEW r \in Request, Release(r)
      PROVE  /\ pc[r] = "releasing" /\ pc'[r] = "done"
             /\ owner = r \/ r \in lost
  BY <1>1 DEF Release, End, Goto, TypeOK, LostInv, HoldsTurn, Holding
<1>2. ASSUME NEW r \in Request, AcquireTurnLock(r) PROVE FALSE
  BY <1>2, TtlAssumption DEF AcquireTurnLock
<1>3. CASE Tick
  BY <1>3, TtlAssumption DEF Tick, TypeOK
<1>4. CASE UNCHANGED lock
  BY <1>4
<1>5. QED
  BY <1>1, <1>2, <1>3, <1>4
     DEF Next, Serve, vars, Restore, Crash, SessionBusy, ResolveForTenant,
         PreflightAnswers, PreflightThrows, ClaimWon, ClaimLost, AppendUser,
         ModelReplies, ModelCallsTool, ToolReturns, TurnStops, RunThrows

\* A lock that does not run out is freed by the request that took it, or by one
\* that lost its own before: by its TTL, or by the release of another such.
\* Turns may outlive their locks here, and releaseTurnLock names no owner.
THEOREM LocksAreFreedByHolders == Spec => OnlyHolderFrees
<1>1. TypeOK /\ LostInv /\ [Next]_vars =>
        [lock > 0 /\ lock' = 0 =>
           \/ lock = 1 /\ UNCHANGED pc
           \/ \E r \in Request :
                /\ pc[r] = "releasing" /\ pc'[r] = "done"
                /\ owner = r \/ r \in lost]_vars
  BY FreeStep
<1>2. QED
  BY <1>1, TypeCorrect, LostInvariant, PTL DEF Spec, OnlyHolderFrees

----------------------------------------------------------------------------
\* The history is made of whole turns

\* The stages of a request that may have entries in the history.
Spoke == {"thinking", "tools", "releasing", "done", "crashed"}

\* r appends one entry of kind k and goes on with its turn, alone.
WriteStep(r, k) ==
  /\ pc[r] \in Running
  /\ Write(r, k)
  /\ pc'[r] \in Spoke
  /\ \A q \in Request : q # r => pc'[q] = pc[q]

\* Nothing is appended; a request that spoke stays one that may have spoken,
\* and only a request that just restored the session becomes a holder.
QuietStep ==
  /\ log' = log
  /\ \A r \in Request : pc[r] \in Spoke => pc'[r] \in Spoke
  /\ \A r \in Request : HoldsTurn(r)' => HoldsTurn(r) \/ pc[r] = "restored"

\* Every step is one or the other.
LEMMA StepIsWriteOrQuiet ==
  ASSUME TypeOK, [Next]_vars
  PROVE  QuietStep \/ \E r \in Request, k \in Kind : WriteStep(r, k)
<1> USE DEF QuietStep, WriteStep, HoldsTurn, Spoke, Goto, End, Holding, Running
<1>1. ASSUME NEW r \in Request, Restore(r) PROVE QuietStep
  BY <1>1 DEF Restore, TypeOK
<1>2. ASSUME NEW r \in Request, Crash(r) PROVE QuietStep
  BY <1>2 DEF Crash, TypeOK
<1>3. CASE Tick
  BY <1>3 DEF Tick
<1>4. ASSUME NEW r \in Request, AcquireTurnLock(r) \/ SessionBusy(r)
      PROVE QuietStep
  BY <1>4 DEF AcquireTurnLock, SessionBusy, TypeOK
<1>5. ASSUME NEW r \in Request, ResolveForTenant(r) PROVE QuietStep
  BY <1>5 DEF ResolveForTenant, TypeOK
<1>6. ASSUME NEW r \in Request, PreflightAnswers(r) \/ PreflightThrows(r)
      PROVE QuietStep
  BY <1>6 DEF PreflightAnswers, PreflightThrows, TypeOK
<1>7. ASSUME NEW r \in Request, ClaimWon(r) \/ ClaimLost(r) PROVE QuietStep
  BY <1>7 DEF ClaimWon, ClaimLost, TypeOK
<1>8. ASSUME NEW r \in Request, TurnStops(r) \/ RunThrows(r) PROVE QuietStep
  BY <1>8 DEF TurnStops, RunThrows, TypeOK
<1>9. ASSUME NEW r \in Request, Release(r) PROVE QuietStep
  BY <1>9 DEF Release, TypeOK
<1>10. ASSUME NEW r \in Request, AppendUser(r) PROVE WriteStep(r, "user")
  BY <1>10 DEF AppendUser, TypeOK
<1>11. ASSUME NEW r \in Request, ModelReplies(r) PROVE WriteStep(r, "text")
  BY <1>11 DEF ModelReplies, TypeOK
<1>12. ASSUME NEW r \in Request, ModelCallsTool(r) PROVE WriteStep(r, "tool_use")
  BY <1>12 DEF ModelCallsTool, TypeOK
<1>13. ASSUME NEW r \in Request, ToolReturns(r) PROVE WriteStep(r, "tool_result")
  BY <1>13 DEF ToolReturns, TypeOK
<1>14. CASE UNCHANGED vars
  BY <1>14 DEF vars
<1>15. Kind = {"user", "tool_use", "tool_result", "text"}
  BY DEF Kind
<1> HIDE DEF QuietStep, WriteStep
<1>16. QED
  BY <1>1, <1>2, <1>3, <1>4, <1>5, <1>6, <1>7, <1>8, <1>9, <1>10, <1>11,
     <1>12, <1>13, <1>14, <1>15 DEF Next, Serve

\* Only a request that ran has entries, and those of a holder come last.
TailInv ==
  /\ \A i \in DOMAIN log : pc[log[i].req] \in Spoke
  /\ \A r \in Request : HoldsTurn(r) =>
       \A i, j \in DOMAIN log : i < j /\ log[i].req = r => log[j].req = r

\* One step keeps the tail and contiguity: a writer's entries come last, so the
\* new one continues its turn, and no other holder has a tail to break.
LEMMA TailStep ==
  ASSUME TypeOK, LockInv, TailInv, TurnsContiguous, [Next]_vars
  PROVE  TailInv' /\ TurnsContiguous'
<1>1. \A i \in DOMAIN log : log[i].req \in Request
  <2>1. log \in Seq(Entry)
    BY DEF TypeOK, Entry
  <2>2. \A i \in DOMAIN log : log[i] \in Entry
    BY <2>1
  <2>3. QED
    BY <2>2 DEF Entry
<1>2. CASE QuietStep
  <2>1. \A i \in DOMAIN log : pc'[log[i].req] \in Spoke
    BY <1>1, <1>2 DEF QuietStep, TailInv
  <2>2. ASSUME NEW r \in Request, HoldsTurn(r)',
               NEW i \in DOMAIN log, NEW j \in DOMAIN log,
               i < j, log[i].req = r
        PROVE  log[j].req = r
    <3>1. pc[r] # "restored"
      BY <2>2 DEF TailInv, Spoke
    <3>2. HoldsTurn(r)
      BY <1>2, <2>2, <3>1 DEF QuietStep
    <3>3. QED
      BY <2>2, <3>2 DEF TailInv
  <2>3. QED
    BY <1>2, <2>1, <2>2 DEF QuietStep, TailInv, TurnsContiguous
<1>3. ASSUME NEW r \in Request, NEW k \in Kind, WriteStep(r, k)
      PROVE  TailInv' /\ TurnsContiguous'
  <2> DEFINE n == Len(log) + 1
  <2>1. /\ DOMAIN log = 1..Len(log) /\ Len(log) \in Nat /\ DOMAIN log' = 1..n
        /\ \A i \in DOMAIN log : log'[i] = log[i]
        /\ log'[n].req = r
    <3>1. Write(r, k)
      BY <1>3 DEF WriteStep
    <3>2. log'[n] = [req |-> r, kind |-> k]
      BY <3>1, WriteAppends
    <3>3. QED
      BY <3>1, <3>2, WriteAppends
  <2>2. HoldsTurn(r)
    BY <1>3 DEF WriteStep, HoldsTurn, Holding
  <2>3. \A q \in Request : HoldsTurn(q)' => q = r
    BY <1>3, <2>2 DEF WriteStep, LockInv, HoldsTurn
  <2>4. \A i, j \in DOMAIN log : i < j /\ log[i].req = r => log[j].req = r
    BY <2>2 DEF TailInv
  <2>5. \A i, j \in DOMAIN log' : i < j /\ log'[i].req = r => log'[j].req = r
    BY <2>1, <2>4
  <2>6. \A i \in DOMAIN log' : pc'[log'[i].req] \in Spoke
    BY <1>1, <1>3, <2>1 DEF WriteStep, TailInv
  <2>7. TailInv'
    BY <2>3, <2>5, <2>6 DEF TailInv
  <2>8. ASSUME NEW i \in DOMAIN log', NEW j \in DOMAIN log', NEW l \in DOMAIN log',
               i < j, j < l, log'[i].req = log'[l].req
        PROVE  log'[j].req = log'[i].req
    <3>1. CASE l = n
      BY <2>1, <2>5, <2>8, <3>1
    <3>2. CASE l # n
      <4>1. i \in DOMAIN log /\ j \in DOMAIN log /\ l \in DOMAIN log
        BY <2>1, <2>8, <3>2
      <4>2. QED
        BY <2>1, <2>8, <4>1 DEF TurnsContiguous
    <3>3. QED
      BY <3>1, <3>2
  <2>9. QED
    BY <2>7, <2>8 DEF TurnsContiguous
<1>4. QED
  BY <1>2, <1>3, StepIsWriteOrQuiet

\* A holder's entries come last and turns are contiguous, in every reachable
\* state.
LEMMA TailInvariant == ASSUME TurnsFitTtl PROVE Spec => [](TailInv /\ TurnsContiguous)
<1>1. Init => TailInv /\ TurnsContiguous
  BY DEF Init, TailInv, TurnsContiguous
<1>2. TypeOK /\ LockInv /\ TailInv /\ TurnsContiguous /\ [Next]_vars
        => TailInv' /\ TurnsContiguous'
  BY TailStep
<1>3. QED
  BY <1>1, <1>2, TypeCorrect, LockInvariant, PTL DEF Spec

\* The entries of one turn always stand next to each other: no interleaving of
\* requests separates a tool_use from its tool_result.
THEOREM Contiguity == ASSUME TurnsFitTtl PROVE Spec => []TurnsContiguous
<1>1. QED
  BY TailInvariant, PTL

\* A running turn misses nothing that is still being written: whatever it has
\* not restored is the work of requests that are over, before its own first
\* entry.  Another request with entries would be a second holder if it were
\* not over, and an entry of it behind one of r would break r's tail.
THEOREM RunningTurnsAreCurrent ==
  ASSUME TurnsFitTtl
  PROVE  Spec => []HistoryIsCurrent
<1>1. TypeOK /\ LockInv /\ TailInv => HistoryIsCurrent
  <2> SUFFICES ASSUME TypeOK, LockInv, TailInv,
                      NEW r \in Request, NEW i \in DOMAIN log,
                      pc[r] \in Running, log[i].req # r
               PROVE  /\ pc[log[i].req] \in {"busy", "done", "crashed"}
                      /\ \A j \in DOMAIN log : log[j].req = r => i < j
    BY DEF HistoryIsCurrent
  <2>1. HoldsTurn(r)
    BY DEF HoldsTurn, Holding
  <2>2. log[i].req \in Request
    <3>1. log \in Seq(Entry)
      BY DEF TypeOK, Entry
    <3>2. log[i] \in Entry
      BY <3>1
    <3>3. QED
      BY <3>2 DEF Entry
  <2>3. ~HoldsTurn(log[i].req)
    BY <2>1, <2>2 DEF LockInv
  <2>4. pc[log[i].req] \in {"done", "crashed"}
    BY <2>2, <2>3 DEF TailInv, Spoke, HoldsTurn, Holding, Running
  <2>5. ASSUME NEW j \in DOMAIN log, log[j].req = r PROVE i < j
    <3>1. i \in Nat /\ j \in Nat
      BY DEF TypeOK
    <3>2. i # j /\ ~(j < i)
      BY <2>1, <2>5 DEF TailInv
    <3>3. QED
      BY <3>1, <3>2
  <2>6. QED
    BY <2>4, <2>5
<1>2. QED
  BY <1>1, TypeCorrect, LockInvariant, TailInvariant, PTL

----------------------------------------------------------------------------
\* Tools are answered

\* One step keeps ToolUseAnswered.  Another turn cannot write while a tool is
\* running, so the next entry after a tool_use is its own tool_result.
LEMMA ToolStep ==
  ASSUME TypeOK, LockInv, ToolUseAnswered, [Next]_vars
  PROVE  ToolUseAnswered'
<1>1. \A i \in DOMAIN log : log[i].req \in Request
  <2>1. log \in Seq(Entry)
    BY DEF TypeOK, Entry
  <2>2. \A i \in DOMAIN log : log[i] \in Entry
    BY <2>1
  <2>3. QED
    BY <2>2 DEF Entry
<1>2. ASSUME log' = log,
             \A r \in Request : \/ pc[r] = "tools" => pc'[r] = "tools"
                                \/ r \in threw' \/ pc'[r] = "crashed",
             threw \subseteq threw',
             \A r \in Request : pc[r] = "crashed" => pc'[r] = "crashed"
      PROVE  ToolUseAnswered'
  BY <1>1, <1>2 DEF ToolUseAnswered
<1>3. ASSUME NEW r \in Request, NEW k \in Kind, WriteStep(r, k), threw' = threw,
             k = "tool_use" => pc'[r] = "tools",
             pc[r] = "tools" => k = "tool_result"
      PROVE  ToolUseAnswered'
  <2> DEFINE n == Len(log) + 1
  <2>1. Write(r, k)
    BY <1>3 DEF WriteStep
  <2>2. /\ DOMAIN log = 1..Len(log) /\ Len(log) \in Nat /\ DOMAIN log' = 1..n
        /\ \A i \in DOMAIN log : log'[i] = log[i]
    BY <2>1, WriteAppends
  <2>3. log'[n] = [req |-> r, kind |-> k] /\ Len(log') = n
    BY <2>1, WriteAppends DEF Write, TypeOK
  <2> SUFFICES ASSUME NEW i \in DOMAIN log', log'[i].kind = "tool_use"
               PROVE  \/ i < Len(log') /\ log'[i + 1] = [req |-> log'[i].req, kind |-> "tool_result"]
                      \/ i = Len(log') /\ pc'[log'[i].req] = "tools"
                      \/ log'[i].req \in threw'
                      \/ pc'[log'[i].req] = "crashed"
    BY DEF ToolUseAnswered
  <2>4. CASE i = n
    BY <1>3, <2>3, <2>4
  <2>5. CASE i # n
    <3> DEFINE q == log[i].req
    <3>1. i \in DOMAIN log /\ log'[i] = log[i] /\ q \in Request
      BY <1>1, <2>2, <2>5
    <3>2. CASE i < Len(log) /\ log[i + 1] = [req |-> q, kind |-> "tool_result"]
      <4>1. log'[i + 1] = log[i + 1]
        BY <2>2, <3>1, <3>2
      <4>2. QED
        BY <2>2, <2>3, <3>1, <3>2, <4>1
    <3>3. CASE i = Len(log) /\ pc[q] = "tools"
      <4>1. HoldsTurn(q) /\ HoldsTurn(r)
        BY <1>3, <3>3 DEF HoldsTurn, Holding, Running, WriteStep
      <4>2. q = r
        BY <3>1, <4>1 DEF LockInv
      <4>3. k = "tool_result"
        BY <1>3, <3>3, <4>2
      <4>4. i + 1 = n /\ i < Len(log')
        BY <2>2, <2>3, <3>3
      <4>5. log'[i + 1] = [req |-> r, kind |-> "tool_result"]
        BY <2>3, <4>3, <4>4
      <4>6. log'[i].req = r
        BY <3>1, <4>2
      <4>7. QED
        BY <4>4, <4>5, <4>6
    <3>4. CASE q \in threw
      BY <1>3, <3>1, <3>4
    <3>5. CASE pc[q] = "crashed"
      BY <1>3, <3>1, <3>5 DEF WriteStep, Running
    <3>6. QED
      BY <3>1, <3>2, <3>3, <3>4, <3>5 DEF ToolUseAnswered
  <2>6. QED
    BY <2>4, <2>5
<1> USE DEF Goto, End, Running, Holding
<1>4. ASSUME NEW r \in Request, Restore(r) PROVE ToolUseAnswered'
  BY <1>2, <1>4 DEF Restore, TypeOK
<1>5. ASSUME NEW r \in Request, Crash(r) PROVE ToolUseAnswered'
  BY <1>2, <1>5 DEF Crash, TypeOK
<1>6. CASE Tick
  BY <1>2, <1>6 DEF Tick
<1>7. ASSUME NEW r \in Request, AcquireTurnLock(r) \/ SessionBusy(r)
      PROVE ToolUseAnswered'
  BY <1>2, <1>7 DEF AcquireTurnLock, SessionBusy, TypeOK
<1>8. ASSUME NEW r \in Request, ResolveForTenant(r) PROVE ToolUseAnswered'
  BY <1>2, <1>8 DEF ResolveForTenant, TypeOK
<1>9. ASSUME NEW r \in Request, PreflightAnswers(r) \/ PreflightThrows(r)
      PROVE ToolUseAnswered'
  BY <1>2, <1>9 DEF PreflightAnswers, PreflightThrows, TypeOK
<1>10. ASSUME NEW r \in Request, ClaimWon(r) \/ ClaimLost(r)
       PROVE ToolUseAnswered'
  BY <1>2, <1>10 DEF ClaimWon, ClaimLost, TypeOK
<1>11. ASSUME NEW r \in Request, TurnStops(r) \/ RunThrows(r)
       PROVE ToolUseAnswered'
  BY <1>2, <1>11 DEF TurnStops, RunThrows, TypeOK
<1>12. ASSUME NEW r \in Request, Release(r) PROVE ToolUseAnswered'
  BY <1>2, <1>12 DEF Release, TypeOK
<1>13. ASSUME NEW r \in Request, AppendUser(r) PROVE ToolUseAnswered'
  <2>1. WriteStep(r, "user") /\ threw' = threw /\ pc[r] = "running"
    BY <1>13 DEF AppendUser, WriteStep, Spoke, TypeOK
  <2>2. QED
    BY <1>3, <2>1 DEF Kind
<1>14. ASSUME NEW r \in Request, ModelReplies(r) PROVE ToolUseAnswered'
  <2>1. WriteStep(r, "text") /\ threw' = threw /\ pc[r] = "thinking"
    BY <1>14 DEF ModelReplies, WriteStep, Spoke, TypeOK
  <2>2. QED
    BY <1>3, <2>1 DEF Kind
<1>15. ASSUME NEW r \in Request, ModelCallsTool(r) PROVE ToolUseAnswered'
  <2>1. /\ WriteStep(r, "tool_use") /\ threw' = threw /\ pc[r] = "thinking"
        /\ pc'[r] = "tools"
    BY <1>15 DEF ModelCallsTool, WriteStep, Spoke, TypeOK
  <2>2. QED
    BY <1>3, <2>1 DEF Kind
<1>16. ASSUME NEW r \in Request, ToolReturns(r) PROVE ToolUseAnswered'
  <2>1. WriteStep(r, "tool_result") /\ threw' = threw
    BY <1>16 DEF ToolReturns, WriteStep, Spoke, TypeOK
  <2>2. QED
    BY <1>3, <2>1 DEF Kind
<1>17. CASE UNCHANGED vars
  BY <1>2, <1>17 DEF vars
<1>18. QED
  BY <1>4, <1>5, <1>6, <1>7, <1>8, <1>9, <1>10, <1>11, <1>12, <1>13, <1>14,
     <1>15, <1>16, <1>17 DEF Next, Serve

\* Every tool_use of a turn that neither threw nor crashed has its tool_result
\* right behind it, in the order the model's API requires.
THEOREM ToolsAnswered == ASSUME TurnsFitTtl PROVE Spec => []ToolUseAnswered
<1>1. Init => ToolUseAnswered
  BY DEF Init, ToolUseAnswered
<1>2. TypeOK /\ LockInv /\ ToolUseAnswered /\ [Next]_vars => ToolUseAnswered'
  BY ToolStep
<1>3. QED
  BY <1>1, <1>2, TypeCorrect, LockInvariant, PTL DEF Spec

----------------------------------------------------------------------------
\* SessionTurn implements TurnLog

\* The open turn of TurnLog is the holder, if there is one.
OpenIsHolder ==
  /\ \A r \in Request : HoldsTurn(r) <=> OpenTurn = r
  /\ (\A r \in Request : ~HoldsTurn(r)) => OpenTurn = NoRequest

\* LockInv makes the mapping of the open turn well defined.
LEMMA OpenTurnIsHolder == LockInv => OpenIsHolder
<1> SUFFICES ASSUME LockInv PROVE OpenIsHolder
  OBVIOUS
<1>1. ASSUME NEW r \in Request, HoldsTurn(r) PROVE OpenTurn = r
  <2>1. OpenTurn = CHOOSE q \in Request : HoldsTurn(q)
    BY <1>1 DEF OpenTurn
  <2>2. OpenTurn \in Request /\ HoldsTurn(OpenTurn)
    BY <1>1, <2>1
  <2>3. QED
    BY <1>1, <2>2 DEF LockInv
<1>2. ASSUME \A r \in Request : ~HoldsTurn(r) PROVE OpenTurn = NoRequest
  BY <1>2 DEF OpenTurn
<1>3. ASSUME NEW r \in Request, OpenTurn = r PROVE HoldsTurn(r)
  BY <1>1, <1>2, <1>3, RequestAssumption
<1>4. QED
  BY <1>1, <1>2, <1>3 DEF OpenIsHolder

\* What one step does to the mapped variables, by its actor r: a step inside a
\* turn (perhaps with an entry), the opening, the closing and the refusal.
LEMMA StepKinds ==
  ASSUME TypeOK, LockInv, [Next]_vars
  PROVE  \/ /\ log' = log /\ Over' = Over
            /\ \A q \in Request : HoldsTurn(q)' <=> HoldsTurn(q)
         \/ \E r \in Request :
              \/ /\ \E k \in Kind : Write(r, k)
                 /\ Over' = Over /\ HoldsTurn(r)
                 /\ \A q \in Request : HoldsTurn(q)' <=> HoldsTurn(q)
              \/ /\ log' = log /\ Over' = Over
                 /\ \A q \in Request : ~HoldsTurn(q)
                 /\ r \notin Over /\ HoldsTurn(r)'
              \/ /\ log' = log /\ Over' = Over \cup {r}
                 /\ HoldsTurn(r) /\ \A q \in Request : ~HoldsTurn(q)'
              \/ /\ log' = log /\ r \notin Over /\ Over' = Over \cup {r}
                 /\ ~HoldsTurn(r)
                 /\ \A q \in Request : HoldsTurn(q)' <=> HoldsTurn(q)
<1> USE DEF HoldsTurn, Over, Goto, End, Holding, Running, Stage, TypeOK
<1>1. ASSUME NEW r \in Request, Restore(r)
      PROVE  /\ log' = log /\ Over' = Over
             /\ \A q \in Request : HoldsTurn(q)' <=> HoldsTurn(q)
  BY <1>1 DEF Restore
<1>2. ASSUME NEW r \in Request, Crash(r)
      PROVE  \/ /\ log' = log /\ Over' = Over \cup {r}
                /\ HoldsTurn(r) /\ \A q \in Request : ~HoldsTurn(q)'
             \/ /\ log' = log /\ r \notin Over /\ Over' = Over \cup {r}
                /\ ~HoldsTurn(r)
                /\ \A q \in Request : HoldsTurn(q)' <=> HoldsTurn(q)
  <2>1. CASE HoldsTurn(r)
    BY <1>2, <2>1 DEF Crash, LockInv
  <2>2. CASE pc[r] = "restored"
    BY <1>2, <2>2 DEF Crash
  <2>3. QED
    BY <1>2, <2>1, <2>2 DEF Crash
<1>3. ASSUME NEW r \in Request, AcquireTurnLock(r)
      PROVE  /\ log' = log /\ Over' = Over
             /\ \A q \in Request : ~HoldsTurn(q)
             /\ r \notin Over /\ HoldsTurn(r)'
  BY <1>3 DEF AcquireTurnLock, LockInv
<1>4. ASSUME NEW r \in Request, SessionBusy(r)
      PROVE  /\ log' = log /\ r \notin Over /\ Over' = Over \cup {r}
             /\ ~HoldsTurn(r)
             /\ \A q \in Request : HoldsTurn(q)' <=> HoldsTurn(q)
  BY <1>4 DEF SessionBusy
<1>5. ASSUME NEW r \in Request, ResolveForTenant(r) \/ PreflightAnswers(r) \/ ClaimWon(r)
      PROVE  /\ log' = log /\ Over' = Over
             /\ \A q \in Request : HoldsTurn(q)' <=> HoldsTurn(q)
  BY <1>5 DEF ResolveForTenant, PreflightAnswers, ClaimWon
<1>6. ASSUME NEW r \in Request, TurnStops(r) \/ RunThrows(r)
      PROVE  /\ log' = log /\ Over' = Over
             /\ \A q \in Request : HoldsTurn(q)' <=> HoldsTurn(q)
  BY <1>6 DEF TurnStops, RunThrows
<1>7. ASSUME NEW r \in Request, PreflightThrows(r) \/ ClaimLost(r) \/ Release(r)
      PROVE  /\ log' = log /\ Over' = Over \cup {r}
             /\ HoldsTurn(r) /\ \A q \in Request : ~HoldsTurn(q)'
  BY <1>7 DEF PreflightThrows, ClaimLost, Release, LockInv
<1>8. ASSUME NEW r \in Request,
             \/ AppendUser(r) \/ ModelReplies(r)
             \/ ModelCallsTool(r) \/ ToolReturns(r)
      PROVE  /\ \E k \in Kind : Write(r, k)
             /\ Over' = Over /\ HoldsTurn(r)
             /\ \A q \in Request : HoldsTurn(q)' <=> HoldsTurn(q)
  <2>1. \E k \in Kind : Write(r, k)
    BY <1>8 DEF AppendUser, ModelReplies, ModelCallsTool, ToolReturns, Kind
  <2>2. QED
    BY <1>8, <2>1 DEF AppendUser, ModelReplies, ModelCallsTool, ToolReturns
<1>9. ASSUME Tick \/ UNCHANGED vars
      PROVE  /\ log' = log /\ Over' = Over
             /\ \A q \in Request : HoldsTurn(q)' <=> HoldsTurn(q)
  BY <1>9 DEF Tick, vars
<1> HIDE DEF HoldsTurn, Over, TypeOK
<1>10. QED
  BY <1>1, <1>2, <1>3, <1>4, <1>5, <1>6, <1>7, <1>8, <1>9 DEF Next, Serve

\* Every step of SessionTurn is a step of TurnLog or leaves it alone.
LEMMA StepRefines ==
  ASSUME TypeOK, LockInv, LockInv', OpenIsHolder, OpenIsHolder', [Next]_vars
  PROVE  [Turns!TNext]_(Turns!tvars)
<1>1. ASSUME log' = log, Over' = Over,
             \A q \in Request : HoldsTurn(q)' <=> HoldsTurn(q)
      PROVE  UNCHANGED Turns!tvars
  BY <1>1 DEF Turns!tvars, OpenIsHolder
<1>2. ASSUME NEW r \in Request, NEW k \in Kind, Write(r, k), Over' = Over,
             HoldsTurn(r), \A q \in Request : HoldsTurn(q)' <=> HoldsTurn(q)
      PROVE  Turns!Say(r, k)
  BY <1>2 DEF Turns!Say, Write, OpenIsHolder
<1>3. ASSUME NEW r \in Request, log' = log, Over' = Over,
             \A q \in Request : ~HoldsTurn(q), r \notin Over, HoldsTurn(r)'
      PROVE  Turns!Open(r)
  BY <1>3 DEF Turns!Open, OpenIsHolder
<1>4. ASSUME NEW r \in Request, log' = log, Over' = Over \cup {r},
             HoldsTurn(r), \A q \in Request : ~HoldsTurn(q)'
      PROVE  Turns!Close(r)
  BY <1>4 DEF Turns!Close, OpenIsHolder
<1>5. ASSUME NEW r \in Request, log' = log, r \notin Over, Over' = Over \cup {r},
             ~HoldsTurn(r), \A q \in Request : HoldsTurn(q)' <=> HoldsTurn(q)
      PROVE  Turns!Refuse(r)
  BY <1>5 DEF Turns!Refuse, OpenIsHolder
<1>6. QED
  BY <1>1, <1>2, <1>3, <1>4, <1>5, StepKinds DEF Turns!TNext

\* The session is a sequence of whole turns: SessionTurn implements TurnLog.
THEOREM TurnsAreSerialised == ASSUME TurnsFitTtl PROVE Spec => Serialised
<1>1. Init => Turns!TInit
  BY DEF Init, Turns!TInit, OpenTurn, Over, HoldsTurn, Holding, Running
<1>2. TypeOK /\ LockInv /\ LockInv' /\ OpenIsHolder /\ OpenIsHolder' /\ [Next]_vars
        => [Turns!TNext]_(Turns!tvars)
  BY StepRefines
<1>3. QED
  BY <1>1, <1>2, TypeCorrect, LockInvariant, OpenTurnIsHolder, PTL
  DEF Spec, Serialised, Turns!TSpec

=============================================================================
