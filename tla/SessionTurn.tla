-------------------------- MODULE SessionTurn --------------------------
(***************************************************************************)
(* One session row and the HTTP requests that want a turn on it.           *)
(*                                                                         *)
(* A request restores the session, takes the row's turn lock by compare-   *)
(* and-set, passes the checks of prepareTurn, runs AgentLoop.run and gives *)
(* the lock back.  The lock is a column with a time to live and no owner:  *)
(* `lock' counts the ticks for which the row still refuses a               *)
(* compare-and-set, and 0 stands for NULL as well as for a time that has   *)
(* passed, which acquireTurnLock treats alike.  Sessions share nothing, so *)
(* one row is enough.  A request's steps are separated where the code      *)
(* awaits; any request may be lost with its process at any of them.        *)
(*                                                                         *)
(* A Mutant_ operator is the action below it with a plausible bug.         *)
(***************************************************************************)
EXTENDS Naturals, Sequences, FiniteSets

CONSTANTS
  Request,      \* the requests that name this session
  NoRequest,    \* not a request
  Ttl,          \* lock ticks: DEFAULT_TURN_LOCK_TTL_MS
  MaxTurns,     \* model calls a turn may make: config.maxTurns
  TurnsFitTtl   \* TRUE: no turn is still running when its lock expires

ASSUME RequestAssumption == NoRequest \notin Request
ASSUME TtlAssumption == Ttl \in Nat \ {0}
ASSUME MaxTurnsAssumption == MaxTurns \in Nat \ {0}
ASSUME FitAssumption == TurnsFitTtl \in BOOLEAN

VARIABLES
  lock,         \* ticks until turn_locked_until has passed; 0: free
  log,          \* session_entries in seq order, tool_call and metadata left out
  pc,           \* where each request is
  view,         \* how many entries its Session object restored; 0 without one
  owner,        \* history: whose compare-and-set set the live lock
  lost,         \* history: the requests whose lock went during their turn
  freed,        \* history: the requests that called release()
  threw         \* history: the requests whose run() rejected

vars == <<lock, log, pc, view, owner, lost, freed, threw>>

Kind == {"user", "tool_use", "tool_result", "text"}

\* Holding: from the winning compare-and-set to the end of release().
Running == {"running", "thinking", "tools"}
Holding == {"locked", "resolved", "claiming", "releasing"} \cup Running
Stage == Holding \cup {"idle", "restored", "busy", "done", "crashed"}

HoldsTurn(r) == pc[r] \in Holding

Goto(r, stage) == pc' = [pc EXCEPT ![r] = stage]
Write(r, k) == log' = Append(log, [req |-> r, kind |-> k])

\* The request is over and its Session object is gone.
End(r, stage) == Goto(r, stage) /\ view' = [view EXCEPT ![r] = 0]

\* Model calls of this turn that asked for a tool: the loop counter of run().
ToolTurns(r) ==
  Cardinality({i \in DOMAIN log : log[i] = [req |-> r, kind |-> "tool_use"]})

Init ==
  /\ lock = 0
  /\ log = <<>>
  /\ pc = [r \in Request |-> "idle"]
  /\ view = [r \in Request |-> 0]
  /\ owner = NoRequest
  /\ lost = {}
  /\ freed = {}
  /\ threw = {}

----------------------------------------------------------------------------
\* prepareTurn

\* Session.restore: the entries are read into memory before any lock is taken.
Mutant_RestoreSpeaks(r) ==
  /\ pc[r] = "idle"
  /\ view' = [view EXCEPT ![r] = Len(log)]
  /\ Goto(r, "restored")
  /\ Write(r, "user")
  /\ UNCHANGED <<lock, owner, lost, freed, threw>>

Restore(r) ==
  /\ pc[r] = "idle"
  /\ view' = [view EXCEPT ![r] = Len(log)]
  /\ Goto(r, "restored")
  /\ UNCHANGED <<lock, log, owner, lost, freed, threw>>

\* The compare-and-set of acquireTurnLock wins: no live lock on the row.
Mutant_TakeWithoutCompare(r) ==
  /\ pc[r] = "restored"
  /\ lock' = Ttl
  /\ owner' = r
  /\ Goto(r, "locked")
  /\ UNCHANGED <<log, view, lost, freed, threw>>

AcquireTurnLock(r) ==
  /\ pc[r] = "restored"
  /\ lock = 0
  /\ lock' = Ttl
  /\ owner' = r
  /\ Goto(r, "locked")
  /\ UNCHANGED <<log, view, lost, freed, threw>>

\* It loses: 409 session_busy at once, no queueing.
Mutant_BusyAlsoReleases(r) ==
  /\ pc[r] = "restored"
  /\ lock > 0
  /\ lock' = 0
  /\ owner' = NoRequest
  /\ End(r, "busy")
  /\ UNCHANGED <<log, lost, freed, threw>>

SessionBusy(r) ==
  /\ pc[r] = "restored"
  /\ lock > 0
  /\ End(r, "busy")
  /\ UNCHANGED <<lock, log, owner, lost, freed, threw>>

\* resolveForTenant answers, or throws: then the lock goes back before the 500.
ResolveForTenant(r) ==
  /\ pc[r] = "locked"
  /\ \/ Goto(r, "resolved")
     \/ Goto(r, "releasing")
  /\ UNCHANGED <<lock, log, view, owner, lost, freed, threw>>

\* The quota preflight: the turn goes on; or the tenant is over its quota, and
\* the lock goes back before the 429.  Of the two endpoints only POST /v1/chat
\* claims the idempotency key here, under the lock.
PreflightAnswers(r) ==
  /\ pc[r] = "resolved"
  /\ \/ Goto(r, "running")
     \/ Goto(r, "claiming")
     \/ Goto(r, "releasing")
  /\ UNCHANGED <<lock, log, view, owner, lost, freed, threw>>

\* The quota counter's store fails.  Nothing catches it: 500, still locked.
PreflightThrows(r) ==
  /\ pc[r] = "resolved"
  /\ End(r, "done")
  /\ UNCHANGED <<lock, log, owner, lost, freed, threw>>

\* POST /v1/chat: the key is ours (or there is none), and the stream starts.
ClaimWon(r) ==
  /\ pc[r] = "claiming"
  /\ Goto(r, "running")
  /\ UNCHANGED <<lock, log, view, owner, lost, freed, threw>>

\* The key is taken (409) or claim() throws (500): the handler returns without
\* calling release(), still locked.
ClaimLost(r) ==
  /\ pc[r] = "claiming"
  /\ End(r, "done")
  /\ UNCHANGED <<lock, log, owner, lost, freed, threw>>

----------------------------------------------------------------------------
\* AgentLoop.run, by the entries it appends

\* beforeTurn lets the input pass and the user message is appended.
AppendUser(r) ==
  /\ pc[r] = "running"
  /\ Write(r, "user")
  /\ Goto(r, "thinking")
  /\ UNCHANGED <<lock, view, owner, lost, freed, threw>>

\* The model answers with text: finishTurn appends it.
ModelReplies(r) ==
  /\ pc[r] = "thinking"
  /\ ToolTurns(r) < MaxTurns
  /\ Write(r, "text")
  /\ Goto(r, "releasing")
  /\ UNCHANGED <<lock, view, owner, lost, freed, threw>>

\* The model asks for a tool: the assistant message is appended first.
ModelCallsTool(r) ==
  /\ pc[r] = "thinking"
  /\ ToolTurns(r) < MaxTurns
  /\ Write(r, "tool_use")
  /\ Goto(r, "tools")
  /\ UNCHANGED <<lock, view, owner, lost, freed, threw>>

\* executeToolUses ends: the tool's result is appended, whatever it says.
ToolReturns(r) ==
  /\ pc[r] = "tools"
  /\ Write(r, "tool_result")
  /\ Goto(r, "thinking")
  /\ UNCHANGED <<lock, view, owner, lost, freed, threw>>

\* The turn ends with nothing more to append: blocked by a hook, cancelled by
\* a disconnect, refused by the model's API, or out of model calls.
Mutant_CancelDuringTool(r) ==
  /\ pc[r] \in Running
  /\ Goto(r, "releasing")
  /\ UNCHANGED <<lock, log, view, owner, lost, freed, threw>>

TurnStops(r) ==
  /\ pc[r] \in Running \ {"tools"}
  /\ Goto(r, "releasing")
  /\ UNCHANGED <<lock, log, view, owner, lost, freed, threw>>

\* run() rejects: an append fails, or onConfirm or the tool list throws.
RunThrows(r) ==
  /\ pc[r] \in Running
  /\ Goto(r, "releasing")
  /\ threw' = threw \cup {r}
  /\ UNCHANGED <<lock, log, view, owner, lost, freed>>

----------------------------------------------------------------------------
\* release(), the clock, and lost processes

\* The request whose lock it is, if its turn still needs it.
Owning == {q \in Request : owner = q /\ HoldsTurn(q)}

\* releaseTurnLock sets the column to NULL, whoever holds it; when the query
\* fails the error is swallowed and the request ends all the same.
Release(r) ==
  /\ pc[r] = "releasing"
  /\ \/ lock' = 0 /\ owner' = NoRequest /\ lost' = lost \cup (Owning \ {r})
     \/ UNCHANGED <<lock, owner, lost>>
  /\ freed' = freed \cup {r}
  /\ End(r, "done")
  /\ UNCHANGED <<log, threw>>

\* The process of a request dies.
Crash(r) ==
  /\ pc[r] \in Holding \cup {"restored"}
  /\ End(r, "crashed")
  /\ UNCHANGED <<lock, log, owner, lost, freed, threw>>

\* Time passes, and a lock nobody gave back runs out.
Mutant_TickWithoutExpiry ==
  /\ lock > 1
  /\ lock' = lock - 1
  /\ UNCHANGED <<log, pc, view, owner, lost, freed, threw>>

Tick ==
  /\ lock > 0
  /\ TurnsFitTtl => lock > 1 \/ Owning = {}
  /\ lock' = lock - 1
  /\ \/ lock > 1 /\ UNCHANGED <<owner, lost>>
     \/ lock = 1 /\ owner' = NoRequest /\ lost' = lost \cup Owning
  /\ UNCHANGED <<log, pc, view, freed, threw>>

----------------------------------------------------------------------------

\* Everything the server does for a request once it has arrived.
Serve(r) ==
  \/ AcquireTurnLock(r) \/ SessionBusy(r)
  \/ ResolveForTenant(r)
  \/ PreflightAnswers(r) \/ PreflightThrows(r)
  \/ ClaimWon(r) \/ ClaimLost(r)
  \/ AppendUser(r) \/ ModelReplies(r) \/ ModelCallsTool(r)
  \/ ToolReturns(r) \/ TurnStops(r) \/ RunThrows(r)
  \/ Release(r)

Next ==
  \/ \E r \in Request : Restore(r) \/ Serve(r) \/ Crash(r)
  \/ Tick

Spec == Init /\ [][Next]_vars

\* An awaited call answers or rejects in the end, and time does not stop.
\* Requests need not arrive and processes need not crash.
Fairness ==
  /\ \A r \in Request : WF_vars(Serve(r))
  /\ WF_vars(Tick)

FairSpec == Spec /\ Fairness

----------------------------------------------------------------------------
\* Properties

\* Every variable has its type, and a lock never lasts longer than its TTL.
TypeOK ==
  /\ lock \in 0..Ttl
  /\ log \in Seq([req : Request, kind : Kind])
  /\ pc \in [Request -> Stage]
  /\ view \in [Request -> Nat]
  /\ owner \in Request \cup {NoRequest}
  /\ lost \subseteq Request
  /\ freed \subseteq Request
  /\ threw \subseteq Request

\* A request between its compare-and-set and its release is alone there
\* (acquireTurnLock: one turn of a session at a time).
TurnExclusion ==
  \A r, q \in Request : HoldsTurn(r) /\ HoldsTurn(q) => r = q

\* The entries of one turn stand next to each other in the history: no other
\* request's message separates a tool_use from its tool_result, which is what
\* the comment at prepareTurn's lock says would corrupt the projection.
TurnsContiguous ==
  \A i, j, k \in DOMAIN log :
    i < j /\ j < k /\ log[i].req = log[k].req => log[j].req = log[i].req

\* A tool_use in the history is followed at once by a tool_result of the same
\* turn, unless that turn is still at it, threw, or died with its process.
ToolUseAnswered ==
  \A i \in DOMAIN log :
    log[i].kind = "tool_use" =>
      LET r == log[i].req
      IN \/ i < Len(log) /\ log[i + 1] = [req |-> r, kind |-> "tool_result"]
         \/ i = Len(log) /\ pc[r] = "tools"
         \/ r \in threw
         \/ pc[r] = "crashed"

\* A lock that does not run out is freed by the request that took it, at the
\* end of its turn, or by one whose own lock went before its turn was over.
\* releaseTurnLock carries no owner: a turn that outlived its TTL frees the
\* lock of the turn that took over, which may then do the same to a third.
\* Nobody else frees a lock, neither a request that was refused nor one that
\* ended without release().
OnlyHolderFrees ==
  [][lock > 0 /\ lock' = 0 =>
       \/ lock = 1 /\ UNCHANGED pc
       \/ \E r \in Request :
            /\ pc[r] = "releasing" /\ pc'[r] = "done"
            /\ owner = r \/ r \in lost]_vars

\* A locked session becomes free again, even after a crash, a failed release
\* or an exit path that forgot to release: the TTL is the last resort.
SessionComesBack == lock > 0 ~> lock = 0

\* Every answered request that took the lock called release(), as the comment
\* on prepareTurn's result demands of every exit path.
EveryExitReleases ==
  \A r \in Request : pc[r] = "done" => r \in freed

\* What the in-memory session of a running turn lacks of the history is turns
\* that are over and ran between its restore and its lock: nothing it lacks is
\* still being written, or stands behind an entry of its own (the comment on
\* Session: the cache is kept consistent with the database, which prepareTurn
\* secures only from the lock on).
HistoryIsCurrent ==
  \A r \in Request : \A i \in DOMAIN log :
    pc[r] \in Running /\ i > view[r] /\ log[i].req # r =>
      /\ pc[log[i].req] \in {"busy", "done", "crashed"}
      /\ \A j \in DOMAIN log : log[j].req = r => i < j

----------------------------------------------------------------------------
\* Refinement: the turns of TurnLog

OpenTurn ==
  IF \E r \in Request : HoldsTurn(r)
  THEN CHOOSE r \in Request : HoldsTurn(r)
  ELSE NoRequest

Over == {r \in Request : pc[r] \in {"busy", "done", "crashed"}}

Turns == INSTANCE TurnLog WITH open <- OpenTurn, over <- Over

\* The session is a sequence of whole turns, as TurnLog says.
Serialised == Turns!TSpec

=============================================================================
