--------------------------- MODULE ReturnFlow ---------------------------
(***************************************************************************)
(* The return flows of one order: FlowEngine, the rules of buildReturnFlow *)
(* and the return_request tool that drives them.                           *)
(*                                                                         *)
(* engine.start looks for an active flow and then creates one; engine.fire *)
(* reads the flow, decides by the rules, writes state and data over the    *)
(* row and then appends to the trail.  Nothing holds the order meanwhile:  *)
(* calls from two sessions, or two calls of one turn, interleave at every  *)
(* await.  A flow's data is kept as the set of facts it holds.  Callers    *)
(* are executions of return_request; officers are other users of fire(),   *)
(* who bring an approver's name and a refund ticket's number.  Any query   *)
(* may fail and any process die.                                           *)
(*                                                                         *)
(* A Mutant_ operator is the definition below it with a plausible bug.     *)
(***************************************************************************)
EXTENDS Naturals, Sequences, FiniteSets

CONSTANTS
  Caller,     \* executions of return_request for the order
  Officer     \* uses of fire() outside the tool

ASSUME ActorAssumption == Caller \cap Officer = {}

Actor == Caller \cup Officer

VARIABLES
  large,      \* the amount is above policy.autoApproveAmount
  flows,      \* the order's rows of business_flows in seq order
  trail,      \* the flow_transitions of each flow
  pc,         \* where each actor is
  at,         \* the flow it works on; 0 without one
  event,      \* the event it fires
  seen,       \* the row as its fire() read it
  raced,      \* history: two actors were between the lookup and the creation
  overlapped, \* history: the flows on which two fire() were under way at once
  untraced    \* history: the flows whose trail lacks an entry

vars == <<large, flows, trail, pc, at, event, seen, raced, overlapped, untraced>>

State == {"initiated", "reviewing", "approved", "completed", "rejected",
          "cancelled"}
Terminal == {"completed", "rejected", "cancelled"}
Event == {"accept", "reject", "approve", "cancel", "complete"}
Fact == {"amount", "auto", "approver", "refund"}
Row == [state : State, data : SUBSET Fact]

Stage == {"idle", "creating", "starting", "firing", "writing", "tracing",
          "done", "lost"}
Step == [from : State \cup {"none"}, to : State]

NewFlow == [state |-> "initiated", data |-> {}]

Rules == {
  [from |-> "initiated", event |-> "accept",   to |-> "reviewing"],
  [from |-> "initiated", event |-> "reject",   to |-> "rejected"],
  [from |-> "reviewing", event |-> "approve",  to |-> "approved"],
  [from |-> "reviewing", event |-> "reject",   to |-> "rejected"],
  [from |-> "reviewing", event |-> "cancel",   to |-> "cancelled"],
  [from |-> "approved",  event |-> "complete", to |-> "completed"],
  [from |-> "approved",  event |-> "cancel",   to |-> "cancelled"]}

\* What the rule's apply() adds to the data.
Patch(a, e) ==
  CASE e = "accept" -> {"amount"}
    [] e = "approve" -> IF a \in Officer THEN {"approver"} ELSE {"auto"}
    [] e = "complete" -> {"refund"}
    [] OTHER -> {}

\* The guards of approve and complete: a large amount needs an approver, and
\* completion the number of a refund ticket.
Mutant_MayFire(a, row, e) == TRUE

MayFire(a, row, e) ==
  /\ e = "approve" /\ "amount" \in row.data /\ large => a \in Officer
  /\ e = "complete" => a \in Officer

\* acceptGuard may answer either way, by the order's status, age and amount.
GuardMayRefuse(a, row, e) == e = "accept" \/ ~MayFire(a, row, e)

Active(i) == flows[i].state \notin Terminal
Actives == {i \in DOMAIN flows : Active(i)}

\* Between its read, or creation, of the flow and its last entry in the trail.
Midway(a, i) == at[a] = i /\ pc[a] \in {"starting", "writing", "tracing"}

Goto(a, stage) == pc' = [pc EXCEPT ![a] = stage]

Init ==
  /\ large \in BOOLEAN
  /\ flows = <<>>
  /\ trail = <<>>
  /\ pc = [a \in Actor |-> "idle"]
  /\ at = [a \in Actor |-> 0]
  /\ event = [a \in Actor |-> "accept"]
  /\ seen = [a \in Actor |-> NewFlow]
  /\ raced = FALSE
  /\ overlapped = {}
  /\ untraced = {}

----------------------------------------------------------------------------
\* FlowEngine.start, called by return_request

\* The newest active flow is taken: to be accepted if it is still initiated,
\* else its progress is the answer.
FindActive(a) ==
  /\ pc[a] = "idle"
  /\ \E i \in Actives :
       /\ \A j \in Actives : j <= i
       /\ at' = [at EXCEPT ![a] = i]
       /\ IF flows[i].state = "initiated" THEN Goto(a, "firing") ELSE Goto(a, "done")
  /\ UNCHANGED <<large, flows, trail, event, seen, raced, overlapped, untraced>>

Mutant_AlwaysCreate(a) ==
  /\ pc[a] = "idle"
  /\ Goto(a, "creating")
  /\ raced' = (raced \/ \E b \in Caller : pc[b] = "creating")
  /\ UNCHANGED <<large, flows, trail, at, event, seen, overlapped, untraced>>

FindNothing(a) ==
  /\ pc[a] = "idle"
  /\ Actives = {}
  /\ Goto(a, "creating")
  /\ raced' = (raced \/ \E b \in Caller : pc[b] = "creating")
  /\ UNCHANGED <<large, flows, trail, at, event, seen, overlapped, untraced>>

Create(a) ==
  /\ pc[a] = "creating"
  /\ flows' = Append(flows, NewFlow)
  /\ trail' = Append(trail, <<>>)
  /\ at' = [at EXCEPT ![a] = Len(flows) + 1]
  /\ Goto(a, "starting")
  /\ UNCHANGED <<large, event, seen, raced, overlapped, untraced>>

Enter(a, from, to) ==
  trail' = [trail EXCEPT ![at[a]] = Append(@, [from |-> from, to |-> to])]

TraceStart(a) ==
  /\ pc[a] = "starting"
  /\ Enter(a, "none", "initiated")
  /\ Goto(a, "firing")
  /\ UNCHANGED <<large, flows, at, event, seen, raced, overlapped, untraced>>

----------------------------------------------------------------------------
\* FlowEngine.fire

\* Another user of fire() picks an event; only the tool accepts.
OfficerFires(a) ==
  /\ pc[a] = "idle"
  /\ \E i \in DOMAIN flows, e \in Event \ {"accept"} :
       /\ at' = [at EXCEPT ![a] = i]
       /\ event' = [event EXCEPT ![a] = e]
  /\ Goto(a, "firing")
  /\ UNCHANGED <<large, flows, trail, seen, raced, overlapped, untraced>>

Mutant_RuleByEvent(a, r, state) == r \in Rules /\ r.event = event[a]

Rule(a, r, state) == r \in Rules /\ r.event = event[a] /\ r.from = state

\* The flow is read, and a rule and its guard allow the event.
Read(a) ==
  /\ pc[a] = "firing"
  /\ \E r \in Rules : Rule(a, r, flows[at[a]].state)
  /\ MayFire(a, flows[at[a]], event[a])
  /\ seen' = [seen EXCEPT ![a] = flows[at[a]]]
  /\ Goto(a, "writing")
  /\ overlapped' = overlapped \cup
       {i \in {at[a]} : \E b \in Actor \ {a} : Midway(b, i)}
  /\ UNCHANGED <<large, flows, trail, at, event, raced, untraced>>

\* What return_request does after fire() has answered.
Mutant_Continue(a, ok) ==
  IF a \in Caller /\ event[a] \in {"accept", "approve"}
  THEN /\ event' = [event EXCEPT ![a] = IF ok THEN "approve" ELSE "reject"]
       /\ Goto(a, "firing")
  ELSE Goto(a, "done") /\ UNCHANGED event

Continue(a, ok) ==
  IF a \in Caller /\ event[a] = "accept"
  THEN /\ event' = [event EXCEPT ![a] = IF ok THEN "approve" ELSE "reject"]
       /\ Goto(a, "firing")
  ELSE Goto(a, "done") /\ UNCHANGED event

\* The state is terminal, has no rule for the event, or the guard refuses.
\* A refused acceptance makes return_request reject the flow.
Mutant_LeaveZombie(a) ==
  /\ pc[a] = "firing"
  /\ \/ ~\E r \in Rules : Rule(a, r, flows[at[a]].state)
     \/ GuardMayRefuse(a, flows[at[a]], event[a])
  /\ Goto(a, "done")
  /\ UNCHANGED <<large, flows, trail, at, event, seen, raced, overlapped, untraced>>

Refuse(a) ==
  /\ pc[a] = "firing"
  /\ \/ ~\E r \in Rules : Rule(a, r, flows[at[a]].state)
     \/ GuardMayRefuse(a, flows[at[a]], event[a])
  /\ Continue(a, FALSE)
  /\ UNCHANGED <<large, flows, trail, at, seen, raced, overlapped, untraced>>

\* State and data are written over the row, whatever it holds by now.
Write(a) ==
  /\ pc[a] = "writing"
  /\ \E r \in Rules :
       /\ Rule(a, r, seen[a].state)
       /\ flows' = [flows EXCEPT ![at[a]] =
                       [state |-> r.to, data |-> seen[a].data \cup Patch(a, event[a])]]
  /\ Goto(a, "tracing")
  /\ UNCHANGED <<large, trail, at, event, seen, raced, overlapped, untraced>>

Mutant_TraceFromCurrent(a) ==
  /\ pc[a] = "tracing"
  /\ Enter(a, flows[at[a]].state, flows[at[a]].state)
  /\ Continue(a, TRUE)
  /\ seen' = [seen EXCEPT ![a] = NewFlow]
  /\ UNCHANGED <<large, flows, at, raced, overlapped, untraced>>

Trace(a) ==
  /\ pc[a] = "tracing"
  /\ \E r \in Rules : Rule(a, r, seen[a].state) /\ Enter(a, r.from, r.to)
  /\ Continue(a, TRUE)
  /\ seen' = [seen EXCEPT ![a] = NewFlow]
  /\ UNCHANGED <<large, flows, at, raced, overlapped, untraced>>

\* A query fails or the process dies.
Lose(a) ==
  /\ pc[a] \notin {"idle", "done", "lost"}
  /\ Goto(a, "lost")
  /\ untraced' = untraced \cup
       {i \in {at[a]} : pc[a] \in {"starting", "tracing"}}
  /\ seen' = [seen EXCEPT ![a] = NewFlow]
  /\ UNCHANGED <<large, flows, trail, at, event, raced, overlapped>>

----------------------------------------------------------------------------

Next ==
  \/ \E a \in Caller : FindActive(a) \/ FindNothing(a) \/ Create(a) \/ TraceStart(a)
  \/ \E a \in Officer : OfficerFires(a)
  \/ \E a \in Actor : Read(a) \/ Refuse(a) \/ Write(a) \/ Trace(a) \/ Lose(a)

Spec == Init /\ [][Next]_vars

----------------------------------------------------------------------------
\* Properties

\* Every variable has its type, and actors work on flows that exist.
TypeOK ==
  /\ large \in BOOLEAN
  /\ flows \in Seq(Row)
  /\ trail \in Seq(Seq(Step)) /\ Len(trail) = Len(flows)
  /\ pc \in [Actor -> Stage]
  /\ at \in [Actor -> 0..Len(flows)]
  /\ event \in [Actor -> Event]
  /\ seen \in [Actor -> Row]
  /\ raced \in BOOLEAN
  /\ overlapped \subseteq DOMAIN flows
  /\ untraced \subseteq DOMAIN flows

\* However calls interleave, an approved or completed flow had its amount
\* recorded by an acceptance, a large amount has an approver, and a completed
\* one has a refund ticket (the guards of buildReturnFlow; the row is written
\* over without a compare, but state and data go together).
StatesAreEarned ==
  \A i \in DOMAIN flows :
    /\ flows[i].state \in {"approved", "completed"} =>
         "amount" \in flows[i].data /\ (large => "approver" \in flows[i].data)
    /\ flows[i].state = "completed" => "refund" \in flows[i].data

\* A call that was answered leaves no flow in `initiated' behind, not even
\* one that a crashed call had created (return_request: no zombie flows).
NoZombies ==
  \A a \in Caller :
    pc[a] = "done" => at[a] \in DOMAIN flows /\ flows[at[a]].state # "initiated"

\* The order has one active flow, as long as no two calls were between lookup
\* and creation at once and no flow was fired at by two at once.
OneActive ==
  ~raced /\ overlapped = {} => Cardinality(Actives) <= 1

\* A terminal flow accepts no event, as long as fire() calls on it do not
\* overlap (the comment on FlowDefinition.terminal).
TerminalStays ==
  [][\A i \in DOMAIN flows :
       ~Active(i) /\ i \notin overlapped' => flows'[i] = flows[i]]_vars

\* The trail of a flow leads from its start to its present state without a
\* gap, once nobody is midway and unless someone was lost midway.
TrailIsComplete ==
  \A i \in DOMAIN flows :
    \/ i \in overlapped \cup untraced
    \/ \E a \in Actor : Midway(a, i)
    \/ LET steps == trail[i]
       IN /\ steps # <<>>
          /\ steps[1].from = "none"
          /\ steps[Len(steps)].to = flows[i].state
          /\ \A k \in 2..Len(steps) : steps[k].from = steps[k - 1].to

\* No call of return_request rejects a flow that was accepted: rejection is for
\* flows that were not, lest they stay initiated (the comment there), as long as
\* no other call works on it, and whatever the officers do meanwhile.
AcceptedNotRejected ==
  [][\A a \in Caller :
       /\ pc[a] = "writing" /\ pc'[a] = "tracing" /\ event[a] = "reject"
       /\ ~\E b \in Caller \ {a} : at[b] = at[a]
       => "amount" \notin flows[at[a]].data]_vars

=============================================================================
