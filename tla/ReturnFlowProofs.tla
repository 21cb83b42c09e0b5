------------------------ MODULE ReturnFlowProofs ------------------------
(***************************************************************************)
(* What holds of an order's return flows for any number of callers and     *)
(* officers, however their calls interleave.                               *)
(*                                                                         *)
(* A row carries state and data together, so the earned-state invariant is *)
(* about rows: those in the table and those a fire() has read.  A terminal *)
(* state is left only by a write that follows an older read, and then the  *)
(* flow is one on which two fire() overlapped.                             *)
(***************************************************************************)
EXTENDS ReturnFlow, FiniteSetTheorems, TLAPS

\* A row whose state is covered by its data.
Earned(row) ==
  /\ row.state \in {"reviewing", "approved", "completed"} => "amount" \in row.data
  /\ row.state \in {"approved", "completed"} /\ large => "approver" \in row.data
  /\ row.state = "completed" => "refund" \in row.data

\* Where an actor is tells what it works on.
Placed(a) ==
  /\ pc[a] \in {"starting", "firing", "writing", "tracing", "done"} =>
       at[a] \in DOMAIN flows
  /\ a \in Caller => event[a] \in {"accept", "reject", "approve"}
  /\ a \in Caller /\ pc[a] \in {"idle", "creating", "starting"} =>
       event[a] = "accept"
  /\ pc[a] \in {"creating", "starting"} => a \in Caller
  /\ pc[a] = "writing" =>
       /\ \E r \in Rules : Rule(a, r, seen[a].state)
       /\ MayFire(a, seen[a], event[a])

\* Past the write, and once a caller is past the acceptance, the flow has left
\* its initial state.
PastInitial(a) ==
  \/ pc[a] = "tracing"
  \/ a \in Caller /\ pc[a] \in {"firing", "writing"} /\ event[a] = "approve"
  \/ a \in Caller /\ pc[a] = "done"

FlowInv ==
  /\ TypeOK
  /\ \A i \in DOMAIN flows : Earned(flows[i])
  /\ \A a \in Actor : Earned(seen[a]) /\ Placed(a)
  /\ \A a \in Actor : PastInitial(a) => flows[at[a]].state # "initiated"

\* Two actors midway on a flow have overlapped, and without an overlap a
\* read row is still the row in the table.
LoneInv ==
  /\ \A a, b \in Actor : \A i \in DOMAIN flows :
       a # b /\ Midway(a, i) /\ Midway(b, i) => i \in overlapped
  /\ \A a \in Actor :
       pc[a] = "writing" /\ at[a] \notin overlapped => seen[a] = flows[at[a]]

----------------------------------------------------------------------------
\* The ways in which rows and trails change

\* What Create does to the table.
LEMMA CreateKeeps ==
  ASSUME flows \in Seq(Row), trail \in Seq(Seq(Step)),
         Len(trail) = Len(flows), NEW a, Create(a)
  PROVE  /\ flows' \in Seq(Row) /\ trail' \in Seq(Seq(Step))
         /\ Len(flows') = Len(flows) + 1 /\ Len(trail') = Len(flows')
         /\ DOMAIN flows' = DOMAIN flows \cup {Len(flows) + 1}
         /\ flows'[Len(flows) + 1] = NewFlow
         /\ \A i \in DOMAIN flows : flows'[i] = flows[i]
<1>1. NewFlow \in Row
  BY DEF NewFlow, Row, State, Fact
<1>2. <<>> \in Seq(Step)
  OBVIOUS
<1> QED
  BY <1>1, <1>2 DEF Create

\* What Enter does to the trail.
LEMMA EnterKeeps ==
  ASSUME trail \in Seq(Seq(Step)), NEW a, at[a] \in DOMAIN trail,
         NEW f \in State \cup {"none"}, NEW t \in State, Enter(a, f, t)
  PROVE  trail' \in Seq(Seq(Step)) /\ Len(trail') = Len(trail)
<1>1. [from |-> f, to |-> t] \in Step
  BY DEF Step
<1>2. PICK i \in DOMAIN trail : i = at[a]
  OBVIOUS
<1>3. trail[i] \in Seq(Step)
  OBVIOUS
<1>4. Append(trail[i], [from |-> f, to |-> t]) \in Seq(Step)
  BY <1>1, <1>3
<1>5. trail' = [trail EXCEPT ![i] = Append(trail[i], [from |-> f, to |-> t])]
  BY <1>2 DEF Enter
<1> QED
  BY <1>4, <1>5

\* What Write does to the table.
LEMMA WriteKeeps ==
  ASSUME flows \in Seq(Row), NEW a \in Actor, seen[a] \in Row,
         at[a] \in DOMAIN flows, Write(a)
  PROVE  /\ flows' \in Seq(Row) /\ Len(flows') = Len(flows)
         /\ DOMAIN flows' = DOMAIN flows
         /\ \A i \in DOMAIN flows : i # at[a] => flows'[i] = flows[i]
         /\ \E r \in Rules :
              /\ Rule(a, r, seen[a].state)
              /\ flows'[at[a]].state = r.to
              /\ flows'[at[a]].data = seen[a].data \cup Patch(a, event[a])
<1>1. PICK r \in Rules :
        /\ Rule(a, r, seen[a].state)
        /\ flows' = [flows EXCEPT ![at[a]] =
             [state |-> r.to, data |-> seen[a].data \cup Patch(a, event[a])]]
  BY DEF Write
<1> DEFINE row == [state |-> r.to, data |-> seen[a].data \cup Patch(a, event[a])]
<1>2. Patch(a, event[a]) \subseteq Fact
  BY DEF Patch, Fact
<1>3. r.to \in State
  BY DEF Rules, State
<1>4. row \in Row
  BY <1>2, <1>3 DEF Row
<1>5. row.state = r.to /\ row.data = seen[a].data \cup Patch(a, event[a])
  OBVIOUS
<1>6. flows' = [flows EXCEPT ![at[a]] = row]
  BY <1>1
<1> HIDE DEF row
<1>7. /\ flows' \in Seq(Row) /\ Len(flows') = Len(flows)
      /\ DOMAIN flows' = DOMAIN flows
      /\ \A i \in DOMAIN flows : i # at[a] => flows'[i] = flows[i]
      /\ flows'[at[a]] = row
  BY <1>4, <1>6
<1> QED
  BY <1>1, <1>5, <1>7

----------------------------------------------------------------------------

\* Type correctness is preserved by every action, given where actors are.
LEMMA TypeStep ==
  ASSUME FlowInv, [Next]_vars
  PROVE  TypeOK'
<1> USE DEF FlowInv, TypeOK, Placed, Actor, Goto
<1>1. ASSUME NEW a \in Caller, FindActive(a) PROVE TypeOK'
  <2>1. PICK i \in DOMAIN flows : at' = [at EXCEPT ![a] = i]
    BY <1>1 DEF FindActive, Actives
  <2>2. at' \in [Actor -> 0..Len(flows)]
    BY <2>1
  <2>3. pc' \in [Actor -> Stage]
    BY <1>1 DEF FindActive, Stage
  <2> QED
    BY <1>1, <2>2, <2>3 DEF FindActive
<1>2. ASSUME NEW a \in Caller, FindNothing(a) PROVE TypeOK'
  BY <1>2 DEF FindNothing, Stage
<1>3. ASSUME NEW a \in Caller, Create(a) PROVE TypeOK'
  <2>1. /\ flows' \in Seq(Row) /\ trail' \in Seq(Seq(Step))
        /\ Len(flows') = Len(flows) + 1 /\ Len(trail') = Len(flows')
        /\ DOMAIN flows' = DOMAIN flows \cup {Len(flows) + 1}
    BY <1>3, CreateKeeps
  <2>2. at' \in [Actor -> 0..Len(flows')]
    BY <1>3, <2>1 DEF Create
  <2>3. pc' \in [Actor -> Stage]
    BY <1>3 DEF Create, Stage
  <2> QED
    BY <1>3, <2>1, <2>2, <2>3 DEF Create
<1>4. ASSUME NEW a \in Caller, TraceStart(a) PROVE TypeOK'
  <2>1. at[a] \in DOMAIN trail
    BY <1>4 DEF TraceStart
  <2>2. trail' \in Seq(Seq(Step)) /\ Len(trail') = Len(trail)
    BY <1>4, <2>1, EnterKeeps DEF TraceStart, State
  <2> QED
    BY <1>4, <2>2 DEF TraceStart, Stage
<1>5. ASSUME NEW a \in Officer, OfficerFires(a) PROVE TypeOK'
  BY <1>5 DEF OfficerFires, Stage
<1>6. ASSUME NEW a \in Actor, Read(a) PROVE TypeOK'
  BY <1>6 DEF Read, Stage
<1>7. ASSUME NEW a \in Actor, Refuse(a) PROVE TypeOK'
  BY <1>7 DEF Refuse, Continue, Stage, Event
<1>8. ASSUME NEW a \in Actor, Write(a) PROVE TypeOK'
  <2>1. flows' \in Seq(Row) /\ Len(flows') = Len(flows)
    BY <1>8, WriteKeeps DEF Write
  <2> QED
    BY <1>8, <2>1 DEF Write, Stage
<1>9. ASSUME NEW a \in Actor, Trace(a) PROVE TypeOK'
  <2>1. at[a] \in DOMAIN trail
    BY <1>9 DEF Trace
  <2>2. PICK r \in Rules : Enter(a, r.from, r.to)
    BY <1>9 DEF Trace
  <2>3. r.from \in State \cup {"none"} /\ r.to \in State
    BY DEF Rules, State
  <2>4. trail' \in Seq(Seq(Step)) /\ Len(trail') = Len(trail)
    BY <2>1, <2>2, <2>3, EnterKeeps
  <2>5. seen' \in [Actor -> Row]
    BY <1>9 DEF Trace, NewFlow, Row, State, Fact
  <2>6. pc' \in [Actor -> Stage] /\ event' \in [Actor -> Event]
    BY <1>9 DEF Trace, Continue, Stage, Event
  <2> QED
    BY <1>9, <2>4, <2>5, <2>6 DEF Trace
<1>10. ASSUME NEW a \in Actor, Lose(a) PROVE TypeOK'
  <2>1. seen' \in [Actor -> Row]
    BY <1>10 DEF Lose, NewFlow, Row, State, Fact
  <2> QED
    BY <1>10, <2>1 DEF Lose, Stage
<1>11. CASE UNCHANGED vars
  BY <1>11 DEF vars
<1> QED
  BY <1>1, <1>2, <1>3, <1>4, <1>5, <1>6, <1>7, <1>8, <1>9, <1>10, <1>11
     DEF Next

----------------------------------------------------------------------------

\* A step of one actor that leaves the table alone.
LEMMA LocalStep ==
  ASSUME FlowInv, TypeOK', NEW a \in Actor, UNCHANGED <<large, flows>>,
         \A b \in Actor \ {a} :
           pc'[b] = pc[b] /\ at'[b] = at[b] /\ event'[b] = event[b] /\ seen'[b] = seen[b],
         Earned(seen[a])', Placed(a)',
         PastInitial(a)' => flows'[at'[a]].state # "initiated"
  PROVE  FlowInv'
<1>1. \A i \in DOMAIN flows' : Earned(flows[i])'
  BY DEF FlowInv, Earned
<1>2. ASSUME NEW b \in Actor \ {a}
      PROVE  /\ Earned(seen[b])' /\ Placed(b)'
             /\ PastInitial(b)' => flows'[at'[b]].state # "initiated"
  <2>1. Earned(seen[b])'
    BY <1>2 DEF FlowInv, Earned
  <2>2. Placed(b)'
    BY <1>2 DEF FlowInv, Placed, Rule, MayFire
  <2>3. PastInitial(b)' => flows'[at'[b]].state # "initiated"
    BY <1>2 DEF FlowInv, PastInitial
  <2> QED
    BY <2>1, <2>2, <2>3
<1> QED
  BY <1>1, <1>2 DEF FlowInv

\* States are earned and past states stay past, whatever interleaves.
LEMMA FlowStep ==
  ASSUME FlowInv, [Next]_vars
  PROVE  FlowInv'
<1> USE DEF FlowInv, TypeOK, Actor, Goto
<1>0. TypeOK'
  BY TypeStep
<1>1. ASSUME NEW a \in Caller, FindActive(a) PROVE FlowInv'
  <2>1. PICK i \in DOMAIN flows :
          /\ at' = [at EXCEPT ![a] = i]
          /\ IF flows[i].state = "initiated" THEN Goto(a, "firing") ELSE Goto(a, "done")
    BY <1>1 DEF FindActive, Actives
  <2>2. pc[a] = "idle" /\ UNCHANGED <<large, flows, event, seen>>
    BY <1>1 DEF FindActive
  <2>3. /\ at'[a] = i
        /\ pc'[a] = IF flows[i].state = "initiated" THEN "firing" ELSE "done"
        /\ \A b \in Actor \ {a} :
             pc'[b] = pc[b] /\ at'[b] = at[b] /\ event'[b] = event[b] /\ seen'[b] = seen[b]
    BY <2>1, <2>2
  <2>4. Placed(a)'
    BY <2>2, <2>3 DEF Placed
  <2>5. PastInitial(a)' => flows'[at'[a]].state # "initiated"
    BY <2>2, <2>3 DEF Placed, PastInitial
  <2>6. Earned(seen[a])'
    BY <2>2 DEF Earned
  <2> QED
    BY <1>0, <2>2, <2>3, <2>4, <2>5, <2>6, LocalStep
<1>2. ASSUME NEW a \in Caller, FindNothing(a) PROVE FlowInv'
  <2>1. /\ pc[a] = "idle" /\ pc'[a] = "creating"
        /\ UNCHANGED <<large, flows, at, event, seen>>
        /\ \A b \in Actor \ {a} : pc'[b] = pc[b]
    BY <1>2 DEF FindNothing
  <2>2. Placed(a)' /\ ~PastInitial(a)'
    BY <2>1 DEF Placed, PastInitial
  <2>3. Earned(seen[a])'
    BY <2>1 DEF Earned
  <2> QED
    BY <1>0, <2>1, <2>2, <2>3, LocalStep
<1>3. ASSUME NEW a \in Caller, Create(a) PROVE FlowInv'
  <2>1. /\ DOMAIN flows' = DOMAIN flows \cup {Len(flows) + 1}
        /\ flows'[Len(flows) + 1] = NewFlow
        /\ \A i \in DOMAIN flows : flows'[i] = flows[i]
    BY <1>3, CreateKeeps
  <2>2. /\ pc[a] = "creating" /\ pc'[a] = "starting"
        /\ at'[a] = Len(flows) + 1
        /\ UNCHANGED <<large, event, seen>>
        /\ \A b \in Actor \ {a} : pc'[b] = pc[b] /\ at'[b] = at[b]
    BY <1>3 DEF Create
  <2>3. \A i \in DOMAIN flows' : Earned(flows[i])'
    BY <2>1, <2>2 DEF Earned, NewFlow
  <2>4. \A b \in Actor : Earned(seen[b])'
    BY <2>2 DEF Earned
  <2>5. \A b \in Actor : Placed(b)'
    BY <2>1, <2>2 DEF Placed, Rule, MayFire
  <2>6. ASSUME NEW b \in Actor, PastInitial(b)'
        PROVE  flows'[at'[b]].state # "initiated"
    <3>1. b # a
      BY <2>2, <2>6 DEF PastInitial
    <3>2. PastInitial(b) /\ at'[b] = at[b]
      BY <2>2, <2>6, <3>1 DEF PastInitial
    <3>3. at[b] \in DOMAIN flows
      BY <3>2 DEF PastInitial, Placed
    <3> QED
      BY <2>1, <3>2, <3>3
  <2> QED
    BY <1>0, <2>3, <2>4, <2>5, <2>6
<1>4. ASSUME NEW a \in Caller, TraceStart(a) PROVE FlowInv'
  <2>1. /\ pc[a] = "starting" /\ pc'[a] = "firing"
        /\ UNCHANGED <<large, flows, at, event, seen>>
        /\ \A b \in Actor \ {a} : pc'[b] = pc[b]
    BY <1>4 DEF TraceStart
  <2>2. Placed(a)' /\ ~PastInitial(a)'
    BY <2>1 DEF Placed, PastInitial
  <2>3. Earned(seen[a])'
    BY <2>1 DEF Earned
  <2> QED
    BY <1>0, <2>1, <2>2, <2>3, LocalStep
<1>5. ASSUME NEW a \in Officer, OfficerFires(a) PROVE FlowInv'
  <2>1. /\ pc[a] = "idle" /\ pc'[a] = "firing" /\ a \notin Caller
        /\ UNCHANGED <<large, flows, seen>>
        /\ at'[a] \in DOMAIN flows
        /\ \A b \in Actor \ {a} :
             pc'[b] = pc[b] /\ at'[b] = at[b] /\ event'[b] = event[b] /\ seen'[b] = seen[b]
    BY <1>5, ActorAssumption DEF OfficerFires
  <2>2. Placed(a)' /\ ~PastInitial(a)'
    BY <2>1 DEF Placed, PastInitial
  <2>3. Earned(seen[a])'
    BY <2>1 DEF Earned
  <2> QED
    BY <1>0, <2>1, <2>2, <2>3, LocalStep
<1>6. ASSUME NEW a \in Actor, Read(a) PROVE FlowInv'
  <2>1. /\ pc[a] = "firing" /\ pc'[a] = "writing"
        /\ UNCHANGED <<large, flows, at, event>>
        /\ seen'[a] = flows[at[a]]
        /\ \A b \in Actor \ {a} : pc'[b] = pc[b] /\ seen'[b] = seen[b]
    BY <1>6 DEF Read
  <2>2. at[a] \in DOMAIN flows
    BY <2>1 DEF Placed
  <2>3. /\ \E r \in Rules : Rule(a, r, seen[a].state)'
        /\ MayFire(a, seen[a], event[a])'
    BY <1>6, <2>1 DEF Read, Rule, MayFire
  <2>4. Placed(a)'
    BY <2>1, <2>2, <2>3 DEF Placed
  <2>5. PastInitial(a)' => flows'[at'[a]].state # "initiated"
    BY <2>1 DEF PastInitial
  <2>6. Earned(seen[a])'
    BY <2>1, <2>2 DEF Earned
  <2> QED
    BY <1>0, <2>1, <2>4, <2>5, <2>6, LocalStep
<1>7. ASSUME NEW a \in Actor, Refuse(a) PROVE FlowInv'
  <2>1. /\ pc[a] = "firing" /\ UNCHANGED <<large, flows, at, seen>>
        /\ \A b \in Actor \ {a} : pc'[b] = pc[b] /\ event'[b] = event[b]
    BY <1>7 DEF Refuse, Continue
  <2>2. at[a] \in DOMAIN flows
    BY <2>1 DEF Placed
  <2>3. Earned(seen[a])'
    BY <2>1 DEF Earned
  <2>4. CASE a \in Caller /\ event[a] = "accept"
    <3>1. pc'[a] = "firing" /\ event'[a] = "reject"
      BY <1>7, <2>4 DEF Refuse, Continue
    <3>2. Placed(a)' /\ ~PastInitial(a)'
      BY <2>1, <2>2, <3>1 DEF Placed, PastInitial
    <3> QED
      BY <1>0, <2>1, <2>3, <3>2, LocalStep
  <2>5. CASE ~(a \in Caller /\ event[a] = "accept")
    <3>1. pc'[a] = "done" /\ event'[a] = event[a]
      BY <1>7, <2>5 DEF Refuse, Continue
    <3>2. Placed(a)'
      BY <2>1, <2>2, <3>1 DEF Placed
    <3>3. ASSUME a \in Caller PROVE flows[at[a]].state # "initiated"
      <4>1. CASE event[a] = "approve"
        BY <2>1, <3>3, <4>1 DEF PastInitial
      <4>2. CASE event[a] = "reject"
        <5>1. ~\E r \in Rules : Rule(a, r, flows[at[a]].state)
          BY <1>7, <4>2 DEF Refuse, GuardMayRefuse, MayFire
        <5>2. [from |-> "initiated", event |-> "reject", to |-> "rejected"] \in Rules
          BY DEF Rules
        <5> QED
          BY <4>2, <5>1, <5>2 DEF Rule
      <4> QED
        BY <2>1, <2>5, <3>3, <4>1, <4>2 DEF Placed
    <3>4. PastInitial(a)' => flows'[at'[a]].state # "initiated"
      BY <2>1, <3>1, <3>3 DEF PastInitial
    <3> QED
      BY <1>0, <2>1, <2>3, <3>1, <3>2, <3>4, LocalStep
  <2> QED
    BY <2>4, <2>5
<1>8. ASSUME NEW a \in Actor, Write(a) PROVE FlowInv'
  <2>1. /\ pc[a] = "writing" /\ pc'[a] = "tracing"
        /\ UNCHANGED <<large, at, event, seen>>
        /\ \A b \in Actor \ {a} : pc'[b] = pc[b]
    BY <1>8 DEF Write
  <2>2. at[a] \in DOMAIN flows /\ MayFire(a, seen[a], event[a])
    BY <2>1 DEF Placed
  <2>3. /\ DOMAIN flows' = DOMAIN flows
        /\ \A i \in DOMAIN flows : i # at[a] => flows'[i] = flows[i]
        /\ \E r \in Rules :
             /\ Rule(a, r, seen[a].state)
             /\ flows'[at[a]].state = r.to
             /\ flows'[at[a]].data = seen[a].data \cup Patch(a, event[a])
    BY <1>8, <2>2, WriteKeeps
  <2>4. PICK r \in Rules :
          /\ Rule(a, r, seen[a].state)
          /\ flows'[at[a]].state = r.to
          /\ flows'[at[a]].data = seen[a].data \cup Patch(a, event[a])
    BY <2>3
  <2>5. flows'[at[a]].state # "initiated"
    BY <2>4 DEF Rules
  <2>6. Earned(flows[at[a]])'
    <3>1. Earned(seen[a])
      OBVIOUS
    <3>2. /\ r.event = "accept" => r.to = "reviewing"
          /\ r.event = "approve" => r.from = "reviewing" /\ r.to = "approved"
          /\ r.event = "complete" => r.from = "approved" /\ r.to = "completed"
          /\ r.event \in {"reject", "cancel"} => r.to \in {"rejected", "cancelled"}
          /\ r.event \in Event
      BY DEF Rules, Event
    <3>3. r.event = event[a] /\ r.from = seen[a].state
      BY <2>4 DEF Rule
    <3>4. CASE r.event = "accept"
      BY <2>1, <2>4, <3>2, <3>3, <3>4 DEF Earned, Patch
    <3>5. CASE r.event = "approve"
      BY <2>1, <2>2, <2>4, <3>1, <3>2, <3>3, <3>5 DEF Earned, Patch, MayFire
    <3>6. CASE r.event = "complete"
      BY <2>1, <2>4, <3>1, <3>2, <3>3, <3>6 DEF Earned, Patch
    <3>7. CASE r.event \in {"reject", "cancel"}
      BY <2>1, <2>4, <3>2, <3>7 DEF Earned
    <3> QED
      BY <3>2, <3>4, <3>5, <3>6, <3>7 DEF Event
  <2>7. \A i \in DOMAIN flows' : Earned(flows[i])'
    BY <2>1, <2>3, <2>6 DEF Earned
  <2>8. \A b \in Actor : Earned(seen[b])' /\ Placed(b)'
    <3>1. \A b \in Actor : Earned(seen[b])'
      BY <2>1 DEF Earned
    <3>2. \A b \in Actor : Placed(b)'
      BY <2>1, <2>3 DEF Placed, Rule, MayFire
    <3> QED
      BY <3>1, <3>2
  <2>9. ASSUME NEW b \in Actor, PastInitial(b)'
        PROVE  flows'[at'[b]].state # "initiated"
    <3>1. CASE at[b] = at[a]
      BY <2>1, <2>5, <3>1
    <3>2. CASE at[b] # at[a]
      <4>1. PastInitial(b)
        BY <2>1, <2>9, <3>2 DEF PastInitial
      <4>2. at[b] \in DOMAIN flows
        BY <4>1 DEF PastInitial, Placed
      <4> QED
        BY <2>1, <2>3, <3>2, <4>1, <4>2
    <3> QED
      BY <3>1, <3>2
  <2> QED
    BY <1>0, <2>7, <2>8, <2>9
<1>9. ASSUME NEW a \in Actor, Trace(a) PROVE FlowInv'
  <2>1. /\ pc[a] = "tracing" /\ UNCHANGED <<large, flows, at>>
        /\ pc'[a] \in {"firing", "done"}
        /\ a \in Caller => event'[a] \in {"accept", "reject", "approve"}
        /\ \A b \in Actor \ {a} :
             pc'[b] = pc[b] /\ event'[b] = event[b] /\ seen'[b] = seen[b]
    BY <1>9 DEF Trace, Continue, Placed
  <2>2. Earned(seen[a])'
    BY <1>9, <2>1 DEF Trace, Earned, NewFlow
  <2>3. Placed(a)'
    BY <2>1 DEF Placed
  <2>4. flows[at[a]].state # "initiated"
    BY <2>1 DEF PastInitial
  <2> QED
    BY <1>0, <2>1, <2>2, <2>3, <2>4, LocalStep
<1>10. ASSUME NEW a \in Actor, Lose(a) PROVE FlowInv'
  <2>1. /\ pc'[a] = "lost" /\ UNCHANGED <<large, flows, at, event>>
        /\ \A b \in Actor \ {a} : pc'[b] = pc[b] /\ seen'[b] = seen[b]
    BY <1>10 DEF Lose
  <2>2. Earned(seen[a])'
    BY <1>10, <2>1 DEF Lose, Earned, NewFlow
  <2>3. Placed(a)' /\ ~PastInitial(a)'
    BY <2>1 DEF Placed, PastInitial
  <2> QED
    BY <1>0, <2>1, <2>2, <2>3, LocalStep
<1>11. CASE UNCHANGED vars
  BY <1>0, <1>11 DEF vars, Earned, Placed, PastInitial, Rule, MayFire
<1> QED
  BY <1>1, <1>2, <1>3, <1>4, <1>5, <1>6, <1>7, <1>8, <1>9, <1>10, <1>11
     DEF Next

LEMMA FlowInvariant == Spec => []FlowInv
<1>1. ASSUME Init PROVE FlowInv
  <2>1. flows = <<>> /\ trail = <<>> /\ Len(flows) = 0 /\ Len(trail) = 0
    BY <1>1 DEF Init
  <2>2. flows \in Seq(Row) /\ trail \in Seq(Seq(Step)) /\ DOMAIN flows = {}
    BY <2>1
  <2>3. NewFlow \in Row /\ Earned(NewFlow)
    BY DEF NewFlow, Row, State, Fact, Earned
  <2>4. /\ pc \in [Actor -> Stage] /\ event \in [Actor -> Event]
        /\ at \in [Actor -> 0..Len(flows)]
    BY <1>1, <2>1 DEF Init, Stage, Event
  <2>5. seen \in [Actor -> Row] /\ \A a \in Actor : Earned(seen[a])
    BY <1>1, <2>3 DEF Init
  <2>6. TypeOK
    BY <1>1, <2>1, <2>2, <2>4, <2>5 DEF Init, TypeOK
  <2>7. \A a \in Actor : Placed(a) /\ ~PastInitial(a)
    BY <1>1 DEF Init, Placed, PastInitial
  <2> QED
    BY <2>2, <2>5, <2>6, <2>7 DEF FlowInv
<1>2. FlowInv /\ [Next]_vars => FlowInv'
  BY FlowStep
<1> QED
  BY <1>1, <1>2, PTL DEF Spec

\* Every reachable state is well typed.
THEOREM TypeCorrect == Spec => []TypeOK
<1>1. FlowInv => TypeOK
  BY DEF FlowInv
<1> QED
  BY <1>1, FlowInvariant, PTL

\* No flow is approved without an acceptance, or above the limit without an
\* approver, or completed without a refund ticket.
THEOREM StatesAreAlwaysEarned == Spec => []StatesAreEarned
<1>1. FlowInv => StatesAreEarned
  BY DEF FlowInv, Earned, StatesAreEarned
<1> QED
  BY <1>1, FlowInvariant, PTL

\* An answered return_request leaves its flow past `initiated'.
THEOREM NoZombiesRemain == Spec => []NoZombies
<1>1. FlowInv => NoZombies
  BY DEF FlowInv, Placed, PastInitial, NoZombies, Actor
<1> QED
  BY <1>1, FlowInvariant, PTL

----------------------------------------------------------------------------

\* An actor that steps without leaving a row behind it keeps LoneInv.
LEMMA LoneLocal ==
  ASSUME FlowInv, LoneInv, NEW a \in Actor, UNCHANGED <<flows, overlapped>>,
         \A b \in Actor \ {a} :
           pc'[b] = pc[b] /\ at'[b] = at[b] /\ seen'[b] = seen[b],
         pc'[a] \notin {"starting", "writing", "tracing"}
  PROVE  LoneInv'
<1>1. \A b \in Actor, i \in DOMAIN flows' :
        Midway(b, i)' => b # a /\ Midway(b, i)
  BY DEF Midway
<1> QED
  BY <1>1 DEF LoneInv

\* Reading a flow another is midway on marks it; only a writer changes a row,
\* and then no other actor holds a copy of it unless the flow is marked.
LEMMA LoneStep ==
  ASSUME FlowInv, LoneInv, [Next]_vars
  PROVE  LoneInv'
<1> USE DEF FlowInv, TypeOK, Actor, Goto
<1>1. ASSUME NEW a \in Caller, FindActive(a) PROVE LoneInv'
  <2>1. /\ pc'[a] \in {"firing", "done"} /\ UNCHANGED <<flows, overlapped, seen>>
        /\ \A b \in Actor \ {a} : pc'[b] = pc[b] /\ at'[b] = at[b]
    BY <1>1 DEF FindActive
  <2> QED
    BY <2>1, LoneLocal
<1>2. ASSUME NEW a \in Caller, FindNothing(a) PROVE LoneInv'
  <2>1. /\ pc'[a] = "creating" /\ UNCHANGED <<flows, overlapped, seen, at>>
        /\ \A b \in Actor \ {a} : pc'[b] = pc[b]
    BY <1>2 DEF FindNothing
  <2> QED
    BY <2>1, LoneLocal
<1>3. ASSUME NEW a \in Caller, Create(a) PROVE LoneInv'
  <2>1. /\ DOMAIN flows' = DOMAIN flows \cup {Len(flows) + 1}
        /\ \A i \in DOMAIN flows : flows'[i] = flows[i]
    BY <1>3, CreateKeeps
  <2>2. /\ pc'[a] = "starting" /\ at'[a] = Len(flows) + 1
        /\ UNCHANGED <<seen, overlapped>>
        /\ \A b \in Actor \ {a} : pc'[b] = pc[b] /\ at'[b] = at[b]
    BY <1>3 DEF Create
  <2>3. \A b \in Actor : at[b] # Len(flows) + 1
    OBVIOUS
  <2>4. ASSUME NEW b \in Actor, NEW c \in Actor, NEW i \in DOMAIN flows',
               b # c, Midway(b, i)', Midway(c, i)'
        PROVE  i \in overlapped'
    <3>1. b # a /\ c # a
      BY <2>2, <2>3, <2>4 DEF Midway
    <3>2. Midway(b, i) /\ Midway(c, i) /\ i \in DOMAIN flows
      BY <2>1, <2>2, <2>3, <2>4, <3>1 DEF Midway
    <3> QED
      BY <2>2, <2>4, <3>2 DEF LoneInv
  <2>5. ASSUME NEW b \in Actor, pc'[b] = "writing", at'[b] \notin overlapped'
        PROVE  seen'[b] = flows'[at'[b]]
    <3>1. b # a
      BY <2>2, <2>5
    <3>2. at[b] \in DOMAIN flows
      BY <2>2, <2>5, <3>1 DEF Placed
    <3> QED
      BY <2>1, <2>2, <2>5, <3>1, <3>2 DEF LoneInv
  <2> QED
    BY <2>4, <2>5 DEF LoneInv
<1>4. ASSUME NEW a \in Caller, TraceStart(a) PROVE LoneInv'
  <2>1. /\ pc'[a] = "firing" /\ UNCHANGED <<flows, overlapped, seen, at>>
        /\ \A b \in Actor \ {a} : pc'[b] = pc[b]
    BY <1>4 DEF TraceStart
  <2> QED
    BY <2>1, LoneLocal
<1>5. ASSUME NEW a \in Officer, OfficerFires(a) PROVE LoneInv'
  <2>1. /\ pc'[a] = "firing" /\ UNCHANGED <<flows, overlapped, seen>>
        /\ \A b \in Actor \ {a} : pc'[b] = pc[b] /\ at'[b] = at[b]
    BY <1>5 DEF OfficerFires
  <2> QED
    BY <2>1, LoneLocal
<1>6. ASSUME NEW a \in Actor, Read(a) PROVE LoneInv'
  <2>1. /\ pc'[a] = "writing" /\ UNCHANGED <<flows, at>>
        /\ seen'[a] = flows[at[a]]
        /\ overlapped' = overlapped \cup
             {i \in {at[a]} : \E b \in Actor \ {a} : Midway(b, i)}
        /\ \A b \in Actor \ {a} : pc'[b] = pc[b] /\ seen'[b] = seen[b]
    BY <1>6 DEF Read
  <2>2. ASSUME NEW b \in Actor, NEW c \in Actor, NEW i \in DOMAIN flows',
               b # c, Midway(b, i)', Midway(c, i)'
        PROVE  i \in overlapped'
    <3>1. CASE b = a
      BY <2>1, <2>2, <3>1 DEF Midway
    <3>2. CASE c = a
      BY <2>1, <2>2, <3>2 DEF Midway
    <3>3. CASE b # a /\ c # a
      BY <2>1, <2>2, <3>3 DEF Midway, LoneInv
    <3> QED
      BY <3>1, <3>2, <3>3
  <2>3. ASSUME NEW b \in Actor, pc'[b] = "writing", at'[b] \notin overlapped'
        PROVE  seen'[b] = flows'[at'[b]]
    BY <2>1, <2>3 DEF LoneInv
  <2> QED
    BY <2>2, <2>3 DEF LoneInv
<1>7. ASSUME NEW a \in Actor, Refuse(a) PROVE LoneInv'
  <2>1. /\ pc'[a] \in {"firing", "done"} /\ UNCHANGED <<flows, overlapped, seen, at>>
        /\ \A b \in Actor \ {a} : pc'[b] = pc[b]
    BY <1>7 DEF Refuse, Continue
  <2> QED
    BY <2>1, LoneLocal
<1>8. ASSUME NEW a \in Actor, Write(a) PROVE LoneInv'
  <2>1. /\ pc[a] = "writing" /\ pc'[a] = "tracing"
        /\ UNCHANGED <<at, seen, overlapped>>
        /\ \A b \in Actor \ {a} : pc'[b] = pc[b]
    BY <1>8 DEF Write
  <2>2. at[a] \in DOMAIN flows
    BY <2>1 DEF Placed
  <2>3. /\ DOMAIN flows' = DOMAIN flows
        /\ \A i \in DOMAIN flows : i # at[a] => flows'[i] = flows[i]
    BY <1>8, <2>2, WriteKeeps
  <2>4. \A b \in Actor, i \in DOMAIN flows : Midway(b, i)' => Midway(b, i)
    BY <2>1 DEF Midway
  <2>5. ASSUME NEW b \in Actor, pc'[b] = "writing", at'[b] \notin overlapped'
        PROVE  seen'[b] = flows'[at'[b]]
    <3>1. b # a /\ pc[b] = "writing"
      BY <2>1, <2>5
    <3>2. at[b] \in DOMAIN flows
      BY <3>1 DEF Placed
    <3>3. at[b] # at[a]
      BY <2>1, <2>2, <2>5, <3>1 DEF LoneInv, Midway
    <3> QED
      BY <2>1, <2>3, <2>5, <3>1, <3>2, <3>3 DEF LoneInv
  <2> QED
    BY <2>1, <2>3, <2>4, <2>5 DEF LoneInv
<1>9. ASSUME NEW a \in Actor, Trace(a) PROVE LoneInv'
  <2>1. /\ pc'[a] \in {"firing", "done"} /\ UNCHANGED <<flows, overlapped, at>>
        /\ \A b \in Actor \ {a} : pc'[b] = pc[b] /\ seen'[b] = seen[b]
    BY <1>9 DEF Trace, Continue
  <2> QED
    BY <2>1, LoneLocal
<1>10. ASSUME NEW a \in Actor, Lose(a) PROVE LoneInv'
  <2>1. /\ pc'[a] = "lost" /\ UNCHANGED <<flows, overlapped, at>>
        /\ \A b \in Actor \ {a} : pc'[b] = pc[b] /\ seen'[b] = seen[b]
    BY <1>10 DEF Lose
  <2> QED
    BY <2>1, LoneLocal
<1>11. CASE UNCHANGED vars
  BY <1>11 DEF vars, LoneInv, Midway
<1> QED
  BY <1>1, <1>2, <1>3, <1>4, <1>5, <1>6, <1>7, <1>8, <1>9, <1>10, <1>11
     DEF Next

LEMMA LoneInvariant == Spec => []LoneInv
<1>1. Init => LoneInv
  BY DEF Init, LoneInv
<1>2. FlowInv /\ LoneInv /\ [Next]_vars => LoneInv'
  BY LoneStep
<1> QED
  BY <1>1, <1>2, FlowInvariant, PTL DEF Spec

\* A terminal row is not written over, given what a writer has read.
LEMMA TerminalStep ==
  ASSUME FlowInv, LoneInv, [Next]_vars, NEW i \in DOMAIN flows,
         ~Active(i), i \notin overlapped'
  PROVE  flows'[i] = flows[i]
<1> USE DEF FlowInv, TypeOK, Actor
<1>1. ASSUME NEW a \in Caller, Create(a) PROVE flows'[i] = flows[i]
  BY <1>1, CreateKeeps
<1>2. ASSUME NEW a \in Actor, Write(a) PROVE flows'[i] = flows[i]
  <2>1. pc[a] = "writing" /\ i \notin overlapped
    BY <1>2 DEF Write
  <2>2. at[a] \in DOMAIN flows
    BY <2>1 DEF Placed
  <2>3. PICK r \in Rules : r.from = seen[a].state
    BY <1>2 DEF Write, Rule
  <2>4. seen[a].state \notin Terminal
    BY <2>3 DEF Rules, Terminal
  <2>5. i # at[a]
    BY <2>1, <2>4 DEF LoneInv, Active
  <2> QED
    BY <1>2, <2>2, <2>5, WriteKeeps
<1>3. CASE UNCHANGED flows
  BY <1>3
<1> QED
  BY <1>1, <1>2, <1>3 DEF Next, vars, FindActive, FindNothing, TraceStart,
     OfficerFires, Read, Refuse, Trace, Lose

\* A terminal flow keeps its state and data unless two fire() calls on it
\* overlapped.
THEOREM TerminalFlowsStay == Spec => TerminalStays
<1>1. FlowInv /\ LoneInv /\ [Next]_vars =>
        [\A i \in DOMAIN flows :
           ~Active(i) /\ i \notin overlapped' => flows'[i] = flows[i]]_vars
  BY TerminalStep
<1> QED
  BY <1>1, FlowInvariant, LoneInvariant, PTL DEF Spec, TerminalStays

----------------------------------------------------------------------------
\* One active flow

\* Nobody is between lookup and creation beside another, or beside an active
\* flow, and two active flows are the same.
Sole ==
  /\ \A i, j \in Actives : i = j
  /\ \A a \in Actor : pc[a] = "creating" => Actives = {}
  /\ \A a, b \in Actor : pc[a] = "creating" /\ pc[b] = "creating" => a = b

SoleInv == ~raced /\ overlapped = {} => Sole

\* Raced calls and overlapped flows stay recorded.
LEMMA HistoryGrows ==
  ASSUME [Next]_vars
  PROVE  (raced => raced') /\ overlapped \subseteq overlapped' /\ untraced \subseteq untraced'
<1>1. raced => raced'
  BY DEF Next, vars, FindActive, FindNothing, Create, TraceStart, OfficerFires,
         Read, Refuse, Write, Trace, Lose
<1>2. overlapped \subseteq overlapped'
  BY DEF Next, vars, FindActive, FindNothing, Create, TraceStart, OfficerFires,
         Read, Refuse, Write, Trace, Lose
<1>3. untraced \subseteq untraced'
  BY DEF Next, vars, FindActive, FindNothing, Create, TraceStart, OfficerFires,
         Read, Refuse, Write, Trace, Lose
<1> QED
  BY <1>1, <1>2, <1>3

\* Only a creation makes a flow active: a write needs a flow that its actor
\* read as active, and without an overlap that is what the flow still is.
LEMMA SoleStep ==
  ASSUME FlowInv, LoneInv, SoleInv, [Next]_vars
  PROVE  SoleInv'
<1> SUFFICES ASSUME ~raced', overlapped' = {} PROVE Sole'
  BY DEF SoleInv
<1>a. ~raced /\ overlapped = {} /\ Sole
  BY HistoryGrows DEF SoleInv
<1> USE DEF FlowInv, TypeOK, Actor, Goto
<1>b. ASSUME flows' = flows,
             \A a \in Actor : pc'[a] = "creating" => pc[a] = "creating"
      PROVE  Sole'
  <2>1. Actives' = Actives
    BY <1>b DEF Actives, Active
  <2> QED
    BY <1>a, <1>b, <2>1 DEF Sole
<1>1. ASSUME NEW a \in Caller, FindActive(a) \/ TraceStart(a) PROVE Sole'
  <2>1. flows' = flows /\ \A b \in Actor : pc'[b] = "creating" => pc[b] = "creating"
    BY <1>1 DEF FindActive, TraceStart
  <2> QED
    BY <1>b, <2>1
<1>2. ASSUME NEW a \in Caller, FindNothing(a) PROVE Sole'
  <2>1. Actives' = {} /\ pc' = [pc EXCEPT ![a] = "creating"]
    BY <1>2 DEF FindNothing, Actives, Active
  <2>2. \A b \in Actor : pc[b] # "creating"
    <3>1. \A b \in Caller : pc[b] # "creating"
      BY <1>2 DEF FindNothing
    <3> QED
      BY <3>1 DEF Placed
  <2> QED
    BY <2>1, <2>2 DEF Sole
<1>3. ASSUME NEW a \in Caller, Create(a) PROVE Sole'
  <2>1. /\ DOMAIN flows' = DOMAIN flows \cup {Len(flows) + 1}
        /\ \A i \in DOMAIN flows : flows'[i] = flows[i]
    BY <1>3, CreateKeeps
  <2>2. pc[a] = "creating" /\ pc' = [pc EXCEPT ![a] = "starting"]
    BY <1>3 DEF Create
  <2>3. Actives = {}
    BY <1>a, <2>2 DEF Sole
  <2>4. \A i \in Actives' : i = Len(flows) + 1
    BY <2>1, <2>3 DEF Actives, Active
  <2>5. \A b \in Actor : pc'[b] # "creating"
    BY <1>a, <2>2 DEF Sole
  <2> QED
    BY <2>4, <2>5 DEF Sole
<1>4. ASSUME NEW a \in Officer, OfficerFires(a) PROVE Sole'
  <2>1. flows' = flows /\ \A b \in Actor : pc'[b] = "creating" => pc[b] = "creating"
    BY <1>4 DEF OfficerFires
  <2> QED
    BY <1>b, <2>1
<1>5. ASSUME NEW a \in Actor, Write(a) PROVE Sole'
  <2>1. pc[a] = "writing" /\ pc' = [pc EXCEPT ![a] = "tracing"]
    BY <1>5 DEF Write
  <2>2. at[a] \in DOMAIN flows /\ seen[a] = flows[at[a]]
    BY <1>a, <2>1 DEF Placed, LoneInv
  <2>3. PICK r \in Rules : r.from = seen[a].state
    BY <1>5 DEF Write, Rule
  <2>4. at[a] \in Actives
    BY <2>2, <2>3 DEF Rules, Actives, Active, Terminal
  <2>5. /\ DOMAIN flows' = DOMAIN flows
        /\ \A i \in DOMAIN flows : i # at[a] => flows'[i] = flows[i]
    BY <1>5, <2>2, WriteKeeps
  <2>6. Actives' \subseteq Actives
    BY <2>4, <2>5 DEF Actives, Active
  <2>7. \A b \in Actor : pc'[b] = "creating" => pc[b] = "creating"
    BY <2>1
  <2> QED
    BY <1>a, <2>6, <2>7 DEF Sole
<1>6. ASSUME NEW a \in Actor, Read(a) \/ Refuse(a) \/ Trace(a) \/ Lose(a)
      PROVE  Sole'
  <2>1. flows' = flows /\ \A b \in Actor : pc'[b] = "creating" => pc[b] = "creating"
    BY <1>6 DEF Read, Refuse, Trace, Lose, Continue
  <2> QED
    BY <1>b, <2>1
<1>7. CASE UNCHANGED vars
  BY <1>b, <1>7 DEF vars
<1> QED
  BY <1>1, <1>2, <1>3, <1>4, <1>5, <1>6, <1>7 DEF Next

\* The order never has two active flows, unless two calls were between lookup
\* and creation at once or two fire() calls overlapped on a flow.
THEOREM OneFlowIsActive == Spec => []OneActive
<1>1. Init => SoleInv
  BY DEF Init, SoleInv, Sole, Actives
<1>2. FlowInv /\ LoneInv /\ SoleInv /\ [Next]_vars => SoleInv'
  BY SoleStep
<1>3. SoleInv => OneActive
  <2> SUFFICES ASSUME \A i, j \in Actives : i = j
               PROVE  Cardinality(Actives) <= 1
    BY DEF SoleInv, Sole, OneActive
  <2>1. CASE Actives = {}
    <3>1. Cardinality(Actives) = 0
      BY <2>1, FS_EmptySet
    <3> QED
      BY <3>1
  <2>2. ASSUME NEW i \in Actives PROVE Cardinality(Actives) <= 1
    <3>1. Actives = {i}
      BY <2>2
    <3>2. Cardinality(Actives) = 1
      BY <3>1, FS_Singleton
    <3> QED
      BY <3>2
  <2> QED
    BY <2>1, <2>2
<1> QED
  BY <1>1, <1>2, <1>3, FlowInvariant, LoneInvariant, PTL DEF Spec

----------------------------------------------------------------------------
\* Accepted flows are not rejected

\* A caller whose acceptance has not been written.
NotYet(b) ==
  \/ event[b] = "reject"
  \/ event[b] = "accept" /\ pc[b] \in {"idle", "creating", "starting", "firing", "writing"}

AcceptedBy(i) == \E b \in Caller : at[b] = i /\ ~NotYet(b)

\* An amount in a row, or in a row as read, is the work of a caller of that
\* flow; officers never accept.
AcceptInv ==
  /\ \A a \in Officer : pc[a] \in {"firing", "writing", "tracing"} => event[a] # "accept"
  /\ \A i \in DOMAIN flows : "amount" \in flows[i].data => AcceptedBy(i)
  /\ \A a \in Actor : pc[a] = "writing" /\ "amount" \in seen[a].data => AcceptedBy(at[a])

\* A caller past its acceptance stays so, with its flow.
LEMMA AcceptedStays ==
  ASSUME FlowInv, [Next]_vars, NEW b \in Caller, ~NotYet(b)
  PROVE  ~NotYet(b)' /\ at'[b] = at[b]
<1> USE DEF FlowInv, TypeOK, Actor, Goto, NotYet, Placed
<1>0. b \in Actor /\ pc[b] \notin {"idle", "creating", "starting"}
  OBVIOUS
<1>1. ASSUME NEW a \in Caller, FindActive(a) PROVE ~NotYet(b)' /\ at'[b] = at[b]
  BY <1>0, <1>1 DEF FindActive
<1>2. ASSUME NEW a \in Caller, FindNothing(a) \/ Create(a) \/ TraceStart(a)
      PROVE  ~NotYet(b)' /\ at'[b] = at[b]
  BY <1>0, <1>2 DEF FindNothing, Create, TraceStart
<1>3. ASSUME NEW a \in Officer, OfficerFires(a) PROVE ~NotYet(b)' /\ at'[b] = at[b]
  BY <1>0, <1>3 DEF OfficerFires
<1>4. ASSUME NEW a \in Actor, Read(a) \/ Write(a) \/ Lose(a)
      PROVE  ~NotYet(b)' /\ at'[b] = at[b]
  BY <1>0, <1>4 DEF Read, Write, Lose
<1>5. ASSUME NEW a \in Actor, Refuse(a) PROVE ~NotYet(b)' /\ at'[b] = at[b]
  BY <1>0, <1>5 DEF Refuse, Continue
<1>6. ASSUME NEW a \in Actor, Trace(a) PROVE ~NotYet(b)' /\ at'[b] = at[b]
  BY <1>0, <1>6 DEF Trace, Continue
<1>7. CASE UNCHANGED vars
  BY <1>0, <1>7 DEF vars
<1> QED
  BY <1>1, <1>2, <1>3, <1>4, <1>5, <1>6, <1>7 DEF Next

LEMMA AcceptStep ==
  ASSUME FlowInv, AcceptInv, [Next]_vars
  PROVE  AcceptInv'
<1>0. \A i : AcceptedBy(i) => AcceptedBy(i)'
  BY AcceptedStays DEF AcceptedBy
<1> USE DEF FlowInv, TypeOK, Actor, Goto
<1>a. ASSUME flows' = flows,
             \A a \in Officer :
               pc'[a] \in {"firing", "writing", "tracing"} => event'[a] # "accept",
             \A a \in Actor : pc'[a] = "writing" =>
               pc[a] = "writing" /\ seen'[a] = seen[a] /\ at'[a] = at[a]
      PROVE  AcceptInv'
  BY <1>0, <1>a DEF AcceptInv
<1>1. ASSUME NEW a \in Caller,
             FindActive(a) \/ FindNothing(a) \/ TraceStart(a)
      PROVE  AcceptInv'
  <2>1. /\ flows' = flows /\ seen' = seen /\ event' = event /\ a \notin Officer
        /\ pc'[a] # "writing"
        /\ \A b \in Actor \ {a} : pc'[b] = pc[b] /\ at'[b] = at[b]
    BY <1>1, ActorAssumption DEF FindActive, FindNothing, TraceStart
  <2> QED
    BY <1>a, <2>1 DEF AcceptInv
<1>2. ASSUME NEW a \in Caller, Create(a) PROVE AcceptInv'
  <2>1. /\ DOMAIN flows' = DOMAIN flows \cup {Len(flows) + 1}
        /\ flows'[Len(flows) + 1] = NewFlow
        /\ \A i \in DOMAIN flows : flows'[i] = flows[i]
    BY <1>2, CreateKeeps
  <2>2. /\ seen' = seen /\ event' = event /\ a \notin Officer
        /\ pc'[a] # "writing"
        /\ \A b \in Actor \ {a} : pc'[b] = pc[b] /\ at'[b] = at[b]
    BY <1>2, ActorAssumption DEF Create
  <2>3. "amount" \notin NewFlow.data
    BY DEF NewFlow
  <2> QED
    BY <1>0, <2>1, <2>2, <2>3 DEF AcceptInv
<1>3. ASSUME NEW a \in Officer, OfficerFires(a) PROVE AcceptInv'
  <2>1. /\ flows' = flows /\ seen' = seen /\ pc'[a] = "firing"
        /\ event'[a] # "accept"
        /\ \A b \in Actor \ {a} : pc'[b] = pc[b] /\ at'[b] = at[b] /\ event'[b] = event[b]
    BY <1>3 DEF OfficerFires
  <2> QED
    BY <1>a, <2>1 DEF AcceptInv
<1>4. ASSUME NEW a \in Actor, Read(a) PROVE AcceptInv'
  <2>1. /\ pc[a] = "firing" /\ flows' = flows /\ at' = at /\ event' = event
        /\ seen'[a] = flows[at[a]]
        /\ \A b \in Actor \ {a} : pc'[b] = pc[b] /\ seen'[b] = seen[b]
    BY <1>4 DEF Read
  <2>2. at[a] \in DOMAIN flows
    BY <2>1 DEF Placed
  <2>3. \A b \in Officer :
          pc'[b] \in {"firing", "writing", "tracing"} => event'[b] # "accept"
    BY <2>1 DEF AcceptInv
  <2>4. ASSUME NEW b \in Actor, pc'[b] = "writing", "amount" \in seen'[b].data
        PROVE  AcceptedBy(at[b])
    BY <2>1, <2>2, <2>4 DEF AcceptInv
  <2> QED
    BY <1>0, <2>1, <2>3, <2>4 DEF AcceptInv
<1>5. ASSUME NEW a \in Actor, Write(a) PROVE AcceptInv'
  <2>1. /\ pc[a] = "writing" /\ pc'[a] = "tracing"
        /\ UNCHANGED <<at, event, seen>>
        /\ \A b \in Actor \ {a} : pc'[b] = pc[b]
    BY <1>5 DEF Write
  <2>2. at[a] \in DOMAIN flows
    BY <2>1 DEF Placed
  <2>3. /\ DOMAIN flows' = DOMAIN flows
        /\ \A i \in DOMAIN flows : i # at[a] => flows'[i] = flows[i]
        /\ flows'[at[a]].data = seen[a].data \cup Patch(a, event[a])
    BY <1>5, <2>2, WriteKeeps
  <2>4. ASSUME "amount" \in flows'[at[a]].data PROVE AcceptedBy(at[a])'
    <3>1. CASE "amount" \in seen[a].data
      BY <1>0, <2>1, <3>1 DEF AcceptInv
    <3>2. CASE event[a] = "accept"
      <4>1. a \in Caller
        BY <2>1, <3>2 DEF AcceptInv
      <4>2. ~NotYet(a)'
        BY <2>1, <3>2 DEF NotYet
      <4> QED
        BY <2>1, <4>1, <4>2 DEF AcceptedBy
    <3> QED
      BY <2>3, <2>4, <3>1, <3>2 DEF Patch
  <2>5. \A i \in DOMAIN flows' : "amount" \in flows'[i].data => AcceptedBy(i)'
    <3> SUFFICES ASSUME NEW i \in DOMAIN flows, "amount" \in flows'[i].data
                 PROVE  AcceptedBy(i)'
      BY <2>3
    <3>1. CASE i = at[a]
      BY <2>1, <2>4, <3>1 DEF AcceptedBy
    <3>2. CASE i # at[a]
      BY <1>0, <2>3, <3>2 DEF AcceptInv
    <3> QED
      BY <3>1, <3>2
  <2>6. \A b \in Actor :
          pc'[b] = "writing" /\ "amount" \in seen'[b].data => AcceptedBy(at[b])
    BY <2>1 DEF AcceptInv
  <2> QED
    BY <1>0, <2>1, <2>5, <2>6 DEF AcceptInv
<1>6. ASSUME NEW a \in Actor, Refuse(a) PROVE AcceptInv'
  <2>1. /\ flows' = flows /\ UNCHANGED <<at, seen>> /\ pc[a] = "firing"
        /\ pc'[a] # "writing" /\ a \in Officer => event'[a] # "accept"
        /\ \A b \in Actor \ {a} : pc'[b] = pc[b] /\ event'[b] = event[b]
    BY <1>6, ActorAssumption DEF Refuse, Continue, AcceptInv
  <2> QED
    BY <1>a, <1>6, ActorAssumption, <2>1 DEF AcceptInv, Refuse, Continue
<1>7. ASSUME NEW a \in Actor, Trace(a) PROVE AcceptInv'
  <2>1. /\ flows' = flows /\ at' = at /\ pc[a] = "tracing" /\ pc'[a] # "writing"
        /\ a \in Officer => event'[a] # "accept"
        /\ \A b \in Actor \ {a} :
             pc'[b] = pc[b] /\ event'[b] = event[b] /\ seen'[b] = seen[b]
    BY <1>7, ActorAssumption DEF Trace, Continue, AcceptInv
  <2> QED
    BY <1>a, <2>1 DEF AcceptInv
<1>8. ASSUME NEW a \in Actor, Lose(a) PROVE AcceptInv'
  <2>1. /\ flows' = flows /\ at' = at /\ event' = event /\ pc'[a] = "lost"
        /\ \A b \in Actor \ {a} : pc'[b] = pc[b] /\ seen'[b] = seen[b]
    BY <1>8 DEF Lose
  <2> QED
    BY <1>a, <2>1 DEF AcceptInv
<1>9. CASE UNCHANGED vars
  BY <1>a, <1>9 DEF vars, AcceptInv
<1> QED
  BY <1>1, <1>2, <1>3, <1>4, <1>5, <1>6, <1>7, <1>8, <1>9 DEF Next

\* A call that rejects a flow nobody else is calling for rejects one that was
\* never accepted, whatever officers did to it in the meantime.
THEOREM AcceptedIsNotRejected == Spec => AcceptedNotRejected
<1> DEFINE Kept ==
      \A a \in Caller :
        /\ pc[a] = "writing" /\ pc'[a] = "tracing" /\ event[a] = "reject"
        /\ ~\E b \in Caller \ {a} : at[b] = at[a]
        => "amount" \notin flows[at[a]].data
<1>1. Init => AcceptInv
  <2>1. Init => DOMAIN flows = {} /\ \A a \in Actor : pc[a] = "idle"
    BY DEF Init
  <2> QED
    BY <2>1 DEF AcceptInv, Actor
<1>2. FlowInv /\ AcceptInv /\ [Next]_vars => AcceptInv'
  BY AcceptStep
<1>3. FlowInv /\ AcceptInv => Kept
  BY DEF FlowInv, AcceptInv, AcceptedBy, NotYet, Placed, Actor
<1>4. Spec => [][Kept]_vars
  BY <1>1, <1>2, <1>3, FlowInvariant, PTL DEF Spec
<1> QED
  BY <1>4 DEF AcceptedNotRejected

----------------------------------------------------------------------------
\* Trails

\* A trail that starts at the beginning and has no gap, and where it ends.
Chained(s) ==
  /\ s # <<>>
  /\ s[1].from = "none"
  /\ \A k \in 2..Len(s) : s[k].from = s[k - 1].to

Ends(s, state) == s[Len(s)].to = state

\* The trail of a flow, by who is about to write the next entry of it: nobody,
\* its creator, or an actor that has already written the row.
TrailFits(i) ==
  /\ \A a \in Actor : at[a] = i /\ pc[a] = "starting" =>
       trail[i] = <<>> /\ flows[i].state = "initiated"
  /\ (\A a \in Actor : at[a] = i => pc[a] # "starting") => Chained(trail[i])
  /\ \A a \in Actor : at[a] = i /\ pc[a] = "tracing" =>
       /\ Ends(trail[i], seen[a].state)
       /\ \E r \in Rules : Rule(a, r, seen[a].state) /\ flows[i].state = r.to
  /\ (\A a \in Actor : at[a] = i => pc[a] \notin {"starting", "tracing"}) =>
       Ends(trail[i], flows[i].state)

TrailInv == \A i \in DOMAIN flows : i \in overlapped \cup untraced \/ TrailFits(i)

\* An entry that starts where the trail ends continues it.
LEMMA ChainGrows ==
  ASSUME NEW s \in Seq(Step), NEW f \in State \cup {"none"}, NEW t \in State,
         \/ Chained(s) /\ Ends(s, f)
         \/ s = <<>> /\ f = "none"
  PROVE  LET u == Append(s, [from |-> f, to |-> t])
         IN  Chained(u) /\ Ends(u, t)
<1> DEFINE e == [from |-> f, to |-> t]
           u == Append(s, e)
           n == Len(s) + 1
<1>1. e \in Step /\ e.from = f /\ e.to = t
  BY DEF Step
<1> HIDE DEF e
<1>a. /\ Len(s) \in Nat /\ u \in Seq(Step) /\ Len(u) = n /\ u[n] = e
      /\ \A k \in 1..Len(s) : u[k] = s[k]
  BY <1>1
<1> HIDE DEF u
<1>b. u # <<>>
  BY <1>a
<1>2. /\ Len(s) \in Nat /\ u \in Seq(Step) /\ Len(u) = n /\ u[n] = e /\ u # <<>>
      /\ \A k \in 1..Len(s) : u[k] = s[k]
  BY <1>a, <1>b
<1>3. Ends(u, t)
  BY <1>1, <1>2 DEF Ends
<1>4. ASSUME Chained(s) /\ Ends(s, f) PROVE Chained(u)
  <2>1. Len(s) >= 1
    BY <1>2, <1>4 DEF Chained
  <2>2. u[1].from = "none"
    BY <1>2, <1>4, <2>1 DEF Chained
  <2>3. ASSUME NEW k \in 2..Len(u) PROVE u[k].from = u[k - 1].to
    <3>1. CASE k = n
      BY <1>1, <1>2, <1>4, <2>1, <3>1 DEF Ends
    <3>2. CASE k # n
      <4>1. k \in 2..Len(s) /\ k - 1 \in 1..Len(s) /\ k \in 1..Len(s)
        BY <1>2, <2>3, <3>2
      <4> QED
        BY <1>2, <1>4, <4>1 DEF Chained
    <3> QED
      BY <3>1, <3>2
  <2> QED
    BY <1>2, <2>2, <2>3 DEF Chained
<1>5. ASSUME s = <<>>, f = "none" PROVE Chained(u)
  <2>1. n = 1
    BY <1>5
  <2> QED
    BY <1>1, <1>2, <1>5, <2>1 DEF Chained
<1>6. Chained(u) /\ Ends(u, t)
  BY <1>3, <1>4, <1>5
<1> QED
  BY <1>6 DEF u, e

\* Enter appends to one trail.
LEMMA EnterAppends ==
  ASSUME trail \in Seq(Seq(Step)), NEW a, at[a] \in DOMAIN trail, NEW f, NEW t,
         Enter(a, f, t)
  PROVE  /\ trail'[at[a]] = Append(trail[at[a]], [from |-> f, to |-> t])
         /\ \A i \in DOMAIN trail : i # at[a] => trail'[i] = trail[i]
<1>1. PICK i \in DOMAIN trail : i = at[a]
  OBVIOUS
<1>2. trail' = [trail EXCEPT ![i] = Append(trail[i], [from |-> f, to |-> t])]
  BY <1>1 DEF Enter
<1> QED
  BY <1>1, <1>2

\* A state and an event have one rule.
LEMMA RulesAreFunctional ==
  \A r, q \in Rules : r.from = q.from /\ r.event = q.event => r.to = q.to
BY DEF Rules

\* A step that leaves rows and trails alone, by an actor that is not about to
\* write an entry, or whose flow is marked as untraced.
LEMMA TrailLocal ==
  ASSUME FlowInv, TrailInv, NEW a \in Actor, UNCHANGED <<flows, trail>>,
         overlapped \subseteq overlapped', untraced \subseteq untraced',
         \A b \in Actor \ {a} :
           pc'[b] = pc[b] /\ at'[b] = at[b] /\ event'[b] = event[b] /\ seen'[b] = seen[b],
         pc[a] \in {"starting", "tracing"} => at[a] \in untraced',
         pc'[a] \notin {"starting", "tracing"}
  PROVE  TrailInv'
<1> SUFFICES ASSUME NEW i \in DOMAIN flows, i \notin overlapped', i \notin untraced'
             PROVE  TrailFits(i)'
  BY DEF TrailInv
<1>1. TrailFits(i)
  BY DEF TrailInv
<1>2. at[a] = i => pc[a] \notin {"starting", "tracing"}
  OBVIOUS
<1>3. \A b \in Actor : \A s \in {"starting", "tracing"} :
        at'[b] = i /\ pc'[b] = s <=> at[b] = i /\ pc[b] = s
  BY <1>2
<1>4. \A b \in Actor : at'[b] = i /\ pc'[b] = "tracing" =>
        b # a /\ event'[b] = event[b] /\ seen'[b] = seen[b]
  OBVIOUS
<1> QED
  BY <1>1, <1>3, <1>4 DEF TrailFits, Rule

\* Two actors about to write an entry for a flow, or a row of it, have
\* overlapped, so the one that steps decides what the trail looks like.
LEMMA TrailStep ==
  ASSUME FlowInv, LoneInv, TrailInv, [Next]_vars
  PROVE  TrailInv'
<1> USE DEF FlowInv, TypeOK, Actor, Goto
<1>0. overlapped \subseteq overlapped' /\ untraced \subseteq untraced'
  BY HistoryGrows
<1>1. ASSUME NEW a \in Caller, FindActive(a) \/ FindNothing(a) PROVE TrailInv'
  <2>1. /\ UNCHANGED <<flows, trail, event, seen>> /\ pc[a] = "idle"
        /\ pc'[a] \notin {"starting", "tracing"}
        /\ \A b \in Actor \ {a} : pc'[b] = pc[b] /\ at'[b] = at[b]
    BY <1>1 DEF FindActive, FindNothing
  <2> QED
    BY <1>0, <2>1, TrailLocal
<1>2. ASSUME NEW a \in Officer, OfficerFires(a) PROVE TrailInv'
  <2>1. /\ UNCHANGED <<flows, trail, seen>> /\ pc[a] = "idle"
        /\ pc'[a] \notin {"starting", "tracing"}
        /\ \A b \in Actor \ {a} : pc'[b] = pc[b] /\ at'[b] = at[b] /\ event'[b] = event[b]
    BY <1>2 DEF OfficerFires
  <2> QED
    BY <1>0, <2>1, TrailLocal
<1>3. ASSUME NEW a \in Actor, Read(a) PROVE TrailInv'
  <2>1. /\ UNCHANGED <<flows, trail, at, event>> /\ pc[a] = "firing"
        /\ pc'[a] \notin {"starting", "tracing"}
        /\ \A b \in Actor \ {a} : pc'[b] = pc[b] /\ seen'[b] = seen[b]
    BY <1>3 DEF Read
  <2> QED
    BY <1>0, <2>1, TrailLocal
<1>4. ASSUME NEW a \in Actor, Refuse(a) PROVE TrailInv'
  <2>1. /\ UNCHANGED <<flows, trail, at, seen>> /\ pc[a] = "firing"
        /\ pc'[a] \notin {"starting", "tracing"}
        /\ \A b \in Actor \ {a} : pc'[b] = pc[b] /\ event'[b] = event[b]
    BY <1>4 DEF Refuse, Continue
  <2> QED
    BY <1>0, <2>1, TrailLocal
<1>5. ASSUME NEW a \in Actor, Lose(a) PROVE TrailInv'
  <2>1. /\ UNCHANGED <<flows, trail, at, event>>
        /\ pc'[a] \notin {"starting", "tracing"}
        /\ \A b \in Actor \ {a} : pc'[b] = pc[b] /\ seen'[b] = seen[b]
        /\ pc[a] \in {"starting", "tracing"} => at[a] \in untraced'
    BY <1>5 DEF Lose
  <2> QED
    BY <1>0, <2>1, TrailLocal
<1>6. ASSUME NEW a \in Caller, Create(a) PROVE TrailInv'
  <2>0. PICK n \in Nat : n = Len(flows) + 1
    OBVIOUS
  <2>1. /\ DOMAIN flows' = DOMAIN flows \cup {n}
        /\ flows'[n] = NewFlow
        /\ \A i \in DOMAIN flows : flows'[i] = flows[i]
    BY <1>6, <2>0, CreateKeeps
  <2>2. trail'[n] = <<>> /\ \A i \in DOMAIN flows : trail'[i] = trail[i]
    BY <1>6, <2>0 DEF Create
  <2>3. /\ pc[a] = "creating" /\ pc'[a] = "starting" /\ at'[a] = n
        /\ UNCHANGED <<event, seen, overlapped, untraced>>
        /\ \A b \in Actor \ {a} : pc'[b] = pc[b] /\ at'[b] = at[b]
    BY <1>6, <2>0 DEF Create
  <2>4. n \notin DOMAIN flows /\ \A b \in Actor : at[b] # n
    BY <2>0
  <2>5. TrailFits(n)'
    <3>1. \A b \in Actor : at'[b] = n => b = a
      BY <2>3, <2>4
    <3>2. a \in Actor /\ at'[a] = n /\ pc'[a] = "starting"
      BY <2>3
    <3>3. trail'[n] = <<>> /\ flows'[n].state = "initiated"
      BY <2>1, <2>2 DEF NewFlow
    <3> HIDE DEF FlowInv, Actor
    <3> QED
      BY <3>1, <3>2, <3>3 DEF TrailFits
  <2>6. ASSUME NEW i \in DOMAIN flows, i \notin overlapped', i \notin untraced'
        PROVE  TrailFits(i)'
    <3>1. TrailFits(i) /\ i # n
      BY <2>3, <2>4, <2>6 DEF TrailInv
    <3>2. flows'[i] = flows[i] /\ trail'[i] = trail[i]
      BY <2>1, <2>2
    <3>3. \A b \in Actor : \A s \in {"starting", "tracing"} :
            at'[b] = i /\ pc'[b] = s <=> at[b] = i /\ pc[b] = s
      BY <2>3, <3>1
    <3> QED
      BY <2>3, <3>1, <3>2, <3>3 DEF TrailFits, Rule
  <2> QED
    BY <2>1, <2>5, <2>6 DEF TrailInv
<1>7. ASSUME NEW a \in Actor, NEW f \in State \cup {"none"}, NEW t \in State,
             at[a] \in DOMAIN flows, Enter(a, f, t), UNCHANGED <<flows, at>>,
             pc[a] \in {"starting", "tracing"}, pc'[a] \in {"firing", "done"},
             \A b \in Actor \ {a} :
               pc'[b] = pc[b] /\ event'[b] = event[b] /\ seen'[b] = seen[b],
             TrailFits(at[a]) =>
               /\ \/ Chained(trail[at[a]]) /\ Ends(trail[at[a]], f)
                  \/ trail[at[a]] = <<>> /\ f = "none"
               /\ flows[at[a]].state = t
      PROVE  TrailInv'
  <2>0. DOMAIN trail = DOMAIN flows
    OBVIOUS
  <2>1. /\ trail'[at[a]] = Append(trail[at[a]], [from |-> f, to |-> t])
        /\ \A i \in DOMAIN flows : i # at[a] => trail'[i] = trail[i]
    BY <1>7, <2>0, EnterAppends
  <2>2. trail[at[a]] \in Seq(Step)
    BY <1>7, <2>0
  <2> SUFFICES ASSUME NEW i \in DOMAIN flows, i \notin overlapped', i \notin untraced'
               PROVE  TrailFits(i)'
    BY <1>7 DEF TrailInv
  <2>3. TrailFits(i) /\ i \notin overlapped
    BY <1>0 DEF TrailInv
  <2>4. CASE i = at[a]
    <3>0. /\ \/ Chained(trail[i]) /\ Ends(trail[i], f)
             \/ trail[i] = <<>> /\ f = "none"
          /\ flows'[i].state = t
      BY <1>7, <2>3, <2>4
    <3>a. trail'[i] = Append(trail[i], [from |-> f, to |-> t]) /\ trail[i] \in Seq(Step)
      BY <2>1, <2>2, <2>4
    <3>1. Chained(trail'[i]) /\ Ends(trail'[i], flows'[i].state)
      BY <3>0, <3>a, ChainGrows
    <3>2. \A b \in Actor : at'[b] = i => pc'[b] \notin {"starting", "tracing"}
      BY <1>7, <2>3, <2>4 DEF LoneInv, Midway
    <3> QED
      BY <3>1, <3>2 DEF TrailFits
  <2>5. CASE i # at[a]
    <3>1. flows'[i] = flows[i] /\ trail'[i] = trail[i]
      BY <1>7, <2>1, <2>5
    <3>2. \A b \in Actor : at'[b] = i <=> at[b] = i
      BY <1>7
    <3>3. \A b \in Actor : at[b] = i =>
            pc'[b] = pc[b] /\ event'[b] = event[b] /\ seen'[b] = seen[b]
      BY <1>7, <2>5
    <3> HIDE DEF FlowInv, Actor
    <3> QED
      BY <2>3, <3>1, <3>2, <3>3 DEF TrailFits, Rule
  <2> QED
    BY <2>4, <2>5
<1>8. ASSUME NEW a \in Caller, TraceStart(a) PROVE TrailInv'
  <2>1. /\ Enter(a, "none", "initiated") /\ UNCHANGED <<flows, at, event, seen>>
        /\ pc[a] = "starting" /\ pc'[a] = "firing"
        /\ \A b \in Actor \ {a} : pc'[b] = pc[b]
    BY <1>8 DEF TraceStart
  <2>2. at[a] \in DOMAIN flows
    BY <2>1 DEF Placed
  <2>3. TrailFits(at[a]) =>
          trail[at[a]] = <<>> /\ flows[at[a]].state = "initiated"
    BY <2>1 DEF TrailFits
  <2>4. a \in Actor /\ "none" \in State \cup {"none"} /\ "initiated" \in State
    BY DEF State
  <2> QED
    BY <1>7, <2>1, <2>2, <2>3, <2>4
<1>9. ASSUME NEW a \in Actor, Trace(a) PROVE TrailInv'
  <2>1. PICK r \in Rules : Rule(a, r, seen[a].state) /\ Enter(a, r.from, r.to)
    BY <1>9 DEF Trace
  <2>2. /\ UNCHANGED <<flows, at>> /\ pc[a] = "tracing" /\ pc'[a] \in {"firing", "done"}
        /\ \A b \in Actor \ {a} :
             pc'[b] = pc[b] /\ event'[b] = event[b] /\ seen'[b] = seen[b]
    BY <1>9 DEF Trace, Continue
  <2>3. at[a] \in DOMAIN flows
    BY <2>2 DEF Placed
  <2>4. r.from \in State \cup {"none"} /\ r.to \in State
    BY DEF Rules, State
  <2>5. ASSUME TrailFits(at[a]), at[a] \notin overlapped
        PROVE  /\ Chained(trail[at[a]]) /\ Ends(trail[at[a]], r.from)
               /\ flows[at[a]].state = r.to
    <3>1. \A b \in Actor : at[b] = at[a] => pc[b] # "starting"
      BY <2>2, <2>3, <2>5 DEF LoneInv, Midway
    <3>2. Chained(trail[at[a]])
      BY <2>5, <3>1 DEF TrailFits
    <3>3. PICK q \in Rules : Rule(a, q, seen[a].state) /\ flows[at[a]].state = q.to
      BY <2>2, <2>5 DEF TrailFits
    <3>4. q.to = r.to /\ r.from = seen[a].state
      BY <2>1, <3>3, RulesAreFunctional DEF Rule
    <3>5. Ends(trail[at[a]], seen[a].state)
      BY <2>2, <2>5 DEF TrailFits
    <3> QED
      BY <3>2, <3>3, <3>4, <3>5
  <2>6. CASE at[a] \notin overlapped
    BY <1>7, <2>1, <2>2, <2>3, <2>4, <2>5, <2>6
  <2>7. CASE at[a] \in overlapped
    <3> SUFFICES ASSUME NEW i \in DOMAIN flows, i \notin overlapped', i \notin untraced'
                 PROVE  TrailFits(i)'
      BY <2>2 DEF TrailInv
    <3>1. i # at[a] /\ TrailFits(i)
      BY <1>0, <2>7 DEF TrailInv
    <3>a. DOMAIN trail = DOMAIN flows /\ trail \in Seq(Seq(Step))
      OBVIOUS
    <3>2. flows'[i] = flows[i] /\ trail'[i] = trail[i]
      BY <2>1, <2>2, <2>3, <3>1, <3>a, EnterAppends
    <3>b. \A b \in Actor : at'[b] = i <=> at[b] = i
      BY <2>2
    <3>3. \A b \in Actor : at[b] = i =>
            pc'[b] = pc[b] /\ event'[b] = event[b] /\ seen'[b] = seen[b]
      BY <2>2, <3>1
    <3> HIDE DEF FlowInv, Actor
    <3> QED
      BY <3>1, <3>2, <3>b, <3>3 DEF TrailFits, Rule
  <2> QED
    BY <2>6, <2>7
<1>10. ASSUME NEW a \in Actor, Write(a) PROVE TrailInv'
  <2>1. /\ pc[a] = "writing" /\ pc'[a] = "tracing"
        /\ UNCHANGED <<trail, at, event, seen, overlapped, untraced>>
        /\ \A b \in Actor \ {a} : pc'[b] = pc[b]
    BY <1>10 DEF Write
  <2>2. at[a] \in DOMAIN flows
    BY <2>1 DEF Placed
  <2>3. /\ DOMAIN flows' = DOMAIN flows
        /\ \A i \in DOMAIN flows : i # at[a] => flows'[i] = flows[i]
        /\ \E r \in Rules : Rule(a, r, seen[a].state) /\ flows'[at[a]].state = r.to
    BY <1>10, <2>2, WriteKeeps
  <2> SUFFICES ASSUME NEW i \in DOMAIN flows, i \notin overlapped, i \notin untraced
               PROVE  TrailFits(i)'
    BY <2>1, <2>3 DEF TrailInv
  <2>4. TrailFits(i)
    BY DEF TrailInv
  <2>5. CASE i = at[a]
    <3>1. \A b \in Actor : b # a /\ at[b] = i => pc[b] \notin {"starting", "tracing"}
      BY <2>1, <2>5 DEF LoneInv, Midway
    <3>2. \A b \in Actor : at[b] = i => pc[b] \notin {"starting", "tracing"}
      BY <2>1, <3>1
    <3>3. Chained(trail[i]) /\ Ends(trail[i], flows[i].state)
      BY <2>4, <3>2 DEF TrailFits
    <3>4. seen[a] = flows[i]
      BY <2>1, <2>5 DEF LoneInv
    <3>5. Ends(trail[i], seen[a].state)
      BY <3>3, <3>4
    <3>6. \E r \in Rules : Rule(a, r, seen[a].state)' /\ flows'[i].state = r.to
      BY <2>1, <2>3, <2>5 DEF Rule
    <3>7. \A b \in Actor : at'[b] = i /\ pc'[b] \in {"starting", "tracing"} => b = a
      BY <2>1, <3>1
    <3>8. a \in Actor /\ at'[a] = i /\ pc'[a] = "tracing" /\ trail' = trail /\ seen' = seen
      BY <2>1, <2>5
    <3> HIDE DEF FlowInv, Actor
    <3> QED
      BY <3>3, <3>5, <3>6, <3>7, <3>8 DEF TrailFits
  <2>6. CASE i # at[a]
    <3>1. flows'[i] = flows[i]
      BY <2>3, <2>6
    <3>2. \A b \in Actor : at[b] = i => pc'[b] = pc[b]
      BY <2>1, <2>6
    <3>3. UNCHANGED <<trail, at, event, seen>>
      BY <2>1
    <3> HIDE DEF FlowInv, Actor
    <3> QED
      BY <2>4, <3>1, <3>2, <3>3 DEF TrailFits, Rule
  <2> QED
    BY <2>5, <2>6
<1>11. CASE UNCHANGED vars
  BY <1>11 DEF vars, TrailInv, TrailFits, Rule
<1> QED
  BY <1>1, <1>2, <1>3, <1>4, <1>5, <1>6, <1>8, <1>9, <1>10, <1>11 DEF Next

\* Once nobody is midway on a flow its trail leads from the start to its state
\* without a gap, unless fire() calls overlapped or someone was lost midway.
THEOREM TrailsAreComplete == Spec => []TrailIsComplete
<1>1. Init => TrailInv
  <2>1. Init => DOMAIN flows = {}
    BY DEF Init
  <2> QED
    BY <2>1 DEF TrailInv
<1>2. FlowInv /\ LoneInv /\ TrailInv /\ [Next]_vars => TrailInv'
  BY TrailStep
<1>3. TrailInv => TrailIsComplete
  BY DEF TrailInv, TrailFits, Chained, Ends, TrailIsComplete, Midway
<1> QED
  BY <1>1, <1>2, <1>3, FlowInvariant, LoneInvariant, PTL DEF Spec

=============================================================================
