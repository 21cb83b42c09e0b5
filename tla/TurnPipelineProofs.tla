------------------------ MODULE TurnPipelineProofs ------------------------
(***************************************************************************)
(* What holds of the turns of a session for any tools, any rules of the    *)
(* tenant, any answers of the recogniser and any window.                   *)
(*                                                                         *)
(* The slots: as long as nothing was recognised there are none, and each   *)
(* answer either begins anew or adds to slots of the same intent.          *)
(* The rules: a verdict is the worst of its rules (VerdictIsWorst), and    *)
(* the rules of all tenants are always among them.                         *)
(* The history: the projection of a log is one step from that of the log   *)
(* without its last entry (MessagesAppend), which takes an induction over  *)
(* the log, in the form that a set of naturals has a least member.  A list *)
(* of messages is Paired if every result is right after its assistant      *)
(* message; saying, cutting at a turn and summarising keep it so.  Complete *)
(* says of the log which messages have all their results.                  *)
(* The redactor: a match does not cross a character outside the alphabet,  *)
(* so masking the two sides of one masks the whole (MaskSplits), and that  *)
(* is where feed() cuts.  What a scan from the left does to a text is      *)
(* shown from its end backwards (Greatest).                                *)
(***************************************************************************)
EXTENDS TurnPipeline, SequenceTheorems, NaturalsInduction, WellFoundedInduction, TLAPS

SlotsInv ==
  /\ state.intent \in Intent
  /\ state.slots \in [Slot -> Intent \cup {Unset}]
  /\ \A s \in Slot : state.slots[s] \in {Unset, state.intent}
  /\ state.intent = "unknown" => \A s \in Slot : state.slots[s] = Unset

TopicsInv == SlotsInv /\ TopicsStayApart

RulesInv == tenant \in TenantRules /\ TenantsOnlyTighten

----------------------------------------------------------------------------
\* Agents

LEMMA Agents ==
  /\ DOMAIN AllAgents = 1..5
  /\ AllAgents[1] = Presale /\ AllAgents[2] = Order /\ AllAgents[3] = Aftersale
  /\ AllAgents[4] = Account /\ AllAgents[5] = General
BY DEF AllAgents

\* A single agent serves each intent; where it is not one for refunds, the
\* refund tool is not among its tools.
LEMMA RefundsAreRouted ==
  ASSUME NEW intent \in Intent, NEW tools,
         "refund_apply" \in Offered(ResolveAgent(AllAgents, intent), tools)
  PROVE  intent \in {"after_sales", "refund", "complaint", "unknown"}
<1> DEFINE serving == {i \in DOMAIN AllAgents : intent \in AllAgents[i].intents}
           last == CHOOSE i \in serving : \A j \in serving : j <= i
<1>1. /\ Presale.intents = {"product_search", "chitchat"}
      /\ Order.intents = {"order_query", "logistics"}
      /\ Aftersale.intents = {"after_sales", "refund"}
      /\ Account.intents = {"account"}
      /\ General.intents = {"unknown", "complaint"}
  BY DEF Presale, Order, Aftersale, Account, General, Agent
<1>2. /\ "refund_apply" \notin Presale.tools /\ Presale.tools # {}
      /\ "refund_apply" \notin Order.tools /\ Order.tools # {}
      /\ "refund_apply" \notin Account.tools /\ Account.tools # {}
  BY DEF Presale, Order, Account, Agent
<1>3. ASSUME NEW k \in 1..5, serving = {k}
      PROVE  ResolveAgent(AllAgents, intent) = AllAgents[k]
  <2>1. last = k
    BY <1>3
  <2> QED
    BY <1>3, <2>1 DEF ResolveAgent
<1>4. ASSUME NEW k \in {1, 2, 4}, serving = {k} PROVE FALSE
  <2>1. ResolveAgent(AllAgents, intent) \in {Presale, Order, Account}
    BY <1>3, <1>4, Agents
  <2> QED
    BY <1>2, <2>1 DEF Offered
<1>5. CASE intent \in {"product_search", "chitchat"}
  <2>1. serving = {1}
    BY <1>1, <1>5, Agents
  <2> QED
    BY <1>4, <2>1
<1>6. CASE intent \in {"order_query", "logistics"}
  <2>1. serving = {2}
    BY <1>1, <1>6, Agents
  <2> QED
    BY <1>4, <2>1
<1>7. CASE intent = "account"
  <2>1. serving = {4}
    BY <1>1, <1>7, Agents
  <2> QED
    BY <1>4, <2>1
<1> QED
  BY <1>5, <1>6, <1>7 DEF Intent, RequiredSlots

----------------------------------------------------------------------------
\* Slots

LEMMA HeardIsTyped ==
  ASSUME NEW intent, NEW said, NEW sure
  PROVE  LET h == Heard(intent, said, sure)
         IN  /\ h.intent \in Intent
             /\ h.slots \in [Slot -> Intent \cup {Unset}]
             /\ \A s \in Slot : h.slots[s] \in {Unset, h.intent}
             /\ h.intent = "unknown" => \A s \in Slot : h.slots[s] = Unset
<1>1. "unknown" \in Intent
  BY DEF Intent, RequiredSlots
<1>2. CASE sure /\ intent \in Intent \ {"unknown"}
  BY <1>2 DEF Heard
<1>3. CASE ~(sure /\ intent \in Intent \ {"unknown"})
  BY <1>1, <1>3 DEF Heard, NoSlots
<1> QED
  BY <1>2, <1>3

\* advance keeps the slots to one intent.
LEMMA AdvanceKeeps ==
  ASSUME SlotsInv, NEW h,
         h.intent \in Intent, h.slots \in [Slot -> Intent \cup {Unset}],
         \A s \in Slot : h.slots[s] \in {Unset, h.intent}
  PROVE  LET next == Advance(state, h)
         IN  /\ h.intent = "unknown" => next = state
             /\ h.intent # "unknown" =>
                  /\ next.intent = h.intent
                  /\ next.slots \in [Slot -> Intent \cup {Unset}]
                  /\ \A s \in Slot : next.slots[s] \in {Unset, h.intent}
<1> DEFINE next == Advance(state, h)
           merged == Merged(state.slots, h.slots)
<1>1. CASE h.intent = "unknown"
  BY <1>1 DEF Advance
<1>2. CASE h.intent # "unknown" /\ Switches(state, h)
  <2>1. next.intent = h.intent /\ next.slots = h.slots
    BY <1>2 DEF Advance
  <2> QED
    BY <1>2, <2>1
<1>3. CASE h.intent # "unknown" /\ ~Switches(state, h)
  <2>1. next.intent = h.intent /\ next.slots = merged
    BY <1>3 DEF Advance
  <2>2. state.intent \in {"unknown", h.intent}
    BY <1>3 DEF Switches
  <2>3. merged \in [Slot -> Intent \cup {Unset}]
    BY DEF SlotsInv, Merged
  <2>4. \A s \in Slot : merged[s] \in {Unset, h.intent}
    BY <2>2 DEF SlotsInv, Merged
  <2> QED
    BY <1>3, <2>1, <2>3, <2>4
<1> QED
  BY <1>1, <1>2, <1>3

----------------------------------------------------------------------------
\* Each turn keeps the topics apart

\* The intent hook, on any answer of the recogniser.
LEMMA RecogniseKeepsTopics ==
  ASSUME TopicsInv, NEW t, Recognise(t)
  PROVE  TopicsInv'
<1> DEFINE h == Heard(t.intent, t.said, t.sure)
           next == Advance(state, h)
<1>1. /\ h.intent \in Intent
      /\ h.slots \in [Slot -> Intent \cup {Unset}]
      /\ \A s \in Slot : h.slots[s] \in {Unset, h.intent}
  BY HeardIsTyped
<1>2. /\ h.intent = "unknown" => next = state
      /\ h.intent # "unknown" =>
           /\ next.intent = h.intent
           /\ next.slots \in [Slot -> Intent \cup {Unset}]
           /\ \A s \in Slot : next.slots[s] \in {Unset, h.intent}
  BY <1>1, AdvanceKeeps DEF TopicsInv
<1>3. state' = (IF next.intent # "unknown" THEN next ELSE state)
  BY DEF Recognise
<1>4. state'.intent = next.intent
  <2>1. CASE next.intent # "unknown"
    BY <1>3, <2>1
  <2>2. CASE next.intent = "unknown"
    BY <1>2, <1>3, <2>2
  <2> QED
    BY <2>1, <2>2
<1>5. SlotsInv'
  <2>1. CASE h.intent = "unknown"
    <3>1. state' = state
      BY <1>2, <1>3, <2>1
    <3> QED
      BY <3>1 DEF TopicsInv, SlotsInv
  <2>2. CASE h.intent # "unknown"
    <3>1. /\ state'.intent = h.intent
          /\ state'.slots = next.slots
      BY <1>2, <1>3, <2>2
    <3> QED
      BY <1>1, <1>2, <2>2, <3>1 DEF SlotsInv
  <2> QED
    BY <2>1, <2>2
<1>6. "refund_apply" \in offered' =>
        state'.intent \in {"after_sales", "refund", "complaint", "unknown"}
  <2>1. offered' = Offered(ResolveAgent(AllAgents, next.intent), Tool)
    BY DEF Recognise
  <2>2. next.intent \in Intent
    BY <1>4, <1>5 DEF SlotsInv
  <2> QED
    BY <1>4, <2>1, <2>2, RefundsAreRouted
<1> QED
  BY <1>5, <1>6 DEF TopicsInv, TopicsStayApart, SlotsInv

LEMMA TopicsStep ==
  ASSUME TopicsInv, [Next]_vars
  PROVE  TopicsInv'
<1> USE DEF TopicsInv, SlotsInv, TopicsStayApart
<1>1. ASSUME NEW t \in Topics, Recognise(t) PROVE TopicsInv'
  BY <1>1, RecogniseKeepsTopics
<1>2. ASSUME UNCHANGED state, offered' \in {offered, {}} PROVE TopicsInv'
  BY <1>2
<1>3. ASSUME NEW hits, Begin(hits) \/ Reply(hits) PROVE TopicsInv'
  BY <1>2, <1>3 DEF Begin, Reply, EndTurn, topic
<1>4. CASE Speak \/ Compact \/ NoCompaction \/ OutOfCalls \/ Trim
  BY <1>2, <1>4 DEF Speak, Compact, NoCompaction, OutOfCalls, Trim, EndTurn, topic
<1>5. ASSUME NEW n, AskForTools(n) \/ ToolsBreakOff(n) PROVE TopicsInv'
  BY <1>2, <1>5 DEF AskForTools, ToolsBreakOff, EndTurn, topic
<1>6. CASE RunTools \/ NoAnswer
  BY <1>2, <1>6 DEF RunTools, NoAnswer, EndTurn, topic
<1>7. CASE UNCHANGED vars
  BY <1>2, <1>7 DEF vars, topic
<1> QED
  BY <1>1, <1>3, <1>4, <1>5, <1>6, <1>7 DEF Next

\* What was said under one intent is never a slot of another, and refunds are
\* offered only where they belong.
THEOREM SlotsKeepToTheirTopic == Spec => []TopicsStayApart
<1>1. Init => TopicsInv
  <2>1. "unknown" \in Intent
    BY DEF Intent, RequiredSlots
  <2>2. ASSUME Init PROVE state = EmptyState /\ offered = {}
    BY <2>2 DEF Init
  <2>3. EmptyState.intent = "unknown" /\ EmptyState.slots = NoSlots
    BY DEF EmptyState
  <2> QED
    BY <2>1, <2>2, <2>3 DEF TopicsInv, SlotsInv, TopicsStayApart, NoSlots
<1>2. TopicsInv /\ [Next]_vars => TopicsInv'
  BY TopicsStep
<1>3. TopicsInv => TopicsStayApart
  BY DEF TopicsInv
<1> QED
  BY <1>1, <1>2, <1>3, PTL DEF Spec

----------------------------------------------------------------------------
\* Verdicts

\* The worst of some actions exists and no other is worse.
LEMMA WorstExists ==
  ASSUME NEW A \in SUBSET DOMAIN Severity, A # {}
  PROVE  LET worst == CHOOSE a \in A : \A b \in A : Severity[a] >= Severity[b]
         IN  worst \in A /\ \A b \in A : Severity[worst] >= Severity[b]
<1> DEFINE OrderOf(a) == \A b \in A : Severity[a] >= Severity[b]
<1>1. /\ DOMAIN Severity = {"allow", "mask", "handoff", "block"}
      /\ Severity["allow"] = 0 /\ Severity["mask"] = 1
      /\ Severity["handoff"] = 2 /\ Severity["block"] = 3
  BY DEF Severity
<1>2. \E a \in A : OrderOf(a)
  <2>1. CASE "block" \in A
    BY <1>1, <2>1
  <2>2. CASE "block" \notin A /\ "handoff" \in A
    BY <1>1, <2>2
  <2>3. CASE "block" \notin A /\ "handoff" \notin A /\ "mask" \in A
    BY <1>1, <2>3
  <2>4. CASE A = {"allow"}
    BY <1>1, <2>4
  <2> QED
    BY <1>1, <2>1, <2>2, <2>3, <2>4
<1> QED
  BY <1>2

\* SafetyScanner.scan: the verdict is the action of a rule that matched, or
\* `allow', and no rule that matched asks for worse.
LEMMA VerdictIsWorst ==
  ASSUME NEW rules, NEW hits, \A r \in rules : r.action \in DOMAIN Severity
  PROVE  /\ \/ Verdict(rules, hits) = "allow"
            \/ \E r \in rules \cap hits : Verdict(rules, hits) = r.action
         /\ \A r \in rules \cap hits :
              Severity[Verdict(rules, hits)] >= Severity[r.action]
         /\ Verdict(rules, hits) \in DOMAIN Severity
<1> DEFINE A == {r.action : r \in rules \cap hits} \cup {"allow"}
<1>1. "allow" \in DOMAIN Severity
  BY DEF Severity
<1>2. A \in SUBSET DOMAIN Severity /\ A # {}
  BY <1>1
<1>3. Verdict(rules, hits) \in A
      /\ \A b \in A : Severity[Verdict(rules, hits)] >= Severity[b]
  BY <1>2, WorstExists DEF Verdict
<1> QED
  BY <1>2, <1>3

\* The rules of all tenants are among those of every tenant.
LEMMA GlobalRulesStay ==
  ASSUME NEW global, NEW own
  PROVE  /\ global \subseteq ResolveSafetyRules(global, own)
         /\ ResolveSafetyRules(global, own) \subseteq global \cup own
BY DEF ResolveSafetyRules

----------------------------------------------------------------------------
\* No tenant loosens the rules

LEMMA GlobalRules ==
  /\ \A r \in InputRules : r.action \in {"block", "handoff"}
  /\ \A r \in OutputRules : r.action = "mask"
BY DEF InputRules, OutputRules, Rule

LEMMA Severities ==
  /\ DOMAIN Severity = {"allow", "mask", "handoff", "block"}
  /\ Severity["allow"] = 0 /\ Severity["mask"] = 1
  /\ Severity["handoff"] = 2 /\ Severity["block"] = 3
BY DEF Severity

\* beforeTurn judges the input by all rules.
LEMMA BeginIsStrict ==
  ASSUME RulesInv, NEW hits, Begin(hits)
  PROVE  RulesInv'
<1> DEFINE rules == ResolveSafetyRules(InputRules, tenant.input)
           verdict == Verdict(rules, hits)
<1>1. tenant' = tenant /\ shown' = {}
  BY DEF Begin, topic
<1>2. \A r \in rules : r.action \in DOMAIN Severity
  BY RulesAssumption, GlobalRulesStay, GlobalRules, Severities DEF RulesInv
<1>3. \A r \in rules \cap hits : Severity[verdict] >= Severity[r.action]
  BY <1>2, VerdictIsWorst
<1>4. verdict \in DOMAIN Severity
  BY <1>2, VerdictIsWorst
<1>5. CASE verdict = "block"
  BY <1>1, <1>5 DEF Begin, RulesInv, TenantsOnlyTighten, RepliesAreMasked
<1>6. CASE verdict # "block"
  <2>1. input' = hits /\ advised' = (verdict # "allow")
    BY <1>6 DEF Begin
  <2>2. ASSUME NEW r \in InputRules \cap hits
        PROVE  r.action # "block" /\ (r.action = "handoff" => verdict # "allow")
    <3>1. r \in rules \cap hits
      BY GlobalRulesStay
    <3>2. Severity[verdict] >= Severity[r.action]
      BY <1>3, <3>1
    <3> QED
      BY <1>4, <1>6, <3>2, Severities
  <2> QED
    BY <1>1, <2>1, <2>2 DEF RulesInv, TenantsOnlyTighten, RepliesAreMasked
<1> QED
  BY <1>5, <1>6

\* afterTurn: what stays readable of a reply.
LEMMA ReplyIsMasked ==
  ASSUME RulesInv, NEW hits, Reply(hits)
  PROVE  RulesInv'
<1> DEFINE rules == ResolveSafetyRules(OutputRules, tenant.output)
           verdict == Verdict(rules, hits)
<1>1. tenant' = tenant /\ pc' = "idle" /\ shown' = Readable(rules, hits)
  BY DEF Reply, EndTurn
<1>2. \A r \in rules : r.action \in DOMAIN Severity
  BY RulesAssumption, GlobalRulesStay, GlobalRules, Severities DEF RulesInv
<1>3. \/ verdict = "allow"
      \/ \E r \in rules \cap hits : verdict = r.action
  BY <1>2, VerdictIsWorst
<1>4. \A r \in rules \cap hits : Severity[verdict] >= Severity[r.action]
  BY <1>2, VerdictIsWorst
<1>5. OutputRules \subseteq rules /\ \A r \in OutputRules : r.action = "mask"
  BY GlobalRulesStay, GlobalRules
<1>6. CASE verdict = "mask"
  <2>1. shown' = hits \ {r \in rules : r.action = "mask"}
    BY <1>1, <1>6 DEF Readable
  <2> QED
    BY <1>1, <1>5, <2>1 DEF RulesInv, TenantsOnlyTighten, RepliesAreMasked
<1>7. CASE verdict = "allow"
  <2>1. shown' = hits
    BY <1>1, <1>7 DEF Readable
  <2>2. hits \cap OutputRules = {}
    BY <1>4, <1>5, <1>7, Severities
  <2> QED
    BY <1>1, <2>1, <2>2 DEF RulesInv, TenantsOnlyTighten, RepliesAreMasked
<1>8. CASE verdict \notin {"mask", "allow"}
  <2>1. shown' = hits
    BY <1>1, <1>8 DEF Readable
  <2>2. PICK r \in rules \cap hits : verdict = r.action
    BY <1>3, <1>8
  <2>3. r \in hits \ OutputRules /\ r.action # "mask"
    BY <1>5, <1>8, <2>2
  <2> QED
    BY <1>1, <2>1, <2>3 DEF RulesInv, TenantsOnlyTighten, RepliesAreMasked
<1> QED
  BY <1>6, <1>7, <1>8

LEMMA RulesStep ==
  ASSUME RulesInv, [Next]_vars
  PROVE  RulesInv'
<1> USE DEF RulesInv, TenantsOnlyTighten, RepliesAreMasked
<1>1. ASSUME NEW hits, Begin(hits) \/ Reply(hits) PROVE RulesInv'
  BY <1>1, BeginIsStrict, ReplyIsMasked
<1>2. ASSUME NEW t, Recognise(t) PROVE RulesInv'
  BY <1>2 DEF Recognise
<1>3. ASSUME UNCHANGED <<tenant, shown>>, pc' \notin {"recognise", "speak"}
      PROVE  RulesInv'
  BY <1>3
<1>4. CASE Speak \/ Compact \/ NoCompaction \/ OutOfCalls \/ Trim
  BY <1>3, <1>4 DEF Speak, Compact, NoCompaction, OutOfCalls, Trim, EndTurn
<1>5. ASSUME NEW n, AskForTools(n) \/ ToolsBreakOff(n) PROVE RulesInv'
  BY <1>3, <1>5 DEF AskForTools, ToolsBreakOff, EndTurn
<1>6. CASE RunTools \/ NoAnswer
  BY <1>3, <1>6 DEF RunTools, NoAnswer, EndTurn
<1>7. CASE UNCHANGED vars
  BY <1>7 DEF vars
<1> QED
  BY <1>1, <1>2, <1>4, <1>5, <1>6, <1>7 DEF Next

\* Whatever rules a tenant adds, those of all tenants stop, hand over and mask
\* as they would without them, except where a stricter one matched too.
THEOREM RulesOnlyTighten == Spec => []TenantsOnlyTighten
<1>1. Init => RulesInv
  BY DEF Init, RulesInv, TenantsOnlyTighten, RepliesAreMasked
<1>2. RulesInv /\ [Next]_vars => RulesInv'
  BY RulesStep
<1>3. RulesInv => TenantsOnlyTighten
  BY DEF RulesInv
<1> QED
  BY <1>1, <1>2, <1>3, PTL DEF Spec

----------------------------------------------------------------------------
\* The projection of the log, entry by entry

\* Every set of naturals with a member has a least one.
LEMMA Least ==
  ASSUME NEW T \in SUBSET Nat, NEW e \in T
  PROVE  \E x \in T : \A y \in T : x <= y
<1>1. {ss \in Nat \X Nat : ss[1] < ss[2]} = OpToRel(<, Nat)
  BY DEF OpToRel
<1>2. PICK R : R = {ss \in Nat \X Nat : ss[1] < ss[2]} /\ IsWellFoundedOn(R, Nat)
  BY <1>1, NatLessThanWellFounded
<1>3. PICK x \in T : \A y \in T : ~(<<y, x>> \in R)
  BY <1>2, WFMin
<1>4. \A y \in T : ~(y < x)
  BY <1>2, <1>3
<1> QED
  BY <1>4

\* f holds the projections of the first entries of a log, up to n of them.
Projects(entries, n, f) ==
  f = [k \in 0..n |-> IF k = 0 THEN <<>> ELSE Projected(entries, f[k - 1], k)]

LEMMA ProjectionsExist ==
  ASSUME NEW entries, NEW n \in Nat
  PROVE  \E f : Projects(entries, n, f)
<1> DEFINE T == {k \in Nat : ~\E f : Projects(entries, k, f)}
<1> SUFFICES ASSUME n \in T PROVE FALSE
  OBVIOUS
<1>1. PICK m \in T : \A k \in T : m <= k
  BY Least
<1>2. m # 0
  <2>1. Projects(entries, 0, [k \in 0..0 |-> <<>>])
    BY DEF Projects
  <2> QED
    BY <1>1, <2>1
<1>3. m - 1 \in Nat /\ m - 1 \notin T
  BY <1>1, <1>2
<1>4. PICK f : Projects(entries, m - 1, f)
  BY <1>3
<1> DEFINE g == [k \in 0..m |-> IF k = 0 THEN <<>> ELSE Projected(entries, f[k - 1], k)]
<1>5. \A k \in 0..(m - 1) : g[k] = f[k]
  BY <1>3, <1>4 DEF Projects
<1>6. Projects(entries, m, g)
  <2>1. \A k \in 0..m :
          (IF k = 0 THEN <<>> ELSE Projected(entries, f[k - 1], k))
            = (IF k = 0 THEN <<>> ELSE Projected(entries, g[k - 1], k))
    <3> SUFFICES ASSUME NEW k \in 0..m, k # 0 PROVE f[k - 1] = g[k - 1]
      OBVIOUS
    <3>1. k - 1 \in 0..(m - 1)
      BY <1>3
    <3> HIDE DEF g
    <3> QED
      BY <1>5, <3>1
  <2>2. g = [k \in 0..m |-> IF k = 0 THEN <<>> ELSE Projected(entries, g[k - 1], k)]
    BY <2>1, Zenon
  <2> QED
    BY <2>2 DEF Projects
<1> QED
  BY <1>1, <1>6

LEMMA MessagesProject ==
  ASSUME NEW entries, Len(entries) \in Nat
  PROVE  \E f : Projects(entries, Len(entries), f) /\ Messages(entries) = f[Len(entries)]
BY ProjectionsExist DEF Messages, Projects

\* On the way to the projection of a longer log lies that of its beginning.
LEMMA PassesThrough ==
  ASSUME NEW one, NEW other, Len(one) \in Nat, Len(other) \in Nat, Len(one) <= Len(other),
         \A k \in 1..Len(one) : one[k] = other[k],
         NEW q, Projects(other, Len(other), q)
  PROVE  q[Len(one)] = Messages(one)
<1>1. PICK p : Projects(one, Len(one), p) /\ Messages(one) = p[Len(one)]
  BY MessagesProject
<1> DEFINE T == {k \in 0..Len(one) : p[k] # q[k]}
<1> SUFFICES ASSUME NEW e \in T PROVE FALSE
  BY <1>1
<1>2. T \in SUBSET Nat
  OBVIOUS
<1>3. PICK k \in T : \A j \in T : k <= j
  BY <1>2, Least
<1>4. k \in 0..Len(one) /\ p[k] # q[k] /\ k \in 0..Len(other)
  BY <1>3
<1>5. /\ p[k] = IF k = 0 THEN <<>> ELSE Projected(one, p[k - 1], k)
      /\ q[k] = IF k = 0 THEN <<>> ELSE Projected(other, q[k - 1], k)
  BY <1>1, <1>4 DEF Projects
<1>6. k # 0
  BY <1>4, <1>5
<1>7. k - 1 \in 0..Len(one) /\ k - 1 \notin T
  BY <1>3, <1>4, <1>6
<1>8. p[k - 1] = q[k - 1]
  BY <1>7
<1>9. Projected(one, p[k - 1], k) = Projected(other, q[k - 1], k)
  BY <1>4, <1>6, <1>8 DEF Projected
<1> QED
  BY <1>4, <1>5, <1>6, <1>9

\* getMessages, one entry later.
LEMMA MessagesAppend ==
  ASSUME NEW E, NEW entries \in Seq(E), NEW e \in E
  PROVE  LET more == Append(entries, e)
         IN  Messages(more) = Projected(more, Messages(entries), Len(entries) + 1)
<1> DEFINE more == Append(entries, e)
           n == Len(entries)
<1>1. /\ n \in Nat /\ Len(more) = n + 1 /\ \A k \in 1..n : entries[k] = more[k]
  BY AppendProperties, LenProperties
<1>3. PICK g : Projects(more, n + 1, g) /\ Messages(more) = g[n + 1]
  <2> HIDE DEF more, n
  <2>1. Len(more) \in Nat /\ Len(more) = n + 1
    BY <1>1
  <2> QED
    BY <2>1, MessagesProject
<1>4. g[n] = Messages(entries)
  <2> HIDE DEF more
  <2>1. Len(entries) \in Nat /\ Len(more) \in Nat /\ Len(entries) <= Len(more)
    BY <1>1
  <2>2. \A k \in 1..Len(entries) : entries[k] = more[k]
    BY <1>1
  <2>3. Projects(more, Len(more), g)
    BY <1>1, <1>3
  <2> QED
    BY <2>1, <2>2, <2>3, PassesThrough
<1>5. g[n + 1] = Projected(more, g[n], n + 1)
  <2> HIDE DEF more, n
  <2> QED
    BY <1>1, <1>3 DEF Projects
<1> QED
  BY <1>3, <1>4, <1>5

\* The entries of a turn are added one by one: those that are no summary are
\* the last messages.
LEMMA MessagesExtend ==
  ASSUME NEW E, NEW entries \in Seq(E), NEW said \in Seq(E),
         \A k \in DOMAIN said : said[k].kind # "summary",
         Messages(entries) \in Seq(Nat)
  PROVE  Messages(entries \o said)
           = Messages(entries) \o [k \in DOMAIN said |-> Len(entries) + k]
<1> DEFINE all == entries \o said
           n == Len(entries)
           m == Len(said)
           M == Messages(entries)
           Grown(k) == M \o [j \in 1..k |-> n + j]
<1>1. /\ n \in Nat /\ m \in Nat /\ Len(all) = n + m /\ DOMAIN said = 1..m
      /\ \A k \in 1..n : entries[k] = all[k]
      /\ \A k \in 1..m : all[n + k] = said[k]
  BY ConcatProperties, LenProperties
<1>3. PICK g : Projects(all, n + m, g) /\ Messages(all) = g[n + m]
  <2> HIDE DEF all, n, m
  <2>1. Len(all) \in Nat /\ Len(all) = n + m
    BY <1>1
  <2> QED
    BY <2>1, MessagesProject
<1>4. g[n] = M
  <2> HIDE DEF all
  <2>1. Len(entries) \in Nat /\ Len(all) \in Nat /\ Len(entries) <= Len(all)
    BY <1>1
  <2>2. \A k \in 1..Len(entries) : entries[k] = all[k]
    BY <1>1
  <2>3. Projects(all, Len(all), g)
    BY <1>1, <1>3
  <2> QED
    BY <2>1, <2>2, <2>3, PassesThrough
<1>5. \A k \in 1..m : g[n + k] = Append(g[n + k - 1], n + k)
  <2> SUFFICES ASSUME NEW k \in 1..m PROVE g[n + k] = Append(g[n + k - 1], n + k)
    OBVIOUS
  <2>1. all[n + k].kind # "summary"
    BY <1>1
  <2>2. g[n + k] = Projected(all, g[n + k - 1], n + k)
    <3> HIDE DEF all, n, m
    <3>1. n + k \in 0..(n + m) /\ n + k # 0
      BY <1>1
    <3> QED
      BY <1>1, <1>3, <3>1 DEF Projects
  <2> QED
    BY <2>1, <2>2 DEF Projected
<1>6. \A k \in 0..m : Grown(k) \in Seq(Nat) /\ (k > 0 => Grown(k) = Append(Grown(k - 1), n + k))
  <2> HIDE DEF n, m, M
  <2> SUFFICES ASSUME NEW k \in 0..m
               PROVE  Grown(k) \in Seq(Nat) /\ (k > 0 => Grown(k) = Append(Grown(k - 1), n + k))
    OBVIOUS
  <2>0. M \in Seq(Nat)
    BY DEF M
  <2>1. \A i \in 0..m : [j \in 1..i |-> n + j] \in Seq(Nat) /\ Len([j \in 1..i |-> n + j]) = i
    BY <1>1
  <2>2. Grown(k) \in Seq(Nat)
    BY <2>0, <2>1, ConcatProperties
  <2>3. ASSUME k > 0 PROVE Grown(k) = Append(Grown(k - 1), n + k)
    <3>1. k - 1 \in 0..m /\ n + k \in Nat
      BY <1>1, <2>3
    <3>2. [j \in 1..k |-> n + j] = Append([j \in 1..(k - 1) |-> n + j], n + k)
      BY <1>1, <2>1, <2>3, <3>1
    <3>3. /\ [j \in 1..(k - 1) |-> n + j] \in Seq(Nat)
      BY <2>1, <3>1
    <3> QED
      BY <2>0, <3>1, <3>2, <3>3
  <2> QED
    BY <2>2, <2>3
<1>7. \A k \in 0..m : g[n + k] = Grown(k)
  <2> DEFINE T == {k \in 0..m : g[n + k] # Grown(k)}
  <2> HIDE DEF n, m, M, Grown, all
  <2> SUFFICES ASSUME NEW e \in T PROVE FALSE
    OBVIOUS
  <2>1. T \in SUBSET Nat
    BY <1>1
  <2>2. PICK k \in T : \A j \in T : k <= j
    BY <2>1, Least
  <2>3. k \in 0..m /\ g[n + k] # Grown(k)
    BY <2>2
  <2>4. k # 0
    <3>1. Grown(0) = M
      <4>1. M \in Seq(Nat) /\ [j \in 1..0 |-> n + j] = <<>>
        BY DEF M
      <4> QED
        BY <4>1, ConcatEmptySeq DEF Grown
    <3> QED
      BY <1>1, <1>4, <2>3, <3>1
  <2>5. k - 1 \in 0..m /\ k - 1 \notin T
    BY <1>1, <2>1, <2>2, <2>3, <2>4
  <2>6. g[n + (k - 1)] = Grown(k - 1)
    BY <2>5
  <2>7. n + (k - 1) = n + k - 1
    BY <1>1, <2>3
  <2>8. g[n + k] = Append(Grown(k - 1), n + k)
    <3>1. k \in 1..m
      BY <1>1, <2>3, <2>4
    <3>2. g[n + k] = Append(g[n + k - 1], n + k)
      BY <1>5, <3>1
    <3> QED
      BY <2>6, <2>7, <3>2
  <2>9. Grown(k) = Append(Grown(k - 1), n + k)
    <3>1. k > 0
      BY <1>1, <2>3, <2>4
    <3> QED
      BY <1>6, <2>3, <3>1
  <2> QED
    BY <2>3, <2>8, <2>9
<1>8. Messages(all) = Grown(m)
  <2> HIDE DEF n, m, M, Grown, all
  <2> QED
    BY <1>1, <1>3, <1>7
<1> QED
  BY <1>1, <1>8

LEMMA NoMessages == Messages(<<>>) = <<>>
<1>1. Len(<<>>) = 0
  OBVIOUS
<1>2. PICK f : Projects(<<>>, 0, f) /\ Messages(<<>>) = f[0]
  BY <1>1, MessagesProject
<1> QED
  BY <1>2 DEF Projects

----------------------------------------------------------------------------
\* Lists of messages that keep tool uses and their results together

Entries ==
  [kind : {"user", "assistant", "tool", "summary"},
   uses : Nat, count : Nat, covers : SUBSET Nat]

\* A result comes right after the message before it in the log, and what is
\* followed by a result in the log is followed by it in the list.
Paired(entries, messages) ==
  /\ messages \in Seq(1..Len(entries))
  /\ \A i \in 1..Len(messages) :
       entries[messages[i]].kind = "tool" => i > 1 /\ messages[i - 1] = messages[i] - 1
  /\ \A i \in 1..Len(messages) :
       messages[i] < Len(entries) /\ entries[messages[i] + 1].kind = "tool" =>
         i < Len(messages) /\ messages[i + 1] = messages[i] + 1

\* The last entry, and only that one, is the last message.
Ends(entries, messages) ==
  /\ Len(messages) > 0
  /\ \A i \in 1..Len(messages) : messages[i] = Len(entries) <=> i = Len(messages)

\* A result in the log follows an assistant message or a result.
ResultsInPlace(entries) ==
  \A i \in 1..Len(entries) :
    entries[i].kind = "tool" => i > 1 /\ entries[i - 1].kind \in {"tool", "assistant"}

\* A message that is no result may follow anything.
LEMMA AppendPairs ==
  ASSUME NEW entries \in Seq(Entries), NEW e \in Entries, e.kind # "tool",
         NEW messages, Paired(entries, messages)
  PROVE  /\ Paired(Append(entries, e), Append(messages, Len(entries) + 1))
         /\ Ends(Append(entries, e), Append(messages, Len(entries) + 1))
         /\ ResultsInPlace(entries) => ResultsInPlace(Append(entries, e))
<1>0. Len(entries) \in Nat /\ Len(messages) \in Nat
  BY LenProperties DEF Paired
<1>a. PICK n \in Nat, m \in Nat : n = Len(entries) /\ m = Len(messages)
  BY <1>0
<1>b. PICK more, longer :
        more = Append(entries, e) /\ longer = Append(messages, Len(entries) + 1)
  OBVIOUS
<1>1. /\ n = Len(entries) /\ m = Len(messages)
      /\ more = Append(entries, e) /\ longer = Append(messages, Len(entries) + 1)
  BY <1>a, <1>b
<1>2. /\ more \in Seq(Entries) /\ Len(more) = n + 1 /\ more[n + 1] = e
      /\ \A k \in 1..n : more[k] = entries[k]
  BY <1>1, AppendProperties
<1>3. /\ messages \in Seq(1..(n + 1)) /\ \A k \in 1..m : messages[k] \in 1..n
  BY <1>1, SeqMonotonic, ElementOfSeq DEF Paired
<1>4. /\ longer \in Seq(1..(n + 1)) /\ Len(longer) = m + 1 /\ longer[m + 1] = n + 1
      /\ \A k \in 1..m : longer[k] = messages[k]
  BY <1>1, <1>3, AppendProperties
<1>5. \A i \in 1..m :
        /\ entries[messages[i]].kind = "tool" => i > 1 /\ messages[i - 1] = messages[i] - 1
        /\ messages[i] < n /\ entries[messages[i] + 1].kind = "tool" =>
             i < m /\ messages[i + 1] = messages[i] + 1
  BY <1>1 DEF Paired
<1>6. ASSUME NEW i \in 1..(m + 1), more[longer[i]].kind = "tool"
      PROVE  i > 1 /\ longer[i - 1] = longer[i] - 1
  <2>1. i \in 1..m
    BY <1>2, <1>4, <1>6
  <2>2. longer[i] = messages[i] /\ messages[i] \in 1..n /\ entries[messages[i]].kind = "tool"
    BY <1>2, <1>3, <1>4, <1>6, <2>1
  <2>3. i > 1 /\ messages[i - 1] = messages[i] - 1
    BY <1>5, <2>1, <2>2
  <2>4. i - 1 \in 1..m
    BY <2>1, <2>3
  <2> QED
    BY <1>4, <2>2, <2>3, <2>4
<1>7. ASSUME NEW i \in 1..(m + 1), longer[i] < n + 1, more[longer[i] + 1].kind = "tool"
      PROVE  i < m + 1 /\ longer[i + 1] = longer[i] + 1
  <2>1. i \in 1..m
    BY <1>4, <1>7
  <2>2. longer[i] = messages[i] /\ messages[i] \in 1..n
    BY <1>3, <1>4, <2>1
  <2>3. messages[i] < n /\ entries[messages[i] + 1].kind = "tool"
    <3>1. messages[i] # n
      BY <1>2, <1>7, <2>2
    <3>2. messages[i] + 1 \in 1..n
      BY <2>2, <3>1
    <3> QED
      BY <1>2, <1>7, <2>2, <3>2
  <2>4. i < m /\ messages[i + 1] = messages[i] + 1
    BY <1>5, <2>1, <2>3
  <2>5. i + 1 \in 1..m
    BY <2>1, <2>4
  <2> QED
    BY <1>4, <2>1, <2>2, <2>4, <2>5
<1>8. Paired(more, longer)
  BY <1>2, <1>4, <1>6, <1>7 DEF Paired
<1>9. Ends(more, longer)
  BY <1>2, <1>3, <1>4 DEF Ends
<1>10. ASSUME ResultsInPlace(entries), NEW i \in 1..(n + 1), more[i].kind = "tool"
       PROVE  i > 1 /\ more[i - 1].kind \in {"tool", "assistant"}
  <2>1. i \in 1..n
    BY <1>2, <1>10
  <2>2. i > 1 /\ entries[i - 1].kind \in {"tool", "assistant"}
    BY <1>1, <1>2, <1>10, <2>1 DEF ResultsInPlace
  <2>3. i - 1 \in 1..n
    BY <2>1, <2>2
  <2> QED
    BY <1>2, <2>2, <2>3
<1>11. ResultsInPlace(entries) => ResultsInPlace(more)
  BY <1>2, <1>10 DEF ResultsInPlace
<1> QED
  BY <1>1, <1>8, <1>9, <1>11

\* So may the results of an assistant message that was the last one.
LEMMA ResultsPair ==
  ASSUME NEW entries \in Seq(Entries), Len(entries) > 0,
         entries[Len(entries)].kind = "assistant",
         NEW messages, Paired(entries, messages), Ends(entries, messages),
         NEW results \in Nat, NEW said,
         said = [k \in 1..results |-> ToolResult]
  PROVE  /\ Paired(entries \o said,
                   messages \o [k \in 1..results |-> Len(entries) + k])
         /\ ResultsInPlace(entries) => ResultsInPlace(entries \o said)
<1>0. Len(entries) \in Nat /\ Len(messages) \in Nat /\ Len(messages) > 0
  BY LenProperties DEF Paired, Ends
<1>a. PICK n \in Nat, m \in Nat : n = Len(entries) /\ m = Len(messages)
  BY <1>0
<1>b. PICK new : new = [k \in 1..results |-> Len(entries) + k]
  OBVIOUS
<1>c. PICK more, longer : more = entries \o said /\ longer = messages \o new
  OBVIOUS
<1>1. /\ n = Len(entries) /\ m = Len(messages) /\ n > 0 /\ m > 0
      /\ more = entries \o said /\ longer = messages \o new
  BY <1>0, <1>a, <1>c
<1>2. /\ ToolResult \in Entries /\ ToolResult.kind = "tool"
  BY DEF ToolResult, Entry, Entries
<1>3. /\ said \in Seq(Entries) /\ Len(said) = results
      /\ \A k \in 1..results : said[k].kind = "tool"
  BY <1>2
<1>4. /\ Len(more) = n + results
      /\ \A k \in 1..n : more[k] = entries[k]
      /\ \A k \in 1..results : more[n + k].kind = "tool"
  <2>1. /\ Len(more) = n + results
        /\ \A k \in 1..(n + results) : more[k] = IF k <= n THEN entries[k] ELSE said[k - n]
    BY <1>1, <1>3, ConcatProperties
  <2>2. \A k \in 1..results : n + k \in 1..(n + results) /\ ~(n + k <= n) /\ (n + k) - n = k
    BY <1>1
  <2>3. \A k \in 1..n : k \in 1..(n + results) /\ k <= n
    BY <1>1
  <2>4. \A k \in 1..n : more[k] = entries[k]
    BY <2>1, <2>3
  <2>5. \A k \in 1..results : more[n + k] = said[k]
    BY <2>1, <2>2
  <2> QED
    BY <1>3, <2>1, <2>4, <2>5
<1>5. /\ messages \in Seq(1..(n + results)) /\ \A k \in 1..m : messages[k] \in 1..n
  <2>1. 1..n \subseteq 1..(n + results) /\ messages \in Seq(1..n)
    BY <1>1 DEF Paired
  <2> QED
    BY <1>1, <2>1, SeqMonotonic, ElementOfSeq
<1>6. /\ new \in Seq(1..(n + results)) /\ Len(new) = results
      /\ \A k \in 1..results : new[k] = n + k
  BY <1>b, <1>1
<1>7. /\ longer \in Seq(1..(n + results)) /\ Len(longer) = m + results
      /\ \A k \in 1..m : longer[k] = messages[k]
      /\ \A k \in 1..results : longer[m + k] = n + k
  <2>1. /\ longer \in Seq(1..(n + results)) /\ Len(longer) = m + results
        /\ \A k \in 1..(m + results) : longer[k] = IF k <= m THEN messages[k] ELSE new[k - m]
    BY <1>1, <1>5, <1>6, ConcatProperties
  <2>2. \A k \in 1..results : m + k \in 1..(m + results) /\ ~(m + k <= m) /\ (m + k) - m = k
    BY <1>1
  <2>3. \A k \in 1..m : k \in 1..(m + results) /\ k <= m
    BY <1>1
  <2> QED
    BY <1>6, <2>1, <2>2, <2>3
<1>8. \A i \in 1..m :
        /\ entries[messages[i]].kind = "tool" => i > 1 /\ messages[i - 1] = messages[i] - 1
        /\ messages[i] < n /\ entries[messages[i] + 1].kind = "tool" =>
             i < m /\ messages[i + 1] = messages[i] + 1
        /\ messages[i] = n <=> i = m
  BY <1>1 DEF Paired, Ends
<1>9. \A k \in (m + 1)..(m + results) : longer[k] = n + (k - m)
  <2> SUFFICES ASSUME NEW k \in (m + 1)..(m + results) PROVE longer[k] = n + (k - m)
    OBVIOUS
  <2>1. k - m \in 1..results /\ m + (k - m) = k
    BY <1>1
  <2>2. longer[m + (k - m)] = n + (k - m)
    BY <1>7, <2>1
  <2> QED
    BY <2>1, <2>2
<1>10. longer[m] = n
  BY <1>1, <1>7, <1>8
<1>11. ASSUME NEW i \in 1..(m + results), more[longer[i]].kind = "tool"
       PROVE  i > 1 /\ longer[i - 1] = longer[i] - 1
  <2>1. CASE i <= m
    <3>0. i \in 1..m
      BY <1>1, <2>1
    <3>1. longer[i] = messages[i] /\ messages[i] \in 1..n /\ entries[messages[i]].kind = "tool"
      BY <1>4, <1>5, <1>7, <1>11, <3>0
    <3>2. i > 1 /\ messages[i - 1] = messages[i] - 1
      BY <1>8, <3>0, <3>1
    <3>3. i - 1 \in 1..m
      BY <2>1, <3>2
    <3> QED
      BY <1>7, <3>1, <3>2, <3>3
  <2>2. CASE i = m + 1
    <3>0. i \in (m + 1)..(m + results) /\ i - m = 1 /\ i - 1 = m
      BY <1>1, <2>2
    <3>1. longer[i] = n + 1 /\ i - 1 = m
      BY <1>9, <3>0
    <3>2. longer[i - 1] = n
      BY <1>10, <3>1
    <3> QED
      BY <1>1, <2>2, <3>1, <3>2
  <2>3. CASE i > m + 1
    <3>0. i \in (m + 1)..(m + results) /\ i - 1 \in (m + 1)..(m + results)
      BY <1>1, <2>3
    <3>1. longer[i] = n + (i - m) /\ longer[i - 1] = n + ((i - 1) - m)
      BY <1>9, <3>0
    <3>2. PICK x \in Nat : x = n + (i - m)
      <4>1. n + (i - m) \in Nat
        BY <2>3
      <4> QED
        BY <4>1
    <3>3. n + ((i - 1) - m) = x - 1 /\ i > 1
      BY <1>1, <2>3, <3>2
    <3>4. longer[i] = x /\ longer[i - 1] = x - 1
      BY <3>1, <3>2, <3>3
    <3> QED
      BY <3>3, <3>4
  <2>4. i <= m \/ i = m + 1 \/ i > m + 1
    OBVIOUS
  <2> QED
    BY <2>1, <2>2, <2>3, <2>4
<1>12. ASSUME NEW i \in 1..(m + results), longer[i] < n + results,
              more[longer[i] + 1].kind = "tool"
       PROVE  i < m + results /\ longer[i + 1] = longer[i] + 1
  <2>1. CASE i < m
    <3>0. i \in 1..m
      BY <1>1, <2>1
    <3>1. longer[i] = messages[i] /\ messages[i] \in 1..n /\ messages[i] # n
      BY <1>1, <1>5, <1>7, <1>8, <2>1, <3>0
    <3>2. messages[i] < n /\ entries[messages[i] + 1].kind = "tool"
      <4>1. messages[i] + 1 \in 1..n
        BY <3>1
      <4> QED
        BY <1>4, <1>12, <3>1, <4>1
    <3>3. messages[i + 1] = messages[i] + 1
      BY <1>8, <3>0, <3>2
    <3>4. i + 1 \in 1..m /\ i < m + results
      BY <1>1, <2>1
    <3> QED
      BY <1>7, <3>1, <3>3, <3>4
  <2>2. CASE i = m
    <3>1. results > 0
      BY <1>1, <1>10, <1>12, <2>2
    <3>2. longer[m + 1] = n + 1
      BY <1>7, <3>1
    <3> QED
      BY <1>1, <1>10, <2>2, <3>1, <3>2
  <2>3. CASE i > m
    <3>0. i \in (m + 1)..(m + results)
      BY <1>1, <2>3
    <3>1. longer[i] = n + (i - m)
      BY <1>9, <3>0
    <3>2. i < m + results
      BY <1>1, <1>12, <3>1
    <3>3. i + 1 \in (m + 1)..(m + results)
      BY <1>1, <2>3, <3>2
    <3>4. longer[i + 1] = n + ((i + 1) - m)
      BY <1>9, <3>3
    <3>5. PICK x \in Nat : x = n + (i - m)
      <4>1. n + (i - m) \in Nat
        BY <2>3
      <4> QED
        BY <4>1
    <3>6. n + ((i + 1) - m) = x + 1
      BY <1>1, <3>5
    <3>7. longer[i] = x /\ longer[i + 1] = x + 1
      BY <3>1, <3>4, <3>5, <3>6
    <3> QED
      BY <3>2, <3>7
  <2>4. i < m \/ i = m \/ i > m
    OBVIOUS
  <2> QED
    BY <2>1, <2>2, <2>3, <2>4
<1>13. Paired(more, longer)
  BY <1>4, <1>7, <1>11, <1>12 DEF Paired
<1>14. ASSUME ResultsInPlace(entries), NEW i \in 1..(n + results), more[i].kind = "tool"
       PROVE  i > 1 /\ more[i - 1].kind \in {"tool", "assistant"}
  <2>1. CASE i <= n
    <3>1. i > 1 /\ entries[i - 1].kind \in {"tool", "assistant"}
      BY <1>1, <1>4, <1>14, <2>1 DEF ResultsInPlace
    <3>2. i - 1 \in 1..n
      BY <2>1, <3>1
    <3> QED
      BY <1>4, <3>1, <3>2
  <2>2. CASE i = n + 1
    BY <1>1, <1>4, <2>2
  <2>3. CASE i > n + 1
    <3>1. (i - 1) - n \in 1..results /\ n + ((i - 1) - n) = i - 1
      BY <1>1, <1>14, <2>3
    <3>2. more[n + ((i - 1) - n)].kind = "tool"
      BY <1>4, <3>1
    <3> QED
      BY <1>1, <2>3, <3>1, <3>2
  <2> QED
    BY <1>1, <2>1, <2>2, <2>3
<1>15. ResultsInPlace(entries) => ResultsInPlace(more)
  BY <1>4, <1>14 DEF ResultsInPlace
<1> QED
  BY <1>b, <1>1, <1>13, <1>15

\* The list may be cut before a message that is no result.
LEMMA CutPairs ==
  ASSUME NEW entries, NEW messages, Paired(entries, messages), Len(entries) \in Nat,
         NEW cut \in 0..Len(messages),
         cut = 0 \/ (cut < Len(messages) /\ entries[messages[cut + 1]].kind # "tool")
  PROVE  Paired(entries, SubSeq(messages, cut + 1, Len(messages)))
<1>0. Len(messages) \in Nat /\ messages \in Seq(1..Len(entries))
  BY LenProperties DEF Paired
<1>a. PICK m \in Nat : m = Len(messages)
  BY <1>0
<1>b. PICK rest : rest = SubSeq(messages, cut + 1, Len(messages))
  OBVIOUS
<1>1. m = Len(messages) /\ rest = SubSeq(messages, cut + 1, Len(messages))
  BY <1>a, <1>b
<1>2. /\ rest \in Seq(1..Len(entries)) /\ Len(rest) = m - cut
      /\ \A i \in 1..(m - cut) : rest[i] = messages[i + cut] /\ i + cut \in 1..m
  <2>1. \A i \in (cut + 1)..m : messages[i] \in 1..Len(entries)
    BY <1>0, <1>1, ElementOfSeq
  <2>2. cut + 1 \in Int /\ m \in Int /\ cut \in 0..m /\ cut \in Int
    BY <1>1
  <2>3. /\ rest \in Seq(1..Len(entries))
        /\ Len(rest) = IF cut + 1 <= m THEN m - (cut + 1) + 1 ELSE 0
        /\ \A i \in 1..(m - (cut + 1) + 1) : rest[i] = messages[(cut + 1) + i - 1]
    BY <1>1, <2>1, <2>2, SubSeqProperties
  <2>4. /\ m - (cut + 1) + 1 = m - cut
        /\ ~(cut + 1 <= m) => m - cut = 0
        /\ \A i \in 1..(m - cut) : (cut + 1) + i - 1 = i + cut /\ i + cut \in 1..m
    BY <2>2
  <2> QED
    BY <2>3, <2>4
<1>3. \A i \in 1..m :
        /\ entries[messages[i]].kind = "tool" => i > 1 /\ messages[i - 1] = messages[i] - 1
        /\ messages[i] < Len(entries) /\ entries[messages[i] + 1].kind = "tool" =>
             i < m /\ messages[i + 1] = messages[i] + 1
  BY <1>1 DEF Paired
<1>4. cut \in 0..m
  BY <1>1
<1>5. ASSUME NEW i \in 1..(m - cut), entries[rest[i]].kind = "tool"
      PROVE  i > 1 /\ rest[i - 1] = rest[i] - 1
  <2>0. rest[i] = messages[i + cut] /\ i + cut \in 1..m
    BY <1>2
  <2>1. i + cut > 1 /\ messages[i + cut - 1] = messages[i + cut] - 1
    BY <1>3, <1>5, <2>0
  <2>2. i # 1
    <3> SUFFICES ASSUME i = 1 PROVE FALSE
      OBVIOUS
    <3>1. cut > 0 /\ i + cut = cut + 1
      BY <1>4, <2>1
    <3> QED
      BY <1>1, <1>5, <2>0, <3>1
  <2>3. i - 1 \in 1..(m - cut) /\ (i - 1) + cut = i + cut - 1 /\ i > 1
    BY <1>4, <2>2
  <2>4. rest[i - 1] = messages[(i - 1) + cut]
    BY <1>2, <2>3
  <2> QED
    BY <2>0, <2>1, <2>3, <2>4
<1>6. ASSUME NEW i \in 1..(m - cut), rest[i] < Len(entries),
             entries[rest[i] + 1].kind = "tool"
      PROVE  i < m - cut /\ rest[i + 1] = rest[i] + 1
  <2>0. rest[i] = messages[i + cut] /\ i + cut \in 1..m
    BY <1>2
  <2>1. i + cut < m /\ messages[i + cut + 1] = messages[i + cut] + 1
    BY <1>3, <1>6, <2>0
  <2>2. i + 1 \in 1..(m - cut) /\ (i + 1) + cut = i + cut + 1 /\ i < m - cut
    BY <1>4, <2>0, <2>1
  <2>3. rest[i + 1] = messages[(i + 1) + cut]
    BY <1>2, <2>2
  <2> QED
    BY <2>0, <2>1, <2>2, <2>3
<1>7. Paired(entries, rest)
  BY <1>2, <1>5, <1>6 DEF Paired
<1> QED
  BY <1>1, <1>7

\* A summary may stand before a list that does not begin with a result.
LEMMA SummaryPairs ==
  ASSUME NEW entries \in Seq(Entries), NEW e \in Entries, e.kind = "summary",
         NEW messages, Paired(entries, messages)
  PROVE  LET more == Append(entries, e)
         IN  Paired(more, <<Len(entries) + 1>> \o messages)
<1>0. Len(entries) \in Nat /\ Len(messages) \in Nat /\ messages \in Seq(1..Len(entries))
  BY LenProperties DEF Paired
<1>a. PICK n \in Nat, m \in Nat : n = Len(entries) /\ m = Len(messages)
  BY <1>0
<1>b. PICK more, longer :
        more = Append(entries, e) /\ longer = <<Len(entries) + 1>> \o messages
  OBVIOUS
<1>1. /\ n = Len(entries) /\ m = Len(messages)
      /\ more = Append(entries, e) /\ longer = <<Len(entries) + 1>> \o messages
  BY <1>a, <1>b
<1>2. /\ Len(more) = n + 1 /\ more[n + 1] = e
      /\ \A k \in 1..n : more[k] = entries[k]
  BY <1>1, AppendProperties
<1>3. /\ messages \in Seq(1..(n + 1)) /\ \A k \in 1..m : messages[k] \in 1..n
  <2>1. 1..n \subseteq 1..(n + 1) /\ messages \in Seq(1..n)
    BY <1>0, <1>1
  <2> QED
    BY <1>1, <2>1, SeqMonotonic, ElementOfSeq
<1>4. /\ longer \in Seq(1..(n + 1)) /\ Len(longer) = m + 1 /\ longer[1] = n + 1
      /\ \A k \in 2..(m + 1) : longer[k] = messages[k - 1] /\ k - 1 \in 1..m
  <2>1. /\ <<n + 1>> \in Seq(1..(n + 1)) /\ Len(<<n + 1>>) = 1 /\ <<n + 1>>[1] = n + 1
    <3>1. n + 1 \in 1..(n + 1)
      OBVIOUS
    <3> QED
      BY <3>1
  <2>2. /\ longer \in Seq(1..(n + 1)) /\ Len(longer) = 1 + m
        /\ \A k \in 1..(1 + m) : longer[k] = IF k <= 1 THEN <<n + 1>>[k] ELSE messages[k - 1]
    BY <1>1, <1>3, <2>1, ConcatProperties
  <2>3. 1 + m = m + 1 /\ 1 \in 1..(1 + m)
        /\ \A k \in 2..(m + 1) : k \in 1..(1 + m) /\ ~(k <= 1) /\ k - 1 \in 1..m
    OBVIOUS
  <2> QED
    BY <2>1, <2>2, <2>3
<1>5. \A i \in 1..m :
        /\ entries[messages[i]].kind = "tool" => i > 1 /\ messages[i - 1] = messages[i] - 1
        /\ messages[i] < n /\ entries[messages[i] + 1].kind = "tool" =>
             i < m /\ messages[i + 1] = messages[i] + 1
  BY <1>1 DEF Paired
<1>6. ASSUME NEW i \in 1..(m + 1), more[longer[i]].kind = "tool"
      PROVE  i > 1 /\ longer[i - 1] = longer[i] - 1
  <2>1. i # 1
    BY <1>2, <1>4, <1>6
  <2>2. i \in 2..(m + 1) /\ i - 1 \in 1..m
    BY <2>1
  <2>3. longer[i] = messages[i - 1] /\ messages[i - 1] \in 1..n
    BY <1>3, <1>4, <2>2
  <2>4. entries[messages[i - 1]].kind = "tool"
    BY <1>2, <1>6, <2>3
  <2>5. i - 1 > 1 /\ messages[(i - 1) - 1] = messages[i - 1] - 1
    BY <1>5, <2>2, <2>4
  <2>6. i - 1 \in 2..(m + 1)
    BY <2>5
  <2>7. longer[i - 1] = messages[(i - 1) - 1]
    BY <1>4, <2>6
  <2> QED
    BY <2>2, <2>3, <2>5, <2>7
<1>7. ASSUME NEW i \in 1..(m + 1), longer[i] < n + 1, more[longer[i] + 1].kind = "tool"
      PROVE  i < m + 1 /\ longer[i + 1] = longer[i] + 1
  <2>1. i # 1
    BY <1>4, <1>7
  <2>2. i \in 2..(m + 1) /\ i - 1 \in 1..m
    BY <2>1
  <2>3. longer[i] = messages[i - 1] /\ messages[i - 1] \in 1..n
    BY <1>3, <1>4, <2>2
  <2>4. messages[i - 1] < n /\ entries[messages[i - 1] + 1].kind = "tool"
    <3>1. messages[i - 1] # n
      BY <1>2, <1>7, <2>3
    <3>2. messages[i - 1] + 1 \in 1..n
      BY <2>3, <3>1
    <3> QED
      BY <1>2, <1>7, <2>3, <3>1, <3>2
  <2>5. i - 1 < m /\ messages[(i - 1) + 1] = messages[i - 1] + 1
    BY <1>5, <2>2, <2>4
  <2>6. i + 1 \in 2..(m + 1) /\ (i + 1) - 1 = (i - 1) + 1 /\ i < m + 1
    BY <2>5
  <2>7. longer[i + 1] = messages[(i + 1) - 1]
    BY <1>4, <2>6
  <2> QED
    BY <2>3, <2>5, <2>6, <2>7
<1>8. Paired(more, longer)
  BY <1>2, <1>4, <1>6, <1>7 DEF Paired
<1> QED
  BY <1>1, <1>8

----------------------------------------------------------------------------
\* Where lists are cut, and what summaries stand for

\* A cut is where a turn starts, or nowhere.
LEMMA BoundaryIsStart ==
  ASSUME NEW starts \in SUBSET Nat, NEW wanted \in Int,
         NEW top \in Nat, \A s \in starts : s <= top
  PROVE  Boundary(starts, wanted) \in starts \cup {0}
<1> DEFINE after == {i \in starts : i >= wanted}
           before == {i \in starts : i < wanted} \cup {0}
<1>1. CASE after # {}
  <2>1. after \in SUBSET Nat
    OBVIOUS
  <2>2. \E x \in after : \A y \in after : x <= y
    BY <1>1, <2>1, Least
  <2>3. Min(after) \in after
    BY <2>2 DEF Min
  <2> QED
    BY <1>1, <2>3 DEF Boundary
<1>2. CASE after = {}
  <2> DEFINE gaps == {top - i : i \in before}
  <2>1. before \in SUBSET Nat /\ \A i \in before : i <= top
    <3> SUFFICES ASSUME NEW i \in before PROVE i \in Nat /\ i <= top
      OBVIOUS
    <3>1. i \in starts \/ i = 0
      OBVIOUS
    <3> QED
      BY <3>1
  <2>2. gaps \in SUBSET Nat /\ top - 0 \in gaps
    BY <2>1
  <2>3. PICK x \in gaps : \A y \in gaps : x <= y
    BY <2>2, Least
  <2>4. PICK i \in before : x = top - i
    BY <2>3
  <2>5. \A j \in before : i >= j
    <3> SUFFICES ASSUME NEW j \in before PROVE i >= j
      OBVIOUS
    <3>1. x <= top - j
      BY <2>3
    <3> QED
      BY <2>1, <2>4, <3>1
  <2>6. Max(before) \in before
    BY <2>4, <2>5 DEF Max
  <2> QED
    BY <1>2, <2>6 DEF Boundary
<1> QED
  BY <1>1, <1>2

LEMMA CutsAtTurns ==
  ASSUME NEW entries, NEW messages, Paired(entries, messages), NEW wanted \in Int
  PROVE  LET cut == Boundary(TurnStarts(entries, messages), wanted)
         IN  /\ cut \in 0..Len(messages)
             /\ cut # 0 => /\ cut < Len(messages)
                           /\ entries[messages[cut + 1]].kind # "tool"
<1> DEFINE starts == TurnStarts(entries, messages)
<1>1. Len(messages) \in Nat /\ DOMAIN messages = 1..Len(messages)
  BY LenProperties DEF Paired
<1>2. \A s \in starts : /\ s \in 0..Len(messages) /\ s < Len(messages)
                        /\ entries[messages[s + 1]].kind \in {"user", "summary"}
  <2> SUFFICES ASSUME NEW j \in 1..Len(messages),
                      entries[messages[j]].kind \in {"user", "summary"}
               PROVE  /\ j - 1 \in 0..Len(messages) /\ j - 1 < Len(messages)
                      /\ entries[messages[(j - 1) + 1]].kind \in {"user", "summary"}
    BY <1>1 DEF TurnStarts
  <2>1. (j - 1) + 1 = j
    OBVIOUS
  <2> QED
    BY <1>1, <2>1
<1>3. starts \in SUBSET Nat /\ \A s \in starts : s <= Len(messages)
  BY <1>1, <1>2
<1>4. Boundary(starts, wanted) \in starts \cup {0}
  <2> HIDE DEF starts
  <2> QED
    BY <1>1, <1>3, BoundaryIsStart
<1> QED
  BY <1>1, <1>2, <1>4

\* SummariesAreExact, of any log.
Exact(entries) ==
  \A s \in 1..Len(entries) :
    entries[s].kind = "summary" =>
      StandsFor(SubSeq(entries, 1, s - 1),
                SubSeq(Messages(SubSeq(entries, 1, s - 1)), 1, entries[s].count))
        = entries[s].covers

\* What was written before an entry is the same when more is written after it.
LEMMA PrefixStays ==
  ASSUME NEW E, NEW entries \in Seq(E), NEW said \in Seq(E), NEW s \in 1..Len(entries)
  PROVE  SubSeq(entries \o said, 1, s - 1) = SubSeq(entries, 1, s - 1)
<1>1. Len(entries) \in Nat
  BY LenProperties
<1>2. CASE s = 1
  BY <1>1, <1>2, SubSeqEmpty
<1>3. CASE s > 1
  <2>1. 1 \in 1..Len(entries) /\ s - 1 \in 1..Len(entries)
    BY <1>1, <1>3
  <2> QED
    BY <2>1, SubSeqOfConcat1
<1> QED
  BY <1>1, <1>2, <1>3

LEMMA ExactStays ==
  ASSUME NEW entries \in Seq(Entries), NEW said \in Seq(Entries), Exact(entries),
         NEW s \in 1..Len(entries), (entries \o said)[s].kind = "summary"
  PROVE  StandsFor(SubSeq(entries \o said, 1, s - 1),
                   SubSeq(Messages(SubSeq(entries \o said, 1, s - 1)), 1,
                          (entries \o said)[s].count))
           = (entries \o said)[s].covers
<1>1. (entries \o said)[s] = entries[s]
  BY ConcatProperties, LenProperties
<1>2. SubSeq(entries \o said, 1, s - 1) = SubSeq(entries, 1, s - 1)
  BY PrefixStays
<1> QED
  BY <1>1, <1>2 DEF Exact

LEMMA NoSummaryAdded ==
  ASSUME NEW entries \in Seq(Entries), NEW said \in Seq(Entries), Exact(entries),
         \A k \in DOMAIN said : said[k].kind # "summary"
  PROVE  Exact(entries \o said)
<1> SUFFICES ASSUME NEW s \in 1..Len(entries \o said), (entries \o said)[s].kind = "summary"
             PROVE  s \in 1..Len(entries)
  BY ExactStays DEF Exact
<1>1. /\ Len(entries) \in Nat /\ Len(said) \in Nat /\ DOMAIN said = 1..Len(said)
      /\ Len(entries \o said) = Len(entries) + Len(said)
      /\ (entries \o said)[s] = IF s <= Len(entries) THEN entries[s] ELSE said[s - Len(entries)]
  BY LenProperties, ConcatProperties
<1>2. s > Len(entries) => s - Len(entries) \in 1..Len(said)
  BY <1>1
<1> QED
  BY <1>1, <1>2

LEMMA SummaryAdded ==
  ASSUME NEW entries \in Seq(Entries), NEW e \in Entries, Exact(entries),
         e.covers = StandsFor(entries, SubSeq(Messages(entries), 1, e.count))
  PROVE  Exact(Append(entries, e))
<1>0. Len(entries) \in Nat /\ <<e>> \in Seq(Entries)
  BY LenProperties
<1>a. PICK n \in Nat : n = Len(entries)
  BY <1>0
<1>b. PICK more : more = entries \o <<e>>
  OBVIOUS
<1>1. n = Len(entries) /\ more = entries \o <<e>> /\ <<e>> \in Seq(Entries)
  BY <1>0, <1>a, <1>b
<1>2. more = Append(entries, e)
  BY <1>1, AppendIsConcat
<1>3. Len(more) = n + 1 /\ more[n + 1] = e
  BY <1>1, <1>2, AppendProperties
<1>4. SubSeq(more, 1, n) = entries
  <2>1. SubSeq(entries, 1, n) = entries
    BY <1>1, SubSeqFull
  <2>2. CASE n > 0
    <3>1. 1 \in 1..Len(entries) /\ n \in 1..Len(entries)
      BY <1>1, <2>2
    <3> QED
      BY <1>1, <2>1, <3>1, SubSeqOfConcat1
  <2>3. CASE n = 0
    BY <1>1, <2>1, <2>3, SubSeqEmpty
  <2> QED
    BY <1>1, <2>2, <2>3
<1>5. ASSUME NEW s \in 1..(n + 1), more[s].kind = "summary"
      PROVE  StandsFor(SubSeq(more, 1, s - 1),
                       SubSeq(Messages(SubSeq(more, 1, s - 1)), 1, more[s].count))
               = more[s].covers
  <2>1. CASE s = n + 1
    <3>1. s - 1 = n
      BY <1>1, <2>1
    <3> QED
      BY <1>3, <1>4, <2>1, <3>1
  <2>2. CASE s # n + 1
    <3>1. s \in 1..Len(entries)
      BY <1>1, <2>2
    <3> QED
      BY <1>1, <1>5, <3>1, ExactStays
  <2> QED
    BY <2>1, <2>2
<1> QED
  BY <1>2, <1>3, <1>5 DEF Exact

----------------------------------------------------------------------------
\* The log of a session

\* A log whose messages hold together.
Holds(entries) ==
  /\ entries \in Seq(Entries)
  /\ ResultsInPlace(entries)
  /\ Paired(entries, Messages(entries))
  /\ Exact(entries)

LEMMA MessageAdded ==
  ASSUME NEW entries, Holds(entries), NEW e \in Entries, e.kind \notin {"tool", "summary"}
  PROVE  LET more == Append(entries, e)
         IN  /\ Holds(more)
             /\ Messages(more) = Append(Messages(entries), Len(entries) + 1)
             /\ Ends(more, Messages(more))
             /\ Len(more) > 0 /\ more[Len(more)] = e
<1>0. entries \in Seq(Entries) /\ Len(entries) \in Nat /\ <<e>> \in Seq(Entries)
  BY LenProperties DEF Holds
<1>a. PICK n \in Nat : n = Len(entries)
  BY <1>0
<1>b. PICK more : more = Append(entries, e)
  OBVIOUS
<1>1. n = Len(entries) /\ more = Append(entries, e)
  BY <1>a, <1>b
<1>2. /\ more \in Seq(Entries) /\ Len(more) = n + 1 /\ more[n + 1] = e
      /\ more = entries \o <<e>>
  BY <1>0, <1>1, AppendProperties, AppendIsConcat
<1>3. Messages(more) = Append(Messages(entries), n + 1)
  <2>1. Messages(more) = Projected(more, Messages(entries), n + 1)
    BY <1>0, <1>1, MessagesAppend
  <2> QED
    BY <1>2, <2>1 DEF Projected
<1>4. /\ Paired(more, Append(Messages(entries), n + 1))
      /\ Ends(more, Append(Messages(entries), n + 1))
      /\ ResultsInPlace(more)
  BY <1>0, <1>1, AppendPairs DEF Holds
<1>5. Exact(more)
  <2>1. \A k \in DOMAIN <<e>> : <<e>>[k].kind # "summary"
    OBVIOUS
  <2> QED
    BY <1>0, <1>2, <2>1, NoSummaryAdded DEF Holds
<1>6. Holds(more) /\ Ends(more, Messages(more))
  BY <1>2, <1>3, <1>4, <1>5 DEF Holds
<1>7. Len(more) > 0 /\ more[Len(more)] = e
  BY <1>2
<1> QED
  BY <1>1, <1>3, <1>6, <1>7

LEMMA ResultsAdded ==
  ASSUME NEW entries, Holds(entries), NEW results \in Nat, Len(entries) > 0,
         entries[Len(entries)].kind = "assistant", Ends(entries, Messages(entries)),
         NEW said, said = [k \in 1..results |-> ToolResult]
  PROVE  /\ Holds(entries \o said)
         /\ Messages(entries \o said)
              = Messages(entries) \o [k \in 1..results |-> Len(entries) + k]
<1>1. /\ entries \in Seq(Entries) /\ Len(entries) \in Nat
      /\ Messages(entries) \in Seq(1..Len(entries)) /\ 1..Len(entries) \subseteq Nat
  BY LenProperties DEF Holds, Paired
<1>2. Messages(entries) \in Seq(Nat)
  BY <1>1, SeqMonotonic
<1>3. ToolResult \in Entries /\ ToolResult.kind = "tool"
  BY DEF ToolResult, Entry, Entries
<1>4. /\ said \in Seq(Entries) /\ DOMAIN said = 1..results
      /\ \A k \in DOMAIN said : said[k].kind # "summary"
  BY <1>3
<1>5. Messages(entries \o said)
        = Messages(entries) \o [k \in 1..results |-> Len(entries) + k]
  BY <1>1, <1>2, <1>4, MessagesExtend
<1>6. /\ Paired(entries \o said, Messages(entries) \o [k \in 1..results |-> Len(entries) + k])
      /\ ResultsInPlace(entries \o said)
  BY <1>1, ResultsPair DEF Holds
<1>7. Exact(entries \o said)
  BY <1>1, <1>4, NoSummaryAdded DEF Holds
<1>8. entries \o said \in Seq(Entries)
  BY <1>1, <1>4, ConcatProperties
<1> QED
  BY <1>5, <1>6, <1>7, <1>8 DEF Holds

\* A summary of the messages before a turn.
LEMMA SummaryHolds ==
  ASSUME NEW entries, Holds(entries), NEW cut \in Nat, cut > 0,
         cut < Len(Messages(entries)), entries[Messages(entries)[cut + 1]].kind # "tool",
         NEW e, e = Summary(cut, StandsFor(entries, SubSeq(Messages(entries), 1, cut)))
  PROVE  Holds(Append(entries, e))
<1> DEFINE M == Messages(entries)
<1>0. /\ entries \in Seq(Entries) /\ Len(entries) \in Nat /\ M \in Seq(1..Len(entries))
      /\ Len(M) \in Nat /\ Paired(entries, M)
  BY LenProperties DEF Holds, Paired
<1>1. /\ e.kind = "summary" /\ e.uses = 0 /\ e.count = cut
      /\ e.covers = StandsFor(entries, SubSeq(M, 1, cut))
      /\ e \in [kind : {"summary"}, uses : {0}, count : Nat, covers : {e.covers}]
  BY DEF Summary, Entry
<1>2. e.covers \subseteq Nat
  <2>1. ToSet(SubSeq(M, 1, cut)) \subseteq 1..Len(entries)
    <3>1. \A i \in 1..cut : M[i] \in 1..Len(entries)
      BY <1>0, ElementOfSeq
    <3>2. SubSeq(M, 1, cut) \in Seq(1..Len(entries))
      BY <3>1, SubSeqProperties
    <3> QED
      BY <3>2, LenProperties, ElementOfSeq DEF ToSet
  <2>2. \A i \in 1..Len(entries) : entries[i].covers \subseteq Nat
    <3> SUFFICES ASSUME NEW i \in 1..Len(entries) PROVE entries[i].covers \subseteq Nat
      OBVIOUS
    <3>1. entries[i] \in Entries
      BY <1>0, ElementOfSeq
    <3> QED
      BY <3>1 DEF Entries
  <2>3. \A i \in ToSet(SubSeq(M, 1, cut)) : {i} \cup entries[i].covers \subseteq Nat
    BY <2>1, <2>2
  <2> HIDE DEF M
  <2> QED
    BY <1>1, <2>3 DEF StandsFor
<1>3. e \in Entries
  BY <1>1, <1>2 DEF Entries
<1>4. PICK more, rest : more = Append(entries, e) /\ rest = SubSeq(M, cut + 1, Len(M))
  OBVIOUS
<1>5. /\ more \in Seq(Entries) /\ Len(more) = Len(entries) + 1
      /\ more[Len(entries) + 1] = e
  BY <1>0, <1>3, <1>4, AppendProperties
<1>6. Messages(more) = <<Len(entries) + 1>> \o rest
  <2>1. Messages(more) = Projected(more, M, Len(entries) + 1)
    BY <1>0, <1>3, <1>4, MessagesAppend
  <2> HIDE DEF M
  <2> QED
    BY <1>1, <1>4, <1>5, <2>1 DEF Projected
<1>7. Paired(entries, rest)
  <2>1. cut \in 0..Len(M) /\ cut < Len(M) /\ entries[M[cut + 1]].kind # "tool"
    BY <1>0
  <2> HIDE DEF M
  <2> QED
    BY <1>0, <1>4, <2>1, CutPairs
<1>8. Paired(more, <<Len(entries) + 1>> \o rest)
  BY <1>0, <1>1, <1>3, <1>4, <1>7, SummaryPairs
<1>9. ResultsInPlace(more)
  BY <1>0, <1>1, <1>3, <1>4, AppendPairs DEF Holds
<1>10. Exact(more)
  BY <1>0, <1>1, <1>3, <1>4, SummaryAdded DEF Holds
<1> QED
  BY <1>4, <1>5, <1>6, <1>8, <1>9, <1>10 DEF Holds

----------------------------------------------------------------------------
\* The turns of a session

\* The list is the messages of the log until it is trimmed; results are added
\* right after their assistant message.
Held ==
  /\ Holds(log)
  /\ IF pc = "idle" THEN ~trimmed
     ELSE Paired(log, list) /\ (~trimmed => list = Messages(log))
  /\ pc = "tools" =>
       /\ Len(log) > 0 /\ log[Len(log)].kind = "assistant" /\ log[Len(log)].uses \in Nat
       /\ Ends(log, list) /\ Ends(log, Messages(log))

\* A message that did not break off has all its results behind it in the log,
\* or is the last entry and waits for them.
Complete ==
  \A i \in 1..Len(log) : \A k \in 1..log[i].uses :
    \/ i \in broken
    \/ pc = "tools" /\ i = Len(log)
    \/ i + k \in 1..Len(log) /\ log[i + k].kind = "tool"

HistoryInv == drifted \/ (Held /\ Complete)

\* A message is said, by the customer or the model.
LEMMA SayingHolds ==
  ASSUME Held, pc # "idle", NEW e \in Entries, e.kind \in {"user", "assistant"},
         Say(<<e>>), UNCHANGED trimmed, pc' # "idle"
  PROVE  /\ Holds(log')
         /\ Paired(log', list') /\ (~trimmed' => list' = Messages(log'))
         /\ Len(log') > 0 /\ log'[Len(log')] = e
         /\ Ends(log', list') /\ Ends(log', Messages(log'))
<1>1. /\ Holds(log) /\ Paired(log, list) /\ log \in Seq(Entries) /\ Len(log) \in Nat
      /\ list \in Seq(1..Len(log)) /\ 1..Len(log) \subseteq Nat
  BY LenProperties DEF Held, Holds, Paired
<1>2. log' = Append(log, e)
  BY <1>1, AppendIsConcat DEF Say
<1>3. list' = Append(list, Len(log) + 1)
  <2>1. [i \in DOMAIN <<e>> |-> Len(log) + i] = <<Len(log) + 1>>
    BY <1>1
  <2>2. list \in Seq(Nat) /\ Len(log) + 1 \in Nat
    BY <1>1, SeqMonotonic
  <2>3. list' = list \o <<Len(log) + 1>>
    BY <2>1 DEF Say
  <2> QED
    BY <2>2, <2>3, AppendIsConcat
<1>4. /\ Holds(log') /\ Messages(log') = Append(Messages(log), Len(log) + 1)
      /\ Ends(log', Messages(log')) /\ Len(log') > 0 /\ log'[Len(log')] = e
  BY <1>1, <1>2, MessageAdded
<1>5. Paired(log', list') /\ Ends(log', list')
  BY <1>1, <1>2, <1>3, AppendPairs
<1>6. ~trimmed' => list' = Messages(log')
  BY <1>3, <1>4 DEF Held
<1> QED
  BY <1>4, <1>5, <1>6

\* executeToolUses adds the results.
LEMMA ToolsHold ==
  ASSUME Held, pc = "tools", RunTools
  PROVE  Held'
<1>0. PICK results \in Nat : results = log[Len(log)].uses
  BY DEF Held
<1>1. PICK said : said = [k \in 1..results |-> ToolResult]
  OBVIOUS
<1>2. /\ Holds(log) /\ Paired(log, list) /\ log \in Seq(Entries)
      /\ Len(log) > 0 /\ log[Len(log)].kind = "assistant"
      /\ Ends(log, list) /\ Ends(log, Messages(log))
      /\ ~trimmed => list = Messages(log)
  BY DEF Held, Holds
<1>3. /\ log' = log \o said
      /\ list' = list \o [k \in 1..results |-> Len(log) + k]
      /\ pc' = "compact" /\ trimmed' = trimmed
  <2>1. DOMAIN said = 1..results
    BY <1>1
  <2> QED
    BY <1>0, <1>1, <2>1 DEF RunTools, Say, Uses
<1>4. /\ Holds(log')
      /\ Messages(log') = Messages(log) \o [k \in 1..results |-> Len(log) + k]
  BY <1>1, <1>2, <1>3, ResultsAdded
<1>5. Paired(log', list')
  BY <1>1, <1>2, <1>3, ResultsPair
<1> QED
  BY <1>2, <1>3, <1>4, <1>5 DEF Held

\* A turn that breaks off leaves the results it has.
LEMMA BreakingOffHolds ==
  ASSUME Held, NEW results \in Nat, ToolsBreakOff(results)
  PROVE  Held'
<1>1. PICK said : said = [k \in 1..results |-> ToolResult]
  OBVIOUS
<1>2. /\ Holds(log) /\ Len(log) > 0 /\ log[Len(log)].kind = "assistant"
      /\ Ends(log, Messages(log))
  BY DEF Held, ToolsBreakOff
<1>3. log' = log \o said /\ pc' = "idle" /\ trimmed' = FALSE
  BY <1>1 DEF ToolsBreakOff, EndTurn
<1>4. Holds(log')
  BY <1>1, <1>2, <1>3, ResultsAdded
<1> QED
  BY <1>3, <1>4 DEF Held

\* The compaction of a list that was not trimmed.
LEMMA CompactHolds ==
  ASSUME Held, ~trimmed, Compact
  PROVE  Held'
<1>1. PICK cut : cut = Cutoff(log, list, Threshold, KeepRecent)
  OBVIOUS
<1>2. /\ Holds(log) /\ list = Messages(log) /\ Paired(log, list)
      /\ cut > 0 /\ Summarise(cut) /\ pc' = "trim"
  BY <1>1 DEF Held, Compact
<1>3. Len(list) - KeepRecent \in Int /\ Len(list) \in Nat
  BY <1>2, LenProperties, WindowAssumption DEF Paired
<1>4. /\ cut \in 0..Len(list)
      /\ cut # 0 => cut < Len(list) /\ log[list[cut + 1]].kind # "tool"
  <2>1. CASE cut = 0
    BY <1>3, <2>1
  <2>2. CASE cut = Boundary(TurnStarts(log, list), Len(list) - KeepRecent)
    BY <1>2, <1>3, <2>2, CutsAtTurns
  <2> QED
    BY <1>1, <2>1, <2>2 DEF Cutoff
<1>5. Holds(log')
  <2>1. log' = Append(log, Summary(cut, StandsFor(log, SubSeq(Messages(log), 1, cut))))
    BY <1>2 DEF Summarise
  <2>2. cut \in Nat /\ cut > 0 /\ cut < Len(Messages(log))
        /\ log[Messages(log)[cut + 1]].kind # "tool"
    BY <1>2, <1>3, <1>4
  <2> QED
    BY <1>2, <2>1, <2>2, SummaryHolds
<1>6. list' = Messages(log') /\ trimmed' = FALSE
  BY <1>2 DEF Summarise
<1>7. Paired(log', list')
  BY <1>5, <1>6 DEF Holds
<1> QED
  BY <1>2, <1>5, <1>6, <1>7 DEF Held

\* Trimming cuts where a turn starts.
LEMMA TrimHolds ==
  ASSUME Held, Trim
  PROVE  Held'
<1>1. /\ Holds(log) /\ Paired(log, list) /\ (~trimmed => list = Messages(log))
      /\ log' = log /\ pc' = "ask" /\ list' = Trimmed(log, list, MaxMessages)
      /\ trimmed' = (trimmed \/ list' # list)
  BY DEF Held, Trim
<1>2. Len(list) - MaxMessages \in Int /\ Len(list) \in Nat /\ Len(log) \in Nat
  BY <1>1, LenProperties, WindowAssumption DEF Paired, Holds
<1>3. Paired(log, list')
  <2>1. CASE list' = list
    BY <1>1, <2>1
  <2>2. CASE list' # list
    <3>1. PICK cut : cut = Boundary(TurnStarts(log, list), Len(list) - MaxMessages)
      OBVIOUS
    <3>2. list' = SubSeq(list, cut + 1, Len(list))
      BY <1>1, <2>2, <3>1 DEF Trimmed
    <3>3. /\ cut \in 0..Len(list)
          /\ cut # 0 => cut < Len(list) /\ log[list[cut + 1]].kind # "tool"
      BY <1>1, <1>2, <3>1, CutsAtTurns
    <3> QED
      BY <1>1, <1>2, <3>2, <3>3, CutPairs
  <2> QED
    BY <2>1, <2>2
<1> QED
  BY <1>1, <1>3 DEF Held

\* A compaction of a trimmed list is not undone.
LEMMA DriftStays ==
  ASSUME drifted, [Next]_vars
  PROVE  drifted'
BY DEF Next, vars, window, topic, Begin, Recognise, Speak, Compact, Summarise,
   NoCompaction, OutOfCalls, Trim, AskForTools, RunTools, ToolsBreakOff, NoAnswer, Reply

LEMMA HeldStep ==
  ASSUME Held, ~drifted, [Next]_vars
  PROVE  drifted' \/ Held'
<1>2. ASSUME Say(<<User>>), pc = "speak", pc' = "compact", UNCHANGED trimmed PROVE Held'
  <2>1. User \in Entries /\ User.kind = "user"
    BY DEF User, Entry, Entries
  <2> QED
    BY <1>2, <2>1, SayingHolds DEF Held
<1>3. ASSUME NEW uses \in 1..MaxUses, AskForTools(uses) PROVE Held'
  <2>1. /\ Assistant(uses) \in Entries /\ Assistant(uses).kind = "assistant"
        /\ Assistant(uses).uses \in Nat
    BY BoundAssumption DEF Assistant, Entry, Entries
  <2>2. Say(<<Assistant(uses)>>) /\ pc # "idle" /\ pc' = "tools" /\ UNCHANGED trimmed
    BY <1>3 DEF AskForTools
  <2> QED
    BY <2>1, <2>2, SayingHolds DEF Held
<1>4. ASSUME NEW hits, Reply(hits) PROVE Held'
  <2>1. Assistant(0) \in Entries /\ Assistant(0).kind = "assistant"
    BY DEF Assistant, Entry, Entries
  <2>2. log' = Append(log, Assistant(0)) /\ pc' = "idle" /\ trimmed' = FALSE
    BY <1>4 DEF Reply, EndTurn
  <2>3. Holds(log')
    BY <2>1, <2>2, MessageAdded DEF Held
  <2> QED
    BY <2>2, <2>3 DEF Held
<1>5. ASSUME NEW hits, Begin(hits) PROVE Held'
  <2>1. log' = log /\ trimmed' = trimmed /\ ~trimmed /\ Holds(log)
    BY <1>5 DEF Begin, Held
  <2>2. CASE pc' = pc
    BY <1>5, <2>1, <2>2 DEF Begin, Held
  <2>3. CASE pc' # pc
    <3>1. pc' = "recognise" /\ list' = Messages(log)
      BY <1>5, <2>3 DEF Begin
    <3> QED
      BY <2>1, <3>1 DEF Held, Holds
  <2> QED
    BY <2>2, <2>3
<1>6. ASSUME UNCHANGED window, pc # "idle", pc' \notin {"idle", "tools"} PROVE Held'
  BY <1>6 DEF window, Held
<1>7. ASSUME log' = log, pc' = "idle", trimmed' = FALSE PROVE Held'
  BY <1>7 DEF Held
<1>8. ASSUME NEW t, Recognise(t) PROVE Held'
  BY <1>6, <1>8 DEF Recognise
<1>9. CASE NoCompaction
  BY <1>6, <1>9 DEF NoCompaction
<1>10. CASE OutOfCalls \/ NoAnswer
  BY <1>7, <1>10 DEF OutOfCalls, NoAnswer, EndTurn
<1>11. CASE Compact
  <2>1. CASE trimmed
    BY <1>11, <2>1 DEF Compact, Summarise
  <2>2. CASE ~trimmed
    BY <1>11, <2>2, CompactHolds
  <2> QED
    BY <2>1, <2>2
<1>12. CASE Speak
  BY <1>2, <1>12 DEF Speak
<1>13. CASE Trim
  BY <1>13, TrimHolds
<1>14. CASE RunTools
  BY <1>14, ToolsHold DEF RunTools
<1>15. ASSUME NEW results \in 0..(MaxUses - 1), ToolsBreakOff(results) PROVE Held'
  BY <1>15, BreakingOffHolds
<1>16. CASE UNCHANGED vars
  BY <1>16 DEF vars, window, Held
<1> QED
  BY <1>3, <1>4, <1>5, <1>8, <1>9, <1>10, <1>11, <1>12, <1>13, <1>14, <1>15, <1>16 DEF Next

LEMMA UsesAreNumbers ==
  ASSUME log \in Seq(Entries)
  PROVE  \A i \in 1..Len(log) : log[i].uses \in Nat
<1> SUFFICES ASSUME NEW i \in 1..Len(log) PROVE log[i].uses \in Nat
  OBVIOUS
<1>1. log[i] \in Entries
  BY ElementOfSeq
<1> QED
  BY <1>1 DEF Entries

\* What is said without tool uses, or waits for them, keeps it.
LEMMA EntryCompletes ==
  ASSUME log \in Seq(Entries), Complete, pc # "tools", UNCHANGED broken,
         NEW e, log' = Append(log, e), e.uses = 0 \/ pc' = "tools"
  PROVE  Complete'
<1>1. /\ Len(log) \in Nat /\ Len(log') = Len(log) + 1
      /\ \A i \in 1..Len(log) : log'[i] = log[i]
      /\ log'[Len(log) + 1] = e
  <2>1. log \in Seq(Entries \cup {e}) /\ e \in Entries \cup {e}
    BY SeqMonotonic
  <2> QED
    BY <2>1, AppendProperties, LenProperties
<1>2. \A i \in 1..Len(log) : log[i].uses \in Nat
  BY UsesAreNumbers
<1> SUFFICES ASSUME NEW i \in 1..Len(log'), NEW k \in 1..log'[i].uses
             PROVE  \/ i \in broken
                    \/ pc' = "tools" /\ i = Len(log')
                    \/ i + k \in 1..Len(log') /\ log'[i + k].kind = "tool"
  BY DEF Complete
<1>3. CASE i \in 1..Len(log)
  <2>1. k \in 1..log[i].uses /\ log[i].uses \in Nat
    BY <1>1, <1>2, <1>3
  <2>2. i \in broken \/ (i + k \in 1..Len(log) /\ log[i + k].kind = "tool")
    BY <1>3, <2>1 DEF Complete
  <2> QED
    BY <1>1, <2>2
<1>4. CASE i = Len(log) + 1
  BY <1>1, <1>4
<1> QED
  BY <1>1, <1>3, <1>4

\* So do the results of the last message, when they are all there or when it
\* is marked as broken off.
LEMMA ResultsComplete ==
  ASSUME log \in Seq(Entries), Len(log) > 0, Complete, NEW results \in Nat,
         log' = log \o [k \in 1..results |-> ToolResult], broken \subseteq broken',
         results = log[Len(log)].uses \/ Len(log) \in broken'
  PROVE  Complete'
<1> DEFINE said == [k \in 1..results |-> ToolResult]
<1>1. ToolResult \in Entries /\ ToolResult.kind = "tool" /\ ToolResult.uses = 0
  BY DEF ToolResult, Entry, Entries
<1>2. /\ said \in Seq(Entries) /\ Len(said) = results
      /\ \A k \in 1..results : said[k] = ToolResult
  BY <1>1
<1>3. /\ Len(log) \in Nat /\ Len(log') = Len(log) + results
      /\ \A i \in 1..(Len(log) + results) :
           log'[i] = IF i <= Len(log) THEN log[i] ELSE said[i - Len(log)]
  <2> HIDE DEF said
  <2>1. log' = log \o said
    BY DEF said
  <2> QED
    BY <1>2, <2>1, ConcatProperties, LenProperties
<1>4. \A i \in 1..Len(log) : log'[i] = log[i] /\ log[i].uses \in Nat
  BY <1>3, UsesAreNumbers
<1>5. \A i \in 1..Len(log') : i > Len(log) => log'[i] = ToolResult
  BY <1>2, <1>3
<1> HIDE DEF said
<1> SUFFICES ASSUME NEW i \in 1..Len(log'), NEW k \in 1..log'[i].uses, i \notin broken'
             PROVE  i + k \in 1..Len(log') /\ log'[i + k].kind = "tool"
  BY DEF Complete
<1>6. i \in 1..Len(log) /\ k \in 1..log[i].uses
  <2>1. ~(i > Len(log))
    BY <1>1, <1>5
  <2> QED
    BY <1>3, <1>4, <2>1
<1>7. CASE i = Len(log)
  <2>1. i + k \in 1..Len(log') /\ i + k > Len(log)
    BY <1>3, <1>6, <1>7
  <2> QED
    BY <1>1, <1>5, <2>1
<1>8. CASE i # Len(log)
  <2>1. i + k \in 1..Len(log) /\ log[i + k].kind = "tool"
    BY <1>6, <1>8 DEF Complete
  <2> QED
    BY <1>3, <1>4, <2>1
<1> QED
  BY <1>7, <1>8

\* What leaves the log alone, unless tools are to run.
LEMMA SameCompletes ==
  ASSUME Complete, UNCHANGED <<log, broken>>, pc # "tools"
  PROVE  Complete'
BY DEF Complete

LEMMA CompleteStep ==
  ASSUME Held, Complete, [Next]_vars
  PROVE  Complete'
<1>0. log \in Seq(Entries)
  BY DEF Held, Holds
<1>1. ASSUME NEW e, Say(<<e>>) PROVE log' = Append(log, e)
  <2>1. log \in Seq(Entries \cup {e}) /\ e \in Entries \cup {e}
    BY <1>0, SeqMonotonic
  <2> QED
    BY <1>1, <2>1, AppendIsConcat DEF Say
<1>2. CASE Speak
  <2>1. log' = Append(log, User) /\ User.uses = 0 /\ pc # "tools" /\ UNCHANGED broken
    BY <1>1, <1>2 DEF Speak, User, Entry
  <2> QED
    BY <1>0, <2>1, EntryCompletes
<1>3. ASSUME NEW uses \in 1..MaxUses, AskForTools(uses) PROVE Complete'
  <2>1. /\ log' = Append(log, Assistant(uses)) /\ pc # "tools" /\ pc' = "tools"
        /\ UNCHANGED broken
    BY <1>1, <1>3 DEF AskForTools
  <2> QED
    BY <1>0, <2>1, EntryCompletes
<1>4. ASSUME NEW hits, Reply(hits) PROVE Complete'
  <2>1. /\ log' = Append(log, Assistant(0)) /\ Assistant(0).uses = 0 /\ pc # "tools"
        /\ UNCHANGED broken
    BY <1>4 DEF Reply, Assistant, Entry
  <2> QED
    BY <1>0, <2>1, EntryCompletes
<1>5. CASE Compact
  <2>1. PICK cut, covers : log' = Append(log, Summary(cut, covers))
    BY <1>5 DEF Compact, Summarise
  <2>2. Summary(cut, covers).uses = 0 /\ pc # "tools" /\ UNCHANGED broken
    BY <1>5 DEF Compact, Summarise, Summary, Entry
  <2> QED
    BY <1>0, <2>1, <2>2, EntryCompletes
<1>6. CASE RunTools
  <2>1. PICK results \in Nat : results = log[Len(log)].uses
    BY <1>6 DEF Held, RunTools
  <2>2. log' = log \o [k \in 1..results |-> ToolResult]
    BY <1>6, <2>1 DEF RunTools, Say, Uses
  <2>3. Len(log) > 0 /\ UNCHANGED broken
    BY <1>6 DEF RunTools, Held
  <2> QED
    BY <1>0, <2>1, <2>2, <2>3, ResultsComplete
<1>7. ASSUME NEW results \in 0..(MaxUses - 1), ToolsBreakOff(results) PROVE Complete'
  <2>1. /\ results \in Nat /\ log' = log \o [k \in 1..results |-> ToolResult]
        /\ broken' = broken \cup {Len(log)} /\ Len(log) > 0
    BY <1>7 DEF ToolsBreakOff, Held
  <2> QED
    BY <1>0, <2>1, ResultsComplete
<1>8. ASSUME NEW hits, Begin(hits) PROVE Complete'
  BY <1>8, SameCompletes DEF Begin
<1>9. ASSUME NEW t, Recognise(t) PROVE Complete'
  BY <1>9, SameCompletes DEF Recognise, window
<1>10. CASE NoCompaction \/ OutOfCalls \/ Trim \/ NoAnswer
  BY <1>10, SameCompletes DEF NoCompaction, OutOfCalls, Trim, NoAnswer, window
<1>11. CASE UNCHANGED vars
  BY <1>11 DEF vars, window, Complete
<1> QED
  BY <1>2, <1>3, <1>4, <1>5, <1>6, <1>7, <1>8, <1>9, <1>10, <1>11 DEF Next

LEMMA HistoryStep ==
  ASSUME HistoryInv, [Next]_vars
  PROVE  HistoryInv'
<1>1. CASE drifted
  BY <1>1, DriftStays DEF HistoryInv
<1>2. CASE ~drifted
  <2>1. Held /\ Complete
    BY <1>2 DEF HistoryInv
  <2>2. (drifted' \/ Held') /\ Complete'
    BY <1>2, <2>1, HeldStep, CompleteStep
  <2> QED
    BY <2>2 DEF HistoryInv
<1> QED
  BY <1>1, <1>2

\* What the model is sent.
LEMMA SentTogether ==
  ASSUME Held, Complete
  PROVE  ResultsFollowUses /\ UsesAreAnswered /\ SummariesAreExact
<1>1. log \in Seq(Entries) /\ Len(log) \in Nat /\ DOMAIN log = 1..Len(log)
  BY LenProperties DEF Held, Holds
<1>2. SummariesAreExact
  BY <1>1 DEF Held, Holds, Exact, SummariesAreExact, Is
<1> SUFFICES ASSUME pc = "ask" PROVE ResultsFollowUses /\ UsesAreAnswered
  BY <1>2 DEF ResultsFollowUses, UsesAreAnswered
<1>3. /\ Paired(log, list) /\ Len(list) \in Nat /\ DOMAIN list = 1..Len(list)
      /\ \A i \in 1..Len(list) : list[i] \in 1..Len(log)
  BY LenProperties, ElementOfSeq DEF Held, Paired
<1>4. ResultsFollowUses
  <2> SUFFICES ASSUME NEW i \in 1..Len(list), log[list[i]].kind = "tool"
               PROVE  /\ i > 1 /\ list[i - 1] = list[i] - 1
                      /\ log[list[i - 1]].kind \in {"tool", "assistant"}
    BY <1>3 DEF ResultsFollowUses, Is
  <2>1. i > 1 /\ list[i - 1] = list[i] - 1
    BY <1>3 DEF Paired
  <2>2. log[list[i] - 1].kind \in {"tool", "assistant"}
    BY <1>3 DEF Held, Holds, ResultsInPlace
  <2> QED
    BY <2>1, <2>2
<1>5. UsesAreAnswered
  <2>a. ASSUME NEW i \in 1..Len(list), list[i] \notin broken,
               NEW k \in 1..log[list[i]].uses
        PROVE  Answered(i, k)
    BY <1>1, <1>3, <2>a DEF Complete, Answered, Is
  <2>b. ASSUME NEW i \in 1..Len(list), list[i] \notin broken,
               NEW k \in 1..log[list[i]].uses, NEW j \in 1..k
        PROVE  Answered(i, j)
    <3>1. log[list[i]].uses \in Nat
      BY <1>1, <1>3, UsesAreNumbers
    <3>2. j \in 1..log[list[i]].uses
      BY <3>1
    <3> QED
      BY <2>a, <2>b, <3>2
  <2>c. SUFFICES ASSUME NEW i \in 1..Len(list), NEW k \in 1..log[list[i]].uses,
                        \A j \in 1..k : Answered(i, j),
                        ~(i + k \in 1..Len(list) /\ list[i + k] = list[i] + k)
                 PROVE  FALSE
    <3> SUFFICES ASSUME NEW i \in 1..Len(list), NEW k \in 1..log[list[i]].uses,
                        list[i] \notin broken \/ \A j \in 1..k : Answered(i, j)
                 PROVE  /\ Answered(i, k)
                        /\ i + k \in 1..Len(list) /\ list[i + k] = list[i] + k
      BY <1>3 DEF UsesAreAnswered
    <3>1. \A j \in 1..k : Answered(i, j)
      BY <2>b
    <3>2. k \in 1..k
      <4>1. log[list[i]].uses \in Nat
        BY <1>1, <1>3, UsesAreNumbers
      <4> QED
        BY <4>1
    <3> QED
      BY <2>c, <3>1, <3>2
  <2> DEFINE T == {j \in 1..k : ~(i + j \in 1..Len(list) /\ list[i + j] = list[i] + j)}
  <2>0. log[list[i]].uses \in Nat
    BY <1>1, <1>3, UsesAreNumbers
  <2>1. T \in SUBSET Nat /\ k \in T
    BY <2>0, <2>c
  <2>2. PICK j \in T : \A x \in T : j <= x
    BY <2>1, Least
  <2>3. j \in 1..k /\ ~(i + j \in 1..Len(list) /\ list[i + j] = list[i] + j)
    BY <2>2
  <2>4. i + (j - 1) \in 1..Len(list) /\ list[i + (j - 1)] = list[i] + (j - 1)
    <3>1. CASE j = 1
      <4>1. i + (j - 1) = i /\ list[i] + (j - 1) = list[i]
        BY <1>3, <3>1
      <4> QED
        BY <4>1
    <3>2. CASE j > 1
      <4>1. j - 1 \in 1..k /\ ~(j <= j - 1)
        BY <2>0, <2>3, <3>2
      <4>2. j - 1 \notin T
        BY <2>2, <4>1
      <4> QED
        BY <4>1, <4>2
    <3> QED
      BY <2>0, <2>3, <3>1, <3>2
  <2>5. list[i] + j \in 1..Len(log) /\ log[list[i] + j].kind = "tool"
    BY <1>1, <2>3, <2>c DEF Answered, Is
  <2>6. PICK q \in 1..Len(list) : q = i + (j - 1)
    BY <2>4
  <2>7. /\ list[q] < Len(log) /\ list[q] + 1 = list[i] + j
        /\ q + 1 = i + j
    BY <1>1, <1>3, <2>0, <2>3, <2>4, <2>5, <2>6
  <2>8. q < Len(list) /\ list[q + 1] = list[q] + 1
    BY <1>3, <2>5, <2>7 DEF Paired
  <2>9. q + 1 \in 1..Len(list)
    BY <1>3, <2>8
  <2> QED
    BY <2>3, <2>7, <2>8, <2>9
<1> QED
  BY <1>4, <1>5

\* However long a session is and whatever the window, what the model is sent
\* holds together, unless a trimmed list was summarised: a result is behind its
\* use; a message whose tools did not break off has all its results behind it,
\* one whose tools did has those it got; and a summary stands for what it covers.
THEOREM HistoryIsWhole == Spec => []HistoryHoldsTogether
<1>1. Init => HistoryInv
  <2> SUFFICES ASSUME Init PROVE Held /\ Complete
    BY DEF HistoryInv
  <2>1. log = <<>> /\ pc = "idle" /\ trimmed = FALSE
    BY DEF Init
  <2>2. Messages(<<>>) = <<>> /\ Len(<<>>) = 0 /\ <<>> \in Seq(Entries) /\ <<>> \in Seq(1..0)
    BY NoMessages
  <2>3. Paired(<<>>, <<>>) /\ ResultsInPlace(<<>>) /\ Exact(<<>>)
    BY <2>2 DEF Paired, ResultsInPlace, Exact
  <2> QED
    BY <2>1, <2>2, <2>3 DEF Held, Holds, Complete
<1>2. HistoryInv /\ [Next]_vars => HistoryInv'
  BY HistoryStep
<1>3. HistoryInv => HistoryHoldsTogether
  BY SentTogether DEF HistoryInv, HistoryHoldsTogether
<1> QED
  BY <1>1, <1>2, <1>3, PTL DEF Spec

----------------------------------------------------------------------------
\* Matches

LEMMA RunIs ==
  ASSUME NEW S, NEW text, Len(text) \in Nat, NEW i \in 1..(Len(text) + 1),
         NEW r \in Nat, i + r <= Len(text) + 1,
         \A j \in i..(i + r - 1) : text[j] \in S,
         i + r <= Len(text) => text[i + r] \notin S
  PROVE  Run(S, text, i) = r
<1> DEFINE stops == {j \in i..Len(text) : text[j] \notin S} \cup {Len(text) + 1}
<1>1. i + r \in stops
  OBVIOUS
<1>2. ASSUME NEW k \in stops PROVE i + r <= k
  OBVIOUS
<1>3. \A j \in stops : j \in Int
  OBVIOUS
<1> HIDE DEF stops
<1>4. (CHOOSE j \in stops : \A k \in stops : j <= k) = i + r
  <2> DEFINE c == CHOOSE j \in stops : \A k \in stops : j <= k
  <2>1. c \in stops /\ \A k \in stops : c <= k
    BY <1>1, <1>2
  <2> HIDE DEF c
  <2>2. c = i + r
    BY <2>1, <1>1, <1>2, <1>3
  <2> QED
    BY <2>2 DEF c
<1> QED
  BY <1>4 DEF Run, stops

LEMMA RunStops ==
  ASSUME NEW S, NEW text, Len(text) \in Nat, NEW i \in 1..(Len(text) + 1)
  PROVE  /\ Run(S, text, i) \in Nat
         /\ i + Run(S, text, i) <= Len(text) + 1
         /\ \A j \in i..(i + Run(S, text, i) - 1) : text[j] \in S
         /\ i + Run(S, text, i) <= Len(text) => text[i + Run(S, text, i)] \notin S
<1> DEFINE T == {r \in Nat : i + r = Len(text) + 1 \/ (i + r <= Len(text) /\ text[i + r] \notin S)}
<1>1. Len(text) + 1 - i \in T
  OBVIOUS
<1>2. PICK r \in T : \A k \in T : r <= k
  <2> HIDE DEF T
  <2>1. T \in SUBSET Nat
    BY DEF T
  <2> QED
    BY <1>1, <2>1, Least
<1>3. r \in Nat /\ i + r <= Len(text) + 1 /\ (i + r <= Len(text) => text[i + r] \notin S)
  BY <1>2
<1>4. ASSUME NEW j \in i..(i + r - 1) PROVE text[j] \in S
  <2>1. j - i \in Nat /\ j - i < r /\ i + (j - i) = j /\ j <= Len(text)
    BY <1>3
  <2>2. j - i \notin T
    BY <1>2, <2>1
  <2> QED
    BY <2>1, <2>2
<1>5. Run(S, text, i) = r
  BY <1>3, <1>4, RunIs
<1> QED
  BY <1>3, <1>4, <1>5

\* A match lies within the text and is made of pattern characters.
LEMMA MatchFits ==
  ASSUME NEW text, Len(text) \in Nat, NEW i \in 1..Len(text), NEW rule \in Patterns
  PROVE  \E n \in Nat : /\ MatchAt(rule, text, i) = n
                        /\ i + n <= Len(text) + 1
                        /\ \A j \in i..(i + n - 1) : text[j] \in Alphabet
<1>1. PICK d \in Nat : /\ i + d <= Len(text) + 1
                       /\ \A j \in i..(i + d - 1) : text[j] \in Digit
                       /\ Run(Digit, text, i) = d
  BY RunStops
<1>2. PICK w \in Nat : /\ i + w <= Len(text) + 1
                       /\ \A j \in i..(i + w - 1) : text[j] \in Word
                       /\ Run(Word, text, i) = w
  BY RunStops
<1>3. Digit \subseteq Alphabet /\ Word \subseteq Alphabet /\ "@" \in Alphabet
  BY DEF Digit, Word, Alphabet
<1>4. CASE rule = "phone"
  <2>1. MatchAt(rule, text, i) = IF d >= 3 THEN 3 ELSE 0
    BY <1>1, <1>4 DEF MatchAt
  <2>2. CASE d >= 3
    BY <2>1, <2>2, <1>1, <1>3
  <2>3. CASE ~(d >= 3)
    BY <2>1, <2>3
  <2> QED
    BY <2>2, <2>3
<1>5. CASE rule = "card"
  <2>1. MatchAt(rule, text, i)
          = IF d = 2 /\ (i = 1 \/ text[i - 1] \notin Digit) THEN 2 ELSE 0
    BY <1>1, <1>5 DEF MatchAt
  <2>2. CASE d = 2 /\ (i = 1 \/ text[i - 1] \notin Digit)
    BY <2>1, <2>2, <1>1, <1>3
  <2>3. CASE ~(d = 2 /\ (i = 1 \/ text[i - 1] \notin Digit))
    BY <2>1, <2>3
  <2> QED
    BY <2>2, <2>3
<1>6. CASE rule = "email"
  <2> DEFINE host == IF i + w < Len(text) THEN Run(Word, text, i + w + 1) ELSE 0
  <2>1. MatchAt(rule, text, i)
          = IF w > 0 /\ host > 0 /\ text[i + w] = "@" THEN w + 1 + host ELSE 0
    BY <1>2, <1>6 DEF MatchAt
  <2>2. CASE w > 0 /\ host > 0 /\ text[i + w] = "@"
    <3>1. i + w < Len(text) /\ i + w + 1 \in 1..(Len(text) + 1)
      BY <2>2, <1>2
    <3>2. PICK h \in Nat : /\ i + w + 1 + h <= Len(text) + 1
                           /\ \A j \in (i + w + 1)..(i + w + 1 + h - 1) : text[j] \in Word
                           /\ Run(Word, text, i + w + 1) = h
      BY <3>1, RunStops
    <3>3. host = h
      BY <3>1, <3>2
    <3> HIDE DEF host
    <3>4. MatchAt(rule, text, i) = w + 1 + h
      BY <2>1, <2>2, <3>3
    <3>5. ASSUME NEW j \in i..(i + (w + 1 + h) - 1) PROVE text[j] \in Alphabet
      <4>1. j < i + w \/ j = i + w \/ j > i + w
        OBVIOUS
      <4>2. CASE j < i + w
        BY <4>2, <1>2, <1>3
      <4>3. CASE j = i + w
        BY <4>3, <2>2, <1>3
      <4>4. CASE j > i + w
        BY <4>4, <3>2, <1>3
      <4> QED
        BY <4>1, <4>2, <4>3, <4>4
    <3> QED
      BY <3>2, <3>4, <3>5
  <2>3. CASE ~(w > 0 /\ host > 0 /\ text[i + w] = "@")
    <3> HIDE DEF host
    <3> QED
      BY <2>1, <2>3
  <2> QED
    BY <2>2, <2>3
<1> QED
  BY <1>4, <1>5, <1>6 DEF Patterns

\* text begins with a, and a ends where no match goes on.
Begins(a, text) ==
  /\ Len(a) \in Nat \ {0} /\ Len(text) \in Nat /\ Len(a) <= Len(text)
  /\ \A j \in 1..Len(a) : text[j] = a[j]
  /\ a[Len(a)] \notin Alphabet

LEMMA RunLocal ==
  ASSUME NEW a, NEW text, Begins(a, text), NEW i \in 1..Len(a), NEW S \in SUBSET Alphabet
  PROVE  \E r \in Nat : /\ Run(S, a, i) = r /\ Run(S, text, i) = r
                        /\ i + r <= Len(a)
<1>1. PICK r \in Nat : /\ i + r <= Len(a) + 1
                       /\ \A j \in i..(i + r - 1) : a[j] \in S
                       /\ i + r <= Len(a) => a[i + r] \notin S
                       /\ Run(S, a, i) = r
  <2>1. Len(a) \in Nat /\ i \in 1..(Len(a) + 1)
    BY DEF Begins
  <2> QED
    BY <2>1, RunStops
<1>2. a[Len(a)] \notin S
  BY DEF Begins
<1>3. i + r <= Len(a)
  <2> SUFFICES ASSUME i + r = Len(a) + 1 PROVE FALSE
    BY <1>1 DEF Begins
  <2>1. Len(a) \in i..(i + r - 1)
    BY DEF Begins
  <2> QED
    BY <2>1, <1>1, <1>2
<1>4. /\ Len(text) \in Nat /\ i \in 1..(Len(text) + 1) /\ i + r <= Len(text) + 1
      /\ \A j \in i..(i + r - 1) : text[j] \in S
      /\ text[i + r] \notin S
  <2>1. /\ Len(a) \in Nat /\ Len(text) \in Nat /\ Len(a) <= Len(text)
        /\ \A j \in 1..Len(a) : text[j] = a[j]
    BY DEF Begins
  <2>2. i + r \in 1..Len(a) /\ a[i + r] \notin S
    BY <1>1, <1>3, <2>1
  <2>3. ASSUME NEW j \in i..(i + r - 1) PROVE text[j] \in S
    BY <1>1, <1>3, <2>1
  <2> QED
    BY <1>3, <2>1, <2>2, <2>3
<1>5. Run(S, text, i) = r
  BY <1>4, RunIs
<1> QED
  BY <1>1, <1>3, <1>5

LEMMA MatchLocal ==
  ASSUME NEW a, NEW text, Begins(a, text), NEW i \in 1..Len(a), NEW rule \in Patterns
  PROVE  \E n \in Nat : /\ MatchAt(rule, a, i) = n /\ MatchAt(rule, text, i) = n
                        /\ i + n <= Len(a)
<1>1. Digit \subseteq Alphabet /\ Word \subseteq Alphabet /\ "@" \in Alphabet
  BY DEF Digit, Word, Alphabet
<1>2. PICK d \in Nat : /\ Run(Digit, a, i) = d /\ Run(Digit, text, i) = d /\ i + d <= Len(a)
  BY <1>1, RunLocal
<1>3. PICK w \in Nat : /\ Run(Word, a, i) = w /\ Run(Word, text, i) = w /\ i + w <= Len(a)
  BY <1>1, RunLocal
<1>4. MatchAt(rule, a, i) = MatchAt(rule, text, i)
  <2>1. CASE rule = "phone"
    BY <2>1, <1>2 DEF MatchAt
  <2>2. CASE rule = "card"
    <3>1. i # 1 => i - 1 \in 1..Len(a)
      BY DEF Begins
    <3>2. i # 1 => a[i - 1] = text[i - 1]
      BY <3>1 DEF Begins
    <3>3. MatchAt(rule, a, i)
            = IF d = 2 /\ (i = 1 \/ a[i - 1] \notin Digit) THEN 2 ELSE 0
      BY <2>2, <1>2 DEF MatchAt
    <3>4. MatchAt(rule, text, i)
            = IF d = 2 /\ (i = 1 \/ text[i - 1] \notin Digit) THEN 2 ELSE 0
      BY <2>2, <1>2 DEF MatchAt
    <3> QED
      BY <3>2, <3>3, <3>4
  <2>3. CASE rule = "email"
    <3> DEFINE host(t) == IF i + w < Len(t) THEN Run(Word, t, i + w + 1) ELSE 0
    <3>1. MatchAt(rule, a, i)
            = IF w > 0 /\ host(a) > 0 /\ a[i + w] = "@" THEN w + 1 + host(a) ELSE 0
      BY <1>3, <2>3 DEF MatchAt
    <3>2. MatchAt(rule, text, i)
            = IF w > 0 /\ host(text) > 0 /\ text[i + w] = "@" THEN w + 1 + host(text) ELSE 0
      BY <1>3, <2>3 DEF MatchAt
    <3>3. i + w \in 1..Len(a) /\ Len(a) \in Nat
      BY <1>3 DEF Begins
    <3>4. a[i + w] = text[i + w]
      BY <3>3 DEF Begins
    <3>5. CASE i + w = Len(a)
      <4>1. a[i + w] # "@"
        BY <3>5, <1>1 DEF Begins
      <4> HIDE DEF host
      <4> QED
        BY <4>1, <3>1, <3>2, <3>4
    <3>6. CASE i + w # Len(a)
      <4>1. i + w < Len(a) /\ i + w < Len(text) /\ i + w + 1 \in 1..Len(a)
        BY <3>3, <3>6 DEF Begins
      <4>2. Run(Word, a, i + w + 1) = Run(Word, text, i + w + 1)
        BY <4>1, <1>1, RunLocal
      <4>3. host(a) = host(text)
        BY <4>1, <4>2
      <4> HIDE DEF host
      <4> QED
        BY <4>3, <3>1, <3>2, <3>4
    <3> QED
      BY <3>5, <3>6
  <2> QED
    BY <2>1, <2>2, <2>3 DEF Patterns
<1>5. Len(a) \in Nat
  BY DEF Begins
<1>6. PICK n \in Nat : /\ MatchAt(rule, a, i) = n
                       /\ i + n <= Len(a) + 1
                       /\ \A j \in i..(i + n - 1) : a[j] \in Alphabet
  BY <1>5, MatchFits
<1>7. i + n <= Len(a)
  <2> SUFFICES ASSUME i + n = Len(a) + 1 PROVE FALSE
    BY <1>5, <1>6
  <2>1. Len(a) \in i..(i + n - 1)
    BY <1>5
  <2> QED
    BY <2>1, <1>6 DEF Begins
<1> QED
  BY <1>4, <1>6, <1>7

\* text ends with b, which begins where no match goes on.
Follows(b, text, m) ==
  /\ m \in Nat /\ Len(b) \in Nat /\ Len(text) = m + Len(b)
  /\ \A j \in 1..Len(b) : text[m + j] = b[j]
  /\ m # 0 => text[m] \notin Alphabet

LEMMA RunShift ==
  ASSUME NEW b, NEW text, NEW m, Follows(b, text, m), NEW i \in 1..(Len(b) + 1), NEW S
  PROVE  Run(S, text, m + i) = Run(S, b, i)
<1>1. PICK r \in Nat : /\ i + r <= Len(b) + 1
                       /\ \A j \in i..(i + r - 1) : b[j] \in S
                       /\ i + r <= Len(b) => b[i + r] \notin S
                       /\ Run(S, b, i) = r
  <2>1. Len(b) \in Nat
    BY DEF Follows
  <2> QED
    BY <2>1, RunStops
<1>2. /\ Len(text) \in Nat /\ m + i \in 1..(Len(text) + 1) /\ (m + i) + r <= Len(text) + 1
  BY <1>1 DEF Follows
<1>3. ASSUME NEW j \in (m + i)..((m + i) + r - 1) PROVE text[j] \in S
  <2>1. j - m \in i..(i + r - 1) /\ j - m \in 1..Len(b) /\ m + (j - m) = j
    BY <1>1 DEF Follows
  <2>2. text[j] = b[j - m]
    BY <2>1 DEF Follows
  <2> QED
    BY <2>1, <2>2, <1>1
<1>4. ASSUME (m + i) + r <= Len(text) PROVE text[(m + i) + r] \notin S
  <2>1. i + r \in 1..Len(b) /\ m + (i + r) = (m + i) + r
    BY <1>4, <1>1 DEF Follows
  <2>2. text[(m + i) + r] = b[i + r]
    BY <2>1 DEF Follows
  <2> QED
    BY <2>1, <2>2, <1>1
<1> QED
  BY <1>1, <1>2, <1>3, <1>4, RunIs

LEMMA MatchShift ==
  ASSUME NEW b, NEW text, NEW m, Follows(b, text, m), NEW i \in 1..Len(b), NEW rule \in Patterns
  PROVE  MatchAt(rule, text, m + i) = MatchAt(rule, b, i)
<1>1. /\ m \in Nat /\ Len(b) \in Nat /\ Len(text) = m + Len(b)
      /\ i \in 1..(Len(b) + 1) /\ Digit \subseteq Alphabet
  BY DEF Follows, Digit, Word, Alphabet
<1>2. Run(Digit, text, m + i) = Run(Digit, b, i) /\ Run(Word, text, m + i) = Run(Word, b, i)
  BY <1>1, RunShift
<1>3. CASE rule = "phone"
  BY <1>2, <1>3 DEF MatchAt
<1>4. CASE rule = "card"
  <2>1. (m + i = 1 \/ text[m + i - 1] \notin Digit) <=> (i = 1 \/ b[i - 1] \notin Digit)
    <3>1. CASE i = 1 /\ m = 0
      BY <3>1
    <3>2. CASE i = 1 /\ m # 0
      <4>1. text[m + i - 1] = text[m] /\ text[m] \notin Digit
        BY <3>2, <1>1 DEF Follows
      <4> QED
        BY <3>2, <4>1
    <3>3. CASE i # 1
      <4>1. i - 1 \in 1..Len(b) /\ m + (i - 1) = m + i - 1 /\ m + i # 1
        BY <3>3, <1>1
      <4>2. text[m + i - 1] = b[i - 1]
        BY <4>1 DEF Follows
      <4> QED
        BY <3>3, <4>1, <4>2
    <3> QED
      BY <3>1, <3>2, <3>3
  <2>2. MatchAt(rule, text, m + i)
          = IF Run(Digit, text, m + i) = 2 /\ (m + i = 1 \/ text[m + i - 1] \notin Digit)
            THEN 2 ELSE 0
    BY <1>1, <1>4 DEF MatchAt
  <2>3. MatchAt(rule, b, i)
          = IF Run(Digit, b, i) = 2 /\ (i = 1 \/ b[i - 1] \notin Digit) THEN 2 ELSE 0
    BY <1>1, <1>4 DEF MatchAt
  <2> QED
    BY <1>2, <2>1, <2>2, <2>3
<1>5. CASE rule = "email"
  <2>1. PICK w \in Nat : Run(Word, b, i) = w /\ i + w <= Len(b) + 1
    BY <1>1, RunStops
  <2> DEFINE host(t, k) == IF k < Len(t) THEN Run(Word, t, k + 1) ELSE 0
             found(t, k) == w > 0 /\ host(t, k) > 0 /\ t[k] = "@"
  <2>2. MatchAt(rule, b, i)
          = IF found(b, i + w) THEN w + 1 + host(b, i + w) ELSE 0
    BY <2>1, <1>5 DEF MatchAt
  <2>3. MatchAt(rule, text, m + i)
          = IF found(text, m + i + w) THEN w + 1 + host(text, m + i + w) ELSE 0
    BY <2>1, <1>2, <1>5 DEF MatchAt
  <2>4. CASE i + w < Len(b)
    <3>1. /\ i + w + 1 \in 1..(Len(b) + 1) /\ m + (i + w + 1) = m + i + w + 1
          /\ m + i + w < Len(text) /\ i + w \in 1..Len(b) /\ m + (i + w) = m + i + w
      BY <2>4, <2>1, <1>1
    <3>2. Run(Word, text, m + i + w + 1) = Run(Word, b, i + w + 1)
      BY <3>1, RunShift
    <3>3. host(text, m + i + w) = host(b, i + w)
      BY <2>4, <3>1, <3>2
    <3>4. text[m + i + w] = b[i + w]
      BY <3>1 DEF Follows
    <3> HIDE DEF host
    <3> QED
      BY <2>2, <2>3, <3>3, <3>4
  <2>5. CASE ~(i + w < Len(b))
    <3>1. ~(m + i + w < Len(text))
      BY <2>5, <2>1, <1>1
    <3>2. host(text, m + i + w) = 0 /\ host(b, i + w) = 0
      BY <3>1, <2>5
    <3> HIDE DEF host
    <3> QED
      BY <2>2, <2>3, <3>2
  <2> QED
    BY <2>4, <2>5
<1> QED
  BY <1>3, <1>4, <1>5 DEF Patterns

----------------------------------------------------------------------------
\* Masking

\* What holds at the end of a text, and at a place if it holds at all later
\* ones, holds everywhere: a set of places has a last member.
LEMMA Greatest ==
  ASSUME NEW n \in Nat, NEW S \in SUBSET (1..n), NEW e \in S
  PROVE  \E m \in S : \A k \in S : k <= m
<1> DEFINE T == {n - k : k \in S}
<1>1. T \in SUBSET Nat /\ n - e \in T
  OBVIOUS
<1> HIDE DEF T
<1>2. PICK d \in T : \A j \in T : d <= j
  BY <1>1, Least
<1> USE DEF T
<1>3. PICK m \in S : d = n - m
  BY <1>2
<1>4. ASSUME NEW k \in S PROVE k <= m
  <2>1. n - k \in T
    OBVIOUS
  <2>2. n - m <= n - k
    BY <1>2, <1>3, <2>1
  <2> QED
    BY <2>2
<1> QED
  BY <1>4

\* f replaces from any place on, from place m on.
Rest(rule, text, f, i) ==
  IF i > Len(text) THEN <<>>
  ELSE LET n == MatchAt(rule, text, i)
       IN  IF n = 0 THEN <<text[i]>> \o f[i + 1] ELSE <<None>> \o f[i + n]

Replaces(rule, text, m, f) ==
  f = [i \in m..(Len(text) + 1) |-> Rest(rule, text, f, i)]

LEMMA ReplacementsExist ==
  ASSUME NEW text, Len(text) \in Nat, NEW rule \in Patterns
  PROVE  \E f : Replaces(rule, text, 1, f)
<1> DEFINE L == Len(text) + 1
           T == {m \in 1..L : ~\E f : Replaces(rule, text, m, f)}
<1> SUFFICES ASSUME 1 \in T PROVE FALSE
  OBVIOUS
<1>1. PICK m \in T : \A k \in T : k <= m
  <2>1. L \in Nat /\ T \in SUBSET (1..L)
    OBVIOUS
  <2> HIDE DEF T, L
  <2> QED
    BY <2>1, Greatest
<1>2. m # L
  <2> DEFINE f == [i \in L..L |-> <<>>]
  <2>1. \A i \in L..L : Rest(rule, text, f, i) = <<>>
    BY DEF Rest
  <2> HIDE DEF f
  <2>2. f = [i \in L..L |-> Rest(rule, text, f, i)]
    BY <2>1, Zenon DEF f
  <2>3. Replaces(rule, text, L, f)
    BY <2>2 DEF Replaces
  <2> QED
    BY <1>1, <2>3
<1>3. m \in 1..Len(text) /\ m + 1 \in 1..L /\ m + 1 \notin T
  BY <1>1, <1>2
<1>4. PICK f : Replaces(rule, text, m + 1, f)
  BY <1>3
<1> DEFINE g == [i \in m..L |-> Rest(rule, text, f, i)]
<1>5. \A i \in (m + 1)..L : g[i] = f[i]
  <2>1. \A i \in (m + 1)..L : f[i] = Rest(rule, text, f, i)
    BY <1>4 DEF Replaces
  <2> QED
    BY <1>3, <2>1
<1>6. ASSUME NEW i \in m..L PROVE Rest(rule, text, f, i) = Rest(rule, text, g, i)
  <2> HIDE DEF g
  <2>1. CASE i = L
    BY <2>1 DEF Rest
  <2>2. CASE i # L
    <3>1. i \in 1..Len(text)
      BY <1>3, <2>2
    <3>2. PICK n \in Nat : MatchAt(rule, text, i) = n /\ i + n <= Len(text) + 1
      BY <3>1, MatchFits
    <3>3. i + 1 \in (m + 1)..L /\ (n # 0 => i + n \in (m + 1)..L)
      BY <1>3, <3>1, <3>2
    <3>4. f[i + 1] = g[i + 1] /\ (n # 0 => f[i + n] = g[i + n])
      BY <1>5, <3>3
    <3> QED
      BY <3>1, <3>2, <3>4 DEF Rest
  <2> QED
    BY <2>1, <2>2
<1>7. Replaces(rule, text, m, g)
  <2>1. g = [i \in m..L |-> Rest(rule, text, g, i)]
    BY <1>6, Zenon
  <2> QED
    BY <2>1 DEF Replaces
<1> QED
  BY <1>1, <1>7

LEMMA ReplaceScans ==
  ASSUME NEW text, Len(text) \in Nat, NEW rule \in Patterns
  PROVE  \E f : /\ Replace(rule, text) = f[1]
                /\ \A i \in 1..(Len(text) + 1) : f[i] = Rest(rule, text, f, i)
<1>1. \E f : Replaces(rule, text, 1, f)
  BY ReplacementsExist
<1> DEFINE from == CHOOSE f : Replaces(rule, text, 1, f)
<1>2. Replace(rule, text) = from[1]
  BY DEF Replace, Replaces, Rest
<1>3. Replaces(rule, text, 1, from)
  BY <1>1
<1> HIDE DEF from
<1> QED
  BY <1>2, <1>3 DEF Replaces

\* What takes the place of the first characters, and where the scan goes on.
Put(rule, text, i) == IF MatchAt(rule, text, i) = 0 THEN <<text[i]>> ELSE <<None>>

Beyond(rule, text, i) ==
  IF MatchAt(rule, text, i) = 0 THEN i + 1 ELSE i + MatchAt(rule, text, i)

LEMMA RestIs ==
  ASSUME NEW text, Len(text) \in Nat, NEW rule \in Patterns, NEW i \in 1..Len(text), NEW f
  PROVE  /\ Rest(rule, text, f, i) = Put(rule, text, i) \o f[Beyond(rule, text, i)]
         /\ Beyond(rule, text, i) \in (i + 1)..(Len(text) + 1)
<1>1. PICK n \in Nat : MatchAt(rule, text, i) = n /\ i + n <= Len(text) + 1
  BY MatchFits
<1>2. Beyond(rule, text, i) = IF n = 0 THEN i + 1 ELSE i + n
  BY <1>1 DEF Beyond
<1>3. Put(rule, text, i) = IF n = 0 THEN <<text[i]>> ELSE <<None>>
  BY <1>1 DEF Put
<1>4. Rest(rule, text, f, i) = IF n = 0 THEN <<text[i]>> \o f[i + 1] ELSE <<None>> \o f[i + n]
  BY <1>1 DEF Rest
<1> QED
  BY <1>1, <1>2, <1>3, <1>4

LEMMA PutTyped ==
  ASSUME NEW C, None \in C, NEW text \in Seq(C), NEW rule, NEW i \in 1..Len(text)
  PROVE  Put(rule, text, i) \in Seq(C) /\ Len(Put(rule, text, i)) = 1
<1>1. text[i] \in C
  BY ElementOfSeq
<1>2. <<text[i]>> \in Seq(C) /\ Len(<<text[i]>>) = 1 /\ <<None>> \in Seq(C) /\ Len(<<None>>) = 1
  BY <1>1
<1> QED
  BY <1>2 DEF Put

\* f is the scan of text: what the characters from i on become.
Scans(rule, text, f) == \A i \in 1..(Len(text) + 1) : f[i] = Rest(rule, text, f, i)

LEMMA ScanTyped ==
  ASSUME NEW C, None \in C, NEW text \in Seq(C), NEW rule \in Patterns,
         NEW f, Scans(rule, text, f)
  PROVE  \A i \in 1..(Len(text) + 1) : f[i] \in Seq(C)
<1> DEFINE T == {i \in 1..(Len(text) + 1) : f[i] \notin Seq(C)}
<1> SUFFICES ASSUME NEW e \in T PROVE FALSE
  OBVIOUS
<1>1. Len(text) \in Nat
  BY LenProperties
<1>2. PICK m \in T : \A k \in T : k <= m
  <2>1. Len(text) + 1 \in Nat /\ T \in SUBSET (1..(Len(text) + 1))
    BY <1>1
  <2> HIDE DEF T
  <2> QED
    BY <2>1, Greatest
<1>3. m \in 1..(Len(text) + 1) /\ f[m] = Rest(rule, text, f, m)
  BY DEF Scans
<1>4. CASE m = Len(text) + 1
  <2>1. f[m] = <<>>
    BY <1>1, <1>3, <1>4 DEF Rest
  <2>2. <<>> \in Seq(C)
    BY EmptySeq
  <2> QED
    BY <2>1, <2>2
<1>5. CASE m # Len(text) + 1
  <2>1. m \in 1..Len(text)
    BY <1>1, <1>3, <1>5
  <2> DEFINE next == Beyond(rule, text, m)
  <2>2. /\ f[m] = Put(rule, text, m) \o f[next]
        /\ Put(rule, text, m) \in Seq(C) /\ next \in (m + 1)..(Len(text) + 1)
    BY <2>1, <1>1, <1>3, RestIs, PutTyped
  <2>3. next \notin T /\ next \in 1..(Len(text) + 1)
    BY <2>1, <2>2, <1>2, <1>1
  <2> HIDE DEF next
  <2>4. f[next] \in Seq(C)
    BY <2>3
  <2>5. f[m] \in Seq(C)
    BY <2>2, <2>4, ConcatProperties
  <2> QED
    BY <2>5
<1> QED
  BY <1>4, <1>5

LEMMA ReplaceTyped ==
  ASSUME NEW C, None \in C, NEW text \in Seq(C), NEW rule \in Patterns
  PROVE  \E f : /\ Scans(rule, text, f) /\ Replace(rule, text) = f[1]
                /\ \A i \in 1..(Len(text) + 1) : f[i] \in Seq(C)
                /\ Replace(rule, text) \in Seq(C)
<1>1. Len(text) \in Nat
  BY LenProperties
<1>2. PICK f : Scans(rule, text, f) /\ Replace(rule, text) = f[1]
  BY <1>1, ReplaceScans DEF Scans
<1>3. \A i \in 1..(Len(text) + 1) : f[i] \in Seq(C)
  BY <1>2, ScanTyped
<1>4. f[1] \in Seq(C)
  BY <1>1, <1>3
<1> QED
  BY <1>2, <1>3, <1>4

\* A place where a text can be cut.
Closed(a) == a = <<>> \/ a[Len(a)] \notin Alphabet

LEMMA ConcatParts ==
  ASSUME NEW C, NEW a \in Seq(C), NEW b \in Seq(C), Closed(a)
  PROVE  /\ a # <<>> => Begins(a, a \o b)
         /\ Follows(b, a \o b, Len(a))
<1>1. /\ Len(a) \in Nat /\ Len(b) \in Nat /\ Len(a \o b) = Len(a) + Len(b)
      /\ \A i \in 1..(Len(a) + Len(b)) :
           (a \o b)[i] = IF i <= Len(a) THEN a[i] ELSE b[i - Len(a)]
  BY LenProperties, ConcatProperties
<1>2. a # <<>> => Len(a) # 0
  BY EmptySeq
<1>3. \A j \in 1..Len(a) : (a \o b)[j] = a[j]
  BY <1>1
<1>4. \A j \in 1..Len(b) : (a \o b)[Len(a) + j] = b[j]
  <2> SUFFICES ASSUME NEW j \in 1..Len(b) PROVE (a \o b)[Len(a) + j] = b[j]
    OBVIOUS
  <2>1. Len(a) + j \in 1..(Len(a) + Len(b)) /\ ~(Len(a) + j <= Len(a)) /\ Len(a) + j - Len(a) = j
    BY <1>1
  <2> QED
    BY <1>1, <2>1
<1>5. Len(a) # 0 => a # <<>>
  BY EmptySeq
<1>6. Len(a) # 0 => (a \o b)[Len(a)] \notin Alphabet
  BY <1>1, <1>3, <1>5 DEF Closed
<1>7. ASSUME a # <<>> PROVE Begins(a, a \o b)
  <2>1. a[Len(a)] \notin Alphabet
    BY <1>7 DEF Closed
  <2> QED
    BY <2>1, <1>1, <1>2, <1>3, <1>7 DEF Begins
<1>8. Follows(b, a \o b, Len(a))
  BY <1>1, <1>4, <1>6 DEF Follows
<1> QED
  BY <1>7, <1>8

\* Scanning what follows a cut ...
LEMMA ScanShifts ==
  ASSUME NEW C, None \in C, NEW a \in Seq(C), NEW b \in Seq(C), Closed(a),
         NEW rule \in Patterns, NEW f, Scans(rule, a \o b, f), NEW g, Scans(rule, b, g)
  PROVE  \A i \in 1..(Len(b) + 1) : f[Len(a) + i] = g[i]
<1> DEFINE t == a \o b
           T == {i \in 1..(Len(b) + 1) : f[Len(a) + i] # g[i]}
<1> SUFFICES ASSUME NEW e \in T PROVE FALSE
  OBVIOUS
<1>1. /\ t \in Seq(C) /\ Len(t) = Len(a) + Len(b) /\ Len(a) \in Nat /\ Len(b) \in Nat
      /\ Follows(b, t, Len(a))
  BY LenProperties, ConcatProperties, ConcatParts
<1>2. PICK m \in T : \A k \in T : k <= m
  <2>1. Len(b) + 1 \in Nat /\ T \in SUBSET (1..(Len(b) + 1))
    BY <1>1
  <2> HIDE DEF T
  <2> QED
    BY <2>1, Greatest
<1> HIDE DEF t
<1>3. m \in 1..(Len(b) + 1) /\ f[Len(a) + m] # g[m]
  OBVIOUS
<1>4. Scans(rule, t, f)
  BY DEF t
<1>5. Len(a) + m \in 1..(Len(t) + 1)
  BY <1>1, <1>3
<1>6. f[Len(a) + m] = Rest(rule, t, f, Len(a) + m) /\ g[m] = Rest(rule, b, g, m)
  BY <1>3, <1>4, <1>5 DEF Scans
<1>7. CASE m = Len(b) + 1
  <2>1. Len(a) + m > Len(t) /\ m > Len(b)
    BY <1>1, <1>7
  <2> QED
    BY <1>3, <1>6, <2>1 DEF Rest
<1>8. CASE m # Len(b) + 1
  <2>1. m \in 1..Len(b) /\ Len(a) + m \in 1..Len(t)
    BY <1>1, <1>3, <1>8
  <2>2. MatchAt(rule, t, Len(a) + m) = MatchAt(rule, b, m)
    BY <1>1, <2>1, MatchShift
  <2>3. t[Len(a) + m] = b[m]
    BY <1>1, <2>1 DEF Follows
  <2>4. /\ Put(rule, t, Len(a) + m) = Put(rule, b, m)
        /\ Beyond(rule, t, Len(a) + m) = Len(a) + Beyond(rule, b, m)
    <3>1. PICK n \in Nat : MatchAt(rule, b, m) = n
      BY <1>1, <2>1, MatchFits
    <3> QED
      BY <1>1, <2>1, <2>2, <2>3, <3>1 DEF Put, Beyond
  <2>5. PICK next : next = Beyond(rule, b, m)
    OBVIOUS
  <2>6. /\ Rest(rule, b, g, m) = Put(rule, b, m) \o g[next]
        /\ next \in (m + 1)..(Len(b) + 1)
    BY <1>1, <2>1, <2>5, RestIs
  <2>7. Rest(rule, t, f, Len(a) + m) = Put(rule, b, m) \o f[Len(a) + next]
    <3>1. PICK k : k = Len(a) + m /\ k \in 1..Len(t)
      BY <2>1
    <3>2. Len(t) \in Nat
      BY <1>1
    <3>3. Rest(rule, t, f, k) = Put(rule, t, k) \o f[Beyond(rule, t, k)]
      BY <3>1, <3>2, RestIs
    <3> QED
      BY <3>1, <3>3, <2>4, <2>5
  <2>8. next \notin T /\ next \in 1..(Len(b) + 1)
    BY <1>1, <1>2, <2>1, <2>6
  <2>9. f[Len(a) + next] = g[next]
    BY <2>8
  <2> QED
    BY <1>3, <1>6, <2>6, <2>7, <2>9
<1> QED
  BY <1>7, <1>8

\* ... and what comes before it.
LEMMA ScanSplits ==
  ASSUME NEW C, None \in C, NEW a \in Seq(C), NEW b \in Seq(C), Closed(a), a # <<>>,
         NEW rule \in Patterns, NEW f, Scans(rule, a \o b, f),
         NEW h, Scans(rule, a, h), NEW r \in Seq(C), f[Len(a) + 1] = r
  PROVE  \A i \in 1..(Len(a) + 1) : f[i] = h[i] \o r
<1> DEFINE t == a \o b
           T == {i \in 1..(Len(a) + 1) : f[i] # h[i] \o r}
<1> SUFFICES ASSUME NEW e \in T PROVE FALSE
  OBVIOUS
<1>1. /\ t \in Seq(C) /\ Len(t) = Len(a) + Len(b) /\ Len(a) \in Nat /\ Len(b) \in Nat
      /\ Begins(a, t)
  BY LenProperties, ConcatProperties, ConcatParts
<1>2. PICK m \in T : \A k \in T : k <= m
  <2>1. Len(a) + 1 \in Nat /\ T \in SUBSET (1..(Len(a) + 1))
    BY <1>1
  <2> HIDE DEF T
  <2> QED
    BY <2>1, Greatest
<1> HIDE DEF t
<1>3. m \in 1..(Len(a) + 1)
  OBVIOUS
<1>10. f[m] # h[m] \o r
  OBVIOUS
<1>11. \A k \in 1..(Len(a) + 1) : k > m => f[k] = h[k] \o r
  BY <1>2
<1> HIDE DEF T
<1>4. Scans(rule, t, f)
  BY DEF t
<1>5. m \in 1..(Len(t) + 1)
  BY <1>1, <1>3
<1>6. f[m] = Rest(rule, t, f, m) /\ h[m] = Rest(rule, a, h, m)
  BY <1>3, <1>4, <1>5 DEF Scans
<1>7. \A i \in 1..(Len(a) + 1) : h[i] \in Seq(C)
  BY ScanTyped
<1>8. CASE m = Len(a) + 1
  <2>1. h[m] = <<>>
    BY <1>1, <1>6, <1>8 DEF Rest
  <2> QED
    BY <1>8, <1>10, <2>1, ConcatEmptySeq
<1>9. CASE m # Len(a) + 1
  <2>1. m \in 1..Len(a) /\ m \in 1..Len(t)
    BY <1>1, <1>3, <1>9
  <2>2. MatchAt(rule, t, m) = MatchAt(rule, a, m)
    BY <1>1, <2>1, MatchLocal
  <2>3. t[m] = a[m]
    BY <1>1, <2>1 DEF Begins
  <2>4. Put(rule, t, m) = Put(rule, a, m) /\ Beyond(rule, t, m) = Beyond(rule, a, m)
    BY <2>2, <2>3 DEF Put, Beyond
  <2>5. PICK next : next = Beyond(rule, a, m)
    OBVIOUS
  <2>6. /\ Rest(rule, a, h, m) = Put(rule, a, m) \o h[next]
        /\ next \in (m + 1)..(Len(a) + 1)
    BY <1>1, <2>1, <2>5, RestIs
  <2>7. Rest(rule, t, f, m) = Put(rule, a, m) \o f[next]
    <3>1. Len(t) \in Nat
      BY <1>1
    <3>2. Rest(rule, t, f, m) = Put(rule, t, m) \o f[Beyond(rule, t, m)]
      BY <2>1, <3>1, RestIs
    <3> QED
      BY <3>2, <2>4, <2>5
  <2>8. next \in 1..(Len(a) + 1) /\ next > m
    BY <1>1, <2>1, <2>6
  <2>9. f[next] = h[next] \o r /\ h[next] \in Seq(C)
    BY <2>8, <1>7, <1>11
  <2>10. PICK p, q : p = Put(rule, a, m) /\ q = h[next]
    OBVIOUS
  <2>11. p \in Seq(C) /\ q \in Seq(C)
    BY <2>1, <2>9, <2>10, PutTyped
  <2>12. p \o (q \o r) = (p \o q) \o r
    BY <2>11, ConcatAssociative
  <2> QED
    BY <1>6, <1>10, <2>6, <2>7, <2>9, <2>10, <2>12
<1> QED
  BY <1>8, <1>9

\* The character before a cut is no part of a match, and stays.
LEMMA ScanKeepsEnd ==
  ASSUME NEW C, None \in C, NEW a \in Seq(C), Closed(a), a # <<>>,
         NEW rule \in Patterns, NEW h, Scans(rule, a, h)
  PROVE  \A i \in 1..Len(a) : h[i] # <<>> /\ h[i][Len(h[i])] = a[Len(a)]
<1> DEFINE T == {i \in 1..Len(a) : ~(h[i] # <<>> /\ h[i][Len(h[i])] = a[Len(a)])}
<1> SUFFICES ASSUME NEW e \in T PROVE FALSE
  OBVIOUS
<1>1. Len(a) \in Nat \ {0} /\ a[Len(a)] \notin Alphabet
  BY EmptySeq DEF Closed
<1>2. Begins(a, a)
  BY <1>1 DEF Begins
<1>3. PICK m \in T : \A k \in T : k <= m
  <2>1. Len(a) \in Nat /\ T \in SUBSET (1..Len(a))
    BY <1>1
  <2> HIDE DEF T
  <2> QED
    BY <2>1, Greatest
<1>4. m \in 1..Len(a) /\ ~(h[m] # <<>> /\ h[m][Len(h[m])] = a[Len(a)])
  OBVIOUS
<1>5. h[m] = Rest(rule, a, h, m)
  BY <1>1, <1>4 DEF Scans
<1>6. PICK n \in Nat : MatchAt(rule, a, m) = n /\ m + n <= Len(a)
  BY <1>2, <1>4, MatchLocal
<1>7. \A i \in 1..(Len(a) + 1) : h[i] \in Seq(C)
  BY ScanTyped
<1>8. CASE m = Len(a)
  <2>1. n = 0
    BY <1>1, <1>6, <1>8
  <2>2. h[m + 1] = <<>>
    <3>1. m + 1 \in 1..(Len(a) + 1) /\ m + 1 > Len(a)
      BY <1>1, <1>8
    <3> QED
      BY <3>1 DEF Scans, Rest
  <2>3. h[m] = <<a[m]>> \o <<>>
    BY <1>1, <1>4, <1>5, <1>6, <2>1, <2>2 DEF Rest
  <2>4. h[m] = <<a[m]>>
    <3>1. <<a[m]>> \in Seq(C)
      BY <1>4, ElementOfSeq
    <3> QED
      BY <2>3, <3>1, ConcatEmptySeq
  <2> QED
    BY <1>4, <1>8, <2>4
<1>9. CASE m # Len(a)
  <2>1. PICK next : next = Beyond(rule, a, m)
    OBVIOUS
  <2>2. Rest(rule, a, h, m) = Put(rule, a, m) \o h[next]
    BY <1>1, <1>4, <2>1, RestIs
  <2>3. next \in 1..Len(a) /\ next > m
    <3>1. next = IF n = 0 THEN m + 1 ELSE m + n
      BY <1>6, <2>1 DEF Beyond
    <3> QED
      BY <1>1, <1>4, <1>6, <1>9, <3>1
  <2>4. next \notin T
    BY <1>3, <1>4, <2>3
  <2>5. h[next] # <<>> /\ h[next][Len(h[next])] = a[Len(a)] /\ h[next] \in Seq(C)
    BY <1>1, <1>7, <2>3, <2>4
  <2>6. PICK p, q : p = Put(rule, a, m) /\ q = h[next]
    OBVIOUS
  <2>7. /\ h[m] = p \o q /\ p \in Seq(C) /\ Len(p) = 1 /\ q \in Seq(C)
        /\ q # <<>> /\ q[Len(q)] = a[Len(a)]
    BY <1>4, <1>5, <2>2, <2>5, <2>6, PutTyped
  <2>8. Len(q) \in Nat \ {0}
    BY <2>7, EmptySeq
  <2>9. Len(p \o q) = 1 + Len(q) /\ (p \o q)[1 + Len(q)] = q[1 + Len(q) - 1]
    <3>1. /\ Len(p \o q) = Len(p) + Len(q)
          /\ \A i \in 1..(Len(p) + Len(q)) :
               (p \o q)[i] = IF i <= Len(p) THEN p[i] ELSE q[i - Len(p)]
      BY <2>7, ConcatProperties
    <3>2. 1 + Len(q) \in 1..(Len(p) + Len(q)) /\ ~(1 + Len(q) <= Len(p))
      BY <2>7, <2>8
    <3> QED
      BY <2>7, <3>1, <3>2
  <2>10. (p \o q)[Len(p \o q)] = q[Len(q)]
    BY <2>8, <2>9
  <2>11. p \o q # <<>>
    BY <2>8, <2>9, EmptySeq
  <2> QED
    BY <1>4, <2>7, <2>10, <2>11
<1> QED
  BY <1>8, <1>9

\* Masking the two sides of a cut one by one masks the whole; and the cut
\* stays one for the next rule.
LEMMA ReplaceSplits ==
  ASSUME NEW C, None \in C, NEW a \in Seq(C), NEW b \in Seq(C), Closed(a),
         NEW rule \in Patterns
  PROVE  /\ Replace(rule, a \o b) = Replace(rule, a) \o Replace(rule, b)
         /\ Closed(Replace(rule, a))
         /\ Replace(rule, a) \in Seq(C) /\ Replace(rule, b) \in Seq(C)
<1>1. Len(a) \in Nat /\ Len(b) \in Nat /\ a \o b \in Seq(C)
  BY LenProperties, ConcatProperties
<1>2. PICK f : Scans(rule, a \o b, f) /\ Replace(rule, a \o b) = f[1]
  BY <1>1, ReplaceTyped
<1>3. PICK h : /\ Scans(rule, a, h) /\ Replace(rule, a) = h[1]
               /\ Replace(rule, a) \in Seq(C)
  BY ReplaceTyped
<1>4. PICK g : /\ Scans(rule, b, g) /\ Replace(rule, b) = g[1]
               /\ Replace(rule, b) \in Seq(C)
  BY ReplaceTyped
<1>5. f[Len(a) + 1] = g[1]
  <2>1. \A i \in 1..(Len(b) + 1) : f[Len(a) + i] = g[i]
    BY <1>2, <1>4, ScanShifts
  <2>2. 1 \in 1..(Len(b) + 1)
    BY <1>1
  <2> QED
    BY <2>1, <2>2
<1>6. CASE a = <<>>
  <2>1. Len(a) = 0 /\ 1 \in 1..(Len(a) + 1) /\ 1 > Len(a)
    BY <1>6, EmptySeq
  <2>2. h[1] = <<>>
    BY <1>3, <2>1 DEF Scans, Rest
  <2>3. f[1] = g[1]
    BY <1>5, <2>1
  <2>4. <<>> \o g[1] = g[1]
    BY <1>4, ConcatEmptySeq
  <2> QED
    BY <1>2, <1>3, <1>4, <2>2, <2>3, <2>4 DEF Closed
<1>7. CASE a # <<>>
  <2>1. \A i \in 1..(Len(a) + 1) : f[i] = h[i] \o g[1]
    <3>1. PICK r : r = g[1]
      OBVIOUS
    <3>2. r \in Seq(C) /\ f[Len(a) + 1] = r
      BY <1>4, <1>5, <3>1
    <3>3. \A i \in 1..(Len(a) + 1) : f[i] = h[i] \o r
      BY <1>2, <1>3, <1>7, <3>2, ScanSplits, SMTT(60)
    <3> QED
      BY <3>1, <3>3
  <2>2. Len(a) # 0
    BY <1>7, EmptySeq
  <2>3. 1 \in 1..(Len(a) + 1) /\ 1 \in 1..Len(a)
    BY <1>1, <2>2
  <2>4. f[1] = h[1] \o g[1]
    BY <2>1, <2>3
  <2>5. h[1] # <<>> /\ h[1][Len(h[1])] = a[Len(a)]
    BY <1>3, <1>7, <2>3, ScanKeepsEnd
  <2>6. Closed(h[1])
    BY <1>7, <2>5 DEF Closed
  <2> QED
    BY <1>2, <1>3, <1>4, <2>4, <2>6
<1> QED
  BY <1>6, <1>7

LEMMA MaskSplits ==
  ASSUME NEW C, None \in C, NEW a \in Seq(C), NEW b \in Seq(C), Closed(a)
  PROVE  Mask(a \o b) = Mask(a) \o Mask(b) /\ Mask(a) \in Seq(C)
<1>1. "phone" \in Patterns /\ "card" \in Patterns /\ "email" \in Patterns
  BY DEF Patterns
<1>2. /\ Replace("phone", a \o b) = Replace("phone", a) \o Replace("phone", b)
      /\ Closed(Replace("phone", a))
      /\ Replace("phone", a) \in Seq(C) /\ Replace("phone", b) \in Seq(C)
  BY <1>1, ReplaceSplits
<1>3. PICK a1, b1 : a1 = Replace("phone", a) /\ b1 = Replace("phone", b)
  OBVIOUS
<1>4. /\ Replace("card", a1 \o b1) = Replace("card", a1) \o Replace("card", b1)
      /\ Closed(Replace("card", a1))
      /\ Replace("card", a1) \in Seq(C) /\ Replace("card", b1) \in Seq(C)
  <2>1. a1 \in Seq(C) /\ b1 \in Seq(C) /\ Closed(a1)
    BY <1>2, <1>3
  <2> QED
    BY <1>1, <2>1, ReplaceSplits
<1>5. PICK a2, b2 : a2 = Replace("card", a1) /\ b2 = Replace("card", b1)
  OBVIOUS
<1>6. /\ Replace("email", a2 \o b2) = Replace("email", a2) \o Replace("email", b2)
      /\ Closed(Replace("email", a2))
      /\ Replace("email", a2) \in Seq(C) /\ Replace("email", b2) \in Seq(C)
  <2>1. a2 \in Seq(C) /\ b2 \in Seq(C) /\ Closed(a2)
    BY <1>4, <1>5
  <2> QED
    BY <1>1, <2>1, ReplaceSplits
<1> QED
  BY <1>2, <1>3, <1>4, <1>5, <1>6 DEF Mask

----------------------------------------------------------------------------
\* The release point

\* f finds the matches from any place on, from place m on.
Found(rule, text, f, i) ==
  IF i > Len(text) THEN {}
  ELSE LET n == MatchAt(rule, text, i)
       IN  IF n = 0 THEN f[i + 1] ELSE {<<i, n>>} \cup f[i + n]

Finds(rule, text, m, f) ==
  f = [i \in m..(Len(text) + 1) |-> Found(rule, text, f, i)]

LEMMA MatchesExist ==
  ASSUME NEW text, Len(text) \in Nat, NEW rule \in Patterns
  PROVE  \E f : Finds(rule, text, 1, f)
<1> DEFINE L == Len(text) + 1
           T == {m \in 1..L : ~\E f : Finds(rule, text, m, f)}
<1> SUFFICES ASSUME 1 \in T PROVE FALSE
  OBVIOUS
<1>1. PICK m \in T : \A k \in T : k <= m
  <2>1. L \in Nat /\ T \in SUBSET (1..L)
    OBVIOUS
  <2> HIDE DEF T, L
  <2> QED
    BY <2>1, Greatest
<1>2. m # L
  <2> DEFINE f == [i \in L..L |-> {}]
  <2>1. \A i \in L..L : Found(rule, text, f, i) = {}
    BY DEF Found
  <2> HIDE DEF f
  <2>2. f = [i \in L..L |-> Found(rule, text, f, i)]
    BY <2>1, Zenon DEF f
  <2>3. Finds(rule, text, L, f)
    BY <2>2 DEF Finds
  <2> QED
    BY <1>1, <2>3
<1>3. m \in 1..Len(text) /\ m + 1 \in 1..L /\ m + 1 \notin T
  BY <1>1, <1>2
<1>4. PICK f : Finds(rule, text, m + 1, f)
  BY <1>3
<1> DEFINE g == [i \in m..L |-> Found(rule, text, f, i)]
<1>5. \A i \in (m + 1)..L : g[i] = f[i]
  <2>1. \A i \in (m + 1)..L : f[i] = Found(rule, text, f, i)
    BY <1>4 DEF Finds
  <2> QED
    BY <1>3, <2>1
<1>6. ASSUME NEW i \in m..L PROVE Found(rule, text, f, i) = Found(rule, text, g, i)
  <2> HIDE DEF g
  <2>1. CASE i = L
    BY <2>1 DEF Found
  <2>2. CASE i # L
    <3>1. i \in 1..Len(text)
      BY <1>3, <2>2
    <3>2. PICK n \in Nat : MatchAt(rule, text, i) = n /\ i + n <= Len(text) + 1
      BY <3>1, MatchFits
    <3>3. i + 1 \in (m + 1)..L /\ (n # 0 => i + n \in (m + 1)..L)
      BY <1>3, <3>1, <3>2
    <3>4. f[i + 1] = g[i + 1] /\ (n # 0 => f[i + n] = g[i + n])
      BY <1>5, <3>3
    <3> QED
      BY <3>1, <3>2, <3>4 DEF Found
  <2> QED
    BY <2>1, <2>2
<1>7. Finds(rule, text, m, g)
  <2>1. g = [i \in m..L |-> Found(rule, text, g, i)]
    BY <1>6, Zenon
  <2> QED
    BY <2>1 DEF Finds
<1> QED
  BY <1>1, <1>7

LEMMA MatchesMatch ==
  ASSUME NEW text, Len(text) \in Nat, NEW rule \in Patterns, NEW p \in Matches(rule, text)
  PROVE  p[1] \in 1..Len(text) /\ p[2] = MatchAt(rule, text, p[1])
<1>1. \E f : Finds(rule, text, 1, f)
  BY MatchesExist
<1> DEFINE f == CHOOSE g : Finds(rule, text, 1, g)
           Good == {<<i, MatchAt(rule, text, i)>> : i \in 1..Len(text)}
           T == {i \in 1..(Len(text) + 1) : ~(f[i] \subseteq Good)}
<1>2. Matches(rule, text) = f[1]
  BY DEF Matches, Finds, Found
<1>3. Finds(rule, text, 1, f)
  BY <1>1
<1> HIDE DEF f
<1>4. \A i \in 1..(Len(text) + 1) : f[i] = Found(rule, text, f, i)
  BY <1>3 DEF Finds
<1>5. T = {}
  <2> SUFFICES ASSUME NEW e \in T PROVE FALSE
    OBVIOUS
  <2>1. PICK m \in T : \A k \in T : k <= m
    <3>1. Len(text) + 1 \in Nat /\ T \in SUBSET (1..(Len(text) + 1))
      OBVIOUS
    <3> HIDE DEF T
    <3> QED
      BY <3>1, Greatest
  <2>2. m \in 1..(Len(text) + 1) /\ ~(f[m] \subseteq Good)
    OBVIOUS
  <2>3. \A k \in 1..(Len(text) + 1) : k > m => f[k] \subseteq Good
    BY <2>1
  <2> HIDE DEF T
  <2>4. f[m] = Found(rule, text, f, m)
    BY <1>4, <2>2
  <2>5. CASE m = Len(text) + 1
    BY <2>2, <2>4, <2>5 DEF Found
  <2>6. CASE m # Len(text) + 1
    <3>1. m \in 1..Len(text)
      BY <2>2, <2>6
    <3>2. PICK n \in Nat : MatchAt(rule, text, m) = n /\ m + n <= Len(text) + 1
      BY <3>1, MatchFits
    <3>3. f[m] = IF n = 0 THEN f[m + 1] ELSE {<<m, n>>} \cup f[m + n]
      BY <2>4, <3>1, <3>2 DEF Found
    <3>4. <<m, n>> \in Good
      BY <3>1, <3>2
    <3> HIDE DEF Good
    <3>5. CASE n = 0
      <4>1. m + 1 \in 1..(Len(text) + 1) /\ m + 1 > m
        BY <3>1
      <4>2. f[m + 1] \subseteq Good
        BY <2>3, <4>1
      <4> QED
        BY <2>2, <3>3, <3>5, <4>2
    <3>6. CASE n # 0
      <4>1. m + n \in 1..(Len(text) + 1) /\ m + n > m
        BY <3>1, <3>2, <3>6
      <4>2. f[m + n] \subseteq Good
        BY <2>3, <4>1
      <4> QED
        BY <2>2, <3>3, <3>4, <3>6, <4>2
    <3> QED
      BY <3>5, <3>6
  <2> QED
    BY <2>5, <2>6
<1>6. p \in Good
  <2>1. 1 \in 1..(Len(text) + 1) /\ 1 \notin T
    BY <1>5
  <2>2. f[1] \subseteq Good
    BY <2>1
  <2> QED
    BY <1>2, <2>2
<1> QED
  BY <1>6

\* No match goes on beyond a cut.
LEMMA MatchesStayBefore ==
  ASSUME NEW a, NEW text, Begins(a, text), NEW p \in FindMatches(text), p[1] <= Len(a)
  PROVE  p[1] - 1 + p[2] <= Len(a)
<1>1. PICK rule \in Patterns : p \in Matches(rule, text)
  BY DEF FindMatches
<1>2. Len(text) \in Nat /\ Len(a) \in Nat
  BY DEF Begins
<1>3. p[1] \in 1..Len(text) /\ p[2] = MatchAt(rule, text, p[1])
  BY <1>1, <1>2, MatchesMatch
<1>4. PICK i \in 1..Len(a) : i = p[1]
  BY <1>2, <1>3
<1>5. PICK n \in Nat : MatchAt(rule, text, i) = n /\ i + n <= Len(a)
  BY MatchLocal
<1> QED
  BY <1>2, <1>3, <1>4, <1>5

\* The pattern characters at the end are no more than the lag.
ShortTail(text, lag) ==
  \A k \in 1..Len(text) :
    (\A j \in k..Len(text) : text[j] \in Alphabet) => Len(text) + 1 - k <= lag

\* Then the tail held back is what follows the last character outside the
\* alphabet.
LEMMA TailIsRun ==
  ASSUME NEW C, NEW text \in Seq(C), NEW lag \in Nat, ShortTail(text, lag)
  PROVE  \E e \in 0..Len(text) : /\ RiskyTail(text, lag) = Len(text) - e
                                 /\ e # 0 => text[e] \notin Alphabet
<1> DEFINE safe == {i \in DOMAIN text : text[i] \notin Alphabet}
           last == IF safe = {} THEN 0 ELSE CHOOSE i \in safe : \A j \in safe : j <= i
           tail == Len(text) - last
<1>1. Len(text) \in Nat /\ DOMAIN text = 1..Len(text)
  BY LenProperties
<1>2. /\ last \in 0..Len(text) /\ (last # 0 => last \in safe)
      /\ \A j \in safe : j <= last
  <2>1. CASE safe = {}
    <3>1. last = 0
      BY <2>1
    <3> QED
      BY <1>1, <2>1, <3>1
  <2>2. CASE safe # {}
    <3>1. \E i \in safe : \A j \in safe : j <= i
      <4>1. safe \in SUBSET (1..Len(text))
        BY <1>1
      <4> HIDE DEF safe
      <4> QED
        BY <1>1, <2>2, <4>1, Greatest
    <3>2. last \in safe /\ \A j \in safe : j <= last
      <4> HIDE DEF safe
      <4>1. last = CHOOSE i \in safe : \A j \in safe : j <= i
        BY <2>2
      <4> QED
        BY <3>1, <4>1
    <3> HIDE DEF last
    <3> QED
      BY <1>1, <3>2
  <2> QED
    BY <2>1, <2>2
<1>3. RiskyTail(text, lag) = IF tail < lag THEN tail ELSE lag
  BY DEF RiskyTail
<1> HIDE DEF last
<1>7. last \in 0..Len(text) /\ Len(text) \in Nat
  BY <1>1, <1>2
<1>4. tail <= lag
  <2>1. CASE last = Len(text)
    BY <1>1, <2>1
  <2>2. CASE last # Len(text)
    <3>1. last + 1 \in 1..Len(text)
      BY <1>7, <2>2
    <3>2. ASSUME NEW j \in (last + 1)..Len(text) PROVE text[j] \in Alphabet
      BY <1>1, <1>2, <3>1
    <3>3. Len(text) + 1 - (last + 1) <= lag
      BY <3>1, <3>2 DEF ShortTail
    <3> QED
      BY <1>7, <3>3
  <2> QED
    BY <2>1, <2>2
<1>5. RiskyTail(text, lag) = Len(text) - last
  BY <1>3, <1>4, <1>7
<1>6. last # 0 => text[last] \notin Alphabet
  BY <1>2
<1> QED
  BY <1>2, <1>5, <1>6

\* The release point on its way through the matches.
Moved(text, f, e, i) ==
  IF i = 0 THEN e
  ELSE IF i - 1 < f[i - 1] /\ \E m \in FindMatches(text) : m[1] = i /\ i - 1 + m[2] > f[i - 1]
       THEN i - 1 ELSE f[i - 1]

\* It stays where it is if it is at a cut.
LEMMA CutsStay ==
  ASSUME NEW C, NEW text \in Seq(C), NEW lag \in Nat, NEW e \in 0..Len(text),
         RiskyTail(text, lag) = Len(text) - e, e # 0 => text[e] \notin Alphabet
  PROVE  SafeEnd(text, lag) = e
<1>1. Len(text) \in Nat
  BY LenProperties
<1>2. ASSUME NEW i \in 1..Len(text), i - 1 < e, NEW m \in FindMatches(text), m[1] = i
      PROVE  i - 1 + m[2] <= e
  <2> DEFINE a == SubSeq(text, 1, e)
  <2>1. e \in Nat \ {0} /\ i <= e
    BY <1>1, <1>2
  <2>2. \A j \in 1..e : text[j] \in C
    BY <1>1, ElementOfSeq
  <2>3. Len(a) = e /\ \A j \in 1..e : a[j] = text[j]
    BY <2>1, <2>2, SubSeqProperties
  <2> HIDE DEF a
  <2>4. Begins(a, text)
    BY <1>1, <2>1, <2>3 DEF Begins
  <2>5. m[1] - 1 + m[2] <= Len(a)
    BY <1>2, <2>1, <2>3, <2>4, MatchesStayBefore
  <2> QED
    BY <1>2, <2>3, <2>5
<1> DEFINE L == Len(text)
           still == [i \in 0..L |-> e]
           Moves(f) == f = [i \in 0..L |-> Moved(text, f, e, i)]
           end == CHOOSE f : Moves(f)
<1>3. \A f : \A i \in 1..L : f[i - 1] = e => Moved(text, f, e, i) = e
  <2> SUFFICES ASSUME NEW f, NEW i \in 1..L, f[i - 1] = e PROVE Moved(text, f, e, i) = e
    OBVIOUS
  <2>1. i # 0
    BY <1>1
  <2>2. ~(i - 1 < e /\ \E m \in FindMatches(text) : m[1] = i /\ i - 1 + m[2] > e)
    <3> SUFFICES ASSUME i - 1 < e, NEW m \in FindMatches(text), m[1] = i, i - 1 + m[2] > e
                 PROVE  FALSE
      OBVIOUS
    <3>1. PICK rule \in Patterns : m \in Matches(rule, text)
      BY DEF FindMatches
    <3>2. m[2] = MatchAt(rule, text, i)
      BY <1>1, <3>1, MatchesMatch
    <3>3. m[2] \in Nat
      BY <1>1, <3>2, MatchFits
    <3>4. i - 1 + m[2] <= e
      BY <1>2
    <3> QED
      BY <1>1, <3>3, <3>4
  <2> QED
    BY <2>1, <2>2 DEF Moved
<1>4. Moves(still)
  <2>1. \A i \in 0..L : Moved(text, still, e, i) = e
    <3> SUFFICES ASSUME NEW i \in 0..L PROVE Moved(text, still, e, i) = e
      OBVIOUS
    <3>1. CASE i = 0
      BY <3>1 DEF Moved
    <3>2. CASE i # 0
      <4>1. i \in 1..L /\ still[i - 1] = e
        BY <1>1, <3>2
      <4> HIDE DEF still, L
      <4> QED
        BY <1>3, <4>1
    <3> QED
      BY <3>1, <3>2
  <2> HIDE DEF L
  <2>2. still = [i \in 0..L |-> Moved(text, still, e, i)]
    BY <2>1, Zenon
  <2> QED
    BY <2>2
<1>5. Moves(end)
  BY <1>4, Zenon
<1>6. SafeEnd(text, lag) = end[L]
  <2>1. Len(text) - RiskyTail(text, lag) = e
    BY <1>1
  <2> QED
    BY <2>1 DEF SafeEnd, Moved
<1> HIDE DEF end, still
<1>7. \A i \in 0..L : end[i] = Moved(text, end, e, i)
  BY <1>5
<1>8. \A i \in 0..L : end[i] = e
  <2> DEFINE T == {i \in 0..L : end[i] # e}
  <2> SUFFICES ASSUME NEW k \in T PROVE FALSE
    OBVIOUS
  <2>1. PICK m \in T : \A j \in T : m <= j
    <3>1. T \in SUBSET Nat
      BY <1>1
    <3> HIDE DEF T
    <3> QED
      BY <3>1, Least
  <2>2. m \in 0..L /\ end[m] # e /\ \A j \in 0..L : j < m => end[j] = e
    BY <1>1, <2>1
  <2> HIDE DEF T
  <2>3. m # 0
    BY <1>7, <2>2 DEF Moved
  <2>4. m \in 1..L /\ end[m - 1] = e
    BY <1>1, <2>2, <2>3
  <2> QED
    BY <1>3, <1>7, <2>2, <2>4
<1> QED
  BY <1>1, <1>6, <1>8

----------------------------------------------------------------------------
\* Streaming

\* No stretch of pattern characters is longer than the lag.
Short(text, lag) == \A k \in DOMAIN text : Run(Alphabet, text, k) <= lag

LEMMA StretchesAreShort ==
  ASSUME NEW C, NEW text \in Seq(C), NEW lag \in Nat, Short(text, lag),
         NEW part \in Seq(C), NEW p \in Nat, p + Len(part) <= Len(text),
         \A j \in 1..Len(part) : part[j] = text[p + j],
         NEW k \in 1..Len(part), \A j \in k..Len(part) : part[j] \in Alphabet
  PROVE  Len(part) + 1 - k <= lag
<1>1. Len(text) \in Nat /\ Len(part) \in Nat
  BY LenProperties
<1>2. PICK i : i = p + k
  OBVIOUS
<1>3. i \in 1..Len(text)
  BY <1>1, <1>2
<1>4. PICK r \in Nat : /\ Run(Alphabet, text, i) = r /\ i + r <= Len(text) + 1
                       /\ i + r <= Len(text) => text[i + r] \notin Alphabet
  <2>1. i \in 1..(Len(text) + 1)
    BY <1>1, <1>3
  <2> QED
    BY <1>1, <2>1, RunStops
<1>5. r <= lag
  <2>1. DOMAIN text = 1..Len(text)
    BY LenProperties
  <2> QED
    BY <1>3, <1>4, <2>1 DEF Short
<1>6. r >= Len(part) + 1 - k
  <2> SUFFICES ASSUME r < Len(part) + 1 - k PROVE FALSE
    BY <1>1, <1>4
  <2>1. k + r \in k..Len(part) /\ k + r \in 1..Len(part) /\ p + (k + r) = i + r /\ i + r <= Len(text)
    BY <1>1, <1>2, <1>4
  <2>2. part[k + r] \in Alphabet /\ part[k + r] = text[p + (k + r)]
    BY <2>1
  <2> QED
    BY <2>1, <2>2, <1>4
<1> QED
  BY <1>1, <1>4, <1>5, <1>6

LEMMA PartOfPart ==
  ASSUME NEW C, NEW text \in Seq(C), NEW e \in Nat, NEW n \in Nat, e <= n, n <= Len(text),
         NEW x \in Nat, NEW y \in Nat, e + y <= n
  PROVE  SubSeq(SubSeq(text, e + 1, n), x + 1, y) = SubSeq(text, e + x + 1, e + y)
<1> DEFINE s == SubSeq(text, e + 1, n)
<1>1. Len(text) \in Nat /\ \A i \in 1..Len(text) : text[i] \in C
  BY LenProperties, ElementOfSeq
<1>2. /\ s \in Seq(C) /\ Len(s) = n - e
      /\ \A i \in 1..(n - e) : s[i] = text[e + i]
  <2>1. \A i \in (e + 1)..n : text[i] \in C
    BY <1>1
  <2>2. /\ s \in Seq(C) /\ Len(s) = IF e + 1 <= n THEN n - (e + 1) + 1 ELSE 0
        /\ \A i \in 1..(n - (e + 1) + 1) : s[i] = text[e + 1 + i - 1]
    BY <2>1, SubSeqProperties
  <2> QED
    BY <2>2
<1> HIDE DEF s
<1>3. CASE y < x + 1
  <2>1. SubSeq(s, x + 1, y) = <<>> /\ SubSeq(text, e + x + 1, e + y) = <<>>
    BY <1>3, SubSeqEmpty
  <2> QED
    BY <2>1 DEF s
<1>4. CASE x + 1 <= y
  <2> DEFINE u == SubSeq(s, x + 1, y)
             v == SubSeq(text, e + x + 1, e + y)
  <2>1. \A i \in (x + 1)..y : s[i] \in C
    BY <1>2, ElementOfSeq
  <2>2. /\ u \in Seq(C) /\ Len(u) = IF x + 1 <= y THEN y - (x + 1) + 1 ELSE 0
        /\ \A i \in 1..(y - (x + 1) + 1) : u[i] = s[x + 1 + i - 1]
    BY <2>1, SubSeqProperties
  <2>3. \A i \in (e + x + 1)..(e + y) : text[i] \in C
    BY <1>1
  <2>4. /\ v \in Seq(C) /\ Len(v) = IF e + x + 1 <= e + y THEN e + y - (e + x + 1) + 1 ELSE 0
        /\ \A i \in 1..(e + y - (e + x + 1) + 1) : v[i] = text[e + x + 1 + i - 1]
    BY <2>3, SubSeqProperties
  <2> HIDE DEF u, v
  <2>5. Len(u) = y - x /\ Len(v) = y - x
    BY <1>4, <2>2, <2>4
  <2>6. ASSUME NEW i \in 1..(y - x) PROVE u[i] = v[i]
    <3>1. u[i] = s[x + i] /\ v[i] = text[e + x + i]
      BY <2>2, <2>4
    <3>2. x + i \in 1..(n - e) /\ e + (x + i) = e + x + i
      OBVIOUS
    <3> QED
      BY <1>2, <3>1, <3>2
  <2>7. u = v
    BY <2>2, <2>4, <2>5, <2>6, SeqEqual
  <2> QED
    BY <2>7 DEF s, u, v
<1> QED
  BY <1>3, <1>4

\* A text cut after e characters.
LEMMA PartsAreMasked ==
  ASSUME NEW C, None \in C, NEW text \in Seq(C), NEW e \in Nat, NEW n \in Nat,
         e <= n, n <= Len(text), e # 0 => text[e] \notin Alphabet
  PROVE  Mask(SubSeq(text, 1, e)) \o Mask(SubSeq(text, e + 1, n)) = Mask(SubSeq(text, 1, n))
<1> DEFINE a == SubSeq(text, 1, e)
           b == SubSeq(text, e + 1, n)
<1>1. Len(text) \in Nat /\ \A i \in 1..Len(text) : text[i] \in C
  BY LenProperties, ElementOfSeq
<1>2. /\ \A i \in 1..e : text[i] \in C
      /\ \A i \in (e + 1)..n : text[i] \in C
  BY <1>1
<1>3. /\ a \in Seq(C) /\ Len(a) = IF 1 <= e THEN e - 1 + 1 ELSE 0
      /\ \A i \in 1..(e - 1 + 1) : a[i] = text[1 + i - 1]
  BY <1>2, SubSeqProperties
<1>4. b \in Seq(C)
  BY <1>2, SubSeqProperties
<1>5. a \o b = SubSeq(text, 1, n)
  <2>1. 1 \in 1..(Len(text) + 1) /\ e \in (1 - 1)..Len(text) /\ n \in e..Len(text)
    BY <1>1
  <2> QED
    BY <2>1, ConcatAdjacentSubSeq
<1> HIDE DEF a, b
<1>6. Closed(a)
  <2>1. CASE e = 0
    <3>1. Len(a) = 0
      BY <1>3, <2>1
    <3> QED
      BY <1>3, <3>1, EmptySeq DEF Closed
  <2>2. CASE e # 0
    <3>1. Len(a) = e /\ a[e] = text[e]
      BY <1>3, <2>2
    <3> QED
      BY <2>2, <3>1 DEF Closed
  <2> QED
    BY <2>1, <2>2
<1>7. Mask(a \o b) = Mask(a) \o Mask(b)
  BY <1>3, <1>4, <1>6, MaskSplits
<1> QED
  BY <1>5, <1>7 DEF a, b

\* What a reader has seen of the first n characters is the masked beginning up
\* to a cut; the rest is in the buffer.
Shown(text, n, s) ==
  \E e \in 0..n : /\ s.out = Mask(SubSeq(text, 1, e))
                  /\ s.buffer = SubSeq(text, e + 1, n)
                  /\ e # 0 => text[e] \notin Alphabet

LEMMA FeedShows ==
  ASSUME NEW C, None \in C, NEW text \in Seq(C), NEW lag \in Nat, Short(text, lag),
         NEW n \in Nat, NEW more \in Nat, n <= more, more <= Len(text),
         NEW s, Shown(text, n, s)
  PROVE  Shown(text, more, Feed(s, SubSeq(text, n + 1, more), lag))
<1> DEFINE chunk == SubSeq(text, n + 1, more)
<1>1. Len(text) \in Nat /\ \A i \in 1..Len(text) : text[i] \in C
  BY LenProperties, ElementOfSeq
<1>2. PICK e \in 0..n : /\ s.out = Mask(SubSeq(text, 1, e))
                        /\ s.buffer = SubSeq(text, e + 1, n)
                        /\ e # 0 => text[e] \notin Alphabet
  BY DEF Shown
<1> DEFINE buffer == s.buffer \o chunk
           end == IF lag <= 0 THEN Len(buffer) ELSE SafeEnd(buffer, lag)
<1>3. buffer = SubSeq(text, e + 1, more)
  <2>1. e + 1 \in 1..(Len(text) + 1) /\ n \in (e + 1 - 1)..Len(text) /\ more \in n..Len(text)
    BY <1>1
  <2>2. SubSeq(text, e + 1, n) \o SubSeq(text, n + 1, more) = SubSeq(text, e + 1, more)
    BY <2>1, ConcatAdjacentSubSeq
  <2> QED
    BY <1>2, <2>2
<1> HIDE DEF buffer
<1>4. /\ buffer \in Seq(C) /\ Len(buffer) = more - e
      /\ \A i \in 1..(more - e) : buffer[i] = text[e + i]
  <2>1. \A i \in (e + 1)..more : text[i] \in C
    BY <1>1
  <2>2. /\ buffer \in Seq(C) /\ Len(buffer) = IF e + 1 <= more THEN more - (e + 1) + 1 ELSE 0
        /\ \A i \in 1..(more - (e + 1) + 1) : buffer[i] = text[e + 1 + i - 1]
    BY <1>3, <2>1, SubSeqProperties
  <2> QED
    BY <2>2
<1>5. ShortTail(buffer, lag)
  <2>1. e + Len(buffer) <= Len(text) /\ \A j \in 1..Len(buffer) : buffer[j] = text[e + j]
    BY <1>1, <1>4
  <2>2. e \in Nat
    OBVIOUS
  <2> QED
    BY <1>4, <2>1, <2>2, StretchesAreShort DEF ShortTail
<1>6. end \in 0..Len(buffer) /\ (end # 0 => buffer[end] \notin Alphabet)
  <2>1. CASE lag <= 0
    <3>1. end = Len(buffer)
      BY <2>1
    <3>2. ASSUME Len(buffer) # 0, buffer[Len(buffer)] \in Alphabet PROVE FALSE
      <4>1. PICK m \in Nat : m = Len(buffer)
        BY <1>4
      <4>2. m \in 1..m /\ \A j \in m..m : buffer[j] \in Alphabet
        BY <3>2, <4>1
      <4>3. m + 1 - m <= lag
        BY <1>5, <4>1, <4>2 DEF ShortTail
      <4> QED
        BY <2>1, <4>1, <4>3
    <3>3. Len(buffer) \in Nat
      BY <1>4
    <3> QED
      BY <3>1, <3>2, <3>3
  <2>2. CASE ~(lag <= 0)
    <3>1. PICK c \in 0..Len(buffer) : /\ RiskyTail(buffer, lag) = Len(buffer) - c
                                      /\ c # 0 => buffer[c] \notin Alphabet
      BY <1>4, <1>5, TailIsRun
    <3>2. SafeEnd(buffer, lag) = c
      BY <1>4, <3>1, CutsStay
    <3> QED
      BY <2>2, <3>1, <3>2
  <2> QED
    BY <2>1, <2>2
<1>7. Feed(s, chunk, lag)
        = [out |-> s.out \o Mask(SubSeq(buffer, 1, end)),
           buffer |-> SubSeq(buffer, end + 1, Len(buffer))]
  BY DEF Feed, buffer
<1> HIDE DEF end, chunk
<1>8. PICK c \in Nat : c = end /\ e + c <= more /\ c <= Len(buffer)
  BY <1>4, <1>6
<1>9. /\ SubSeq(buffer, 1, c) = SubSeq(text, e + 1, e + c)
      /\ SubSeq(buffer, c + 1, Len(buffer)) = SubSeq(text, (e + c) + 1, more)
  <2>1. e \in Nat /\ e <= more /\ e + (more - e) = more /\ more - e \in Nat
    BY <1>1
  <2>2. SubSeq(SubSeq(text, e + 1, more), 0 + 1, c) = SubSeq(text, e + 0 + 1, e + c)
    BY <1>8, <2>1, PartOfPart
  <2>3. SubSeq(SubSeq(text, e + 1, more), c + 1, more - e) = SubSeq(text, e + c + 1, e + (more - e))
    BY <2>1, PartOfPart
  <2>4. 0 + 1 = 1 /\ e + 0 + 1 = e + 1
    BY <2>1
  <2> QED
    BY <1>3, <1>4, <2>1, <2>2, <2>3, <2>4
<1>10. Mask(SubSeq(text, 1, e)) \o Mask(SubSeq(text, e + 1, e + c)) = Mask(SubSeq(text, 1, e + c))
  <2>1. e \in Nat /\ e <= e + c /\ e + c \in Nat /\ e + c <= Len(text)
    BY <1>1, <1>8
  <2> QED
    BY <1>2, <2>1, PartsAreMasked
<1>11. e + c # 0 => text[e + c] \notin Alphabet
  <2>1. CASE c = 0
    BY <1>2, <2>1
  <2>2. CASE c # 0
    <3>1. c \in 1..(more - e)
      BY <1>4, <1>8, <2>2
    <3>2. buffer[c] = text[e + c]
      BY <1>4, <3>1
    <3> QED
      BY <1>6, <1>8, <2>2, <3>2
  <2> QED
    BY <2>1, <2>2
<1>12. PICK t : t = Feed(s, chunk, lag)
  OBVIOUS
<1>13. /\ t.out = Mask(SubSeq(text, 1, e + c))
       /\ t.buffer = SubSeq(text, (e + c) + 1, more)
  <2>1. PICK x, y : x = s.out \o Mask(SubSeq(buffer, 1, end)) /\ y = SubSeq(buffer, end + 1, Len(buffer))
    OBVIOUS
  <2>2. t = [out |-> x, buffer |-> y]
    BY <1>7, <1>12, <2>1, Zenon
  <2>3. t.out = x /\ t.buffer = y
    BY <2>2
  <2> QED
    BY <1>2, <1>8, <1>9, <1>10, <2>1, <2>3
<1>14. e + c \in 0..more
  BY <1>8
<1>15. Shown(text, more, t)
  BY <1>11, <1>13, <1>14 DEF Shown
<1> QED
  BY <1>12, <1>15 DEF chunk

Empty == [out |-> <<>>, buffer |-> <<>>]

\* f holds what the first chunks led to, up to n of them.
Fed(chunks, lag, f, k) == IF k = 0 THEN Empty ELSE Feed(f[k - 1], chunks[k], lag)

Feeds(chunks, lag, n, f) == f = [k \in 0..n |-> Fed(chunks, lag, f, k)]

LEMMA FeedingExists ==
  ASSUME NEW chunks, NEW lag, NEW n \in Nat
  PROVE  \E f : Feeds(chunks, lag, n, f)
<1> DEFINE T == {k \in Nat : ~\E f : Feeds(chunks, lag, k, f)}
<1> SUFFICES ASSUME n \in T PROVE FALSE
  OBVIOUS
<1>1. PICK m \in T : \A k \in T : m <= k
  BY Least
<1>2. m # 0
  <2> DEFINE f == [k \in 0..0 |-> Empty]
  <2>1. \A k \in 0..0 : Fed(chunks, lag, f, k) = Empty
    BY DEF Fed
  <2> HIDE DEF f
  <2>2. f = [k \in 0..0 |-> Fed(chunks, lag, f, k)]
    BY <2>1, Zenon DEF f
  <2> QED
    BY <1>1, <2>2 DEF Feeds
<1>3. m - 1 \in Nat /\ m - 1 \notin T
  BY <1>1, <1>2
<1>4. PICK f : Feeds(chunks, lag, m - 1, f)
  BY <1>3
<1> DEFINE g == [k \in 0..m |-> Fed(chunks, lag, f, k)]
<1>5. \A k \in 0..(m - 1) : g[k] = f[k]
  <2>1. \A k \in 0..(m - 1) : f[k] = Fed(chunks, lag, f, k)
    BY <1>4 DEF Feeds
  <2> QED
    BY <1>3, <2>1
<1>6. ASSUME NEW k \in 0..m PROVE Fed(chunks, lag, f, k) = Fed(chunks, lag, g, k)
  <2> HIDE DEF g
  <2>1. CASE k = 0
    BY <2>1 DEF Fed
  <2>2. CASE k # 0
    <3>1. k - 1 \in 0..(m - 1)
      BY <1>3, <2>2
    <3>2. f[k - 1] = g[k - 1]
      BY <1>5, <3>1
    <3> QED
      BY <2>2, <3>2 DEF Fed
  <2> QED
    BY <2>1, <2>2
<1>7. Feeds(chunks, lag, m, g)
  <2>1. g = [k \in 0..m |-> Fed(chunks, lag, g, k)]
    BY <1>6, Zenon
  <2> QED
    BY <2>1 DEF Feeds
<1> QED
  BY <1>1, <1>7

\* The chunks are the text, the k-th ends at character cuts[k].
CutInto(text, chunks, n, cuts) ==
  /\ cuts \in [0..n -> 0..Len(text)]
  /\ cuts[0] = 0 /\ cuts[n] = Len(text)
  /\ \A k \in 1..n : cuts[k - 1] <= cuts[k]
  /\ Len(chunks) = n
  /\ \A k \in 1..n : chunks[k] = SubSeq(text, cuts[k - 1] + 1, cuts[k])

\* A reply of any length, of any characters, cut into any number of chunks:
\* whoever reads the stream reads the masked reply, if no stretch of pattern
\* characters is longer than the lag (StreamingRedactor.feed and flush).
THEOREM AnyStreamIsMasked ==
  ASSUME NEW C, None \in C, NEW text \in Seq(C), NEW lag \in Nat, Short(text, lag),
         NEW n \in Nat, NEW cuts, NEW chunks, CutInto(text, chunks, n, cuts)
  PROVE  Streamed(chunks, lag) = Mask(text)
<1> DEFINE fed == CHOOSE f : Feeds(chunks, lag, n, f)
<1>1. Len(text) \in Nat /\ \A k \in 0..n : cuts[k] \in 0..Len(text)
  BY LenProperties DEF CutInto
<1>2. /\ cuts[0] = 0 /\ cuts[n] = Len(text) /\ Len(chunks) = n
      /\ \A k \in 1..n : cuts[k - 1] <= cuts[k]
  BY DEF CutInto
<1>3. \A k \in 1..n : chunks[k] = SubSeq(text, cuts[k - 1] + 1, cuts[k])
  BY DEF CutInto
<1>4. Feeds(chunks, lag, n, fed)
  BY FeedingExists
<1>5. Streamed(chunks, lag) = fed[n].out \o Mask(fed[n].buffer)
  BY <1>2 DEF Streamed, Feeds, Fed, Empty
<1> HIDE DEF fed
<1>6. \A k \in 0..n : fed[k] = Fed(chunks, lag, fed, k)
  BY <1>4 DEF Feeds
<1>7. \A k \in 0..n : Shown(text, cuts[k], fed[k])
  <2> DEFINE T == {k \in 0..n : ~Shown(text, cuts[k], fed[k])}
  <2> SUFFICES ASSUME NEW e \in T PROVE FALSE
    OBVIOUS
  <2>1. PICK m \in T : \A j \in T : m <= j
    <3>1. T \in SUBSET Nat
      OBVIOUS
    <3> HIDE DEF T
    <3> QED
      BY <3>1, Least
  <2>2. m \in 0..n /\ ~Shown(text, cuts[m], fed[m])
    OBVIOUS
  <2>3. \A j \in 0..n : j < m => Shown(text, cuts[j], fed[j])
    BY <2>1
  <2> HIDE DEF T
  <2>4. CASE m = 0
    <3>1. fed[0] = Empty /\ cuts[0] = 0
      BY <1>2, <1>6 DEF Fed
    <3>2. SubSeq(text, 1, 0) = <<>> /\ SubSeq(text, 0 + 1, 0) = <<>>
      BY SubSeqEmpty
    <3>3. Mask(<<>>) = <<>>
      <4>1. \A rule \in Patterns : Replace(rule, <<>>) = <<>>
        <5> SUFFICES ASSUME NEW rule \in Patterns PROVE Replace(rule, <<>>) = <<>>
          OBVIOUS
        <5>1. Len(<<>>) = 0
          BY EmptySeq
        <5>2. PICK f : /\ Replace(rule, <<>>) = f[1]
                       /\ \A i \in 1..(Len(<<>>) + 1) : f[i] = Rest(rule, <<>>, f, i)
          BY <5>1, ReplaceScans
        <5>3. f[1] = Rest(rule, <<>>, f, 1)
          BY <5>1, <5>2
        <5> QED
          BY <5>1, <5>2, <5>3 DEF Rest
      <4> QED
        BY <4>1 DEF Mask, Patterns
    <3>4. Shown(text, 0, Empty)
      <4>1. Empty.out = <<>> /\ Empty.buffer = <<>>
        BY DEF Empty
      <4> QED
        <5>1. Empty.out = Mask(SubSeq(text, 1, 0)) /\ Empty.buffer = SubSeq(text, 0 + 1, 0)
          BY <3>2, <3>3, <4>1, Zenon
        <5>2. 0 \in 0..0
          OBVIOUS
        <5> QED
          BY <5>1, <5>2 DEF Shown
    <3> QED
      BY <2>2, <2>4, <3>1, <3>4
  <2>5. CASE m # 0
    <3>1. m \in 1..n /\ m - 1 \in 0..n /\ m - 1 < m
      BY <2>2, <2>5
    <3>2. Shown(text, cuts[m - 1], fed[m - 1])
      BY <2>3, <3>1
    <3>3. fed[m] = Feed(fed[m - 1], SubSeq(text, cuts[m - 1] + 1, cuts[m]), lag)
      BY <1>3, <1>6, <2>2, <2>5, <3>1 DEF Fed
    <3>4. PICK a, b, s : a = cuts[m - 1] /\ b = cuts[m] /\ s = fed[m - 1]
      OBVIOUS
    <3>5. /\ a \in Nat /\ b \in Nat /\ a <= b /\ b <= Len(text)
          /\ Shown(text, a, s)
      BY <1>1, <1>2, <2>2, <3>1, <3>2, <3>4
    <3>6. Shown(text, b, Feed(s, SubSeq(text, a + 1, b), lag))
      BY <3>5, FeedShows
    <3> QED
      BY <2>2, <3>3, <3>4, <3>6
  <2> QED
    BY <2>4, <2>5
<1>8. PICK e \in 0..Len(text) : /\ fed[n].out = Mask(SubSeq(text, 1, e))
                                /\ fed[n].buffer = SubSeq(text, e + 1, Len(text))
                                /\ e # 0 => text[e] \notin Alphabet
  <2>1. Shown(text, Len(text), fed[n])
    BY <1>2, <1>7
  <2> QED
    BY <2>1 DEF Shown
<1>9. Mask(SubSeq(text, 1, e)) \o Mask(SubSeq(text, e + 1, Len(text))) = Mask(text)
  <2>1. PICK m \in Nat : m = Len(text)
    BY <1>1
  <2>2. e \in Nat /\ e <= m /\ m <= Len(text) /\ (e # 0 => text[e] \notin Alphabet)
    BY <1>8, <2>1
  <2>3. Mask(SubSeq(text, 1, e)) \o Mask(SubSeq(text, e + 1, m)) = Mask(SubSeq(text, 1, m))
    BY <2>2, PartsAreMasked
  <2> QED
    BY <2>1, <2>3, SubSeqFull
<1> QED
  BY <1>5, <1>8, <1>9

\* So the redactor that the runs stream all short replies through masks them
\* (StreamingRedactor.feed and flush).
THEOREM StreamsAreMasked == Spec => []StreamIsMasked
<1>1. StreamsMasked
  <2> SUFFICES ASSUME NEW text \in Texts, NEW i \in 0..Len(text), NEW j \in 0..Len(text),
                      i <= j, \A k \in DOMAIN text : Run(Alphabet, text, k) <= 4
               PROVE  Streamed(<<SubSeq(text, 1, i), SubSeq(text, i + 1, j),
                                 SubSeq(text, j + 1, Len(text))>>, 4) = Mask(text)
    BY DEF StreamsMasked
  <2> DEFINE C == Character \cup {None}
             cuts == [k \in 0..3 |-> IF k = 0 THEN 0 ELSE IF k = 1 THEN i
                                     ELSE IF k = 2 THEN j ELSE Len(text)]
  <2>1. text \in Seq(C) /\ None \in C
    <3>1. PICK n \in 0..5 : text \in [1..n -> Character]
      BY DEF Texts
    <3>2. n \in Nat /\ text \in [1..n -> C]
      BY <3>1
    <3> QED
      BY <3>2
  <2>2. Len(text) \in Nat
    BY <2>1, LenProperties
  <2>3. /\ cuts \in [0..3 -> 0..Len(text)] /\ cuts[0] = 0 /\ cuts[1] = i /\ cuts[2] = j
        /\ cuts[3] = Len(text)
    BY <2>2
  <2>4. \A k \in 1..3 : cuts[k - 1] <= cuts[k]
    BY <2>2, <2>3
  <2> HIDE DEF cuts, C
  <2>5. Short(text, 4)
    BY DEF Short
  <2>6. PICK x, y, z : /\ x = SubSeq(text, 1, i) /\ y = SubSeq(text, i + 1, j)
                       /\ z = SubSeq(text, j + 1, Len(text))
    OBVIOUS
  <2>7. PICK chunks : chunks = <<x, y, z>>
    OBVIOUS
  <2>8. Len(chunks) = 3 /\ chunks[1] = x /\ chunks[2] = y /\ chunks[3] = z
    BY <2>7
  <2>9. ASSUME NEW k \in 1..3 PROVE chunks[k] = SubSeq(text, cuts[k - 1] + 1, cuts[k])
    <3>1. CASE k = 1
      <4>1. /\ chunks[k] = SubSeq(text, 1, i)
            /\ k - 1 = 0
        BY <2>6, <2>8, <3>1
      <4>2. cuts[k - 1] + 1 = 1 /\ cuts[k] = i
        BY <2>3, <3>1, <4>1
      <4> QED
        BY <4>1, <4>2
    <3>2. CASE k = 2
      <4>1. /\ chunks[k] = SubSeq(text, i + 1, j)
            /\ k - 1 = 1
        BY <2>6, <2>8, <3>2
      <4>2. cuts[k - 1] + 1 = i + 1 /\ cuts[k] = j
        BY <2>3, <3>2, <4>1
      <4> QED
        BY <4>1, <4>2
    <3>3. CASE k = 3
      <4>1. /\ chunks[k] = SubSeq(text, j + 1, Len(text))
            /\ k - 1 = 2
        BY <2>6, <2>8, <3>3
      <4>2. cuts[k - 1] + 1 = j + 1 /\ cuts[k] = Len(text)
        BY <2>3, <3>3, <4>1
      <4> QED
        BY <4>1, <4>2
    <3> QED
      BY <3>1, <3>2, <3>3
  <2>10. Streamed(chunks, 4) = Mask(text)
    <3>1. 4 \in Nat /\ 3 \in Nat
      OBVIOUS
    <3>2. CutInto(text, chunks, 3, cuts)
      BY <2>3, <2>4, <2>8, <2>9 DEF CutInto
    <3> QED
      BY <2>1, <2>5, <3>1, <3>2, AnyStreamIsMasked
  <2> QED
    BY <2>6, <2>7, <2>10
<1>2. StreamIsMasked
  BY <1>1 DEF StreamIsMasked
<1> QED
  BY <1>2, PTL

============================================================================
