-------------------------- MODULE TurnPipeline --------------------------
(***************************************************************************)
(* The turns of one session, one after the other (SessionTurn shows that   *)
(* the lock makes them so): the hooks of the default pipeline in their     *)
(* order, around the model calls of AgentLoop.run.                         *)
(*                                                                         *)
(* beforeTurn: safety, then intent and routing.  beforeModel, at every     *)
(* model call: compaction, trimming, quota.  afterTurn: safety again.      *)
(* Every turn starts from what the session's log holds, as every request   *)
(* builds its own AgentLoop; within a turn the loop keeps the list of      *)
(* messages it trimmed.  A text is the set of the rules that match it.     *)
(***************************************************************************)
EXTENDS Conversation, Intents, Safety, FiniteSets

CONSTANTS
  MaxMessages,  \* the window of the trimming: 20
  Threshold,    \* compaction starts above it: 24
  KeepRecent,   \* and keeps these messages: 8
  MaxCalls,     \* model calls of one turn: config.maxTurns
  Tool,         \* the names of the registered tools
  TenantRules,  \* the rule sets a tenant may have: [input, output]
  Topics,       \* bound: the answers of the recogniser, [intent, said, sure]
  MaxUses,      \* bound: tool uses in one answer of the model
  MaxTurns,     \* bound: turns
  MaxFaults     \* bound: failed model calls and broken turns

ASSUME WindowAssumption ==
  /\ MaxMessages \in Nat \ {0}
  /\ Threshold \in Nat /\ KeepRecent \in Nat
  /\ Threshold >= MaxMessages
  /\ MaxCalls \in Nat \ {0}
ASSUME RulesAssumption ==
  \A t \in TenantRules : \A r \in t.input \cup t.output : r.action \in DOMAIN Severity
ASSUME BoundAssumption ==
  MaxUses \in Nat \ {0} /\ MaxTurns \in Nat /\ MaxFaults \in Nat

VARIABLES
  log,      \* session_entries that are messages or summaries
  state,    \* the last intent_state entry of the session
  tenant,   \* extraSafetyRules of the tenant
  pc,       \* where the turn is
  list,     \* conversationMessages of the loop, as entries of the log
  input,    \* the rules that match the customer's message, until it is said
  advised,  \* the model was told to hand over to a human
  offered,  \* the tools the model may see
  calls,    \* model calls of this turn
  shown,    \* the matches readable in the reply of the last turn
  trimmed,  \* history: list lacks messages of the log
  drifted,  \* history: a compaction was made of such a list
  broken,   \* history: places in log of messages whose tools broke off
  turns,    \* turns begun, bounded
  faults    \* failures so far, bounded

window == <<log, list, trimmed, drifted, broken>>
topic == <<state, offered>>
vars == <<window, topic, tenant, pc, input, advised, calls, shown, turns, faults>>

Stage == {"idle", "recognise", "speak", "compact", "trim", "ask", "tools"}

TypeOK ==
  /\ log \in Seq([kind : {"user", "assistant", "tool", "summary"},
                  uses : Nat, count : Nat, covers : SUBSET Nat])
  /\ state \in [intent : Intent, slots : [Slot -> Intent \cup {Unset}],
                phase : {"idle", "collecting", "ready", "switched"}]
  /\ tenant \in TenantRules
  /\ pc \in Stage
  /\ list \in Seq(DOMAIN log)
  /\ input \subseteq InputRules \cup tenant.input
  /\ advised \in BOOLEAN
  /\ offered \subseteq Tool
  /\ calls \in 0..MaxCalls
  /\ shown \subseteq OutputRules \cup tenant.output
  /\ trimmed \in BOOLEAN /\ drifted \in BOOLEAN
  /\ broken \subseteq DOMAIN log
  /\ turns \in 0..MaxTurns
  /\ faults \in 0..MaxFaults

Init ==
  /\ log = <<>> /\ list = <<>>
  /\ state = EmptyState
  /\ tenant \in TenantRules
  /\ pc = "idle"
  /\ input = {} /\ shown = {}
  /\ advised = FALSE
  /\ offered = {}
  /\ calls = 0
  /\ trimmed = FALSE /\ drifted = FALSE
  /\ broken = {}
  /\ turns = 0
  /\ faults = 0

----------------------------------------------------------------------------
\* Helpers

\* The turn is over; what its AgentLoop held is gone.
EndTurn ==
  /\ pc' = "idle"
  /\ list' = <<>>
  /\ trimmed' = FALSE
  /\ advised' = FALSE
  /\ offered' = {}
  /\ calls' = 0

Fault == faults < MaxFaults /\ faults' = faults + 1

\* The session and the loop's list both get the entries.
Say(entries) ==
  /\ log' = log \o entries
  /\ list' = list \o [i \in DOMAIN entries |-> Len(log) + i]

----------------------------------------------------------------------------
\* beforeTurn

\* The loop restores the history; the safety hook judges the input by the
\* rules of all tenants and those this one adds.
Begin(hits) ==
  LET verdict == Verdict(ResolveSafetyRules(InputRules, tenant.input), hits)
  IN  /\ pc = "idle"
      /\ turns < MaxTurns
      /\ turns' = turns + 1
      /\ shown' = {}
      /\ IF verdict = "block"
         THEN UNCHANGED <<pc, list, input, advised>>
         ELSE /\ pc' = "recognise"
              /\ list' = Messages(log)
              /\ input' = hits
              /\ advised' = (verdict # "allow")
      /\ UNCHANGED <<log, trimmed, drifted, broken, topic, tenant, calls, faults>>

\* The intent hook advances the session's state and saves it unless nothing
\* has ever been recognised; the routing hook narrows the tools.
Recognise(t) ==
  LET next == Advance(state, Heard(t.intent, t.said, t.sure))
  IN  /\ pc = "recognise"
      /\ state' = IF next.intent # "unknown" THEN next ELSE state
      /\ offered' = Offered(ResolveAgent(AllAgents, next.intent), Tool)
      /\ pc' = "speak"
      /\ UNCHANGED <<window, tenant, input, advised, calls, shown, turns, faults>>

Speak ==
  /\ pc = "speak"
  /\ Say(<<User>>)
  /\ pc' = "compact"
  /\ input' = {}
  /\ UNCHANGED <<trimmed, drifted, broken, topic, tenant, advised, calls, shown,
                 turns, faults>>

----------------------------------------------------------------------------
\* beforeModel

\* The first `cut' messages of the list become a summary in the log, and the
\* list becomes the projection of the log.
Mutant_Summarise(cut) ==
  /\ log' = Append(log, Summary(cut, StandsFor(log, SubSeq(list, 1, cut))))
  /\ list' = <<Len(log) + 1>> \o SubSeq(list, cut, Len(list))
  /\ drifted' = (drifted \/ trimmed)
  /\ trimmed' = FALSE
  /\ UNCHANGED broken

Summarise(cut) ==
  /\ log' = Append(log, Summary(cut, StandsFor(log, SubSeq(list, 1, cut))))
  /\ list' = Messages(log')
  /\ drifted' = (drifted \/ trimmed)
  /\ trimmed' = FALSE
  /\ UNCHANGED broken

\* The compaction hook, when the list is long enough and has a place to cut.
Compact ==
  LET cut == Cutoff(log, list, Threshold, KeepRecent)
  IN  /\ pc = "compact" /\ calls < MaxCalls
      /\ cut > 0
      /\ Summarise(cut)
      /\ pc' = "trim"
      /\ UNCHANGED <<topic, tenant, input, advised, calls, shown, turns, faults>>

\* It is not, or the summary fails: the list stays as it is.
NoCompaction ==
  /\ pc = "compact" /\ calls < MaxCalls
  /\ \/ Cutoff(log, list, Threshold, KeepRecent) = 0 /\ UNCHANGED faults
     \/ Cutoff(log, list, Threshold, KeepRecent) > 0 /\ Fault
  /\ pc' = "trim"
  /\ UNCHANGED <<window, topic, tenant, input, advised, calls, shown, turns>>

\* The loop condition turns < maxTurns fails: the turn ends without a reply.
OutOfCalls ==
  /\ pc = "compact" /\ calls = MaxCalls
  /\ EndTurn
  /\ UNCHANGED <<log, drifted, broken, state, tenant, input, shown, turns, faults>>

Trim ==
  /\ pc = "trim"
  /\ list' = Trimmed(log, list, MaxMessages)
  /\ trimmed' = (trimmed \/ list' # list)
  /\ pc' = "ask"
  /\ calls' = calls + 1
  /\ UNCHANGED <<log, drifted, broken, topic, tenant, input, advised, shown,
                 turns, faults>>

----------------------------------------------------------------------------
\* The model call and what follows it

\* The model asks for tools, of those it sees or not.
AskForTools(uses) ==
  /\ pc = "ask"
  /\ Say(<<Assistant(uses)>>)
  /\ pc' = "tools"
  /\ UNCHANGED <<trimmed, drifted, broken, topic, tenant, input, advised, calls,
                 shown, turns, faults>>

Uses == log[Len(log)].uses

\* executeToolUses: one result for every use, in order, refused ones included.
RunTools ==
  /\ pc = "tools"
  /\ Say([i \in 1..Uses |-> ToolResult])
  /\ pc' = "compact"
  /\ UNCHANGED <<trimmed, drifted, broken, topic, tenant, input, advised, calls,
                 shown, turns, faults>>

\* An append fails, or the process dies, after the first of the results.
ToolsBreakOff(results) ==
  /\ pc = "tools"
  /\ results < Uses
  /\ log' = log \o [i \in 1..results |-> ToolResult]
  /\ broken' = broken \cup {Len(log)}
  /\ Fault
  /\ EndTurn
  /\ UNCHANGED <<drifted, state, tenant, input, shown, turns>>

\* An append fails, the quota hook blocks, the model call fails or the client
\* is gone.
NoAnswer ==
  /\ pc \in {"recognise", "speak", "compact", "ask"}
  /\ Fault
  /\ EndTurn
  /\ input' = {}
  /\ UNCHANGED <<log, drifted, broken, state, tenant, shown, turns>>

\* finishTurn: the safety hook rewrites the reply, which is kept and returned.
Reply(hits) ==
  /\ pc = "ask"
  /\ shown' = Readable(ResolveSafetyRules(OutputRules, tenant.output), hits)
  /\ log' = Append(log, Assistant(0))
  /\ EndTurn
  /\ UNCHANGED <<drifted, broken, state, tenant, input, turns, faults>>

Next ==
  \/ \E hits \in SUBSET (InputRules \cup tenant.input) : Begin(hits)
  \/ \E t \in Topics : Recognise(t)
  \/ Speak
  \/ Compact \/ NoCompaction \/ OutOfCalls \/ Trim
  \/ \E uses \in 1..MaxUses : AskForTools(uses)
  \/ RunTools
  \/ \E results \in 0..(MaxUses - 1) : ToolsBreakOff(results)
  \/ NoAnswer
  \/ \E hits \in SUBSET (OutputRules \cup tenant.output) : Reply(hits)

Spec == Init /\ [][Next]_vars

----------------------------------------------------------------------------
\* Properties

Is(i, kind) == log[i].kind = kind

\* A tool result in what the model is sent follows its assistant message or
\* another result of that message.  The model's API refuses anything else.
ResultsFollowUses ==
  pc = "ask" =>
    \A i \in DOMAIN list :
      Is(list[i], "tool") =>
        /\ i > 1
        /\ list[i - 1] = list[i] - 1
        /\ Is(list[i - 1], "tool") \/ Is(list[i - 1], "assistant")

\* A tool use is sent with the result that answers it behind it, at its place
\* among the results of its message (agent-loop.ts:354).  Only of a turn that
\* broke off between the two are there fewer, and then those it has are sent.
Answered(i, k) == list[i] + k \in DOMAIN log /\ Is(list[i] + k, "tool")

UsesAreAnswered ==
  pc = "ask" =>
    \A i \in DOMAIN list : \A k \in 1..log[list[i]].uses :
      (list[i] \notin broken \/ \A j \in 1..k : Answered(i, j)) =>
        /\ Answered(i, k)
        /\ i + k \in DOMAIN list /\ list[i + k] = list[i] + k

\* A summary stands in the projection for exactly the entries it was made of.
SummariesAreExact ==
  \A s \in DOMAIN log :
    Is(s, "summary") =>
      LET before == SubSeq(log, 1, s - 1)
      IN  StandsFor(before, SubSeq(Messages(before), 1, log[s].count))
            = log[s].covers

\* Neither compaction nor trimming cuts between a tool use and its results or
\* loses a message (compact, trimSafely), as long as no compaction was made of
\* a list that trimming had already shortened in the same turn.
HistoryHoldsTogether ==
  \/ drifted
  \/ ResultsFollowUses /\ UsesAreAnswered /\ SummariesAreExact

\* What the customer said under one topic is not used for another, and the
\* tool that pays money back is seen only where refunds belong or where the
\* topic is open (advance, createRoutingMiddleware).
TopicsStayApart ==
  /\ \A s \in Slot : state.slots[s] \in {Unset, state.intent}
  /\ "refund_apply" \in offered =>
       state.intent \in {"after_sales", "refund", "complaint", "unknown"}

\* A reply shows nothing that the rules of all tenants mask, unless a rule of
\* the tenant's own that does not mask matched it too.
RepliesAreMasked ==
  shown \cap OutputRules # {} =>
    \E r \in shown \ OutputRules : r.action # "mask"

\* Whatever rules a tenant has, an input that a blocking rule of all tenants
\* matches never gets past the safety hook, one that calls for a human carries
\* the advice to the model, and replies are masked (resolveSafetyRules: a
\* tenant can only be stricter).
TenantsOnlyTighten ==
  /\ pc \in {"recognise", "speak"} =>
       \A r \in InputRules \cap input :
         r.action # "block" /\ (r.action = "handoff" => advised)
  /\ RepliesAreMasked

\* All replies of up to 5 characters, cut into three chunks, and a lag of 4.
Texts == UNION {[1..n -> Character] : n \in 0..5}

StreamsMasked ==
  \A text \in Texts : \A i, j \in 0..Len(text) :
    i <= j /\ (\A k \in DOMAIN text : Run(Alphabet, text, k) <= 4) =>
      Streamed(<<SubSeq(text, 1, i), SubSeq(text, i + 1, j),
                 SubSeq(text, j + 1, Len(text))>>, 4) = Mask(text)

\* The deltas of a streamed reply are the masked reply, however it is cut into
\* chunks, if no stretch of pattern characters is longer than the lag.  This
\* is about the redactor alone, the same in all states: the first ones do.
StreamIsMasked == turns = 0 => StreamsMasked

=============================================================================
