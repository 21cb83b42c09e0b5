-------------------------- MODULE Conversation --------------------------
(***************************************************************************)
(* The conversation a model call is sent, as functions of the session's    *)
(* entries: the projection of the event log (Session.getMessages), the     *)
(* window of ContextManager and the cut of SummaryCompactor.               *)
(*                                                                         *)
(* A message is the index in the log of the entry it comes from, so that   *)
(* two lists can be compared message by message.  Entries that are not     *)
(* projected (tool_call, metadata) are left out.  Cuts are counted from 0, *)
(* as in the code: a cut c drops the first c messages.                     *)
(***************************************************************************)
EXTENDS Integers, Sequences, SequencesExt

\* An entry: uses, the tool uses of an assistant message; count and covers,
\* the compactedCount of a summary and (history) the entries it was written of.
Entry(kind, uses, count, covers) ==
  [kind |-> kind, uses |-> uses, count |-> count, covers |-> covers]

User == Entry("user", 0, 0, {})
Assistant(uses) == Entry("assistant", uses, 0, {})
ToolResult == Entry("tool", 0, 0, {})
Summary(count, covers) == Entry("summary", 0, count, covers)

\* Session.getMessages: a summary takes the place of the first count messages.
Projected(log, messages, i) ==
  IF log[i].kind = "summary"
  THEN <<i>> \o SubSeq(messages, log[i].count + 1, Len(messages))
  ELSE Append(messages, i)

Messages(log) ==
  LET upTo[n \in 0..Len(log)] ==
        IF n = 0 THEN <<>> ELSE Projected(log, upTo[n - 1], n)
  IN  upTo[Len(log)]

\* The first messages of turns; a summary is a message of the user's role.
TurnStarts(log, list) ==
  {i - 1 : i \in {j \in DOMAIN list : log[list[j]].kind \in {"user", "summary"}}}

\* findTurnBoundary and findCutoff: the first user message from `wanted' on,
\* or else the last one before it, or 0.
Boundary(starts, wanted) ==
  LET after == {i \in starts : i >= wanted}
      before == {i \in starts : i < wanted} \cup {0}
  IN  IF after # {} THEN Min(after) ELSE Max(before)

\* ContextManager.trimSafely: at most `max' messages, whole turns.
Trimmed(log, list, max) ==
  IF Len(list) <= max
  THEN list
  ELSE SubSeq(list, Boundary(TurnStarts(log, list), Len(list) - max) + 1, Len(list))

\* SummaryCompactor: how many messages of a list longer than `threshold' the
\* summary is to replace, keeping at least the last `keep'... or a whole turn.
Cutoff(log, list, threshold, keep) ==
  IF Len(list) > threshold /\ Len(list) > keep
  THEN Boundary(TurnStarts(log, list), Len(list) - keep)
  ELSE 0

\* The entries a list of messages stands for, through its summaries.
StandsFor(log, list) ==
  UNION {{i} \cup log[i].covers : i \in ToSet(list)}

=============================================================================
