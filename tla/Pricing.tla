---------------------------- MODULE Pricing ----------------------------
(***************************************************************************)
(* The price table: which windows a model may have, and which of them      *)
(* prices a call made on a given day.  A day is a number, and None stands  *)
(* for a bound the table leaves out.                                       *)
(***************************************************************************)
EXTENDS Naturals, Sequences, FiniteSets

None == 0

\* The windows that hold a day, as the find() of resolveFromWindows tests it.
Holds(w, day) ==
  /\ w.from = None \/ day >= w.from
  /\ w.until = None \/ day <= w.until

Mutant_ValidWindows(ws) ==
  /\ Len(ws) > 0
  /\ \A i \in DOMAIN ws :
       /\ i > 1 => ws[i].from # None
       /\ i < Len(ws) => ws[i].until # None
       /\ i > 1 => ws[i].from <= ws[i - 1].until + 1

\* validatePriceWindows does not throw: in order, no overlap, no gap.
ValidWindows(ws) ==
  /\ Len(ws) > 0
  /\ \A i \in DOMAIN ws :
       /\ i > 1 => ws[i].from # None
       /\ i < Len(ws) => ws[i].until # None
       /\ (ws[i].from # None /\ ws[i].until # None) => ws[i].from <= ws[i].until
       /\ i > 1 => ws[i].from = ws[i - 1].until + 1

\* resolveFromWindows: the first window that holds the day; before all of
\* them the earliest, after all of them the latest.
Resolve(ws, day) ==
  LET hits == {i \in DOMAIN ws : Holds(ws[i], day)}
  IN  IF hits # {}
      THEN [window |-> CHOOSE i \in hits : \A j \in hits : i <= j,
            resolved |-> "exact"]
      ELSE IF ws[1].from # None /\ day < ws[1].from
           THEN [window |-> 1, resolved |-> "before-first"]
           ELSE [window |-> Len(ws), resolved |-> "after-last"]

\* TokenTracker.add and onUsage: every token of a call is billed, those read
\* from the prompt cache and written to it as well (getConsumedTokens).
Billable(call) == call.input + call.output + call.cacheRead + call.cacheWrite

============================================================================
