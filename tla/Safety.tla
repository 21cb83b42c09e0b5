----------------------------- MODULE Safety -----------------------------
(***************************************************************************)
(* The safety rules of a tenant and the verdict of SafetyScanner on a text *)
(* that the rules in `hits' match; and StreamingRedactor, which masks a    *)
(* reply while it is still arriving.                                       *)
(*                                                                         *)
(* The verdict needs to know only which rules match.  The redactor is      *)
(* about where they match: there a text is a sequence of characters and    *)
(* three patterns stand for the five of OUTPUT_RULES, scaled down: a       *)
(* telephone number of 3 digits anywhere, a card number of exactly 2       *)
(* digits with no digit beside them, and an e-mail address.                *)
(***************************************************************************)
EXTENDS Integers, Sequences

CONSTANT None  \* no rule; a masked stretch of text

Rule(id, action) == [id |-> id, action |-> action]

\* INPUT_RULES and OUTPUT_RULES, one rule for each treatment.
InputRules == {Rule("inject", "block"), Rule("threat", "handoff")}
OutputRules == {Rule("phone", "mask"), Rule("email", "mask")}

Severity == [allow |-> 0, mask |-> 1, handoff |-> 2, block |-> 3]

\* resolveSafetyRules: a tenant's rule with the id of a global one is ignored.
Mutant_ResolveSafetyRules(global, tenant) ==
  {g \in global : \A t \in tenant : t.id # g.id} \cup tenant

ResolveSafetyRules(global, tenant) ==
  global \cup {t \in tenant : \A g \in global : g.id # t.id}

\* SafetyScanner.scan: the treatment the worst match calls for ...
Verdict(rules, hits) ==
  LET actions == {r.action : r \in rules \cap hits} \cup {"allow"}
  IN  CHOOSE a \in actions : \A b \in actions : Severity[a] >= Severity[b]

\* ... and the matches left readable in the text it returns: those of the
\* rules that do not mask, and all of them once a match is worse than `mask'.
Readable(rules, hits) ==
  IF Verdict(rules, hits) = "mask"
  THEN hits \ {r \in rules : r.action = "mask"}
  ELSE hits

----------------------------------------------------------------------------
\* Matching and masking

Digit == {"1"}
Word == Digit \cup {"x"}
\* ALPHABET: the characters that patterns are made of, a space is not one.
Mutant_Alphabet == Word
Alphabet == Word \cup {"@"}
Character == Word \cup {"@", " "}

\* How many characters from i on are in S.
Run(S, text, i) ==
  LET stops == {j \in i..Len(text) : text[j] \notin S} \cup {Len(text) + 1}
  IN  (CHOOSE j \in stops : \A k \in stops : j <= k) - i

\* The length of the match of a rule at i, 0 without one.
MatchAt(rule, text, i) ==
  LET digits == Run(Digit, text, i)
      name   == Run(Word, text, i)
      at     == i + name
      host   == IF at < Len(text) THEN Run(Word, text, at + 1) ELSE 0
  IN  CASE rule = "phone" -> IF digits >= 3 THEN 3 ELSE 0
        [] rule = "card"  ->
             IF digits = 2 /\ (i = 1 \/ text[i - 1] \notin Digit) THEN 2 ELSE 0
        [] rule = "email" ->
             IF name > 0 /\ host > 0 /\ text[at] = "@" THEN name + 1 + host ELSE 0

Patterns == {"phone", "card", "email"}

\* SafetyScanner.findMatches: the matches of every rule, each from the left
\* and without overlap, as pairs of first character and length.
Matches(rule, text) ==
  LET from[i \in 1..(Len(text) + 1)] ==
        IF i > Len(text) THEN {}
        ELSE LET n == MatchAt(rule, text, i)
             IN  IF n = 0 THEN from[i + 1] ELSE {<<i, n>>} \cup from[i + n]
  IN  from[1]

FindMatches(text) == UNION {Matches(rule, text) : rule \in Patterns}

\* SafetyScanner.mask: one rule after the other on what the last one left.
Replace(rule, text) ==
  LET from[i \in 1..(Len(text) + 1)] ==
        IF i > Len(text) THEN <<>>
        ELSE LET n == MatchAt(rule, text, i)
             IN  IF n = 0 THEN <<text[i]>> \o from[i + 1]
                 ELSE <<None>> \o from[i + n]
  IN  from[1]

Mask(text) == Replace("email", Replace("card", Replace("phone", text)))

----------------------------------------------------------------------------
\* StreamingRedactor

\* riskyTailLength: the last characters, at most lag, all in the alphabet.
RiskyTail(buffer, lag) ==
  LET safe == {i \in DOMAIN buffer : buffer[i] \notin Alphabet}
      last == IF safe = {} THEN 0 ELSE CHOOSE i \in safe : \A j \in safe : j <= i
      tail == Len(buffer) - last
  IN  IF tail < lag THEN tail ELSE lag

\* The release point of feed(): before the risky tail, and then before every
\* match that crosses it, in the order of the matches.
SafeEnd(buffer, lag) ==
  LET matches == FindMatches(buffer)
      end[i \in 0..Len(buffer)] ==
        IF i = 0 THEN Len(buffer) - RiskyTail(buffer, lag)
        ELSE LET e == end[i - 1]
             IN  IF i - 1 < e /\ \E m \in matches : m[1] = i /\ i - 1 + m[2] > e
                 THEN i - 1 ELSE e
  IN  end[Len(buffer)]

\* feed(chunk): [out, buffer]; without a lag everything is let go at once.
Feed(state, chunk, lag) ==
  LET buffer == state.buffer \o chunk
      end    == IF lag <= 0 THEN Len(buffer) ELSE SafeEnd(buffer, lag)
  IN  [out    |-> state.out \o Mask(SubSeq(buffer, 1, end)),
       buffer |-> SubSeq(buffer, end + 1, Len(buffer))]

\* The deltas a reader has seen once the chunks have been fed and flush() ran.
Streamed(chunks, lag) ==
  LET fed[n \in 0..Len(chunks)] ==
        IF n = 0 THEN [out |-> <<>>, buffer |-> <<>>]
        ELSE Feed(fed[n - 1], chunks[n], lag)
      end == fed[Len(chunks)]
  IN  end.out \o Mask(end.buffer)

=============================================================================
