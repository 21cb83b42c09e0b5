---------------------------- MODULE Approval ----------------------------
(***************************************************************************)
(* What confirming a high-risk tool promises, whoever asks and however     *)
(* often: a request for approval is granted or denied once, a granted one  *)
(* is spent once, and a call acts on one it spent for that call alone.     *)
(***************************************************************************)
EXTENDS Naturals

CONSTANT Call   \* the calls that need an approval

VARIABLES
  asked,      \* the approvals asked for, numbered as they come
  granted,    \* those a human granted
  denied,     \* those a human denied
  spent,      \* <<call, approval>>: the call may act on the approval
  acted       \* the calls that did act

avars == <<asked, granted, denied, spent, acted>>

AInit ==
  /\ asked = 0
  /\ granted = {}
  /\ denied = {}
  /\ spent = {}
  /\ acted = {}

Undecided(i) == i \in 1..asked /\ i \notin granted /\ i \notin denied

Ask ==
  /\ asked' = asked + 1
  /\ UNCHANGED <<granted, denied, spent, acted>>

Grant(i) ==
  /\ Undecided(i)
  /\ granted' = granted \cup {i}
  /\ UNCHANGED <<asked, denied, spent, acted>>

Deny(i) ==
  /\ Undecided(i)
  /\ denied' = denied \cup {i}
  /\ UNCHANGED <<asked, granted, spent, acted>>

\* No two calls spend one approval.
Spend(c, i) ==
  /\ i \in granted
  /\ \A p \in spent : p[2] # i /\ p[1] # c
  /\ spent' = spent \cup {<<c, i>>}
  /\ UNCHANGED <<asked, granted, denied, acted>>

Act(c) ==
  /\ c \notin acted
  /\ \E p \in spent : p[1] = c
  /\ acted' = acted \cup {c}
  /\ UNCHANGED <<asked, granted, denied, spent>>

ANext ==
  \/ Ask
  \/ \E i \in 1..asked : Grant(i) \/ Deny(i)
  \/ \E c \in Call : Act(c) \/ \E i \in 1..asked : Spend(c, i)

ASpec == AInit /\ [][ANext]_avars

=============================================================================
