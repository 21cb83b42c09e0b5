-------------------------- MODULE Confirmation --------------------------
(***************************************************************************)
(* The confirmation sheets of one session, the high-risk tool calls that   *)
(* need one, and the humans who decide them.                               *)
(*                                                                         *)
(* A call asks ConfirmationService.require, which answers `approved' only  *)
(* to a call that consumed an approved sheet for the same tool and input;  *)
(* then AgentLoop executes the tool.  Sheets are decided over HTTP at any  *)
(* time.  The turn lock usually keeps two calls of a session from being in *)
(* require() together, but it has a TTL, and the service is written for    *)
(* the case that they are: so is this module.                              *)
(*                                                                         *)
(* A Mutant_ operator is the action below it with a plausible bug.         *)
(***************************************************************************)
EXTENDS Naturals, Sequences, FiniteSets

CONSTANTS
  Call,       \* the tool calls of the session that need a confirmation
  Subject,    \* the tool and input of each call, as findPending compares them
  Window      \* how many sheets findDecided lists: 50

ASSUME WindowAssumption == Window \in Nat \ {0}

VARIABLES
  sheets,     \* the session's confirmations in seq order
  pc,         \* where each call is
  held,       \* the sheet a call has found or consumed; 0 without one
  overlapped  \* history: two calls have been in require() at once

vars == <<sheets, pc, held, overlapped>>

Status == {"pending", "approved", "rejected", "consumed"}
InRequire == {"looking", "consuming", "creating"}
Stage == InRequire \cup {"idle", "approved", "executed", "dropped", "answered",
                      "lost"}

Goto(c, stage) == pc' = [pc EXCEPT ![c] = stage]
Hold(c, i) == held' = [held EXCEPT ![c] = i]

\* A sheet gets a new status.
Mark(i, s) ==
  sheets' = [sheets EXCEPT ![i] = [subject |-> sheets[i].subject, status |-> s]]

Of(c, i) == sheets[i].subject = Subject[c]
Pending(c) == {i \in DOMAIN sheets : Of(c, i) /\ sheets[i].status = "pending"}

\* listBySession(50), and what findDecided keeps of it.
Listed == {i \in DOMAIN sheets : i + Window > Len(sheets)}
Decided(c) ==
  {i \in Listed : Of(c, i) /\ sheets[i].status \in {"approved", "rejected"}}

IsNewest(i, S) == i \in S /\ \A j \in S : j <= i

Init ==
  /\ sheets = <<>>
  /\ pc = [c \in Call |-> "idle"]
  /\ held = [c \in Call |-> 0]
  /\ overlapped = FALSE

----------------------------------------------------------------------------
\* ConfirmationService.require

\* require() begins: an undecided sheet is answered again, not made anew.
Begin(c) ==
  /\ pc[c] = "idle"
  /\ overlapped' = (overlapped \/ \E d \in Call : pc[d] \in InRequire)

FindPending(c) ==
  /\ Begin(c)
  /\ Pending(c) # {}
  /\ Goto(c, "answered")
  /\ UNCHANGED <<sheets, held>>

Mutant_NeverReuse(c) ==
  /\ Begin(c)
  /\ Goto(c, "looking")
  /\ UNCHANGED <<sheets, held>>

NoPending(c) ==
  /\ Begin(c)
  /\ Pending(c) = {}
  /\ Goto(c, "looking")
  /\ UNCHANGED <<sheets, held>>

\* findDecided: the newest decided sheet counts.  Approved: try to consume it.
Mutant_SkipConsume(c) ==
  /\ pc[c] = "looking"
  /\ \E i \in Decided(c) :
       /\ IsNewest(i, Decided(c))
       /\ sheets[i].status = "approved"
       /\ Hold(c, i)
  /\ Goto(c, "approved")
  /\ UNCHANGED <<sheets, overlapped>>

FindApproved(c) ==
  /\ pc[c] = "looking"
  /\ \E i \in Decided(c) :
       /\ IsNewest(i, Decided(c))
       /\ sheets[i].status = "approved"
       /\ Hold(c, i)
  /\ Goto(c, "consuming")
  /\ UNCHANGED <<sheets, overlapped>>

\* Rejected: the call is answered so.
FindRejected(c) ==
  /\ pc[c] = "looking"
  /\ \E i \in Decided(c) :
       IsNewest(i, Decided(c)) /\ sheets[i].status = "rejected"
  /\ Goto(c, "answered")
  /\ UNCHANGED <<sheets, held, overlapped>>

FindNone(c) ==
  /\ pc[c] = "looking"
  /\ Decided(c) = {}
  /\ Goto(c, "creating")
  /\ UNCHANGED <<sheets, held, overlapped>>

\* consume: UPDATE ... WHERE status = 'approved'.  When the query rejects
\* after it was applied, the approval is gone and the turn has failed.
Mutant_ConsumeAgain(c) ==
  /\ pc[c] = "consuming"
  /\ Mark(held[c], "consumed")
  /\ Goto(c, "approved") \/ Goto(c, "lost")
  /\ UNCHANGED <<held, overlapped>>

Consume(c) ==
  /\ pc[c] = "consuming"
  /\ sheets[held[c]].status = "approved"
  /\ Mark(held[c], "consumed")
  /\ Goto(c, "approved") \/ Goto(c, "lost")
  /\ UNCHANGED <<held, overlapped>>

\* Someone else has consumed it: a new sheet is made.
ConsumeNothing(c) ==
  /\ pc[c] = "consuming"
  /\ sheets[held[c]].status # "approved"
  /\ Hold(c, 0)
  /\ Goto(c, "creating")
  /\ UNCHANGED <<sheets, overlapped>>

Create(c) ==
  /\ pc[c] = "creating"
  /\ sheets' = Append(sheets, [subject |-> Subject[c], status |-> "pending"])
  /\ Goto(c, "answered") \/ Goto(c, "lost")
  /\ UNCHANGED <<held, overlapped>>

----------------------------------------------------------------------------

\* Phase 3 of executeToolUses: the approved call runs its tool.
Execute(c) ==
  /\ pc[c] = "approved"
  /\ Goto(c, "executed")
  /\ UNCHANGED <<sheets, held, overlapped>>

\* A query rejects or the process dies: onConfirm does not answer.
Lose(c) ==
  /\ pc[c] \in InRequire
  /\ Goto(c, "lost")
  /\ UNCHANGED <<sheets, held, overlapped>>

\* The turn dies between the consumption and the call, with its process or
\* because a later call of the turn fails to be confirmed: nothing is put back.
Drop(c) ==
  /\ pc[c] = "approved"
  /\ Goto(c, "dropped")
  /\ UNCHANGED <<sheets, held, overlapped>>

\* POST /v1/confirmations/:id: UPDATE ... WHERE status = 'pending'.
Mutant_DecideAgain(i, verdict) ==
  /\ sheets[i].status \in {"pending", "approved"}
  /\ Mark(i, verdict)
  /\ UNCHANGED <<pc, held, overlapped>>

Decide(i, verdict) ==
  /\ sheets[i].status = "pending"
  /\ Mark(i, verdict)
  /\ UNCHANGED <<pc, held, overlapped>>

Next ==
  \/ \E c \in Call :
       \/ FindPending(c) \/ NoPending(c)
       \/ FindApproved(c) \/ FindRejected(c) \/ FindNone(c)
       \/ Consume(c) \/ ConsumeNothing(c) \/ Create(c)
       \/ Execute(c) \/ Lose(c) \/ Drop(c)
  \/ \E i \in DOMAIN sheets, v \in {"approved", "rejected"} : Decide(i, v)

Spec == Init /\ [][Next]_vars

----------------------------------------------------------------------------
\* Properties

\* Every variable has its type, and a call only holds a sheet that exists.
TypeOK ==
  /\ sheets \in Seq([subject : {Subject[c] : c \in Call}, status : Status])
  /\ pc \in [Call -> Stage]
  /\ held \in [Call -> 0..Len(sheets)]
  /\ overlapped \in BOOLEAN

\* require() answered `approved'.
Admitted(c) == pc[c] \in {"approved", "executed", "dropped"}

\* A high-risk tool runs only under a sheet that was approved for that very
\* tool and input, and no two calls run under one sheet (consume: otherwise
\* "one approved sheet can be replayed into any number of refunds").
OneCallPerApproval ==
  \A c, d \in Call :
    Admitted(c) =>
      /\ held[c] \in DOMAIN sheets
      /\ Of(c, held[c])
      /\ sheets[held[c]].status = "consumed"
      /\ Admitted(d) /\ held[d] = held[c] => d = c

\* A decision is final: a sheet leaves `pending' once, and only an approved
\* one moves on, to `consumed' (decide: no muddle about who approved).
DecisionsAreFinal ==
  [][\A i \in DOMAIN sheets :
       sheets'[i] # sheets[i] =>
         \/ sheets[i].status = "pending" /\ sheets'[i].status # "consumed"
         \/ sheets[i].status = "approved" /\ sheets'[i].status = "consumed"]_vars

\* The customer is not asked again for what is pending or approved and not
\* yet used, as long as calls do not overlap and the sheet is still listed.
NotAskedTwice ==
  overlapped \/
    \A i, j \in DOMAIN sheets :
      /\ i < j
      /\ sheets[i].subject = sheets[j].subject
      /\ sheets[i].status \in {"pending", "approved"}
      /\ sheets[j].status \in {"pending", "approved"}
      => j > i + Window

----------------------------------------------------------------------------
\* Refinement: sheets as approvals

Numbered(S) == {i \in DOMAIN sheets : sheets[i].status \in S}

Approvals == INSTANCE Approval WITH
  asked <- Len(sheets),
  granted <- Numbered({"approved", "consumed"}),
  denied <- Numbered({"rejected"}),
  spent <- {<<c, held[c]>> : c \in {d \in Call : Admitted(d)}},
  acted <- {c \in Call : pc[c] = "executed"}

\* Asking, deciding, consuming and executing are what Approval says they are.
Implements == Approvals!ASpec

=============================================================================
