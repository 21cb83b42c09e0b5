----------------------- MODULE ConfirmationProofs -----------------------
(***************************************************************************)
(* What holds of a session's confirmations for any calls, any subjects and *)
(* any window, however the calls overlap.                                  *)
(*                                                                         *)
(* Invariant: a call that was admitted holds a consumed sheet for its      *)
(* subject that no other admitted call holds, and a call about to consume  *)
(* holds a sheet for its subject.  Consuming needs an approved sheet and   *)
(* leaves a consumed one, so it cannot hit a sheet already held.           *)
(***************************************************************************)
EXTENDS Confirmation, TLAPS

Sheet == [subject : {Subject[c] : c \in Call}, status : Status]

SheetInv ==
  /\ TypeOK
  /\ OneCallPerApproval
  /\ \A c \in Call :
       pc[c] = "consuming" => held[c] \in DOMAIN sheets /\ Of(c, held[c])

----------------------------------------------------------------------------
\* The two ways in which sheets change

\* Marking a sheet keeps the others, the subjects and the numbering.
LEMMA MarkKeeps ==
  ASSUME sheets \in Seq(Sheet), NEW i \in DOMAIN sheets, NEW s \in Status,
         Mark(i, s)
  PROVE  /\ sheets' \in Seq(Sheet)
         /\ Len(sheets') = Len(sheets)
         /\ DOMAIN sheets' = DOMAIN sheets
         /\ sheets'[i].status = s
         /\ \A j \in DOMAIN sheets : sheets'[j].subject = sheets[j].subject
         /\ \A j \in DOMAIN sheets : j # i => sheets'[j] = sheets[j]
<1> DEFINE new == [subject |-> sheets[i].subject, status |-> s]
<1>1. sheets[i] \in Sheet
  OBVIOUS
<1>2. new \in Sheet
  BY <1>1 DEF Sheet
<1>3. sheets' = [sheets EXCEPT ![i] = new]
  BY DEF Mark
<1> HIDE DEF new
<1>4. /\ sheets' \in Seq(Sheet)
      /\ Len(sheets') = Len(sheets)
      /\ DOMAIN sheets' = DOMAIN sheets
      /\ sheets'[i] = new
      /\ \A j \in DOMAIN sheets : j # i => sheets'[j] = sheets[j]
  BY <1>2, <1>3
<1> QED
  BY <1>4 DEF new

\* A new sheet is numbered after all others, which it leaves alone.
LEMMA CreateKeeps ==
  ASSUME sheets \in Seq(Sheet), NEW c \in Call,
         sheets' = Append(sheets, [subject |-> Subject[c], status |-> "pending"])
  PROVE  /\ sheets' \in Seq(Sheet)
         /\ Len(sheets') = Len(sheets) + 1
         /\ DOMAIN sheets' = DOMAIN sheets \cup {Len(sheets) + 1}
         /\ sheets'[Len(sheets) + 1].status = "pending"
         /\ \A j \in DOMAIN sheets : sheets'[j] = sheets[j]
<1>1. [subject |-> Subject[c], status |-> "pending"] \in Sheet
  BY DEF Sheet, Status
<1> QED
  BY <1>1

----------------------------------------------------------------------------

\* Type correctness is preserved by every action, given the sheets held.
LEMMA TypeStep ==
  ASSUME SheetInv, [Next]_vars
  PROVE  TypeOK'
<1> USE DEF SheetInv, TypeOK, Stage, InRequire, Goto, Hold
<1>0. /\ Sheet = [subject : {Subject[c] : c \in Call}, status : Status]
      /\ sheets \in Seq(Sheet)
  BY DEF Sheet
<1>1. ASSUME NEW c \in Call,
             \/ FindPending(c) \/ NoPending(c) \/ FindRejected(c)
             \/ FindNone(c) \/ Execute(c) \/ Lose(c) \/ Drop(c)
      PROVE  TypeOK'
  BY <1>1 DEF FindPending, NoPending, Begin, FindRejected, FindNone, Execute,
              Lose, Drop
<1>2. ASSUME NEW c \in Call, FindApproved(c) PROVE TypeOK'
  BY <1>2 DEF FindApproved, Decided, Listed
<1>3. ASSUME NEW c \in Call, Consume(c) PROVE TypeOK'
  <2>1. held[c] \in DOMAIN sheets /\ Mark(held[c], "consumed")
    BY <1>3 DEF Consume
  <2>2. Len(sheets') = Len(sheets) /\ sheets' \in Seq(Sheet)
    BY <2>1, <1>0, MarkKeeps DEF Status
  <2> QED
    BY <1>0, <1>3, <2>2 DEF Consume
<1>4. ASSUME NEW c \in Call, ConsumeNothing(c) PROVE TypeOK'
  BY <1>4 DEF ConsumeNothing
<1>5. ASSUME NEW c \in Call, Create(c) PROVE TypeOK'
  <2>1. sheets' \in Seq(Sheet) /\ Len(sheets') = Len(sheets) + 1
    BY <1>0, <1>5, CreateKeeps DEF Create
  <2>2. held' \in [Call -> 0..Len(sheets')]
    BY <2>1, <1>5 DEF Create
  <2> QED
    BY <1>0, <1>5, <2>1, <2>2 DEF Create
<1>6. ASSUME NEW i \in DOMAIN sheets, NEW v \in {"approved", "rejected"},
             Decide(i, v)
      PROVE  TypeOK'
  <2>1. Len(sheets') = Len(sheets) /\ sheets' \in Seq(Sheet)
    BY <1>0, <1>6, MarkKeeps DEF Decide, Status
  <2> QED
    BY <1>0, <1>6, <2>1 DEF Decide
<1>7. CASE UNCHANGED vars
  BY <1>7 DEF vars
<1> QED
  BY <1>1, <1>2, <1>3, <1>4, <1>5, <1>6, <1>7 DEF Next

\* The invariant is preserved by every action.
LEMMA SheetStep ==
  ASSUME SheetInv, [Next]_vars
  PROVE  SheetInv'
<1> USE DEF SheetInv, OneCallPerApproval, Admitted, Of, Goto, Hold
<1>0. TypeOK'
  BY TypeStep
<1>a. sheets \in Seq(Sheet)
  BY DEF TypeOK, Sheet
<1>1. ASSUME NEW c \in Call,
             \/ FindPending(c) \/ NoPending(c) \/ FindRejected(c)
             \/ FindNone(c) \/ Execute(c) \/ Lose(c) \/ Drop(c)
      PROVE  SheetInv'
  BY <1>0, <1>1 DEF TypeOK, InRequire, FindPending, NoPending, Begin,
     FindRejected, FindNone, Execute, Lose, Drop
<1>2. ASSUME NEW c \in Call, FindApproved(c) PROVE SheetInv'
  BY <1>0, <1>2 DEF TypeOK, FindApproved, Decided, Listed
<1>3. ASSUME NEW c \in Call, Consume(c) PROVE SheetInv'
  <2>1. held[c] \in DOMAIN sheets /\ Mark(held[c], "consumed")
    BY <1>3 DEF Consume
  <2>2. /\ DOMAIN sheets' = DOMAIN sheets
        /\ sheets'[held[c]].status = "consumed"
        /\ \A j \in DOMAIN sheets : sheets'[j].subject = sheets[j].subject
        /\ \A j \in DOMAIN sheets : j # held[c] => sheets'[j] = sheets[j]
    BY <1>a, <2>1, MarkKeeps DEF Status
  <2>3. \A d \in Call : Admitted(d) => held[d] # held[c]
    BY <1>3 DEF Consume
  <2>4. held' = held /\ \A d \in Call : d # c => pc'[d] = pc[d]
    BY <1>3 DEF Consume, TypeOK
  <2>5. pc'[c] \in {"approved", "lost"}
    BY <1>3 DEF Consume, TypeOK
  <2>6. \A d \in Call : Admitted(d)' => d = c \/ Admitted(d)
    BY <2>4
  <2>7. OneCallPerApproval'
    <3> SUFFICES ASSUME NEW d \in Call, NEW e \in Call, Admitted(d)'
                 PROVE  /\ held[d] \in DOMAIN sheets
                        /\ sheets'[held[d]].subject = Subject[d]
                        /\ sheets'[held[d]].status = "consumed"
                        /\ Admitted(e)' /\ held[e] = held[d] => e = d
      BY <2>2, <2>4
    <3>1. CASE d = c
      BY <2>1, <2>2, <2>3, <2>6, <3>1, <1>3 DEF Consume
    <3>2. CASE d # c
      <4>1. Admitted(d) /\ held[d] # held[c]
        BY <2>3, <2>6, <3>2
      <4>2. sheets'[held[d]] = sheets[held[d]] /\ held[d] \in DOMAIN sheets
        BY <2>2, <4>1
      <4> QED
        BY <2>3, <2>6, <4>1, <4>2
    <3> QED
      BY <3>1, <3>2
  <2>8. \A d \in Call : pc'[d] = "consuming" =>
          held'[d] \in DOMAIN sheets' /\ Of(d, held[d])'
    BY <2>2, <2>4, <2>5
  <2> QED
    BY <1>0, <2>7, <2>8
<1>4. ASSUME NEW c \in Call, ConsumeNothing(c) PROVE SheetInv'
  BY <1>0, <1>4 DEF TypeOK, ConsumeNothing
<1>5. ASSUME NEW c \in Call, Create(c) PROVE SheetInv'
  <2>1. /\ DOMAIN sheets \subseteq DOMAIN sheets'
        /\ \A j \in DOMAIN sheets : sheets'[j] = sheets[j]
    BY <1>a, <1>5, CreateKeeps DEF Create
  <2>2. held' = held /\ \A d \in Call : d # c => pc'[d] = pc[d]
    BY <1>5 DEF Create, TypeOK
  <2>3. pc'[c] \in {"answered", "lost"}
    BY <1>5 DEF Create, TypeOK
  <2> QED
    BY <1>0, <2>1, <2>2, <2>3
<1>6. ASSUME NEW i \in DOMAIN sheets, NEW v \in {"approved", "rejected"},
             Decide(i, v)
      PROVE  SheetInv'
  <2>1. /\ DOMAIN sheets' = DOMAIN sheets
        /\ \A j \in DOMAIN sheets : sheets'[j].subject = sheets[j].subject
        /\ \A j \in DOMAIN sheets : j # i => sheets'[j] = sheets[j]
    BY <1>a, <1>6, MarkKeeps DEF Decide, Status
  <2>2. \A d \in Call : Admitted(d) => held[d] # i
    BY <1>6 DEF Decide
  <2> QED
    BY <1>0, <1>6, <2>1, <2>2 DEF Decide
<1>7. CASE UNCHANGED vars
  BY <1>0, <1>7 DEF vars
<1> QED
  BY <1>1, <1>2, <1>3, <1>4, <1>5, <1>6, <1>7 DEF Next

LEMMA SheetInvariant == Spec => []SheetInv
<1>1. ASSUME Init PROVE SheetInv
  <2>1. TypeOK
    <3>1. sheets = <<>> /\ Len(sheets) = 0
      BY <1>1 DEF Init
    <3>2. sheets \in Seq([subject : {Subject[c] : c \in Call}, status : Status])
      BY <3>1
    <3>3. pc \in [Call -> Stage]
      BY <1>1 DEF Init, Stage
    <3>4. held \in [Call -> 0..Len(sheets)]
      BY <1>1, <3>1 DEF Init
    <3>5. overlapped \in BOOLEAN
      BY <1>1 DEF Init
    <3> QED
      BY <3>2, <3>3, <3>4, <3>5 DEF TypeOK
  <2>2. \A c \in Call : pc[c] = "idle"
    BY <1>1 DEF Init
  <2> QED
    BY <2>1, <2>2 DEF SheetInv, OneCallPerApproval, Admitted
<1>2. SheetInv /\ [Next]_vars => SheetInv'
  BY SheetStep
<1> QED
  BY <1>1, <1>2, PTL DEF Spec

\* Every reachable state is well typed.
THEOREM TypeCorrect == Spec => []TypeOK
<1>1. SheetInv => TypeOK
  BY DEF SheetInv
<1> QED
  BY <1>1, SheetInvariant, PTL

\* No tool runs without an approval of its own, and no approval serves twice.
THEOREM ApprovalsAreSingleUse == Spec => []OneCallPerApproval
<1>1. SheetInv => OneCallPerApproval
  BY DEF SheetInv
<1> QED
  BY <1>1, SheetInvariant, PTL

----------------------------------------------------------------------------

\* Only decide and consume change a sheet that exists.
LEMMA FinalStep ==
  ASSUME SheetInv, [Next]_vars, NEW i \in DOMAIN sheets, sheets'[i] # sheets[i]
  PROVE  \/ sheets[i].status = "pending" /\ sheets'[i].status # "consumed"
         \/ sheets[i].status = "approved" /\ sheets'[i].status = "consumed"
<1>a. sheets \in Seq(Sheet)
  BY DEF SheetInv, TypeOK, Sheet
<1>1. CASE \E c \in Call : Consume(c)
  <2>1. PICK c \in Call : Consume(c)
    BY <1>1
  <2>2. held[c] \in DOMAIN sheets /\ Mark(held[c], "consumed")
    BY <2>1 DEF Consume, SheetInv
  <2>3. /\ sheets'[held[c]].status = "consumed"
        /\ \A j \in DOMAIN sheets : j # held[c] => sheets'[j] = sheets[j]
    BY <1>a, <2>2, MarkKeeps DEF Status
  <2> QED
    BY <2>1, <2>3 DEF Consume
<1>2. CASE \E c \in Call : Create(c)
  BY <1>a, <1>2, CreateKeeps DEF Create
<1>3. CASE \E j \in DOMAIN sheets, v \in {"approved", "rejected"} : Decide(j, v)
  <2>1. PICK j \in DOMAIN sheets, v \in {"approved", "rejected"} : Decide(j, v)
    BY <1>3
  <2>2. /\ sheets'[j].status = v
        /\ \A k \in DOMAIN sheets : k # j => sheets'[k] = sheets[k]
    BY <1>a, <2>1, MarkKeeps DEF Decide, Status
  <2> QED
    BY <2>1, <2>2 DEF Decide
<1> QED
  BY <1>1, <1>2, <1>3
     DEF Next, FindPending, NoPending, FindApproved, FindRejected, FindNone,
         ConsumeNothing, Execute, Lose, Drop, vars

\* A sheet is decided once, and only an approved one is ever consumed.
THEOREM DecisionsStand == Spec => DecisionsAreFinal
<1> DEFINE Final ==
      \A i \in DOMAIN sheets :
        sheets'[i] # sheets[i] =>
          \/ sheets[i].status = "pending" /\ sheets'[i].status # "consumed"
          \/ sheets[i].status = "approved" /\ sheets'[i].status = "consumed"
<1>1. SheetInv /\ [Next]_vars => [Final]_vars
  BY FinalStep
<1>2. Spec => [][Final]_vars
  BY <1>1, SheetInvariant, PTL DEF Spec
<1> QED
  BY <1>2 DEF DecisionsAreFinal

----------------------------------------------------------------------------
\* Customers are not asked twice

\* A sheet that may still admit a call, now or once it is decided.
Open(i) == sheets[i].status \in {"pending", "approved"}

\* No sheet in the window is open beside an older one of its subject.
Spaced ==
  \A i, j \in DOMAIN sheets :
    i < j /\ sheets[i].subject = sheets[j].subject /\ Open(i) /\ Open(j)
      => j > i + Window

\* What a call in require() has learnt stays true until it leaves, because it
\* is alone there: no sheet of its subject is pending, the one it is about to
\* consume is approved, and one it is about to make has no open sheet of its
\* subject among those listed.
Learnt(c) ==
  /\ pc[c] \in InRequire =>
       \A i \in DOMAIN sheets : Of(c, i) => sheets[i].status # "pending"
  /\ pc[c] = "consuming" => sheets[held[c]].status = "approved"
  /\ pc[c] = "creating" =>
       \A i \in DOMAIN sheets :
         i + Window > Len(sheets) /\ Of(c, i) => sheets[i].status = "consumed"

Alone == \A c, d \in Call : pc[c] \in InRequire /\ pc[d] \in InRequire => c = d

AskInv == overlapped \/ (Alone /\ Spaced /\ \A c \in Call : Learnt(c))

\* Deciding and consuming close sheets; neither opens one.
LEMMA MarkSpaced ==
  ASSUME sheets \in Seq(Sheet), NEW i \in DOMAIN sheets, NEW s \in Status,
         Mark(i, s), Open(i), s # "pending", Spaced
  PROVE  Spaced'
<1>1. /\ DOMAIN sheets' = DOMAIN sheets
      /\ sheets'[i].status = s
      /\ \A j \in DOMAIN sheets : sheets'[j].subject = sheets[j].subject
      /\ \A j \in DOMAIN sheets : j # i => sheets'[j] = sheets[j]
  BY MarkKeeps
<1>2. \A j \in DOMAIN sheets : Open(j)' => Open(j)
  BY <1>1 DEF Open
<1> QED
  BY <1>1, <1>2 DEF Spaced

\* A new sheet is further than the window from any open one of its subject.
LEMMA CreateSpaced ==
  ASSUME SheetInv, NEW c \in Call, Create(c), Learnt(c), Spaced
  PROVE  Spaced'
<1>a. sheets \in Seq(Sheet) /\ Len(sheets) \in Nat /\ DOMAIN sheets = 1..Len(sheets)
  BY DEF SheetInv, TypeOK, Sheet
<1> DEFINE n == Len(sheets) + 1
<1>1. sheets' = Append(sheets, [subject |-> Subject[c], status |-> "pending"])
  BY DEF Create
<1>2. /\ DOMAIN sheets' = DOMAIN sheets \cup {n}
      /\ \A j \in DOMAIN sheets : sheets'[j] = sheets[j]
  BY <1>1, <1>a, CreateKeeps
<1>3. sheets'[n].subject = Subject[c]
  BY <1>1, <1>a
<1>4. ASSUME NEW i \in DOMAIN sheets, sheets[i].subject = Subject[c], Open(i)
      PROVE  n > i + Window
  <2>1. pc[c] = "creating"
    BY DEF Create
  <2>2. ~(i + Window > Len(sheets))
    BY <1>4, <2>1 DEF Learnt, Of, Open
  <2> QED
    BY <1>a, <2>2, WindowAssumption
<1>5. ASSUME NEW i \in DOMAIN sheets', NEW j \in DOMAIN sheets', i < j,
             sheets'[i].subject = sheets'[j].subject, Open(i)', Open(j)'
      PROVE  j > i + Window
  <2>1. i \in DOMAIN sheets
    BY <1>a, <1>2, <1>5
  <2>2. Open(i)
    BY <1>2, <1>5, <2>1 DEF Open
  <2>3. CASE j = n
    BY <1>2, <1>3, <1>4, <1>5, <2>1, <2>2, <2>3
  <2>4. CASE j \in DOMAIN sheets
    BY <1>2, <1>5, <2>1, <2>2, <2>4 DEF Spaced, Open
  <2> QED
    BY <1>2, <2>3, <2>4
<1> QED
  BY <1>5 DEF Spaced

\* Sheets of calls that do not overlap stay apart.
LEMMA AskStep ==
  ASSUME SheetInv, AskInv, [Next]_vars
  PROVE  AskInv'
<1>a. sheets \in Seq(Sheet) /\ Len(sheets) \in Nat /\ DOMAIN sheets = 1..Len(sheets)
  BY DEF SheetInv, TypeOK, Sheet
<1>b. pc \in [Call -> Stage] /\ held \in [Call -> 0..Len(sheets)] /\ overlapped \in BOOLEAN
  BY DEF SheetInv, TypeOK
<1>c. overlapped => overlapped'
  BY DEF Next, vars, FindPending, NoPending, Begin, FindApproved, FindRejected,
     FindNone, Consume, ConsumeNothing, Create, Execute, Lose, Drop, Decide
<1> SUFFICES ASSUME ~overlapped' PROVE Alone' /\ Spaced' /\ \A c \in Call : Learnt(c)'
  BY DEF AskInv
<1>d. Alone /\ Spaced /\ \A c \in Call : Learnt(c)
  BY <1>c DEF AskInv
<1>e. ASSUME NEW c \in Call, sheets' = sheets,
             \A d \in Call \ {c} : pc'[d] = pc[d] /\ held'[d] = held[d],
             pc[c] \in InRequire \/ pc'[c] \notin InRequire,
             Learnt(c)'
      PROVE  Alone' /\ Spaced' /\ \A d \in Call : Learnt(d)'
  <2>1. Spaced' /\ \A d \in Call : Learnt(d)'
    BY <1>d, <1>e DEF Spaced, Open, Learnt, Of
  <2>2. Alone'
    BY <1>d, <1>e DEF Alone
  <2> QED
    BY <2>1, <2>2
<1> USE DEF Goto, Hold
<1>1. ASSUME NEW c \in Call, FindPending(c)
      PROVE  Alone' /\ Spaced' /\ \A d \in Call : Learnt(d)'
  <2>1. Learnt(c)' /\ pc'[c] \notin InRequire
    BY <1>1, <1>b DEF FindPending, InRequire, Learnt
  <2> QED
    BY <1>1, <1>b, <1>e, <2>1 DEF FindPending
<1>2. ASSUME NEW c \in Call, NoPending(c)
      PROVE  Alone' /\ Spaced' /\ \A d \in Call : Learnt(d)'
  <2>1. \A d \in Call : pc[d] \notin InRequire
    BY <1>2 DEF NoPending, Begin
  <2>2. Alone'
    BY <1>2, <1>b, <2>1 DEF NoPending, Alone
  <2>3. Learnt(c)'
    BY <1>2, <1>b DEF NoPending, Pending, Learnt, Of
  <2>4. Spaced' /\ \A d \in Call : Learnt(d)'
    BY <1>2, <1>b, <1>d, <2>3 DEF NoPending, Spaced, Open, Learnt, Of
  <2> QED
    BY <2>2, <2>4
<1>3. ASSUME NEW c \in Call, FindApproved(c)
      PROVE  Alone' /\ Spaced' /\ \A d \in Call : Learnt(d)'
  <2>1. PICK i \in Decided(c) : sheets[i].status = "approved" /\ Hold(c, i)
    BY <1>3 DEF FindApproved
  <2>2. /\ pc[c] = "looking" /\ pc'[c] = "consuming" /\ held'[c] = i
        /\ sheets' = sheets
        /\ \A d \in Call \ {c} : pc'[d] = pc[d] /\ held'[d] = held[d]
    BY <1>3, <1>b, <2>1 DEF FindApproved
  <2>3. Learnt(c)'
    BY <1>d, <2>1, <2>2 DEF Learnt, InRequire, Of
  <2> QED
    BY <1>e, <2>2, <2>3 DEF InRequire
<1>4. ASSUME NEW c \in Call, FindRejected(c) \/ Lose(c)
      PROVE  Alone' /\ Spaced' /\ \A d \in Call : Learnt(d)'
  <2>1. /\ pc'[c] \notin InRequire /\ UNCHANGED <<sheets, held>>
        /\ \A d \in Call \ {c} : pc'[d] = pc[d]
    BY <1>4, <1>b DEF FindRejected, Lose, InRequire
  <2>2. Learnt(c)'
    BY <2>1 DEF Learnt, InRequire
  <2> QED
    BY <1>e, <2>1, <2>2
<1>5. ASSUME NEW c \in Call, FindNone(c)
      PROVE  Alone' /\ Spaced' /\ \A d \in Call : Learnt(d)'
  <2>1. /\ pc[c] = "looking" /\ pc'[c] = "creating" /\ UNCHANGED <<sheets, held>>
        /\ \A d \in Call \ {c} : pc'[d] = pc[d]
    BY <1>5, <1>b DEF FindNone
  <2>2. ASSUME NEW i \in DOMAIN sheets, i + Window > Len(sheets), Of(c, i)
        PROVE  sheets[i].status = "consumed"
    <3>0. sheets[i] \in Sheet
      BY <1>a
    <3>1. sheets[i].status \in Status
      BY <3>0 DEF Sheet
    <3>2. sheets[i].status # "pending"
      BY <1>d, <2>1, <2>2 DEF Learnt, InRequire
    <3>3. sheets[i].status \notin {"approved", "rejected"}
      BY <1>5, <2>2 DEF FindNone, Decided, Listed
    <3> QED
      BY <3>1, <3>2, <3>3 DEF Status
  <2>3. Learnt(c)'
    BY <1>d, <2>1, <2>2 DEF Learnt, InRequire, Of
  <2> QED
    BY <1>e, <2>1, <2>3 DEF InRequire
<1>6. ASSUME NEW c \in Call, Consume(c)
      PROVE  Alone' /\ Spaced' /\ \A d \in Call : Learnt(d)'
  <2>1. /\ pc[c] = "consuming" /\ pc'[c] \notin InRequire /\ held' = held
        /\ \A d \in Call \ {c} : pc'[d] = pc[d]
        /\ sheets[held[c]].status = "approved" /\ Mark(held[c], "consumed")
    BY <1>6, <1>b DEF Consume, InRequire
  <2>2. held[c] \in DOMAIN sheets
    BY <2>1 DEF SheetInv
  <2>3. Spaced'
    BY <1>a, <1>d, <2>1, <2>2, MarkSpaced DEF Open, Status
  <2>4. \A d \in Call : pc'[d] \notin InRequire
    BY <1>d, <2>1 DEF Alone, InRequire
  <2>5. Alone' /\ \A d \in Call : Learnt(d)'
    BY <2>4 DEF Alone, Learnt, InRequire
  <2> QED
    BY <2>3, <2>5
<1>7. ASSUME NEW c \in Call, ConsumeNothing(c)
      PROVE  FALSE
  BY <1>d, <1>7 DEF ConsumeNothing, Learnt
<1>8. ASSUME NEW c \in Call, Create(c)
      PROVE  Alone' /\ Spaced' /\ \A d \in Call : Learnt(d)'
  <2>1. Spaced'
    BY <1>d, <1>8, CreateSpaced
  <2>2. \A d \in Call : pc'[d] \notin InRequire
    BY <1>b, <1>d, <1>8 DEF Create, Alone, InRequire
  <2>3. Alone' /\ \A d \in Call : Learnt(d)'
    BY <2>2 DEF Alone, Learnt, InRequire
  <2> QED
    BY <2>1, <2>3
<1>9. ASSUME NEW c \in Call, Execute(c) \/ Drop(c)
      PROVE  Alone' /\ Spaced' /\ \A d \in Call : Learnt(d)'
  <2>1. /\ pc'[c] \notin InRequire /\ UNCHANGED <<sheets, held>>
        /\ \A d \in Call \ {c} : pc'[d] = pc[d]
    BY <1>9, <1>b DEF Execute, Drop, InRequire
  <2>2. Learnt(c)'
    BY <2>1 DEF Learnt, InRequire
  <2> QED
    BY <1>e, <2>1, <2>2
<1>10. ASSUME NEW i \in DOMAIN sheets, NEW v \in {"approved", "rejected"},
              Decide(i, v)
       PROVE  Alone' /\ Spaced' /\ \A d \in Call : Learnt(d)'
  <2>1. sheets[i].status = "pending" /\ Mark(i, v) /\ UNCHANGED <<pc, held>>
    BY <1>10 DEF Decide
  <2>2. /\ Len(sheets') = Len(sheets) /\ DOMAIN sheets' = DOMAIN sheets
        /\ sheets'[i].status = v
        /\ \A j \in DOMAIN sheets : sheets'[j].subject = sheets[j].subject
        /\ \A j \in DOMAIN sheets : j # i => sheets'[j] = sheets[j]
    BY <1>a, <2>1, MarkKeeps DEF Status
  <2>3. Spaced'
    BY <1>a, <1>d, <2>1, MarkSpaced DEF Open, Status
  <2>4. Alone'
    BY <1>d, <2>1 DEF Alone
  <2>5. ASSUME NEW d \in Call PROVE Learnt(d)'
    <3>1. pc[d] \in InRequire => ~Of(d, i)
      BY <1>d, <2>1 DEF Learnt
    <3>2. \A j \in DOMAIN sheets : Of(d, j)' <=> Of(d, j)
      BY <2>2 DEF Of
    <3>3. CASE pc[d] \in InRequire
      <4>1. \A j \in DOMAIN sheets : Of(d, j) => sheets'[j] = sheets[j]
        BY <2>2, <3>1, <3>3
      <4>2. pc[d] = "consuming" => held[d] \in DOMAIN sheets /\ Of(d, held[d])
        BY DEF SheetInv
      <4> QED
        BY <1>d, <2>1, <2>2, <3>2, <4>1, <4>2 DEF Learnt
    <3>4. CASE pc[d] \notin InRequire
      BY <2>1, <3>4 DEF Learnt, InRequire
    <3> QED
      BY <3>3, <3>4
  <2> QED
    BY <2>3, <2>4, <2>5
<1>11. CASE UNCHANGED vars
  BY <1>d, <1>11 DEF vars, Alone, Spaced, Open, Learnt, Of
<1> QED
  BY <1>1, <1>2, <1>3, <1>4, <1>5, <1>6, <1>7, <1>8, <1>9, <1>10, <1>11 DEF Next

\* While calls do not overlap in require(), no sheet is made for a tool and
\* input that has one pending, or approved and unused, within the window.
THEOREM CustomersAreNotAskedTwice == Spec => []NotAskedTwice
<1>1. Init => AskInv
  <2>1. Init => DOMAIN sheets = {}
    BY DEF Init
  <2> QED
    BY <2>1 DEF Init, AskInv, Alone, Spaced, Learnt, InRequire
<1>2. SheetInv /\ AskInv /\ [Next]_vars => AskInv'
  BY AskStep
<1>3. AskInv => NotAskedTwice
  BY DEF AskInv, Spaced, Open, NotAskedTwice
<1> QED
  BY <1>1, <1>2, <1>3, SheetInvariant, PTL DEF Spec

----------------------------------------------------------------------------
\* Refinement of Approval

Granted == Numbered({"approved", "consumed"})
Denied == Numbered({"rejected"})
Spent == {<<c, held[c]>> : c \in {d \in Call : Admitted(d)}}
Acted == {c \in Call : pc[c] = "executed"}

\* A step that leaves the sheets, the admitted calls and what they hold alone.
LEMMA QuietStep ==
  ASSUME sheets' = sheets,
         \A c \in Call : Admitted(c)' <=> Admitted(c),
         \A c \in Call : Admitted(c) => held'[c] = held[c],
         \A c \in Call : pc'[c] = "executed" <=> pc[c] = "executed"
  PROVE  UNCHANGED Approvals!avars
<1>1. Granted' = Granted /\ Denied' = Denied /\ Len(sheets)' = Len(sheets)
  BY DEF Granted, Denied, Numbered
<1>2. Spent' = Spent
  BY DEF Spent
<1>3. Acted' = Acted
  BY DEF Acted
<1> QED
  BY <1>1, <1>2, <1>3 DEF Approvals!avars, Granted, Denied, Spent, Acted

\* Every step is an asking, a decision, a spending, an act, or a stutter.
LEMMA StepRefines ==
  ASSUME SheetInv, [Next]_vars
  PROVE  [Approvals!ANext]_(Approvals!avars)
<1>a. sheets \in Seq(Sheet) /\ Len(sheets) \in Nat /\ DOMAIN sheets = 1..Len(sheets)
  BY DEF SheetInv, TypeOK, Sheet
<1>b. pc \in [Call -> Stage] /\ held \in [Call -> 0..Len(sheets)]
  BY DEF SheetInv, TypeOK
<1>1. ASSUME NEW c \in Call,
             \/ FindPending(c) \/ NoPending(c) \/ FindApproved(c)
             \/ FindRejected(c) \/ FindNone(c) \/ ConsumeNothing(c)
             \/ Lose(c) \/ Drop(c)
      PROVE  UNCHANGED Approvals!avars
  <2>1. /\ sheets' = sheets
        /\ \A d \in Call : Admitted(d)' <=> Admitted(d)
        /\ \A d \in Call : Admitted(d) => held'[d] = held[d]
        /\ \A d \in Call : pc'[d] = "executed" <=> pc[d] = "executed"
    BY <1>1, <1>b DEF FindPending, NoPending, Begin, FindApproved,
       FindRejected, FindNone, ConsumeNothing, Lose, Drop, Goto, Hold,
       Admitted, InRequire
  <2> QED
    BY <2>1, QuietStep
<1>2. ASSUME NEW c \in Call, Consume(c)
      PROVE  [Approvals!ANext]_(Approvals!avars)
  <2>1. held[c] \in DOMAIN sheets /\ Mark(held[c], "consumed")
    BY <1>2 DEF Consume, SheetInv
  <2>2. /\ Len(sheets') = Len(sheets)
        /\ DOMAIN sheets' = DOMAIN sheets
        /\ sheets'[held[c]].status = "consumed"
        /\ \A j \in DOMAIN sheets : j # held[c] => sheets'[j] = sheets[j]
    BY <1>a, <2>1, MarkKeeps DEF Status
  <2>3. sheets[held[c]].status = "approved" /\ held' = held
    BY <1>2 DEF Consume
  <2>4. Granted' = Granted /\ Denied' = Denied /\ held[c] \in Granted
    BY <2>1, <2>2, <2>3 DEF Granted, Denied, Numbered
  <2>5. Acted' = Acted
    BY <1>2, <1>b DEF Consume, Acted, Goto
  <2>6. CASE Goto(c, "lost")
    <3>1. \A d \in Call : Admitted(d)' <=> Admitted(d)
      BY <1>2, <1>b, <2>6 DEF Consume, Goto, Admitted
    <3>2. Spent' = Spent
      BY <2>3, <3>1 DEF Spent
    <3> QED
      BY <2>2, <2>4, <2>5, <3>2
         DEF Approvals!avars, Granted, Denied, Spent, Acted
  <2>7. CASE Goto(c, "approved")
    <3>1. \A d \in Call : Admitted(d)' <=> d = c \/ Admitted(d)
      BY <1>2, <1>b, <2>7 DEF Consume, Goto, Admitted
    <3>2. Spent' = Spent \cup {<<c, held[c]>>}
      BY <2>3, <3>1 DEF Spent
    <3>3. ASSUME NEW p \in Spent PROVE p[2] # held[c] /\ p[1] # c
      <4>1. PICK d \in Call : Admitted(d) /\ p = <<d, held[d]>>
        BY DEF Spent
      <4>2. held[d] # held[c]
        BY <2>3, <4>1 DEF SheetInv, OneCallPerApproval
      <4>3. d # c
        BY <4>2
      <4> QED
        BY <4>1, <4>2, <4>3
    <3>4. PICK i \in 1..Len(sheets) : i = held[c]
      BY <1>a, <2>1
    <3>5. Approvals!Spend(c, i)
      BY <2>2, <2>4, <2>5, <3>2, <3>3, <3>4
         DEF Approvals!Spend, Granted, Denied, Spent, Acted
    <3>6. \E j \in 1..Len(sheets) : Approvals!Spend(c, j)
      BY <3>5
    <3>7. Approvals!ANext
      BY <3>6 DEF Approvals!ANext
    <3> QED
      BY <3>7
  <2> QED
    BY <1>2, <2>6, <2>7 DEF Consume
<1>3. ASSUME NEW c \in Call, Create(c) PROVE Approvals!Ask
  <2>1. /\ Len(sheets') = Len(sheets) + 1
        /\ DOMAIN sheets' = DOMAIN sheets \cup {Len(sheets) + 1}
        /\ sheets'[Len(sheets) + 1].status = "pending"
        /\ \A j \in DOMAIN sheets : sheets'[j] = sheets[j]
    BY <1>a, <1>3, CreateKeeps DEF Create
  <2>2. Granted' = Granted /\ Denied' = Denied
    BY <2>1 DEF Granted, Denied, Numbered
  <2>3. \A d \in Call : Admitted(d)' <=> Admitted(d)
    BY <1>3, <1>b DEF Create, Goto, Admitted
  <2>4. Spent' = Spent /\ Acted' = Acted
    BY <1>3, <1>b, <2>3 DEF Create, Goto, Spent, Acted
  <2> QED
    BY <2>1, <2>2, <2>4 DEF Approvals!Ask, Granted, Denied, Spent, Acted
<1>4. ASSUME NEW c \in Call, Execute(c) PROVE Approvals!Act(c)
  <2>1. Granted' = Granted /\ Denied' = Denied /\ Len(sheets)' = Len(sheets)
    BY <1>4 DEF Execute, Granted, Denied, Numbered
  <2>2. \A d \in Call : Admitted(d)' <=> Admitted(d)
    BY <1>4, <1>b DEF Execute, Goto, Admitted
  <2>3. Spent' = Spent
    BY <1>4, <2>2 DEF Execute, Spent
  <2>4. Acted' = Acted \cup {c} /\ c \notin Acted
    BY <1>4, <1>b DEF Execute, Goto, Acted
  <2>5. <<c, held[c]>> \in Spent
    BY <1>4 DEF Execute, Spent, Admitted
  <2> QED
    BY <2>1, <2>3, <2>4, <2>5 DEF Approvals!Act, Granted, Denied, Spent, Acted
<1>5. ASSUME NEW i \in DOMAIN sheets, NEW v \in {"approved", "rejected"},
             Decide(i, v)
      PROVE  Approvals!Grant(i) \/ Approvals!Deny(i)
  <2>1. /\ Len(sheets') = Len(sheets)
        /\ DOMAIN sheets' = DOMAIN sheets
        /\ sheets'[i].status = v
        /\ \A j \in DOMAIN sheets : j # i => sheets'[j] = sheets[j]
    BY <1>a, <1>5, MarkKeeps DEF Decide, Status
  <2>2. sheets[i].status = "pending" /\ UNCHANGED <<pc, held>>
    BY <1>5 DEF Decide
  <2>3. Spent' = Spent /\ Acted' = Acted
    BY <2>2 DEF Spent, Acted, Admitted
  <2>4. i \notin Granted /\ i \notin Denied /\ i \in 1..Len(sheets)
    BY <1>a, <2>2 DEF Granted, Denied, Numbered
  <2>5. CASE v = "approved"
    <3>1. Granted' = Granted \cup {i} /\ Denied' = Denied
      BY <2>1, <2>2, <2>5 DEF Granted, Denied, Numbered
    <3> QED
      BY <2>1, <2>3, <2>4, <3>1 DEF Approvals!Grant, Approvals!Undecided,
         Granted, Denied, Spent, Acted
  <2>6. CASE v = "rejected"
    <3>1. Granted' = Granted /\ Denied' = Denied \cup {i}
      BY <2>1, <2>2, <2>6 DEF Granted, Denied, Numbered
    <3> QED
      BY <2>1, <2>3, <2>4, <3>1 DEF Approvals!Deny, Approvals!Undecided,
         Granted, Denied, Spent, Acted
  <2> QED
    BY <2>5, <2>6
<1>6. CASE UNCHANGED vars
  <2>1. /\ sheets' = sheets
        /\ \A d \in Call : Admitted(d)' <=> Admitted(d)
        /\ \A d \in Call : Admitted(d) => held'[d] = held[d]
        /\ \A d \in Call : pc'[d] = "executed" <=> pc[d] = "executed"
    BY <1>6 DEF vars, Admitted
  <2> QED
    BY <2>1, QuietStep
<1> QED
  BY <1>1, <1>2, <1>3, <1>4, <1>5, <1>6, <1>a DEF Next, Approvals!ANext

\* The confirmation service implements Approval: what is granted is spent by
\* one call at most, and only a call that spent it acts.
THEOREM ApprovalIsImplemented == Spec => Implements
<1>1. Init => Approvals!AInit
  <2> SUFFICES ASSUME Init PROVE Approvals!AInit
    OBVIOUS
  <2>1. sheets = <<>> /\ Len(sheets) = 0 /\ DOMAIN sheets = {}
    BY DEF Init
  <2>2. \A c \in Call : ~Admitted(c) /\ pc[c] # "executed"
    BY DEF Init, Admitted
  <2>3. Granted = {} /\ Denied = {}
    BY <2>1 DEF Granted, Denied, Numbered
  <2>4. Spent = {} /\ Acted = {}
    BY <2>2 DEF Spent, Acted
  <2> QED
    BY <2>1, <2>3, <2>4 DEF Approvals!AInit, Granted, Denied, Spent, Acted
<1>2. SheetInv /\ [Next]_vars => [Approvals!ANext]_(Approvals!avars)
  BY StepRefines
<1> QED
  BY <1>1, <1>2, SheetInvariant, PTL
     DEF Spec, Implements, Approvals!ASpec

=============================================================================
