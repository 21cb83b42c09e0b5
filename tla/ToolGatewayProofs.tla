----------------------- MODULE ToolGatewayProofs -----------------------
(***************************************************************************)
(* Theorems about ToolGateway: its types, what high risk calls may rely    *)
(* on, and the breaker's counters and times.                               *)
(***************************************************************************)
EXTENDS ToolGateway, TLAPS

----------------------------------------------------------------------------
\* The breaker's operators

\* What getState, onSuccess and onFailure return is a breaker.
LEMMA BreakerTypes ==
  ASSUME NEW b \in Breaker
  PROVE  /\ Current(b) \in Breaker
         /\ Succeeded(b) \in Breaker
         /\ Failed(b) \in Breaker
<1>1. b.failures \in Nat /\ b.successes \in Nat /\ b.since \in 0..Cooldown
      /\ b.state \in CircuitState
  BY DEF Breaker
<1>2. ASSUME NEW s \in CircuitState, NEW f \in Nat, NEW k \in Nat,
             NEW t \in 0..Cooldown
      PROVE  Circuit(s, f, k, t) \in Breaker
  BY DEF Circuit, Breaker
<1>3. 0 \in 0..Cooldown /\ {"closed", "open", "half_open"} = CircuitState
  BY TimeAssumption DEF CircuitState
<1>4. Current(b) \in Breaker
  BY <1>1, <1>2, <1>3 DEF Current
<1>5. Succeeded(b) \in Breaker
  BY <1>1, <1>2, <1>3 DEF Succeeded
<1>6. Failed(b) \in Breaker
  <2>1. b.failures + 1 \in Nat
    BY <1>1
  <2>2. /\ Circuit("open", b.failures, 0, 0) \in Breaker
        /\ Circuit("open", b.failures + 1, 0, 0) \in Breaker
        /\ Circuit(b.state, b.failures + 1, b.successes, b.since) \in Breaker
    BY <1>1, <1>2, <1>3, <2>1
  <2> QED
    BY <2>2 DEF Failed, Trips
<1> QED
  BY <1>4, <1>5, <1>6

\* Each of them keeps a closed breaker below its failure threshold and a half
\* open one below its success threshold.
Below(b) ==
  /\ b.state = "closed" => b.failures < FailureThreshold
  /\ b.state = "half_open" => b.successes < SuccessThreshold

LEMMA BreakerCounts ==
  ASSUME NEW b \in Breaker, Below(b)
  PROVE  Below(Current(b)) /\ Below(Succeeded(b)) /\ Below(Failed(b))
<1>1. b.failures \in Nat /\ b.successes \in Nat
  BY DEF Breaker
<1>2. Below(Current(b))
  BY ThresholdAssumption, <1>1 DEF Below, Current, Circuit
<1>3. Below(Succeeded(b))
  BY ThresholdAssumption, <1>1 DEF Below, Succeeded, Circuit
<1>4. Below(Failed(b))
  BY ThresholdAssumption, <1>1 DEF Below, Failed, Trips, Circuit
<1> QED
  BY <1>2, <1>3, <1>4

\* A breaker is half open only after a whole cooldown.
Cooled(b) == b.state = "half_open" => b.since = Cooldown

LEMMA BreakerCools ==
  ASSUME NEW b \in Breaker, Cooled(b)
  PROVE  Cooled(Current(b)) /\ Cooled(Succeeded(b)) /\ Cooled(Failed(b))
<1>1. b.since \in 0..Cooldown /\ Cooldown \in Nat
  BY TimeAssumption DEF Breaker
<1>2. Cooled(Current(b))
  BY <1>1 DEF Cooled, Current, Circuit
<1>3. Cooled(Succeeded(b))
  BY <1>1 DEF Cooled, Succeeded, Circuit
<1>4. Cooled(Failed(b))
  BY <1>1 DEF Cooled, Failed, Trips, Circuit
<1> QED
  BY <1>2, <1>3, <1>4

\* Until the cooldown is over none of them takes a breaker out of "open", and
\* only onFailure starts the cooldown again.
LEMMA BreakerHolds ==
  ASSUME NEW b \in Breaker
  PROVE  /\ b.state = "open" /\ b.since < Cooldown =>
              /\ Current(b).state = "open"
              /\ Succeeded(b).state = "open"
              /\ Failed(b).state = "open"
         /\ Current(b).since = b.since /\ Succeeded(b).since = b.since
<1>1. b.since \in 0..Cooldown /\ Cooldown \in Nat
  BY TimeAssumption DEF Breaker
<1>2. b.state = "open" /\ b.since < Cooldown => Current(b).state = "open"
  BY <1>1 DEF Current
<1>3. b.state = "open" => Succeeded(b).state = "open" /\ Failed(b).state = "open"
  BY DEF Succeeded, Failed, Trips, Circuit
<1>4. Current(b).since = b.since
  BY DEF Current, Circuit
<1>5. Succeeded(b).since = b.since
  BY DEF Succeeded, Circuit
<1> QED
  BY <1>2, <1>3, <1>4, <1>5

----------------------------------------------------------------------------
\* Steps that settle a call's request

\* What every step that ends a wait with a failure does.
LEMMA FailureSteps ==
  ASSUME NEW c \in Call, ServerFails(c) \/ ConnectionFails(c) \/ TimesOut(c)
  PROVE  pc[c] = "waiting" /\ \E t \in BOOLEAN : RequestFails(c, t)
BY DEF ServerFails, ConnectionFails, TimesOut

\* The attempts a call has left.
AttemptsLeft ==
  \A c \in Call :
    /\ pc[c] \in {"idle", "unplanned", "planned"} => attempt[c] = 0
    /\ pc[c] = "ready" => attempt[c] < MaxAttempts

TypeInv == TypeOK /\ AttemptsLeft

----------------------------------------------------------------------------
\* Types

LEMMA TypeInit == Init => TypeInv
<1> SUFFICES ASSUME Init PROVE TypeInv
  OBVIOUS
<1>1. breaker \in Breaker
  <2>1. Cooldown \in 0..Cooldown /\ "closed" \in CircuitState
    BY TimeAssumption DEF CircuitState
  <2> QED
    BY <2>1 DEF Init, Circuit, Breaker
<1>2. /\ cached \in BOOLEAN /\ pc \in [Call -> Stage] /\ known \in [Call -> BOOLEAN]
      /\ reply \in [Call -> Reply] /\ answer \in [Call -> Answer]
      /\ inbox \subseteq Call \X (1..MaxAttempts) /\ ran \in [Call -> Nat]
      /\ old \subseteq Call
  BY DEF Init, Stage, Reply, Answer
<1>3. attempt \in [Call -> 0..MaxAttempts] /\ age \in [Call -> 0..Timeout]
  BY TimeAssumption, AttemptAssumption DEF Init
<1>4. AttemptsLeft
  BY AttemptAssumption DEF Init, AttemptsLeft
<1> QED
  BY <1>1, <1>2, <1>3, <1>4 DEF TypeInv, TypeOK

LEMMA LimitAtMost == TypeOK => \A c \in Call : Limit(c) \in 1..MaxAttempts
BY AttemptAssumption DEF TypeOK, Limit

\* A failed request leaves all types as they were.
LEMMA TypeFailure ==
  ASSUME TypeInv, NEW c \in Call, pc[c] = "waiting",
         NEW t \in BOOLEAN, RequestFails(c, t)
  PROVE  TypeInv'
<1>0. TypeOK /\ AttemptsLeft
  BY DEF TypeInv
<1>1. Limit(c) \in 1..MaxAttempts /\ attempt[c] \in 0..MaxAttempts
  BY <1>0, LimitAtMost DEF TypeOK
<1>2. PICK r \in BOOLEAN :
        /\ r => attempt[c] < Limit(c)
        /\ pc' = [pc EXCEPT ![c] = IF r THEN "ready" ELSE "answered"]
        /\ answer' = [answer EXCEPT ![c] = IF r THEN "none" ELSE "unavailable"]
  BY DEF RequestFails, Goto
<1>3. breaker' \in Breaker
  BY <1>0, BreakerTypes DEF TypeOK, RequestFails
<1>4. pc' \in [Call -> Stage] /\ answer' \in [Call -> Answer]
  BY <1>0, <1>2 DEF TypeOK, Stage, Answer
<1>5. age' \in [Call -> 0..Timeout] /\ reply' \in [Call -> Reply]
  BY <1>0, TimeAssumption DEF TypeOK, RequestFails, Reply
<1>7. old' \subseteq Call
  BY <1>0 DEF TypeOK, RequestFails
<1>6. AttemptsLeft'
  <2>1. UNCHANGED attempt
    BY DEF RequestFails
  <2> QED
    BY <1>0, <1>1, <1>2, <2>1, AttemptAssumption DEF AttemptsLeft, TypeOK
<1> QED
  BY <1>0, <1>3, <1>4, <1>5, <1>6, <1>7 DEF TypeInv, TypeOK, RequestFails

LEMMA TypeStep == TypeInv /\ [Next]_vars => TypeInv'
<1> SUFFICES ASSUME TypeInv, [Next]_vars PROVE TypeInv'
  OBVIOUS
<1>0. TypeOK /\ AttemptsLeft
  BY DEF TypeInv
<1> USE DEF Goto
<1>1. ASSUME NEW c \in Call, Plan(c) PROVE TypeInv'
  BY <1>0, <1>1 DEF TypeInv, TypeOK, AttemptsLeft, Plan, Stage
<1>2. ASSUME NEW c \in Call, PlanFails(c) PROVE TypeInv'
  BY <1>0, <1>2 DEF TypeInv, TypeOK, AttemptsLeft, PlanFails, Stage
<1>3. ASSUME NEW c \in Call, Execute(c) PROVE TypeInv'
  <2>1. PICK found \in BOOLEAN :
          known' = [known EXCEPT ![c] = found] /\ cached' = found
    BY <1>0, <1>3 DEF Execute, TypeOK
  <2>2. attempt[c] = 0 /\ MaxAttempts > 0
    BY <1>0, <1>3, AttemptAssumption DEF AttemptsLeft, Execute
  <2>3. TypeOK'
    BY <1>0, <1>3, <2>1 DEF TypeOK, Execute, Stage
  <2>4. AttemptsLeft'
    BY <1>0, <1>3, <2>2 DEF TypeOK, AttemptsLeft, Execute
  <2> QED
    BY <2>3, <2>4 DEF TypeInv
<1>4. ASSUME NEW c \in Call, FailFast(c) PROVE TypeInv'
  BY <1>0, <1>4 DEF TypeInv, TypeOK, AttemptsLeft, FailFast, Stage, Answer
<1>5. ASSUME NEW c \in Call, Send(c) PROVE TypeInv'
  <2>1. attempt[c] \in 0..MaxAttempts /\ attempt[c] + 1 \in 1..MaxAttempts
    BY <1>0, <1>5, AttemptAssumption DEF TypeOK, AttemptsLeft, Send
  <2>2. breaker' \in Breaker
    BY <1>0, <1>5, BreakerTypes DEF TypeOK, Send
  <2>3. attempt' \in [Call -> 0..MaxAttempts]
    BY <1>0, <1>5, <2>1, AttemptAssumption DEF TypeOK, Send
  <2>4. inbox' \subseteq Call \X (1..MaxAttempts)
    BY <1>0, <1>5, <2>1 DEF TypeOK, Send
  <2>5. TypeOK'
    BY <1>0, <1>5, <2>2, <2>3, <2>4 DEF TypeOK, Send, Stage
  <2>6. AttemptsLeft'
    BY <1>0, <1>5 DEF TypeOK, AttemptsLeft, Send
  <2> QED
    BY <2>5, <2>6 DEF TypeInv
<1>6. ASSUME NEW c \in Call, Settle(c) PROVE TypeInv'
  <2>1. breaker' \in Breaker
    BY <1>0, <1>6, BreakerTypes DEF TypeOK, Settle
  <2>2. PICK a \in Answer : answer' = [answer EXCEPT ![c] = a]
    BY <1>6 DEF Settle, Answer
  <2>3. age' \in [Call -> 0..Timeout]
    BY <1>0, <1>6, TimeAssumption DEF TypeOK, Settle
  <2>4. TypeOK'
    BY <1>0, <1>6, <2>1, <2>2, <2>3 DEF TypeOK, Settle, Stage, Reply
  <2>5. AttemptsLeft'
    BY <1>0, <1>6 DEF TypeOK, AttemptsLeft, Settle
  <2> QED
    BY <2>4, <2>5 DEF TypeInv
<1>7. ASSUME NEW c \in Call, ServerFails(c) \/ ConnectionFails(c) \/ TimesOut(c)
      PROVE  TypeInv'
  <2>1. pc[c] = "waiting" /\ \E t \in BOOLEAN : RequestFails(c, t)
    BY <1>7, FailureSteps
  <2> QED
    BY <2>1, TypeFailure
<1>8. ASSUME NEW c \in Call, NEW n \in 1..MaxAttempts, Serve(c, n) PROVE TypeInv'
  <2>1. PICK s \in Reply, runs \in 0..1 :
          /\ ran' = [ran EXCEPT ![c] = @ + runs]
          /\ reply' = [reply EXCEPT ![c] =
                         IF pc[c] = "waiting" /\ attempt[c] = n THEN s ELSE @]
    BY <1>8 DEF Serve, Reply
  <2>2. ran' \in [Call -> Nat]
    BY <1>0, <2>1 DEF TypeOK
  <2>3. reply' \in [Call -> Reply]
    BY <1>0, <2>1 DEF TypeOK
  <2> QED
    BY <1>0, <1>8, <2>2, <2>3 DEF TypeInv, TypeOK, AttemptsLeft, Serve
<1>9. ASSUME NEW c \in Call, NEW n \in 1..MaxAttempts, LoseRequest(c, n)
      PROVE  TypeInv'
  BY <1>0, <1>9 DEF TypeInv, TypeOK, AttemptsLeft, LoseRequest, callVars
<1>10. CASE Tick
  <2>1. age' \in [Call -> 0..Timeout]
    BY <1>0, <1>10, TimeAssumption DEF TypeOK, Tick
  <2>2. breaker' \in Breaker
    <3>1. breaker.since \in 0..Cooldown /\ Cooldown \in Nat
      BY <1>0, TimeAssumption DEF TypeOK, Breaker
    <3> QED
      BY <1>0, <1>10, <3>1 DEF TypeOK, Tick, Circuit, Breaker
  <2> QED
    BY <1>0, <1>10, <2>1, <2>2 DEF TypeInv, TypeOK, AttemptsLeft, Tick
<1>11. CASE UNCHANGED vars
  BY <1>0, <1>11 DEF TypeInv, TypeOK, AttemptsLeft, vars, callVars
<1> QED
  BY <1>1, <1>2, <1>3, <1>4, <1>5, <1>6, <1>7, <1>8, <1>9, <1>10, <1>11
     DEF Next, Attempt

\* Every variable keeps its type; a call makes at most MaxAttempts attempts
\* (withRetry).
THEOREM TypeCorrect == Spec => []TypeOK
<1>1. TypeInv => TypeOK
  BY DEF TypeInv
<1> QED
  BY <1>1, TypeInit, TypeStep, PTL DEF Spec

----------------------------------------------------------------------------
\* The breaker

BreakerInv == TypeInv /\ Below(breaker) /\ Cooled(breaker)

\* The breaker stays, ticks, or is worked on by its own operators.
LEMMA BreakerMoves ==
  ASSUME TypeInv, [Next]_vars
  PROVE  \/ UNCHANGED breaker
         \/ Tick
         \/ breaker' \in {Current(breaker), Succeeded(breaker)}
         \/ breaker' = Failed(breaker)
            /\ \E c \in Call : pc[c] = "waiting" /\ pc'[c] # "waiting"
<1>1. ASSUME NEW c \in Call, ServerFails(c) \/ ConnectionFails(c) \/ TimesOut(c)
      PROVE  /\ breaker' = Failed(breaker)
             /\ pc[c] = "waiting" /\ pc'[c] # "waiting"
  <2>1. pc \in [Call -> Stage]
    BY DEF TypeInv, TypeOK
  <2>2. pc[c] = "waiting" /\ \E t \in BOOLEAN : RequestFails(c, t)
    BY <1>1, FailureSteps
  <2> QED
    BY <2>1, <2>2 DEF RequestFails, Goto
<1>2. ASSUME NEW c \in Call, Attempt(c) \/ Settle(c)
      PROVE  \/ UNCHANGED breaker
             \/ breaker' \in {Current(breaker), Succeeded(breaker)}
  BY <1>2 DEF Attempt, FailFast, Send, Settle
<1>3. ASSUME NEW c \in Call,
             \/ Plan(c) \/ PlanFails(c) \/ Execute(c)
             \/ \E n \in 1..MaxAttempts : Serve(c, n) \/ LoseRequest(c, n)
      PROVE  UNCHANGED breaker
  BY <1>3 DEF Plan, PlanFails, Execute, Serve, LoseRequest
<1>4. CASE UNCHANGED vars
  BY <1>4 DEF vars
<1> QED
  BY <1>1, <1>2, <1>3, <1>4 DEF Next

LEMMA BreakerInit == Init => BreakerInv
BY TypeInit, ThresholdAssumption DEF Init, BreakerInv, Below, Cooled, Circuit

LEMMA BreakerStep == BreakerInv /\ [Next]_vars => BreakerInv'
<1> SUFFICES ASSUME BreakerInv, [Next]_vars PROVE BreakerInv'
  OBVIOUS
<1>0. breaker \in Breaker /\ Below(breaker) /\ Cooled(breaker) /\ TypeInv
  BY DEF BreakerInv, TypeInv, TypeOK
<1>1. TypeInv'
  BY <1>0, TypeStep
<1>2. /\ \A b \in {Current(breaker), Succeeded(breaker), Failed(breaker)} :
           Below(b) /\ Cooled(b)
  BY <1>0, BreakerCounts, BreakerCools
<1>3. CASE UNCHANGED breaker
  BY <1>0, <1>1, <1>3 DEF BreakerInv, Below, Cooled
<1>4. CASE Tick
  <2>1. Below(breaker')
    BY <1>0, <1>4 DEF Tick, Below, Circuit
  <2>2. Cooled(breaker')
    BY <1>0, <1>4, TimeAssumption DEF Tick, Cooled, Circuit
  <2> QED
    BY <1>1, <2>1, <2>2 DEF BreakerInv, Below, Cooled
<1>5. CASE breaker' \in {Current(breaker), Succeeded(breaker), Failed(breaker)}
  <2>1. Below(breaker') /\ Cooled(breaker')
    BY <1>2, <1>5
  <2> QED
    BY <1>1, <2>1 DEF BreakerInv, Below, Cooled
<1> QED
  BY <1>0, <1>3, <1>4, <1>5, BreakerMoves

\* However late answers come in, a closed breaker is below its failure
\* threshold and a half open one below its success threshold
\* (CircuitBreaker.onSuccess, onFailure).
THEOREM CountersStayBelow == Spec => []CountersBelowLimits
<1>1. BreakerInv => CountersBelowLimits
  BY DEF BreakerInv, Below, CountersBelowLimits
<1> QED
  BY <1>1, BreakerInit, BreakerStep, PTL DEF Spec

\* Who waits since before the last trip has waited since then, at the least.
OldInv == \A c \in old : pc[c] = "waiting" /\ age[c] >= breaker.since

LEMMA OldInvStep ==
  ASSUME TypeInv, OldInv, [Next]_vars
  PROVE  OldInv'
<1>0. /\ breaker \in Breaker /\ breaker.since \in 0..Cooldown /\ Cooldown \in Nat
      /\ pc \in [Call -> Stage] /\ age \in [Call -> 0..Timeout] /\ Timeout \in Nat
      /\ old \subseteq Call
  BY TimeAssumption DEF TypeInv, TypeOK, Breaker
<1>1. ASSUME NEW c \in Call, ServerFails(c) \/ ConnectionFails(c) \/ TimesOut(c)
      PROVE  OldInv'
  <2>1. PICK t \in BOOLEAN : RequestFails(c, t)
    BY <1>1, FailureSteps
  <2>2. \A d \in Call : d # c => pc'[d] = pc[d] /\ age'[d] = age[d]
    BY <1>0, <2>1 DEF RequestFails, Goto
  \* A trip starts the cooldown: everybody has waited for 0 ticks of it.
  <2>3. CASE Trips(breaker)
    <3>1. breaker'.since = 0 /\ old' = {d \in Call \ {c} : pc[d] = "waiting"}
      BY <2>1, <2>3 DEF RequestFails, Failed, Circuit
    <3> QED
      BY <1>0, <2>2, <3>1 DEF OldInv
  <2>4. CASE ~Trips(breaker)
    <3>1. breaker'.since = breaker.since /\ old' = old \ {c}
      BY <2>1, <2>4 DEF RequestFails, Failed, Circuit
    <3> QED
      BY <1>0, <2>2, <3>1 DEF OldInv
  <2> QED
    BY <2>3, <2>4
<1>2. ASSUME NEW c \in Call, Settle(c) PROVE OldInv'
  <2>1. breaker'.since = breaker.since /\ old' = old \ {c}
    BY <1>0, <1>2, BreakerHolds DEF Settle
  <2>2. \A d \in Call : d # c => pc'[d] = pc[d] /\ age'[d] = age[d]
    BY <1>0, <1>2 DEF Settle, Goto
  <2> QED
    BY <1>0, <2>1, <2>2 DEF OldInv
<1>3. ASSUME NEW c \in Call, Send(c) PROVE OldInv'
  <2>1. breaker'.since = breaker.since
    BY <1>0, <1>3, BreakerHolds DEF Send
  <2> QED
    BY <1>0, <1>3, <2>1 DEF OldInv, Send, Goto
<1>4. ASSUME NEW c \in Call,
             \/ Plan(c) \/ PlanFails(c) \/ Execute(c) \/ FailFast(c)
      PROVE  OldInv'
  BY <1>0, <1>4 DEF OldInv, Plan, PlanFails, Execute, FailFast, Goto
<1>5. ASSUME NEW c \in Call, NEW n \in 1..MaxAttempts,
             Serve(c, n) \/ LoseRequest(c, n)
      PROVE  OldInv'
  BY <1>5 DEF OldInv, Serve, LoseRequest, callVars
<1>6. CASE Tick
  <2>1. \A d \in old : age'[d] = age[d] + 1
    BY <1>0, <1>6 DEF Tick, OldInv
  <2>2. breaker'.since <= breaker.since + 1
    BY <1>0, <1>6 DEF Tick, Circuit
  <2>3. breaker'.since \in Nat
    BY <1>0, <1>6 DEF Tick, Circuit
  <2> QED
    BY <1>0, <1>6, <2>1, <2>2, <2>3 DEF OldInv, Tick
<1>7. CASE UNCHANGED vars
  BY <1>7 DEF OldInv, vars, callVars
<1> QED
  BY <1>1, <1>2, <1>3, <1>4, <1>5, <1>6, <1>7 DEF Next, Attempt

\* A half open breaker sees no answer to a request from before it tripped: a
\* request as old as the cooldown has met its abort timer.  The two are due in
\* the same instant when they are equal and the request was sent in that of the
\* trip (breaker.run, FetchTransport).
THEOREM OldAnswersAreSettled == Spec => []OldAnswersDoNotDecide
<1>1. BreakerInv /\ OldInv => OldAnswersDoNotDecide
  <2> SUFFICES ASSUME BreakerInv, OldInv, breaker.state = "half_open",
                      NEW c \in old
               PROVE  Timeout = Cooldown /\ age[c] = Timeout
    BY DEF OldAnswersDoNotDecide
  <2>1. age[c] >= Cooldown
    BY DEF BreakerInv, Cooled, OldInv
  <2>2. age[c] \in 0..Timeout
    BY DEF BreakerInv, TypeInv, TypeOK
  <2> QED
    BY <2>1, <2>2, TimeAssumption
<1>2. Init => OldInv
  BY DEF Init, OldInv
<1>3. BreakerInv /\ OldInv /\ [Next]_vars => OldInv'
  BY OldInvStep DEF BreakerInv
<1> QED
  BY <1>1, <1>2, <1>3, BreakerInit, BreakerStep, PTL DEF Spec

\* No answer takes a tripped breaker out of its cooldown.
THEOREM TripsHold == Spec => StaysOpen
<1>1. ASSUME TypeInv, [Next]_vars,
             breaker.state = "open" /\ breaker.since < Cooldown
      PROVE  breaker'.state = "open"
  <2>1. breaker \in Breaker
    BY <1>1 DEF TypeInv, TypeOK
  <2>2. \A b \in {Current(breaker), Succeeded(breaker), Failed(breaker)} :
          b.state = "open"
    BY <1>1, <2>1, BreakerHolds
  <2>3. CASE Tick
    BY <1>1, <2>3 DEF Tick, Circuit
  <2> QED
    BY <1>1, <2>2, <2>3, BreakerMoves
<1>2. TypeInv /\ [Next]_vars =>
        (breaker.state = "open" /\ breaker.since < Cooldown =>
           breaker'.state = "open")
  BY <1>1
<1> QED
  BY <1>2, TypeInit, TypeStep, PTL DEF Spec, StaysOpen

\* Calls that the breaker refuses do not start its cooldown again.
THEOREM RefusalsPass == Spec => RefusalsDoNotProlong
<1>1. ASSUME TypeInv, [Next]_vars, breaker'.since < breaker.since
      PROVE  \E c \in Call : pc[c] = "waiting" /\ pc'[c] # "waiting"
  <2>1. breaker \in Breaker /\ breaker.since \in 0..Cooldown /\ Cooldown \in Nat
    BY <1>1, TimeAssumption DEF TypeInv, TypeOK, Breaker
  <2>2. ~UNCHANGED breaker
    BY <1>1, <2>1
  <2>3. ~Tick
    BY <1>1, <2>1 DEF Tick, Circuit
  <2>4. \A b \in {Current(breaker), Succeeded(breaker)} : ~(b.since < breaker.since)
    BY <2>1, BreakerHolds
  <2> QED
    BY <1>1, <2>2, <2>3, <2>4, BreakerMoves
<1>2. TypeInv /\ [Next]_vars =>
        (breaker'.since < breaker.since =>
           \E c \in Call : pc[c] = "waiting" /\ pc'[c] # "waiting")
  BY <1>1
<1> QED
  BY <1>2, TypeInit, TypeStep, PTL DEF Spec, RefusalsDoNotProlong

----------------------------------------------------------------------------
\* High risk calls

\* Where a call has been planned the list is cached, and execute() has found
\* the descriptor.
Informed ==
  \A c \in Call :
    /\ pc[c] \notin {"idle", "unplanned"} => cached
    /\ pc[c] \notin {"idle", "unplanned", "planned"} => known[c]

\* The one request of a high risk call: not sent, under way, or settled.
Unsent(c) == attempt[c] = 0
Pending(c) == \E n \in 1..MaxAttempts : <<c, n>> \in inbox

OneRequest(c) ==
  /\ pc[c] \in {"idle", "unplanned", "planned", "ready"} => Unsent(c)
  /\ Unsent(c) => ran[c] = 0 /\ ~Pending(c)
  /\ Pending(c) => ran[c] = 0 /\ reply[c] = "none"
  /\ \A n \in 1..MaxAttempts : <<c, n>> \in inbox => n = 1
  /\ ran[c] <= 1

\* What came back for it, and what was answered, is so.
Truthful(c) ==
  /\ reply[c] # "none" => pc[c] = "waiting"
  /\ answer[c] # "none" => pc[c] = "answered"
  /\ reply[c] = "rejected" => ran[c] = 0
  /\ reply[c] = "ok" => ran[c] = 1
  /\ answer[c] = "open" => Unsent(c)
  /\ answer[c] = "rejected" => ran[c] = 0 /\ ~Pending(c)
  /\ answer[c] \in {"result", "unreadable"} => ran[c] = 1 /\ ~Pending(c)

HighInv ==
  /\ TypeInv
  /\ Informed
  /\ \A c \in High : OneRequest(c) /\ Truthful(c)

LEMMA HighInit == Init => HighInv
<1> SUFFICES ASSUME Init PROVE HighInv
  OBVIOUS
<1>1. Informed
  BY DEF Init, Informed
<1>2. ASSUME NEW c \in High PROVE OneRequest(c) /\ Truthful(c)
  BY HighAssumption DEF Init, OneRequest, Truthful, Unsent, Pending
<1> QED
  BY <1>1, <1>2, TypeInit DEF HighInv

\* A step of one call leaves what is said of another alone.
LEMMA Elsewhere ==
  ASSUME NEW d \in High, OneRequest(d), Truthful(d),
         pc'[d] = pc[d], attempt'[d] = attempt[d], reply'[d] = reply[d],
         answer'[d] = answer[d], ran'[d] = ran[d],
         \A n \in 1..MaxAttempts : <<d, n>> \in inbox' <=> <<d, n>> \in inbox
  PROVE  OneRequest(d)' /\ Truthful(d)'
BY DEF OneRequest, Truthful, Unsent, Pending

\* What is known of the tools only grows.
LEMMA InformedStep ==
  ASSUME HighInv, [Next]_vars PROVE Informed'
<1>0. TypeOK /\ Informed
  BY DEF HighInv, TypeInv
<1> USE DEF Goto
<1>1. ASSUME NEW c \in Call, Plan(c) \/ PlanFails(c) PROVE Informed'
  BY <1>0, <1>1 DEF TypeOK, Informed, Plan, PlanFails
<1>2. ASSUME NEW c \in Call, Execute(c) PROVE Informed'
  <2>1. cached = TRUE
    BY <1>0, <1>2 DEF TypeOK, Informed, Execute
  <2>2. cached' = TRUE /\ known' = [known EXCEPT ![c] = TRUE]
    BY <1>2, <2>1 DEF Execute
  <2> QED
    BY <1>0, <1>2, <2>2 DEF TypeOK, Informed, Execute
<1>3. ASSUME NEW c \in Call, Attempt(c) \/ Settle(c) PROVE Informed'
  BY <1>0, <1>3 DEF TypeOK, Informed, Attempt, FailFast, Send, Settle
<1>4. ASSUME NEW c \in Call, ServerFails(c) \/ ConnectionFails(c) \/ TimesOut(c)
      PROVE  Informed'
  <2>1. pc[c] = "waiting" /\ \E t \in BOOLEAN : RequestFails(c, t)
    BY <1>4, FailureSteps
  <2> QED
    BY <1>0, <2>1 DEF TypeOK, Informed, RequestFails
<1>5. ASSUME NEW c \in Call, NEW n \in 1..MaxAttempts,
             Serve(c, n) \/ LoseRequest(c, n)
      PROVE  Informed'
  BY <1>0, <1>5 DEF Informed, Serve, LoseRequest, callVars
<1>6. CASE Tick \/ UNCHANGED vars
  BY <1>0, <1>6 DEF Informed, Tick, vars, callVars
<1> QED
  BY <1>1, <1>2, <1>3, <1>4, <1>5, <1>6 DEF Next

LEMMA HighStep == HighInv /\ [Next]_vars => HighInv'
<1> SUFFICES ASSUME HighInv, [Next]_vars PROVE HighInv'
  OBVIOUS
<1>0. TypeInv /\ TypeOK /\ Informed
  BY DEF HighInv, TypeInv
<1>a. TypeInv' /\ Informed'
  BY <1>0, TypeStep, InformedStep
<1> SUFFICES ASSUME NEW d \in High PROVE OneRequest(d)' /\ Truthful(d)'
  BY <1>a DEF HighInv
<1>b. d \in Call /\ OneRequest(d) /\ Truthful(d)
  BY HighAssumption DEF HighInv
<1> USE DEF Goto
<1>1. ASSUME NEW c \in Call, Plan(c) \/ PlanFails(c) \/ Execute(c)
      PROVE  OneRequest(d)' /\ Truthful(d)'
  BY <1>0, <1>b, <1>1
     DEF TypeOK, OneRequest, Truthful, Unsent, Pending, Plan, PlanFails, Execute
<1>2. ASSUME NEW c \in Call, FailFast(c) PROVE OneRequest(d)' /\ Truthful(d)'
  BY <1>0, <1>b, <1>2
     DEF TypeOK, OneRequest, Truthful, Unsent, Pending, FailFast
<1>3. ASSUME NEW c \in Call, Send(c) PROVE OneRequest(d)' /\ Truthful(d)'
  <2>1. CASE c = d
    <3>1. attempt[d] = 0 /\ ran[d] = 0 /\ ~Pending(d)
      BY <1>b, <1>3, <2>1 DEF OneRequest, Send, Unsent
    <3>2. inbox' = inbox \cup {<<d, 1>>}
      BY <1>3, <2>1, <3>1 DEF Send
    <3>3. /\ pc'[d] = "waiting" /\ attempt'[d] = 1 /\ reply'[d] = reply[d]
          /\ answer'[d] = answer[d] /\ ran'[d] = 0
      BY <1>0, <1>b, <1>3, <2>1, <3>1 DEF TypeOK, Send
    <3>4. reply[d] = "none" /\ answer[d] = "none"
      BY <1>b, <1>3, <2>1 DEF Truthful, Send
    <3> QED
      BY <3>1, <3>2, <3>3, <3>4 DEF OneRequest, Truthful, Unsent, Pending
  <2>2. CASE c # d
    BY <1>0, <1>b, <1>3, <2>2, Elsewhere DEF TypeOK, Send
  <2> QED
    BY <2>1, <2>2
<1>4. ASSUME NEW c \in Call, Settle(c) PROVE OneRequest(d)' /\ Truthful(d)'
  <2>1. CASE c = d
    <3>1. /\ pc[d] = "waiting" /\ ~Pending(d)
          /\ reply[d] = "rejected" => ran[d] = 0
          /\ reply[d] = "ok" => ran[d] = 1
      BY <1>b, <1>4, <2>1 DEF OneRequest, Truthful, Settle
    <3>2. PICK a \in IF reply[d] = "ok" THEN {"result", "unreadable"}
                                       ELSE {"rejected"} :
            answer' = [answer EXCEPT ![d] = a]
      BY <1>4, <2>1 DEF Settle
    <3>3. /\ pc'[d] = "answered" /\ attempt'[d] = attempt[d]
          /\ reply'[d] = "none" /\ answer'[d] = a
          /\ ran'[d] = ran[d] /\ inbox' = inbox
      BY <1>0, <1>b, <1>4, <2>1, <3>2 DEF TypeOK, Settle
    <3>4. reply[d] = "ok" \/ reply[d] = "rejected"
      BY <1>4, <2>1 DEF Settle
    <3>5. OneRequest(d)'
      BY <1>b, <3>1, <3>3 DEF OneRequest, Unsent, Pending
    <3>6. Truthful(d)'
      BY <3>1, <3>2, <3>3, <3>4 DEF Truthful, Unsent, Pending
    <3> QED
      BY <3>5, <3>6
  <2>2. CASE c # d
    <3>1. PICK a \in Answer : answer' = [answer EXCEPT ![c] = a]
      BY <1>4 DEF Settle, Answer
    <3> QED
      BY <1>0, <1>b, <1>4, <2>2, <3>1, Elsewhere DEF TypeOK, Settle
  <2> QED
    BY <2>1, <2>2
<1>5. ASSUME NEW c \in Call, ServerFails(c) \/ ConnectionFails(c) \/ TimesOut(c)
      PROVE  OneRequest(d)' /\ Truthful(d)'
  <2>1. pc[c] = "waiting"
    BY <1>5, FailureSteps
  <2>2. PICK t \in BOOLEAN : RequestFails(c, t)
    BY <1>5, FailureSteps
  <2>3. PICK r \in BOOLEAN :
          /\ r => attempt[c] < Limit(c)
          /\ pc' = [pc EXCEPT ![c] = IF r THEN "ready" ELSE "answered"]
          /\ answer' = [answer EXCEPT ![c] = IF r THEN "none" ELSE "unavailable"]
    BY <2>2 DEF RequestFails
  <2>4. CASE c = d
    <3>1. Limit(d) = 1
      BY <1>0, <1>b, <2>1, <2>4 DEF Informed, Limit
    <3>2. r => attempt[d] = 0
      BY <1>0, <1>b, <2>3, <2>4, <3>1 DEF TypeOK
    <3>3. /\ attempt'[d] = attempt[d] /\ reply'[d] = "none"
          /\ ran'[d] = ran[d] /\ inbox' = inbox
          /\ pc'[d] = (IF r THEN "ready" ELSE "answered")
          /\ answer'[d] = (IF r THEN "none" ELSE "unavailable")
      BY <1>0, <1>b, <2>2, <2>3, <2>4 DEF TypeOK, RequestFails
    <3> QED
      BY <1>b, <3>2, <3>3 DEF OneRequest, Truthful, Unsent, Pending
  <2>5. CASE c # d
    BY <1>0, <1>b, <2>2, <2>3, <2>5, Elsewhere DEF TypeOK, RequestFails
  <2> QED
    BY <2>4, <2>5
<1>6. ASSUME NEW c \in Call, NEW n \in 1..MaxAttempts, Serve(c, n)
      PROVE  OneRequest(d)' /\ Truthful(d)'
  <2>1. PICK s \in {"ok", "rejected", "failed"}, runs \in 0..1 :
          /\ s = "ok" => runs = 1
          /\ s = "rejected" => runs = 0
          /\ ran' = [ran EXCEPT ![c] = @ + runs]
          /\ reply' = [reply EXCEPT ![c] =
                         IF pc[c] = "waiting" /\ attempt[c] = n THEN s ELSE @]
    BY <1>6 DEF Serve
  <2>2. /\ <<c, n>> \in inbox /\ inbox' = inbox \ {<<c, n>>}
        /\ UNCHANGED <<pc, attempt, answer>>
    BY <1>6 DEF Serve
  <2>3. CASE c = d
    <3>1. Pending(d) /\ n = 1
      BY <1>b, <2>2, <2>3 DEF OneRequest, Pending
    <3>2. ran[d] = 0 /\ reply[d] = "none" /\ ~Unsent(d)
      BY <1>b, <3>1 DEF OneRequest
    <3>3. ~Pending(d)'
      BY <1>b, <2>2, <2>3, <3>1 DEF OneRequest, Pending
    <3>4. ran'[d] = runs /\ reply'[d] \in {s, "none"}
      BY <1>0, <1>b, <2>1, <2>3, <3>2 DEF TypeOK
    <3>5. reply'[d] # "none" => pc[d] = "waiting"
      BY <1>0, <1>b, <2>1, <2>3, <3>2 DEF TypeOK
    <3>6. answer[d] \notin {"open", "rejected", "result", "unreadable"}
      BY <1>b, <3>1, <3>2 DEF Truthful
    <3>7. ~Unsent(d)' /\ ran'[d] <= 1
      BY <2>2, <3>2, <3>4 DEF Unsent
    <3>8. pc'[d] \notin {"idle", "unplanned", "planned", "ready"}
      BY <1>b, <2>2, <3>2 DEF OneRequest
    <3>9. \A m \in 1..MaxAttempts : <<d, m>> \notin inbox'
      BY <3>3 DEF Pending
    <3>10. OneRequest(d)'
      BY <3>3, <3>7, <3>8, <3>9 DEF OneRequest
    <3>11. Truthful(d)'
      BY <1>b, <2>1, <2>2, <3>3, <3>4, <3>5, <3>6 DEF Truthful, Unsent
    <3> QED
      BY <3>10, <3>11
  <2>4. CASE c # d
    BY <1>0, <1>b, <2>1, <2>2, <2>4, Elsewhere DEF TypeOK
  <2> QED
    BY <2>3, <2>4
<1>7. ASSUME NEW c \in Call, NEW n \in 1..MaxAttempts, LoseRequest(c, n)
      PROVE  OneRequest(d)' /\ Truthful(d)'
  <2>1. UNCHANGED <<pc, attempt, reply, answer, ran>> /\ inbox' = inbox \ {<<c, n>>}
    BY <1>7 DEF LoseRequest, callVars
  <2>2. Unsent(d)' = Unsent(d) /\ (Pending(d)' => Pending(d))
    BY <2>1 DEF Unsent, Pending
  <2>3. \A m \in 1..MaxAttempts : <<d, m>> \in inbox' => <<d, m>> \in inbox
    BY <2>1
  <2>4. \A m \in 1..MaxAttempts : <<d, m>> \in inbox' => m = 1
    BY <1>b, <2>3 DEF OneRequest
  <2>5. OneRequest(d)'
    BY <1>b, <2>1, <2>2, <2>4 DEF OneRequest
  <2>6. Truthful(d)'
    BY <1>b, <2>1, <2>2 DEF Truthful
  <2> QED
    BY <2>5, <2>6
<1>8. CASE Tick \/ UNCHANGED vars
  BY <1>b, <1>8
     DEF OneRequest, Truthful, Unsent, Pending, Tick, vars, callVars
<1> QED
  BY <1>1, <1>2, <1>3, <1>4, <1>5, <1>6, <1>7, <1>8 DEF Next, Attempt

\* The tool of a high risk call is run at most once, whatever the network
\* loses or delays (RemoteToolGateway.execute).
THEOREM HighRiskRunsOnce == Spec => []HighRiskOnce
<1>1. HighInv => HighRiskOnce
  BY DEF HighInv, OneRequest, HighRiskOnce
<1> QED
  BY <1>1, HighInit, HighStep, PTL DEF Spec

\* A high risk call that was refused or rejected was not run and will not be;
\* one with a result was run.
THEOREM HighAnswersHold == Spec => []HighAnswersAreTrue
<1>1. HighInv => HighAnswersAreTrue
  BY DEF HighInv, OneRequest, Truthful, Unsent, Pending, HighAnswersAreTrue
<1> QED
  BY <1>1, HighInit, HighStep, PTL DEF Spec

=============================================================================
