-------------------------- MODULE ToolGateway --------------------------
(***************************************************************************)
(* RemoteToolGateway: tools executed in another service, behind one        *)
(* circuit breaker that all calls of the process share, with retries for   *)
(* tools that are not of high risk.                                        *)
(*                                                                         *)
(* A call is planned from the tool list, then execute() attempts it: each  *)
(* attempt asks the breaker, sends a request and waits for the answer or   *)
(* the abort timer.  An abandoned request may still reach the service.     *)
(* Time is counted from what the code compares it with: the age of the     *)
(* request a call waits for, and the time since the breaker tripped, which *)
(* is not counted past the cooldown.  The service and the network are      *)
(* external.                                                               *)
(*                                                                         *)
(* A Mutant_ operator is the definition below it with a plausible bug.     *)
(***************************************************************************)
EXTENDS Naturals

CONSTANTS
  Call,              \* the tool calls of one process
  High,              \* those of tools with riskLevel high
  FailureThreshold, SuccessThreshold, Cooldown,    \* CircuitOptions
  MaxAttempts,       \* RetryOptions
  Timeout            \* timeoutMs of FetchTransport

ASSUME HighAssumption == High \subseteq Call
ASSUME ThresholdAssumption ==
  FailureThreshold \in Nat \ {0} /\ SuccessThreshold \in Nat \ {0}
ASSUME AttemptAssumption == MaxAttempts \in Nat \ {0}

\* The defaults of TOOL_TIMEOUT_MS and cooldownMs are equal.
ASSUME TimeAssumption ==
  Timeout \in Nat \ {0} /\ Cooldown \in Nat /\ Timeout <= Cooldown

VARIABLES
  breaker,    \* the CircuitBreaker
  cached,     \* the tool list is cached
  pc,         \* where each call is
  known,      \* execute() found the tool's descriptor
  attempt,    \* attempts made
  age,        \* how long the call has waited for its request
  old,        \* history: calls that wait since before the breaker last tripped
  reply,      \* what came back for that request
  answer,     \* what execute() returned
  inbox,      \* requests that the service may still serve
  ran         \* how often the tool was run for a call

callVars == <<pc, known, attempt, age, old, reply, answer>>
vars == <<breaker, cached, callVars, inbox, ran>>

Circuit(state, failures, successes, since) ==
  [state |-> state, failures |-> failures, successes |-> successes,
   since |-> since]

CircuitState == {"closed", "open", "half_open"}
Breaker == [state : CircuitState, failures : Nat, successes : Nat,
            since : 0..Cooldown]
Stage == {"idle", "unplanned", "planned", "ready", "waiting", "answered"}
Reply == {"none", "ok", "rejected", "failed"}
Answer == {"none", "result", "unreadable", "rejected", "open", "unavailable"}

----------------------------------------------------------------------------
\* CircuitBreaker

Mutant_Current(b) ==
  IF b.state = "open" THEN Circuit("half_open", b.failures, 0, b.since) ELSE b

\* getState: an open breaker becomes half open when its cooldown is over.
Current(b) ==
  IF b.state = "open" /\ b.since >= Cooldown
  THEN Circuit("half_open", b.failures, 0, b.since)
  ELSE b

Mutant_AnySuccessCloses(b) ==
  IF b.state # "half_open" \/ b.successes + 1 >= SuccessThreshold
  THEN Circuit("closed", 0, 0, b.since)
  ELSE Circuit("half_open", b.failures, b.successes + 1, b.since)

\* onSuccess: SuccessThreshold successes close a half open breaker.
Succeeded(b) ==
  IF b.state # "half_open" THEN Circuit(b.state, 0, b.successes, b.since)
  ELSE IF b.successes + 1 >= SuccessThreshold
       THEN Circuit("closed", 0, 0, b.since)
       ELSE Circuit("half_open", b.failures, b.successes + 1, b.since)

\* One failure opens a half open breaker, in any other state the
\* FailureThreshold-th does.
Trips(b) == b.state = "half_open" \/ b.failures + 1 >= FailureThreshold

\* onFailure and trip; a half open breaker does not count the failure.
Failed(b) ==
  LET failures == IF b.state = "half_open" THEN b.failures ELSE b.failures + 1
  IN  IF Trips(b) THEN Circuit("open", failures, 0, 0)
                  ELSE Circuit(b.state, failures, b.successes, b.since)

----------------------------------------------------------------------------

Init ==
  /\ breaker = Circuit("closed", 0, 0, Cooldown)
  /\ cached = FALSE
  /\ pc = [c \in Call |-> "idle"]
  /\ known = [c \in Call |-> FALSE]
  /\ attempt = [c \in Call |-> 0]
  /\ age = [c \in Call |-> 0]
  /\ old = {}
  /\ reply = [c \in Call |-> "none"]
  /\ answer = [c \in Call |-> "none"]
  /\ inbox = {}
  /\ ran = [c \in Call |-> 0]

Goto(c, stage) == pc' = [pc EXCEPT ![c] = stage]

\* AgentLoop lists the tools before it plans a call; without a list there is
\* no call.
Mutant_Plan(c) ==
  /\ pc[c] = "idle"
  /\ Goto(c, "planned")
  /\ UNCHANGED <<breaker, cached, known, attempt, age, old, reply, answer, inbox, ran>>

Plan(c) ==
  /\ pc[c] = "idle"
  /\ cached' = TRUE
  /\ Goto(c, "planned")
  /\ UNCHANGED <<breaker, known, attempt, age, old, reply, answer, inbox, ran>>

PlanFails(c) ==
  /\ pc[c] = "idle" /\ ~cached
  /\ Goto(c, "unplanned")
  /\ UNCHANGED <<breaker, cached, known, attempt, age, old, reply, answer, inbox, ran>>

\* execute() looks the descriptor up again, and goes on without it when that
\* fails.
Execute(c) ==
  /\ pc[c] = "planned"
  /\ \E found \in {TRUE, cached} :
       /\ known' = [known EXCEPT ![c] = found]
       /\ cached' = found
  /\ Goto(c, "ready")
  /\ UNCHANGED <<breaker, attempt, age, old, reply, answer, inbox, ran>>

Mutant_Limit(c) == MaxAttempts

\* A call known to be of high risk has one attempt.
Limit(c) == IF known[c] /\ c \in High THEN 1 ELSE MaxAttempts

----------------------------------------------------------------------------
\* One attempt: breaker.run inside withRetry

\* The breaker is open: CircuitOpenError, which is not retried.
FailFast(c) ==
  /\ pc[c] = "ready"
  /\ Current(breaker).state = "open"
  /\ answer' = [answer EXCEPT ![c] = "open"]
  /\ Goto(c, "answered")
  /\ UNCHANGED <<breaker, cached, known, attempt, age, old, reply, inbox, ran>>

Send(c) ==
  /\ pc[c] = "ready"
  /\ Current(breaker).state # "open"
  /\ breaker' = Current(breaker)
  /\ attempt' = [attempt EXCEPT ![c] = @ + 1]
  /\ inbox' = inbox \cup {<<c, attempt[c] + 1>>}
  /\ Goto(c, "waiting")
  /\ UNCHANGED <<cached, known, age, old, reply, answer, ran>>

\* The request fails for this call, wherever it is.  A transient failure is
\* retried after a pause, when attempts are left.
RequestFails(c, transient) ==
  LET retry == transient /\ attempt[c] < Limit(c)
  IN /\ breaker' = Failed(breaker)
     /\ Goto(c, IF retry THEN "ready" ELSE "answered")
     /\ answer' = [answer EXCEPT ![c] = IF retry THEN "none" ELSE "unavailable"]
     /\ age' = [age EXCEPT ![c] = 0]
     /\ old' = IF Trips(breaker) THEN {d \in Call \ {c} : pc[d] = "waiting"}
                                ELSE old \ {c}
     /\ reply' = [reply EXCEPT ![c] = "none"]
     /\ UNCHANGED <<cached, known, attempt, inbox, ran>>

\* A status below 500 is a success to the breaker.
Settle(c) ==
  /\ pc[c] = "waiting" /\ reply[c] \in {"ok", "rejected"}
  /\ breaker' = Succeeded(breaker)
  /\ \E a \in IF reply[c] = "ok" THEN {"result", "unreadable"} ELSE {"rejected"} :
       answer' = [answer EXCEPT ![c] = a]
  /\ Goto(c, "answered")
  /\ age' = [age EXCEPT ![c] = 0]
  /\ old' = old \ {c}
  /\ reply' = [reply EXCEPT ![c] = "none"]
  /\ UNCHANGED <<cached, known, attempt, inbox, ran>>

ServerFails(c) ==
  pc[c] = "waiting" /\ reply[c] = "failed" /\ RequestFails(c, TRUE)

\* The connection breaks; not every message counts as transient.
ConnectionFails(c) ==
  pc[c] = "waiting" /\ \E transient \in BOOLEAN : RequestFails(c, transient)

Mutant_TimerCleared(c) ==
  /\ pc[c] = "waiting" /\ age[c] >= Timeout /\ reply[c] = "none"
  /\ RequestFails(c, TRUE)

TimesOut(c) ==
  pc[c] = "waiting" /\ age[c] >= Timeout /\ RequestFails(c, TRUE)

\* Timers are punctual.
Tick ==
  /\ \A c \in Call : pc[c] = "waiting" => age[c] < Timeout
  /\ age' = [c \in Call |-> IF pc[c] = "waiting" THEN age[c] + 1 ELSE age[c]]
  /\ breaker' = Circuit(breaker.state, breaker.failures, breaker.successes,
                        IF breaker.since < Cooldown THEN breaker.since + 1
                                                    ELSE breaker.since)
  /\ UNCHANGED <<cached, pc, known, attempt, old, reply, answer, inbox, ran>>

----------------------------------------------------------------------------
\* The tool service and the network

\* A request is served, whether or not anyone still waits for it: the tool
\* is run, or refused for its name or parameters, or the service (or a proxy
\* before it) fails before or after running it.
Serve(c, n) ==
  /\ <<c, n>> \in inbox
  /\ inbox' = inbox \ {<<c, n>>}
  /\ \E s \in {"ok", "rejected", "failed"}, runs \in 0..1 :
       /\ s = "ok" => runs = 1
       /\ s = "rejected" => runs = 0
       /\ ran' = [ran EXCEPT ![c] = @ + runs]
       /\ reply' = [reply EXCEPT ![c] =
                      IF pc[c] = "waiting" /\ attempt[c] = n THEN s ELSE @]
  /\ UNCHANGED <<breaker, cached, pc, known, attempt, age, old, answer>>

LoseRequest(c, n) ==
  /\ <<c, n>> \in inbox
  /\ inbox' = inbox \ {<<c, n>>}
  /\ UNCHANGED <<breaker, cached, callVars, ran>>

----------------------------------------------------------------------------

Attempt(c) == FailFast(c) \/ Send(c)

Next ==
  \/ \E c \in Call :
       \/ Plan(c) \/ PlanFails(c) \/ Execute(c) \/ Attempt(c)
       \/ Settle(c) \/ ServerFails(c) \/ ConnectionFails(c) \/ TimesOut(c)
       \/ \E n \in 1..MaxAttempts : Serve(c, n) \/ LoseRequest(c, n)
  \/ Tick

Spec == Init /\ [][Next]_vars

\* The event loop runs what is due, and time passes.
FairSpec ==
  /\ Spec
  /\ WF_vars(Tick)
  /\ \A c \in Call : WF_vars(Attempt(c)) /\ WF_vars(TimesOut(c))
                     /\ WF_vars(Settle(c))

----------------------------------------------------------------------------
\* Properties

\* Every variable has its type.
TypeOK ==
  /\ breaker \in Breaker
  /\ cached \in BOOLEAN
  /\ pc \in [Call -> Stage]
  /\ known \in [Call -> BOOLEAN]
  /\ attempt \in [Call -> 0..MaxAttempts]
  /\ age \in [Call -> 0..Timeout]
  /\ old \subseteq Call
  /\ reply \in [Call -> Reply]
  /\ answer \in [Call -> Answer]
  /\ inbox \subseteq Call \X (1..MaxAttempts)
  /\ ran \in [Call -> Nat]

\* A high risk tool is run at most once for a call, whatever is lost, late or
\* refused (RemoteToolGateway.execute: high risk is never retried), though the
\* risk is only known while the list is.
HighRiskOnce == \A c \in High : ran[c] <= 1

\* What a high risk call is answered is so: when the breaker refused it, or
\* the service rejected it, the tool was not run and no request is left that
\* could run it; when there is a result, it was run.
HighAnswersAreTrue ==
  \A c \in High :
    /\ answer[c] \in {"open", "rejected"} =>
         ran[c] = 0 /\ \A n \in 1..MaxAttempts : <<c, n>> \notin inbox
    /\ answer[c] \in {"result", "unreadable"} => ran[c] = 1

\* A closed breaker has a failure to spare, and a half open one a success to
\* wait for, whatever answers came in late.
CountersBelowLimits ==
  /\ breaker.state = "closed" => breaker.failures < FailureThreshold
  /\ breaker.state = "half_open" => breaker.successes < SuccessThreshold

\* A request sent before the breaker tripped is settled before the breaker is
\* half open, where its answer would count like a probe's: its abort timer runs
\* out first.  With a timer as long as the cooldown, as in the defaults, one
\* kind is left: a request sent in the very instant of the trip, whose timer is
\* due in the instant in which another call makes the breaker half open.
OldAnswersDoNotDecide ==
  breaker.state = "half_open" =>
    \A c \in old : Timeout = Cooldown /\ age[c] = Timeout

\* A tripped breaker stays open until its cooldown is over, late successes
\* notwithstanding.
StaysOpen ==
  [][breaker.state = "open" /\ breaker.since < Cooldown =>
       breaker'.state = "open"]_vars

\* Only the failure of a request that was sent starts a cooldown again: calls
\* the breaker refuses do not keep it open.
RefusalsDoNotProlong ==
  [][breaker'.since < breaker.since =>
       \E c \in Call : pc[c] = "waiting" /\ pc'[c] # "waiting"]_vars

\* Every attempted call is answered: it does not wait past the abort timer,
\* and does not try for ever.
EveryCallAnswered ==
  \A c \in Call : pc[c] = "ready" ~> pc[c] = "answered"

=============================================================================
