------------------------------ MODULE Edge ------------------------------
(***************************************************************************)
(* What a request meets before its handler, and what a process does when   *)
(* it is told to stop: the authentication and rate limiting hooks, and     *)
(* installGracefulShutdown.                                                *)
(*                                                                         *)
(* Several processes serve one credential.  They share the counters of the *)
(* rate limiter in Redis, one for each window of time; a process that      *)
(* cannot reach Redis, at its start or for one request, has a token bucket *)
(* of its own.  The clock counts windows.  A hook's steps are separated    *)
(* where it awaits.                                                        *)
(***************************************************************************)
EXTENDS Integers, FiniteSetsExt

CONSTANTS
  Process,     \* the processes of the server
  Connected,   \* bound: the sets of processes that reach Redis at their start
  Told,        \* bound: those of them that may get a signal
  Rps,         \* AGENT_RATE_LIMIT_RPS, the requests allowed in a window
  Burst,       \* the size of a token bucket
  NoProcess,   \* of a request that has not arrived
  NoTenant,    \* no tenant is named
  NoSession,   \* no session is named
  Missing,     \* the session that is named does not exist
  MaxRequests, \* bound: requests that carry the credential
  MaxNow       \* bound: windows

ASSUME EdgeAssumption ==
  /\ Connected \subseteq SUBSET Process /\ Told \subseteq Process
  /\ NoProcess \notin Process
  /\ Rps \in Nat \ {0} /\ Burst \in Nat \ {0}
  /\ MaxRequests \in Nat /\ MaxNow \in Nat
ASSUME NamesAssumption ==
  NoSession \notin {"a", "b", "anonymous", NoTenant, Missing}

VARIABLES
  kind,     \* the rate limiter each process got at its start
  phase,    \* where each process is between its start and its exit
  now,      \* the window the clock is in
  count,    \* rl:<key>:<window> in Redis, 0 without the key
  expiry,   \* when that key expires, 0 while it does not
  bucket,   \* the token bucket of each process
  req,      \* where each request is
  passed,   \* history: the requests each window's key let through while it lived
  given     \* history: the tokens each process gave away since each window began

limits == <<now, count, expiry, bucket, passed, given>>
vars == <<kind, phase, limits, req>>

\* The requests, in the order in which they come.
Request == 1..MaxRequests
Window == 0..MaxNow
Phase == {"up", "draining", "closing", "releasing", "exited"}
InFlight == {"auth", "incr", "pexpire", "serving"}
Stage == InFlight \cup {"idle", "over"}

\* RedisRateLimiter.open: windowMs is one window.
Limit == Max({1, Rps})

TypeOK ==
  /\ kind \in [Process -> {"redis", "in-process"}]
  /\ phase \in [Process -> Phase]
  /\ now \in Window
  /\ count \in [Window -> Nat]
  /\ expiry \in [Window -> Nat]
  /\ bucket \in [Process -> [tokens : 0..Burst, last : Window]]
  /\ req \in [Request -> [at : Stage, proc : Process \cup {NoProcess}, label : Window]]
  /\ passed \in [Window -> Nat]
  /\ given \in [Process -> [Window -> Nat]]

Full == [tokens |-> Burst, last |-> 0]
Idle == [at |-> "idle", proc |-> NoProcess, label |-> 0]

\* createRateLimiter has opened Redis or fallen back to a bucket, before the
\* process listens.  (With no limit at all there is nothing to say.)
Init ==
  /\ \E connected \in Connected :
       kind = [p \in Process |-> IF p \in connected THEN "redis" ELSE "in-process"]
  /\ phase = [p \in Process |-> "up"]
  /\ now = 0
  /\ count = [w \in Window |-> 0]
  /\ expiry = [w \in Window |-> 0]
  /\ bucket = [p \in Process |-> Full]
  /\ req = [r \in Request |-> Idle]
  /\ passed = [w \in Window |-> 0]
  /\ given = [p \in Process |-> [w \in Window |-> 0]]

----------------------------------------------------------------------------
\* Who may see what

\* canAccessTenant: a session without a tenant belongs to `anonymous'.
CanAccess(principal, tenant) ==
  \/ "admin" \in principal.scopes
  \/ principal.tenant = IF tenant = NoTenant THEN "anonymous" ELSE tenant

\* The first answers of prepareTurn to a chat in `session', which is its
\* tenant, or NoSession or Missing; `named' is the tenant_id of the body.
Mutant_ChatAnswer(principal, named, session) ==
  LET bound == IF named = NoTenant THEN principal.tenant ELSE named
  IN  IF session = Missing THEN "404 session_not_found"
      ELSE IF ~CanAccess(principal, bound) THEN "403 tenant_mismatch"
      ELSE IF session # NoSession /\ ~CanAccess(principal, session)
      THEN "404 session_not_found"
      ELSE "turn"

ChatAnswer(principal, named, session) ==
  LET bound == IF named = NoTenant THEN principal.tenant ELSE named
  IN  IF ~CanAccess(principal, bound) THEN "403 tenant_mismatch"
      ELSE IF session # NoSession /\ (session = Missing \/ ~CanAccess(principal, session))
      THEN "404 session_not_found"
      ELSE "turn"

\* loadOwnedSession, behind requireScope, of the endpoints that read a session.
ReadAnswer(principal, session) ==
  IF "read" \notin principal.scopes THEN "403 insufficient_scope"
  ELSE IF session = Missing \/ ~CanAccess(principal, session)
  THEN "404 session_not_found"
  ELSE "200"

----------------------------------------------------------------------------
\* Helpers

Goto(r, stage) == req' = [req EXCEPT ![r].at = stage]

\* The request passes the limiter and its handler starts; or it is answered.
Serve(r) == req' = [req EXCEPT ![r].at = "serving", ![r].label = 0]
Answer(r) == req' = [req EXCEPT ![r] = [Idle EXCEPT !.at = "over"]]

On(p, stages) == {r \in Request : req[r].proc = p /\ req[r].at \in stages}

\* A token of the bucket of p is given away in this window.
Give(p) ==
  given' = [given EXCEPT ![p] =
              [w \in Window |-> IF w <= now THEN given[p][w] + 1 ELSE given[p][w]]]

\* InProcessRateLimiter.consume on the bucket of the request's process.
Refilled(b) == Min({Burst, b.tokens + (now - b.last) * Rps})

TakeToken(r) ==
  LET p == req[r].proc
      tokens == Refilled(bucket[p])
  IN  IF tokens < 1
      THEN /\ bucket' = [bucket EXCEPT ![p] = [tokens |-> tokens, last |-> now]]
           /\ Answer(r)
           /\ UNCHANGED given
      ELSE /\ bucket' = [bucket EXCEPT ![p] = [tokens |-> tokens - 1, last |-> now]]
           /\ Serve(r)
           /\ Give(p)

\* The counter lets the request pass.
Pass(r) ==
  LET w == req[r].label
  IN  /\ Serve(r)
      /\ passed' = IF now < w + 2 THEN [passed EXCEPT ![w] = @ + 1] ELSE passed

----------------------------------------------------------------------------
\* Authentication

\* The server listens until app.close(); while it drains the load balancer
\* may not know yet.
Arrive(r, p) ==
  /\ req[r].at = "idle" /\ \A q \in 1..(r - 1) : req[q].at # "idle"
  /\ phase[p] \in {"up", "draining"}
  /\ req' = [req EXCEPT ![r].at = "auth", ![r].proc = p]
  /\ UNCHANGED <<kind, phase, limits>>

\* findByHash answers, and consume() begins; with Redis, by the window the
\* clock is in now.
Authenticate(r) ==
  /\ req[r].at = "auth"
  /\ \/ /\ kind[req[r].proc] = "redis"
        /\ req' = [req EXCEPT ![r].at = "incr", ![r].label = now]
        /\ UNCHANGED <<bucket, given>>
     \/ kind[req[r].proc] = "in-process" /\ TakeToken(r)
  /\ UNCHANGED <<kind, phase, now, count, expiry, passed>>

\* There is no such key, it is revoked, or the lookup fails: 401 or 500.
AuthFails(r) ==
  /\ req[r].at = "auth"
  /\ Answer(r)
  /\ UNCHANGED <<kind, phase, limits>>

----------------------------------------------------------------------------
\* RedisRateLimiter.consume

Incr(w) == count' = [count EXCEPT ![w] = @ + 1]
Expire(w) == expiry' = [expiry EXCEPT ![w] = now + 2]

\* INCR answers; only the first of a window goes on to set the expiry.
Increment(r) ==
  LET w == req[r].label
  IN  /\ req[r].at = "incr"
      /\ Incr(w)
      /\ \/ count[w] = 0 /\ Goto(r, "pexpire") /\ UNCHANGED passed
         \/ count[w] \in 1..(Limit - 1) /\ Pass(r)
         \/ count[w] >= Limit /\ Answer(r) /\ UNCHANGED passed
      /\ UNCHANGED <<kind, phase, now, expiry, bucket, given>>

\* PEXPIRE, two windows from now.
SetExpiry(r) ==
  /\ req[r].at = "pexpire"
  /\ Expire(req[r].label)
  /\ Pass(r)
  /\ UNCHANGED <<kind, phase, now, count, bucket, given>>

\* Redis fails at the INCR or the PEXPIRE, which may have been carried out: this
\* request is up to the bucket of its process.
Mutant_RedisFails(r) ==
  /\ req[r].at \in {"incr", "pexpire"}
  /\ Serve(r)
  /\ Give(req[r].proc)
  /\ UNCHANGED <<kind, phase, now, count, expiry, bucket, passed>>

RedisFails(r) ==
  /\ req[r].at \in {"incr", "pexpire"}
  /\ \/ UNCHANGED <<count, expiry>>
     \/ req[r].at = "incr" /\ Incr(req[r].label) /\ UNCHANGED expiry
     \/ req[r].at = "pexpire" /\ Expire(req[r].label) /\ UNCHANGED count
  /\ TakeToken(r)
  /\ UNCHANGED <<kind, phase, now, passed>>

\* The next window begins and keys expire.
Tick ==
  /\ now < MaxNow
  /\ now' = now + 1
  /\ LET gone == {w \in Window : expiry[w] # 0 /\ expiry[w] <= now + 1}
     IN  /\ count' = [w \in Window |-> IF w \in gone THEN 0 ELSE count[w]]
         /\ expiry' = [w \in Window |-> IF w \in gone THEN 0 ELSE expiry[w]]
  /\ UNCHANGED <<kind, phase, bucket, req, passed, given>>

\* The handler answers.
Finish(r) ==
  /\ req[r].at = "serving"
  /\ Answer(r)
  /\ UNCHANGED <<kind, phase, limits>>

----------------------------------------------------------------------------
\* installGracefulShutdown

Enter(p, ph) == phase' = [phase EXCEPT ![p] = ph]

\* process.exit: what is in flight is lost, and the bucket with it.
Exit(p) ==
  /\ Enter(p, "exited")
  /\ req' = [r \in Request |->
               IF r \in On(p, InFlight) THEN [Idle EXCEPT !.at = "over"] ELSE req[r]]
  /\ bucket' = [bucket EXCEPT ![p] = Full]
  /\ UNCHANGED <<kind, now, count, expiry, passed, given>>

\* The first signal: startDraining, and the wait for the load balancer.
FirstSignal(p) ==
  /\ p \in Told /\ phase[p] = "up"
  /\ Enter(p, "draining")
  /\ UNCHANGED <<kind, limits, req>>

\* A second one: shutdown() returns at once, and its caller exits with 0.
SecondSignal(p) ==
  /\ phase[p] \in {"draining", "closing", "releasing"}
  /\ Exit(p)

\* The wait is over: the grace timer is set and app.close() called.
BeginClosing(p) ==
  /\ phase[p] = "draining"
  /\ Enter(p, "closing")
  /\ UNCHANGED <<kind, limits, req>>

\* app.close() answers, with nothing in flight any more: closeResources.
Closed(p) ==
  /\ phase[p] = "closing"
  /\ On(p, InFlight) = {}
  /\ Enter(p, "releasing")
  /\ UNCHANGED <<kind, limits, req>>

\* closeResources has answered or failed, or app.close() failed in one of the
\* onClose hooks: the grace timer is cleared, exit with 0.
Leave(p) ==
  /\ \/ phase[p] = "releasing"
     \/ phase[p] = "closing" /\ On(p, InFlight) = {}
  /\ Exit(p)

\* The grace timer: exit with 1.
Mutant_GraceIsOver(p) ==
  /\ phase[p] = "closing"
  /\ On(p, {"serving"}) = {}
  /\ Exit(p)

GraceIsOver(p) ==
  /\ phase[p] \in {"closing", "releasing"}
  /\ Exit(p)

----------------------------------------------------------------------------

Next ==
  \/ \E r \in Request :
       \/ \E p \in Process : Arrive(r, p)
       \/ Authenticate(r) \/ AuthFails(r)
       \/ Increment(r) \/ SetExpiry(r) \/ RedisFails(r)
       \/ Finish(r)
  \/ \E p \in Process :
       \/ FirstSignal(p) \/ SecondSignal(p)
       \/ BeginClosing(p) \/ Closed(p) \/ Leave(p) \/ GraceIsOver(p)
  \/ Tick

Spec == Init /\ [][Next]_vars

\* Timers fire.  Nothing says that a request ends, or that app.close() and
\* closeResources answer.
FairSpec ==
  /\ Spec
  /\ \A p \in Told : WF_vars(BeginClosing(p)) /\ WF_vars(GraceIsOver(p))

----------------------------------------------------------------------------
\* Properties

\* The counter of a window lets no more than the limit through before its key
\* may expire (RedisRateLimiter.consume).
CountersHold == \A w \in Window : passed[w] <= Limit

\* A failing Redis does not open the door: the counters hold, and no process
\* ever lets more through on its own account than its bucket holds and is refilled
\* with (RedisRateLimiter's comment: it falls back to limiting in the process,
\* not to letting everything pass).
DegradedNotOpen ==
  /\ CountersHold
  /\ \A p \in Process : \A w \in 0..now : given[p][w] <= Burst + Rps * (now - w)

\* A process that was told to stop stops, even if a request never ends or
\* app.close() hangs: the grace timer bounds the wait.
ShutdownEnds == \A p \in Told : phase[p] = "draining" ~> phase[p] = "exited"

Principals ==
  [tenant : {"a", "anonymous"}, scopes : SUBSET {"chat", "read", "write"}]

\* A caller who is no admin cannot tell somebody else's session from one that
\* does not exist (prepareTurn, loadOwnedSession).  Nothing in this changes: it
\* is evaluated before the first request comes.
OnlyOwnersServed ==
  (\A r \in Request : req[r].at = "idle") =>
    \A c \in Principals, named, other \in {"a", "b", "anonymous", NoTenant} :
      ~CanAccess(c, other) =>
        /\ ChatAnswer(c, named, other) = ChatAnswer(c, named, Missing)
        /\ ReadAnswer(c, other) = ReadAnswer(c, Missing)

=============================================================================
