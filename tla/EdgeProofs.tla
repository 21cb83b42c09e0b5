---------------------------- MODULE EdgeProofs ----------------------------
(***************************************************************************)
(* What holds of the rate limit and of the two access checks for any       *)
(* number of processes and requests and any rate.                          *)
(*                                                                         *)
(* While the window w and the next one last, the key of w does not expire, *)
(* so that it counts every request that was let through, and only one      *)
(* request, the first, waits for its PEXPIRE.                              *)
(***************************************************************************)
EXTENDS Edge, TLAPS

Waits(r, w) == req[r].at = "pexpire" /\ req[r].label = w

\* The key of the window w cannot have expired.
Lives(w) == now < w + 2

RequestsTyped ==
  req \in [Request -> [at : Stage, proc : Process \cup {NoProcess}, label : Window]]

Types ==
  /\ now \in Window
  /\ count \in [Window -> Nat]
  /\ expiry \in [Window -> Nat]
  /\ passed \in [Window -> Nat]
  /\ RequestsTyped

KeysOutliveTheirWindow ==
  /\ \A r \in Request : req[r].at \in {"incr", "pexpire"} => req[r].label <= now
  /\ \A w \in Window : expiry[w] # 0 => expiry[w] >= w + 2

OneWaits ==
  \A w \in Window : Lives(w) =>
    \A r, q \in Request : Waits(r, w) /\ Waits(q, w) => r = q

KeysCount ==
  \A w \in Window : Lives(w) =>
    /\ passed[w] <= count[w]
    /\ \A r \in Request : Waits(r, w) => passed[w] < count[w] /\ passed[w] < Limit

EdgeInv == Types /\ KeysOutliveTheirWindow /\ OneWaits /\ KeysCount /\ CountersHold

----------------------------------------------------------------------------
\* Facts about the constants and the helpers

LEMMA LimitIsPositive == Limit \in Nat /\ Limit >= 1
<1>1. Rps \in Nat /\ Rps >= 1
  BY EdgeAssumption
<1>2. \E x \in {1, Rps} : \A y \in {1, Rps} : x >= y
  BY <1>1
<1>3. Limit \in {1, Rps} /\ \A y \in {1, Rps} : Limit >= y
  BY <1>2 DEF Limit, Max
<1> QED
  BY <1>1, <1>3

LEMMA WindowsAreNaturals == Window \subseteq Nat /\ 0 \in Window
BY EdgeAssumption DEF Window

\* What Serve, Answer and Goto make of the requests.
LEMMA Moves ==
  ASSUME Types, NEW r \in Request
  PROVE  /\ Serve(r) =>
              /\ RequestsTyped'
              /\ req'[r].at = "serving"
              /\ \A q \in Request \ {r} : req'[q] = req[q]
         /\ Answer(r) =>
              /\ RequestsTyped'
              /\ req'[r].at = "over"
              /\ \A q \in Request \ {r} : req'[q] = req[q]
BY WindowsAreNaturals DEF Types, RequestsTyped, Serve, Answer, Idle, Stage, InFlight

\* A step that changes no counter and starts no wait keeps the invariant.
LEMMA Elsewhere ==
  ASSUME EdgeInv, Types', UNCHANGED <<now, count, expiry, passed>>,
         \A r \in Request : req'[r].at \in {"incr", "pexpire"} =>
           \/ req'[r].at = req[r].at /\ req'[r].label = req[r].label
           \/ req'[r].at = "incr" /\ req'[r].label = now
  PROVE  EdgeInv'
<1>1. \A r \in Request, w \in Window : Waits(r, w)' => Waits(r, w)
  BY DEF Waits
<1>2. KeysOutliveTheirWindow'
  BY WindowsAreNaturals DEF EdgeInv, Types, KeysOutliveTheirWindow
<1>3. OneWaits'
  BY <1>1 DEF EdgeInv, OneWaits, Lives
<1>4. KeysCount'
  BY <1>1 DEF EdgeInv, KeysCount, Lives
<1> QED
  BY <1>2, <1>3, <1>4 DEF EdgeInv, CountersHold

----------------------------------------------------------------------------
\* The limiter in Redis

\* A token of the process's own is no business of the counters.
LEMMA TokensMove ==
  ASSUME Types, NEW r \in Request, TakeToken(r)
  PROVE  /\ RequestsTyped'
         /\ req'[r].at \in {"serving", "over"}
         /\ \A q \in Request \ {r} : req'[q] = req[q]
BY Moves DEF TakeToken

\* A request that the counter of a living window lets pass is counted.
LEMMA Passes ==
  ASSUME Types, NEW r \in Request, Pass(r), req[r].label \in Window
  PROVE  LET w == req[r].label
         IN  /\ RequestsTyped'
             /\ req'[r].at = "serving"
             /\ \A q \in Request \ {r} : req'[q] = req[q]
             /\ passed' \in [Window -> Nat]
             /\ passed'[w] = IF now < w + 2 THEN passed[w] + 1 ELSE passed[w]
             /\ \A v \in Window \ {w} : passed'[v] = passed[v]
<1>1. RequestsTyped' /\ req'[r].at = "serving"
      /\ \A q \in Request \ {r} : req'[q] = req[q]
  BY Moves DEF Pass
<1> QED
  BY <1>1 DEF Pass, Types

LEMMA IncrementKeeps ==
  ASSUME EdgeInv, NEW r \in Request, Increment(r)
  PROVE  EdgeInv'
<1> DEFINE w == req[r].label
<1> USE WindowsAreNaturals, LimitIsPositive
<1>1. /\ w \in Window /\ w <= now /\ req[r].at = "incr" /\ Types
      /\ now \in Nat /\ w \in Nat
  BY DEF EdgeInv, Types, RequestsTyped, KeysOutliveTheirWindow, Increment
<1>2. /\ now' = now /\ expiry' = expiry
      /\ count' \in [Window -> Nat]
      /\ count'[w] = count[w] + 1
      /\ \A v \in Window \ {w} : count'[v] = count[v]
  BY <1>1 DEF Increment, Incr, Types
<1>3. count[w] \in Nat /\ passed[w] \in Nat
  BY <1>1 DEF Types
<1>4. Lives(w) => passed[w] <= count[w]
  BY <1>1 DEF EdgeInv, KeysCount
<1>5. CASE count[w] = 0 /\ Goto(r, "pexpire") /\ UNCHANGED passed
  <2>1. /\ RequestsTyped'
        /\ req'[r].at = "pexpire" /\ req'[r].label = w
        /\ \A q \in Request \ {r} : req'[q] = req[q]
    BY <1>1, <1>5 DEF Goto, Types, RequestsTyped, Stage, InFlight
  <2>2. Types'
    BY <1>1, <1>2, <1>5, <2>1 DEF Types
  <2>3. KeysOutliveTheirWindow'
    BY <1>1, <1>2, <2>1 DEF EdgeInv, KeysOutliveTheirWindow
  <2>4. Lives(w) => \A q \in Request : ~Waits(q, w)
    BY <1>1, <1>3, <1>4, <1>5 DEF EdgeInv, KeysCount
  <2>5. \A q \in Request, v \in Window :
          Waits(q, v)' => Waits(q, v) \/ (q = r /\ v = w)
    BY <2>1 DEF Waits
  <2>6. OneWaits'
    BY <1>2, <2>4, <2>5 DEF EdgeInv, OneWaits, Lives
  <2>7. KeysCount'
    <3> SUFFICES ASSUME NEW v \in Window, Lives(v)
                 PROVE  /\ passed[v] <= count'[v]
                        /\ \A q \in Request :
                             Waits(q, v)' => passed[v] < count'[v] /\ passed[v] < Limit
      BY <1>2, <1>5 DEF KeysCount, Lives
    <3>1. CASE v = w
      BY <1>2, <1>3, <1>4, <1>5, <3>1
    <3>2. CASE v # w
      BY <1>2, <2>5, <3>2 DEF EdgeInv, KeysCount
    <3> QED
      BY <3>1, <3>2
  <2> QED
    BY <1>5, <2>2, <2>3, <2>6, <2>7 DEF EdgeInv, CountersHold
<1>6. CASE count[w] \in 1..(Limit - 1) /\ Pass(r)
  <2>1. /\ RequestsTyped'
        /\ req'[r].at = "serving"
        /\ \A q \in Request \ {r} : req'[q] = req[q]
        /\ passed' \in [Window -> Nat]
        /\ passed'[w] = IF now < w + 2 THEN passed[w] + 1 ELSE passed[w]
        /\ \A v \in Window \ {w} : passed'[v] = passed[v]
    BY <1>1, <1>6, Passes
  <2>2. Types'
    BY <1>1, <1>2, <2>1 DEF Types
  <2>3. KeysOutliveTheirWindow'
    BY <1>1, <1>2, <2>1 DEF EdgeInv, KeysOutliveTheirWindow
  <2>4. \A q \in Request, v \in Window : Waits(q, v)' => Waits(q, v)
    BY <2>1 DEF Waits
  <2>5. OneWaits'
    BY <1>2, <2>4 DEF EdgeInv, OneWaits, Lives
  <2>6. KeysCount'
    <3> SUFFICES ASSUME NEW v \in Window, Lives(v)
                 PROVE  /\ passed'[v] <= count'[v]
                        /\ \A q \in Request :
                             Waits(q, v)' => passed'[v] < count'[v] /\ passed'[v] < Limit
      BY <1>2 DEF KeysCount, Lives
    <3>1. CASE v = w
      <4>1. passed'[v] = passed[v] + 1
        BY <2>1, <3>1 DEF Lives
      <4>2. \A q \in Request : Waits(q, v)' => passed[v] < count[v]
        BY <2>4 DEF EdgeInv, KeysCount
      <4> QED
        BY <1>2, <1>3, <1>4, <1>6, <3>1, <4>1, <4>2
    <3>2. CASE v # w
      BY <1>2, <2>1, <2>4, <3>2 DEF EdgeInv, KeysCount
    <3> QED
      BY <3>1, <3>2
  <2>7. CountersHold'
    <3> SUFFICES ASSUME NEW v \in Window PROVE passed'[v] <= Limit
      BY DEF CountersHold
    <3>1. passed[v] <= Limit
      BY DEF EdgeInv, CountersHold
    <3>2. CASE v = w /\ Lives(w)
      BY <1>3, <1>4, <1>6, <2>1, <3>2 DEF Lives
    <3>3. CASE ~(v = w /\ Lives(w))
      BY <2>1, <3>1, <3>3 DEF Lives
    <3> QED
      BY <3>2, <3>3
  <2> QED
    BY <2>2, <2>3, <2>5, <2>6, <2>7 DEF EdgeInv
<1>7. CASE count[w] >= Limit /\ Answer(r) /\ UNCHANGED passed
  <2>1. /\ RequestsTyped'
        /\ req'[r].at = "over"
        /\ \A q \in Request \ {r} : req'[q] = req[q]
    BY <1>1, <1>7, Moves
  <2>2. Types'
    BY <1>1, <1>2, <1>7, <2>1 DEF Types
  <2>3. KeysOutliveTheirWindow'
    BY <1>1, <1>2, <2>1 DEF EdgeInv, KeysOutliveTheirWindow
  <2>4. \A q \in Request, v \in Window : Waits(q, v)' => Waits(q, v)
    BY <2>1 DEF Waits
  <2>5. OneWaits'
    BY <1>2, <2>4 DEF EdgeInv, OneWaits, Lives
  <2>6. \A v \in Window : count'[v] >= count[v] /\ count[v] \in Nat /\ passed[v] \in Nat
    <3> SUFFICES ASSUME NEW v \in Window
                 PROVE  count'[v] >= count[v] /\ count[v] \in Nat /\ passed[v] \in Nat
      OBVIOUS
    <3>1. count[v] \in Nat /\ passed[v] \in Nat
      BY <1>1 DEF Types
    <3>2. count'[v] \in {count[v], count[v] + 1}
      BY <1>2
    <3> QED
      BY <3>1, <3>2
  <2>7. KeysCount'
    <3> SUFFICES ASSUME NEW v \in Window, Lives(v)
                 PROVE  /\ passed[v] <= count'[v]
                        /\ \A q \in Request :
                             Waits(q, v)' => passed[v] < count'[v] /\ passed[v] < Limit
      BY <1>2, <1>7 DEF KeysCount, Lives
    <3>1. /\ passed[v] <= count[v]
          /\ \A q \in Request : Waits(q, v) => passed[v] < count[v] /\ passed[v] < Limit
      BY DEF EdgeInv, KeysCount
    <3>2. count'[v] \in Nat
      BY <1>2
    <3> QED
      BY <2>4, <2>6, <3>1, <3>2
  <2> QED
    BY <1>7, <2>2, <2>3, <2>5, <2>7 DEF EdgeInv, CountersHold
<1> QED
  BY <1>5, <1>6, <1>7 DEF Increment

LEMMA SetExpiryKeeps ==
  ASSUME EdgeInv, NEW r \in Request, SetExpiry(r)
  PROVE  EdgeInv'
<1> DEFINE w == req[r].label
<1> USE WindowsAreNaturals, LimitIsPositive
<1>1. /\ w \in Window /\ w <= now /\ req[r].at = "pexpire" /\ Types
      /\ now \in Nat /\ w \in Nat
  BY DEF EdgeInv, Types, RequestsTyped, KeysOutliveTheirWindow, SetExpiry
<1>2. /\ now' = now /\ count' = count
      /\ expiry' \in [Window -> Nat]
      /\ expiry'[w] = now + 2
      /\ \A v \in Window \ {w} : expiry'[v] = expiry[v]
  BY <1>1 DEF SetExpiry, Expire, Types
<1>3. /\ RequestsTyped'
      /\ req'[r].at = "serving"
      /\ \A q \in Request \ {r} : req'[q] = req[q]
      /\ passed' \in [Window -> Nat]
      /\ passed'[w] = IF now < w + 2 THEN passed[w] + 1 ELSE passed[w]
      /\ \A v \in Window \ {w} : passed'[v] = passed[v]
  BY <1>1, Passes DEF SetExpiry
<1>4. /\ \A v \in Window : passed[v] \in Nat /\ count[v] \in Nat /\ v \in Nat
      /\ \A v \in Window : passed[v] <= Limit
  BY <1>1 DEF Types, EdgeInv, CountersHold
<1>5. Lives(w) => passed[w] < count[w] /\ passed[w] < Limit
  BY <1>1 DEF EdgeInv, KeysCount, Waits
<1>6. Types'
  BY <1>1, <1>2, <1>3 DEF Types
<1>7. KeysOutliveTheirWindow'
  BY <1>1, <1>2, <1>3 DEF EdgeInv, KeysOutliveTheirWindow
<1>8. \A q \in Request, v \in Window : Waits(q, v)' => q # r /\ Waits(q, v)
  BY <1>3 DEF Waits
<1>9. OneWaits'
  BY <1>2, <1>8 DEF EdgeInv, OneWaits, Lives
<1>10. KeysCount'
  <2> SUFFICES ASSUME NEW v \in Window, Lives(v)
               PROVE  /\ passed'[v] <= count[v]
                      /\ \A q \in Request :
                           Waits(q, v)' => passed'[v] < count[v] /\ passed'[v] < Limit
    BY <1>2 DEF KeysCount, Lives
  <2>1. CASE v = w
    <3>1. Lives(w) /\ Waits(r, v)
      BY <1>1, <2>1 DEF Waits
    <3>2. \A q \in Request : ~Waits(q, v)'
      BY <1>1, <1>8, <3>1 DEF EdgeInv, OneWaits
    <3>3. passed'[w] = passed[w] + 1
      BY <1>3, <3>1 DEF Lives
    <3>4. passed[w] \in Nat /\ count[w] \in Nat /\ passed[w] < count[w]
      BY <1>1, <1>4, <1>5, <3>1
    <3>5. passed'[w] <= count[w]
      BY <3>3, <3>4
    <3> QED
      BY <2>1, <3>2, <3>5
  <2>2. CASE v # w
    BY <1>3, <1>8, <2>2 DEF EdgeInv, KeysCount
  <2> QED
    BY <2>1, <2>2
<1>11. CountersHold'
  <2> SUFFICES ASSUME NEW v \in Window PROVE passed'[v] <= Limit
    BY DEF CountersHold
  <2>1. CASE v = w /\ Lives(w)
    BY <1>3, <1>4, <1>5, <2>1 DEF Lives
  <2>2. CASE ~(v = w /\ Lives(w))
    BY <1>3, <1>4, <2>2 DEF Lives
  <2> QED
    BY <2>1, <2>2
<1> QED
  BY <1>6, <1>7, <1>9, <1>10, <1>11 DEF EdgeInv

\* A failing Redis may have counted the request or set the expiry; the request
\* does not pass by the counter.
LEMMA RedisFailsKeeps ==
  ASSUME EdgeInv, NEW r \in Request, RedisFails(r)
  PROVE  EdgeInv'
<1> DEFINE w == req[r].label
<1> USE WindowsAreNaturals, LimitIsPositive
<1>1. /\ w \in Window /\ w <= now /\ Types
      /\ now \in Nat /\ w \in Nat
      /\ now' = now /\ passed' = passed
  BY DEF EdgeInv, Types, RequestsTyped, KeysOutliveTheirWindow, RedisFails
<1>2. /\ count' \in [Window -> Nat]
      /\ \A v \in Window : count'[v] \in Nat /\ count[v] \in Nat /\ count'[v] >= count[v]
  <2>1. CASE count' = count
    BY <1>1, <2>1 DEF Types
  <2>2. CASE Incr(w)
    BY <1>1, <2>2 DEF Incr, Types
  <2> QED
    BY <2>1, <2>2 DEF RedisFails
<1>3. /\ expiry' \in [Window -> Nat]
      /\ \A v \in Window : expiry'[v] = expiry[v] \/ (v = w /\ expiry'[v] = now + 2)
  <2>1. CASE expiry' = expiry
    BY <1>1, <2>1 DEF Types
  <2>2. CASE Expire(w)
    BY <1>1, <2>2 DEF Expire, Types
  <2> QED
    BY <2>1, <2>2 DEF RedisFails
<1>4. /\ RequestsTyped'
      /\ req'[r].at \in {"serving", "over"}
      /\ \A q \in Request \ {r} : req'[q] = req[q]
  BY <1>1, TokensMove DEF RedisFails
<1>5. Types'
  BY <1>1, <1>2, <1>3, <1>4 DEF Types
<1>6. KeysOutliveTheirWindow'
  BY <1>1, <1>3, <1>4 DEF EdgeInv, KeysOutliveTheirWindow
<1>7. \A q \in Request, v \in Window : Waits(q, v)' => Waits(q, v)
  BY <1>4 DEF Waits
<1>8. OneWaits'
  BY <1>1, <1>7 DEF EdgeInv, OneWaits, Lives
<1>9. KeysCount'
  <2> SUFFICES ASSUME NEW v \in Window, Lives(v)
               PROVE  /\ passed[v] <= count'[v]
                      /\ \A q \in Request :
                           Waits(q, v)' => passed[v] < count'[v] /\ passed[v] < Limit
    BY <1>1 DEF KeysCount, Lives
  <2>1. passed[v] \in Nat
    BY <1>1 DEF Types
  <2>2. /\ passed[v] <= count[v]
        /\ \A q \in Request : Waits(q, v) => passed[v] < count[v] /\ passed[v] < Limit
    BY DEF EdgeInv, KeysCount
  <2> QED
    BY <1>2, <1>7, <2>1, <2>2
<1> QED
  BY <1>1, <1>5, <1>6, <1>8, <1>9 DEF EdgeInv, CountersHold

\* No key of a window that lives in the next one expires.
LEMMA TickKeeps ==
  ASSUME EdgeInv, Tick
  PROVE  EdgeInv'
<1> USE WindowsAreNaturals
<1>1. /\ Types /\ now \in Nat /\ now' = now + 1 /\ now' \in Window
      /\ req' = req /\ passed' = passed
  BY EdgeAssumption DEF EdgeInv, Types, Tick, Window
<1>2. /\ count' \in [Window -> Nat] /\ expiry' \in [Window -> Nat]
      /\ \A w \in Window :
           /\ expiry'[w] \in {0, expiry[w]}
           /\ expiry[w] = 0 \/ expiry[w] > now + 1 => count'[w] = count[w]
  <2> DEFINE gone == {w \in Window : expiry[w] # 0 /\ expiry[w] <= now + 1}
  <2>1. /\ count' = [w \in Window |-> IF w \in gone THEN 0 ELSE count[w]]
        /\ expiry' = [w \in Window |-> IF w \in gone THEN 0 ELSE expiry[w]]
    BY DEF Tick
  <2>2. \A w \in Window : count[w] \in Nat /\ expiry[w] \in Nat
    BY <1>1 DEF Types
  <2> QED
    BY <1>1, <2>1, <2>2
<1>3. Types'
  BY <1>1, <1>2 DEF Types, RequestsTyped
<1>4. KeysOutliveTheirWindow'
  <2>1. \A r \in Request : req[r].label \in Nat
    BY <1>1 DEF Types, RequestsTyped
  <2> QED
    BY <1>1, <1>2, <2>1 DEF EdgeInv, KeysOutliveTheirWindow
<1>5. \A w \in Window : Lives(w)' => Lives(w) /\ count'[w] = count[w]
  <2> SUFFICES ASSUME NEW w \in Window, now + 1 < w + 2
               PROVE  Lives(w) /\ count'[w] = count[w]
    BY <1>1 DEF Lives
  <2>1. w \in Nat /\ expiry[w] \in Nat
    BY <1>1 DEF Types
  <2>2. expiry[w] = 0 \/ expiry[w] >= w + 2
    BY DEF EdgeInv, KeysOutliveTheirWindow
  <2> QED
    BY <1>1, <1>2, <2>1, <2>2 DEF Lives
<1>6. OneWaits' /\ KeysCount'
  BY <1>1, <1>5 DEF EdgeInv, OneWaits, KeysCount, Waits
<1> QED
  BY <1>1, <1>3, <1>4, <1>6 DEF EdgeInv, CountersHold

----------------------------------------------------------------------------
\* Everything else

LEMMA ArriveKeeps ==
  ASSUME EdgeInv, NEW r \in Request, NEW p \in Process, Arrive(r, p)
  PROVE  EdgeInv'
<1>1. RequestsTyped' /\ \A q \in Request : req'[q].at # req[q].at => req'[q].at = "auth"
  BY DEF Arrive, EdgeInv, Types, RequestsTyped, Stage, InFlight
<1>2. \A q \in Request : req'[q].label = req[q].label
  BY DEF Arrive, EdgeInv, Types, RequestsTyped
<1>3. UNCHANGED <<now, count, expiry, passed>>
  BY DEF Arrive, limits
<1>4. Types'
  BY <1>1, <1>3 DEF EdgeInv, Types
<1> QED
  BY <1>1, <1>2, <1>3, <1>4, Elsewhere

LEMMA AuthenticateKeeps ==
  ASSUME EdgeInv, NEW r \in Request, Authenticate(r)
  PROVE  EdgeInv'
<1>1. UNCHANGED <<now, count, expiry, passed>>
  BY DEF Authenticate
<1>2. CASE req' = [req EXCEPT ![r].at = "incr", ![r].label = now]
  <2>1. RequestsTyped'
    BY <1>2 DEF EdgeInv, Types, RequestsTyped, Stage, InFlight
  <2>2. /\ req'[r].at = "incr" /\ req'[r].label = now
        /\ \A q \in Request \ {r} : req'[q] = req[q]
    BY <1>2 DEF EdgeInv, Types, RequestsTyped
  <2>3. Types'
    BY <1>1, <2>1 DEF EdgeInv, Types
  <2> QED
    BY <1>1, <2>2, <2>3, Elsewhere
<1>3. CASE TakeToken(r)
  <2>1. /\ RequestsTyped'
        /\ req'[r].at \in {"serving", "over"}
        /\ \A q \in Request \ {r} : req'[q] = req[q]
    BY <1>3, TokensMove DEF EdgeInv
  <2>2. Types'
    BY <1>1, <2>1 DEF EdgeInv, Types
  <2> QED
    BY <1>1, <2>1, <2>2, Elsewhere
<1> QED
  BY <1>2, <1>3 DEF Authenticate

LEMMA AnswersKeep ==
  ASSUME EdgeInv, NEW r \in Request, AuthFails(r) \/ Finish(r)
  PROVE  EdgeInv'
<1>1. Answer(r) /\ UNCHANGED <<now, count, expiry, passed>>
  BY DEF AuthFails, Finish, limits
<1>2. /\ RequestsTyped'
      /\ req'[r].at = "over"
      /\ \A q \in Request \ {r} : req'[q] = req[q]
  BY <1>1, Moves DEF EdgeInv
<1>3. Types'
  BY <1>1, <1>2 DEF EdgeInv, Types
<1> QED
  BY <1>1, <1>2, <1>3, Elsewhere

LEMMA ExitKeeps ==
  ASSUME EdgeInv, NEW p \in Process, Exit(p)
  PROVE  EdgeInv'
<1>1. UNCHANGED <<now, count, expiry, passed>>
  BY DEF Exit
<1>2. /\ RequestsTyped'
      /\ \A q \in Request : req'[q] = req[q] \/ req'[q].at = "over"
  BY WindowsAreNaturals
     DEF Exit, EdgeInv, Types, RequestsTyped, Idle, Stage, InFlight
<1>3. Types'
  BY <1>1, <1>2 DEF EdgeInv, Types
<1> QED
  BY <1>1, <1>2, <1>3, Elsewhere

LEMMA EdgeStep ==
  ASSUME EdgeInv, [Next]_vars
  PROVE  EdgeInv'
<1>1. ASSUME NEW r \in Request, NEW p \in Process, Arrive(r, p) PROVE EdgeInv'
  BY <1>1, ArriveKeeps
<1>2. ASSUME NEW r \in Request,
             Authenticate(r) \/ AuthFails(r) \/ Finish(r)
      PROVE  EdgeInv'
  BY <1>2, AuthenticateKeeps, AnswersKeep
<1>3. ASSUME NEW r \in Request, Increment(r) \/ SetExpiry(r) \/ RedisFails(r)
      PROVE  EdgeInv'
  BY <1>3, IncrementKeeps, SetExpiryKeeps, RedisFailsKeeps
<1>4. ASSUME UNCHANGED <<limits, req>> PROVE EdgeInv'
  BY <1>4 DEF limits, EdgeInv, Types, RequestsTyped, KeysOutliveTheirWindow,
              OneWaits, KeysCount, CountersHold, Waits, Lives
<1>5. ASSUME NEW p \in Process, FirstSignal(p) \/ BeginClosing(p) \/ Closed(p)
      PROVE  EdgeInv'
  BY <1>4, <1>5 DEF FirstSignal, BeginClosing, Closed
<1>6. ASSUME NEW p \in Process, SecondSignal(p) \/ Leave(p) \/ GraceIsOver(p)
      PROVE  EdgeInv'
  BY <1>6, ExitKeeps DEF SecondSignal, Leave, GraceIsOver
<1>7. CASE Tick
  BY <1>7, TickKeeps
<1>8. CASE UNCHANGED vars
  BY <1>4, <1>8 DEF vars
<1> QED
  BY <1>1, <1>2, <1>3, <1>5, <1>6, <1>7, <1>8 DEF Next

LEMMA EdgeInit == Init => EdgeInv
<1> SUFFICES ASSUME Init PROVE EdgeInv
  OBVIOUS
<1>1. Types
  <2>1. RequestsTyped /\ now \in Window
    BY WindowsAreNaturals DEF Init, RequestsTyped, Idle, Stage
  <2> QED
    BY <2>1 DEF Init, Types
<1>2. \A r \in Request : req[r].at = "idle"
  BY DEF Init, Idle
<1> QED
  BY <1>1, <1>2, LimitIsPositive, WindowsAreNaturals
     DEF Init, EdgeInv, KeysOutliveTheirWindow, OneWaits, KeysCount, CountersHold, Waits

\* However many processes and requests there are, and whatever Redis does, the
\* counter of a window lets no more than the limit through while it lives.
THEOREM RedisLimitHolds == Spec => []CountersHold
<1>1. EdgeInv => CountersHold
  BY DEF EdgeInv
<1> QED
  BY <1>1, EdgeInit, EdgeStep, PTL DEF Spec

\* To a caller who is no admin, somebody else's session is answered like one
\* that does not exist, by the chat endpoint and by those that read a session.
THEOREM OthersAreHidden == Spec => []OnlyOwnersServed
<1>1. ASSUME NEW c \in Principals,
             NEW named, NEW other \in {"a", "b", "anonymous", NoTenant},
             ~CanAccess(c, other)
      PROVE  /\ ChatAnswer(c, named, other) = ChatAnswer(c, named, Missing)
             /\ ReadAnswer(c, other) = ReadAnswer(c, Missing)
  <2>1. other # NoSession /\ Missing # NoSession
    BY NamesAssumption
  <2>2. ReadAnswer(c, other) = ReadAnswer(c, Missing)
    BY <1>1 DEF ReadAnswer
  <2>3. ChatAnswer(c, named, other) = ChatAnswer(c, named, Missing)
    BY <1>1, <2>1 DEF ChatAnswer
  <2> QED
    BY <2>2, <2>3
<1>2. OnlyOwnersServed
  BY <1>1 DEF OnlyOwnersServed
<1> QED
  BY <1>2, PTL

----------------------------------------------------------------------------
\* The token buckets

\* What n windows refill a bucket with.
Refill(n) == Rps * n

BucketTypes ==
  /\ bucket \in [Process -> [tokens : 0..Burst, last : Window]]
  /\ given \in [Process -> [Window -> Nat]]
  /\ phase \in [Process -> Phase]

\* The tokens p gave away since a window began, with those in its bucket, are no
\* more than a full bucket and what it was refilled with since.
BucketHolds(p) ==
  /\ bucket[p].last <= now
  /\ \A w \in Window :
       IF w <= bucket[p].last
       THEN given[p][w] + bucket[p].tokens <= Burst + Refill(bucket[p].last - w)
       ELSE given[p][w] = 0

\* A process that exited lost its bucket; nothing is in flight in it that could
\* take a token.
GivenHolds(p) ==
  \A w \in Window :
    IF w <= now THEN given[p][w] <= Burst + Refill(now - w) ELSE given[p][w] = 0

BucketsHold ==
  \A p \in Process :
    /\ GivenHolds(p)
    /\ phase[p] # "exited" => BucketHolds(p)
    /\ phase[p] = "exited" => On(p, InFlight) = {}

BucketInv == Types /\ BucketTypes /\ BucketsHold

\* More windows, more tokens.
LEMMA Refills ==
  ASSUME NEW x \in Nat, NEW y \in Nat
  PROVE  /\ Refill(x) \in Nat /\ x * Rps = Refill(x)
         /\ Refill(x + y) = Refill(x) + Refill(y)
<1>1. Rps \in Nat
  BY EdgeAssumption
<1>2. ASSUME NEW m \in Nat
      PROVE  m * x \in Nat /\ x * m = m * x /\ m * (x + y) = m * x + m * y
  OBVIOUS
<1> QED
  BY <1>1, <1>2 DEF Refill

\* The refilled bucket of a living process is as good as the old one.
LEMMA RefilledHolds ==
  ASSUME BucketInv, NEW p \in Process, BucketHolds(p)
  PROVE  /\ Refilled(bucket[p]) \in 0..Burst
         /\ \A w \in Window : w <= now =>
              given[p][w] + Refilled(bucket[p]) <= Burst + Refill(now - w)
         /\ \A w \in Window : w > now => given[p][w] = 0
<1> DEFINE b == bucket[p]
           more == b.tokens + (now - b.last) * Rps
           t == Refilled(b)
<1>1. /\ b \in [tokens : 0..Burst, last : Window] /\ now \in Nat /\ Burst \in Nat
      /\ \A w \in Window : w \in Nat /\ given[p][w] \in Nat
  BY WindowsAreNaturals, EdgeAssumption DEF BucketInv, BucketTypes, Types
<1>2. b.tokens \in 0..Burst /\ b.last \in Nat /\ b.last <= now
  BY <1>1, WindowsAreNaturals DEF BucketHolds
<1>3. (now - b.last) * Rps = Refill(now - b.last) /\ Refill(now - b.last) \in Nat
  <2>1. now - b.last \in Nat
    BY <1>1, <1>2
  <2> QED
    BY <2>1, Refills
<1>4. more \in Nat /\ more >= b.tokens
  BY <1>2, <1>3
<1>5. t \in {Burst, more} /\ t <= Burst /\ t <= more
  <2>1. \E x \in {Burst, more} : \A y \in {Burst, more} : x <= y
    BY <1>1, <1>4
  <2>2. t = CHOOSE x \in {Burst, more} : \A y \in {Burst, more} : x <= y
    BY DEF Refilled, Min
  <2> HIDE DEF more, t
  <2> QED
    BY <2>1, <2>2
<1>6. t \in 0..Burst
  BY <1>1, <1>4, <1>5
<1>7. ASSUME NEW w \in Window, w <= now
      PROVE  given[p][w] + t <= Burst + Refill(now - w)
  <2>1. CASE w <= b.last
    <3>1. given[p][w] + b.tokens <= Burst + Refill(b.last - w)
      BY <2>1 DEF BucketHolds
    <3>2. /\ Refill(now - w) = Refill(b.last - w) + Refill(now - b.last)
          /\ Refill(b.last - w) \in Nat
      <4>1. PICK x \in Nat, y \in Nat, z \in Nat :
              x = b.last - w /\ y = now - b.last /\ z = now - w /\ z = x + y
        BY <1>1, <1>2, <2>1
      <4>2. Refill(x + y) = Refill(x) + Refill(y) /\ Refill(x) \in Nat
        BY Refills
      <4> QED
        BY <4>1, <4>2
    <3>3. t <= b.tokens + Refill(now - b.last)
      BY <1>3, <1>5
    <3> HIDE DEF b, t
    <3> QED
      BY <1>1, <1>2, <1>3, <1>6, <3>1, <3>2, <3>3
  <2>2. CASE w > b.last
    <3>1. given[p][w] = 0
      BY <1>1, <1>2, <2>2 DEF BucketHolds
    <3>2. Refill(now - w) \in Nat
      <4>1. now - w \in Nat
        BY <1>1, <1>7
      <4> QED
        BY <4>1, Refills
    <3> QED
      BY <1>1, <1>6, <3>1, <3>2
  <2> QED
    BY <1>1, <1>2, <2>1, <2>2
<1>8. ASSUME NEW w \in Window, w > now
      PROVE  given[p][w] = 0
  BY <1>1, <1>2, <1>8 DEF BucketHolds
<1> QED
  BY <1>6, <1>7, <1>8

\* Only the bucket of the request's process is touched, and it still holds.
LEMMA TokenKeeps ==
  ASSUME BucketInv, NEW r \in Request, req[r].at \in InFlight,
         req[r].proc \in Process, TakeToken(r), UNCHANGED <<now, phase>>
  PROVE  BucketTypes' /\ \A p \in Process : GivenHolds(p)'
                           /\ (phase'[p] # "exited" => BucketHolds(p)')
<1>1. PICK q \in Process : q = req[r].proc
  OBVIOUS
<1> DEFINE t == Refilled(bucket[q])
<1>2. phase[q] # "exited"
  BY <1>1 DEF BucketInv, BucketsHold, On
<1>3. BucketHolds(q)
  BY <1>2 DEF BucketInv, BucketsHold
<1>4. /\ t \in 0..Burst
      /\ \A w \in Window : w <= now => given[q][w] + t <= Burst + Refill(now - w)
      /\ \A w \in Window : w > now => given[q][w] = 0
  BY <1>3, RefilledHolds
<1>5. /\ now \in Window /\ Burst \in Nat /\ given \in [Process -> [Window -> Nat]]
      /\ bucket \in [Process -> [tokens : 0..Burst, last : Window]]
      /\ \A w \in Window : w \in Nat /\ given[q][w] \in Nat /\ now \in Nat
  BY WindowsAreNaturals, EdgeAssumption DEF BucketInv, BucketTypes, Types
<1>6. PICK n \in 0..Burst, g \in {0, 1} :
        /\ n + g = t
        /\ bucket' = [bucket EXCEPT ![q] = [tokens |-> n, last |-> now]]
        /\ given' = [given EXCEPT ![q] =
             [w \in Window |-> IF w <= now THEN given[q][w] + g ELSE given[q][w]]]
  <2>1. CASE t < 1
    <3>1. given' = given /\ bucket' = [bucket EXCEPT ![q] = [tokens |-> t, last |-> now]]
      BY <1>1, <2>1 DEF TakeToken
    <3>2. given[q] = [w \in Window |-> IF w <= now THEN given[q][w] + 0 ELSE given[q][w]]
      BY <1>5
    <3>3. given' = [given EXCEPT ![q] =
             [w \in Window |-> IF w <= now THEN given[q][w] + 0 ELSE given[q][w]]]
      BY <1>5, <3>1, <3>2
    <3> HIDE DEF t
    <3>4. t \in 0..Burst /\ t + 0 = t
      BY <1>4
    <3> QED
      BY <3>1, <3>3, <3>4
  <2>2. CASE ~(t < 1)
    <3>1. Give(q) /\ bucket' = [bucket EXCEPT ![q] = [tokens |-> t - 1, last |-> now]]
      BY <1>1, <2>2 DEF TakeToken
    <3> HIDE DEF t
    <3>2. t - 1 \in 0..Burst /\ (t - 1) + 1 = t
      BY <1>4, <1>5, <2>2
    <3> QED
      BY <3>1, <3>2 DEF Give
  <2> QED
    BY <2>1, <2>2
<1>7. BucketTypes'
  <2>1. [tokens |-> n, last |-> now] \in [tokens : 0..Burst, last : Window]
    BY <1>5
  <2>2. [w \in Window |-> IF w <= now THEN given[q][w] + g ELSE given[q][w]] \in [Window -> Nat]
    BY <1>5
  <2>3. phase' \in [Process -> Phase]
    BY DEF BucketInv, BucketTypes
  <2> QED
    BY <1>5, <1>6, <2>1, <2>2, <2>3 DEF BucketTypes
<1>8. ASSUME NEW p \in Process, p # q
      PROVE  GivenHolds(p)' /\ (phase'[p] # "exited" => BucketHolds(p)')
  <2>1. given'[p] = given[p] /\ bucket'[p] = bucket[p]
    BY <1>5, <1>6, <1>8
  <2>2. GivenHolds(p) /\ (phase[p] # "exited" => BucketHolds(p))
    BY DEF BucketInv, BucketsHold
  <2> QED
    BY <2>1, <2>2 DEF GivenHolds, BucketHolds
<1>9. GivenHolds(q)' /\ BucketHolds(q)'
  <2>1. bucket'[q].tokens = n /\ bucket'[q].last = now
    BY <1>5, <1>6
  <2>2. \A w \in Window : given'[q][w] = IF w <= now THEN given[q][w] + g ELSE given[q][w]
    BY <1>5, <1>6
  <2>3. \A w \in Window : w <= now =>
          /\ given'[q][w] + n <= Burst + Refill(now - w)
          /\ given'[q][w] <= Burst + Refill(now - w)
    <3> SUFFICES ASSUME NEW w \in Window, w <= now
                 PROVE  /\ given'[q][w] + n <= Burst + Refill(now - w)
                        /\ given'[q][w] <= Burst + Refill(now - w)
      OBVIOUS
    <3>1. given[q][w] + t <= Burst + Refill(now - w) /\ given'[q][w] = given[q][w] + g
      BY <1>4, <2>2
    <3>2. Refill(now - w) \in Nat
      <4>1. now - w \in Nat
        BY <1>5
      <4> QED
        BY <4>1, Refills
    <3> HIDE DEF t
    <3> QED
      BY <1>4, <1>5, <1>6, <3>1, <3>2
  <2> QED
    BY <1>4, <1>5, <2>1, <2>2, <2>3 DEF GivenHolds, BucketHolds
<1> QED
  BY <1>7, <1>8, <1>9

\* A request in flight has a process, which has not exited.
InFlightServed == \A r \in Request : req[r].at \in InFlight => req[r].proc \in Process

\* Only the requests, and the phase of processes that live, change.
LEMMA BucketsRest ==
  ASSUME BucketInv, UNCHANGED <<now, bucket, given>>, phase' \in [Process -> Phase],
         \A p \in Process :
           /\ phase[p] = "exited" => phase'[p] = "exited"
           /\ phase'[p] = "exited" => phase[p] = "exited"
           /\ phase[p] = "exited" => On(p, InFlight)' \subseteq On(p, InFlight)
  PROVE  BucketTypes' /\ BucketsHold'
<1>1. BucketTypes'
  BY DEF BucketInv, BucketTypes
<1>2. ASSUME NEW p \in Process
      PROVE  /\ GivenHolds(p)'
             /\ phase'[p] # "exited" => BucketHolds(p)'
             /\ phase'[p] = "exited" => On(p, InFlight)' = {}
  BY DEF BucketInv, BucketsHold, GivenHolds, BucketHolds
<1> QED
  BY <1>1, <1>2 DEF BucketsHold

\* A process that lives takes a request on, or answers one.
LEMMA RequestMoves ==
  ASSUME BucketInv, InFlightServed, NEW r \in Request,
         \/ \E p \in Process : Arrive(r, p)
         \/ AuthFails(r) \/ Finish(r) \/ Increment(r) \/ SetExpiry(r)
         \/ Authenticate(r) /\ UNCHANGED <<bucket, given>>
              /\ req' = [req EXCEPT ![r].at = "incr", ![r].label = now]
  PROVE  BucketTypes' /\ BucketsHold' /\ InFlightServed'
<1>1. UNCHANGED <<now, bucket, given, phase>>
  BY DEF Arrive, AuthFails, Finish, Increment, SetExpiry, Authenticate, limits
<1>2. RequestsTyped
  BY DEF BucketInv, Types
<1>3. /\ \A q \in Request \ {r} : req'[q] = req[q]
      /\ \/ req'[r].at \notin InFlight
         \/ req[r].at \in InFlight /\ req'[r].proc = req[r].proc
         \/ req'[r].proc \in Process /\ phase[req'[r].proc] # "exited"
  <2>1. CASE Answer(r)
    BY <1>2, <2>1 DEF RequestsTyped, Answer, Idle, InFlight
  <2>2. CASE req[r].at \in InFlight /\ Serve(r)
    BY <1>2, <2>2 DEF RequestsTyped, Serve
  <2>3. CASE req[r].at \in InFlight /\ Goto(r, "pexpire")
    BY <1>2, <2>3 DEF RequestsTyped, Goto
  <2>4. CASE req[r].at \in InFlight /\ req' = [req EXCEPT ![r].at = "incr", ![r].label = now]
    BY <1>2, <2>4 DEF RequestsTyped
  <2>5. ASSUME NEW p \in Process, Arrive(r, p)
        PROVE  /\ \A q \in Request \ {r} : req'[q] = req[q]
               /\ req'[r].proc = p /\ phase[p] # "exited"
    BY <1>2, <2>5 DEF RequestsTyped, Arrive
  <2> QED
    BY <2>1, <2>2, <2>3, <2>4, <2>5
       DEF AuthFails, Finish, Increment, SetExpiry, Pass, Authenticate, InFlight
<1>4. InFlightServed'
  BY <1>3 DEF InFlightServed
<1>5. \A p \in Process : phase[p] = "exited" => On(p, InFlight)' \subseteq On(p, InFlight)
  BY <1>3 DEF On
<1>6. phase' \in [Process -> Phase]
  BY <1>1 DEF BucketInv, BucketTypes
<1> QED
  BY <1>1, <1>4, <1>5, <1>6, BucketsRest

\* A token is taken from the bucket of a process that lives.
LEMMA TokenMoves ==
  ASSUME BucketInv, InFlightServed, NEW r \in Request, req[r].at \in InFlight,
         TakeToken(r), UNCHANGED <<now, phase>>
  PROVE  BucketTypes' /\ BucketsHold' /\ InFlightServed'
<1>1. req[r].proc \in Process
  BY DEF InFlightServed
<1>2. RequestsTyped
  BY DEF BucketInv, Types
<1>3. /\ \A q \in Request \ {r} : req'[q] = req[q]
      /\ req'[r].at \notin InFlight \/ req'[r].proc = req[r].proc
  <2>1. CASE Answer(r)
    BY <1>2, <2>1 DEF RequestsTyped, Answer, Idle, InFlight
  <2>2. CASE Serve(r)
    BY <1>2, <2>2 DEF RequestsTyped, Serve
  <2> QED
    BY <2>1, <2>2 DEF TakeToken
<1>4. InFlightServed'
  BY <1>3 DEF InFlightServed
<1>5. \A p \in Process : On(p, InFlight)' \subseteq On(p, InFlight)
  BY <1>3 DEF On
<1>6. \A p \in Process : phase'[p] = "exited" => On(p, InFlight)' = {}
  BY <1>5 DEF BucketInv, BucketsHold
<1> QED
  BY <1>1, <1>4, <1>6, TokenKeeps DEF BucketsHold

\* What is in flight is lost with the bucket; what was given away stays given.
LEMMA ExitLeaves ==
  ASSUME BucketInv, InFlightServed, NEW p \in Process, Exit(p)
  PROVE  BucketTypes' /\ BucketsHold' /\ InFlightServed'
<1>1. /\ UNCHANGED <<now, given>>
      /\ phase' = [phase EXCEPT ![p] = "exited"]
      /\ bucket' = [bucket EXCEPT ![p] = Full]
  BY DEF Exit, Enter
<1>2. \A q \in Request : /\ req'[q] = req[q] \/ req'[q].at = "over"
                         /\ q \in On(p, InFlight) => req'[q].at = "over"
  BY DEF Exit, Idle
<1>3. BucketTypes'
  BY <1>1, WindowsAreNaturals, EdgeAssumption DEF BucketInv, BucketTypes, Full, Phase
<1>4. InFlightServed'
  BY <1>2 DEF InFlightServed, InFlight
<1>5. \A q \in Process : On(q, InFlight)' \subseteq On(q, InFlight)
  BY <1>2 DEF On, InFlight
<1>6. On(p, InFlight)' = {}
  BY <1>2, <1>5 DEF On, InFlight
<1>7. ASSUME NEW q \in Process, q # p
      PROVE  /\ GivenHolds(q)'
             /\ phase'[q] # "exited" => BucketHolds(q)'
             /\ phase'[q] = "exited" => On(q, InFlight)' = {}
  <2>1. phase'[q] = phase[q] /\ bucket'[q] = bucket[q]
    BY <1>1, <1>7 DEF BucketInv, BucketTypes
  <2> QED
    BY <1>1, <1>5, <2>1 DEF BucketInv, BucketsHold, GivenHolds, BucketHolds
<1>8. GivenHolds(p)' /\ phase'[p] = "exited"
  BY <1>1 DEF BucketInv, BucketTypes, BucketsHold, GivenHolds
<1> QED
  BY <1>3, <1>4, <1>6, <1>7, <1>8 DEF BucketsHold

\* With the next window, every bound but that of a window to come grows.
LEMMA TickRefills ==
  ASSUME BucketInv, InFlightServed, Tick
  PROVE  BucketTypes' /\ BucketsHold' /\ InFlightServed'
<1>1. UNCHANGED <<bucket, given, phase, req>> /\ now' = now + 1 /\ now \in Nat
  BY WindowsAreNaturals DEF Tick, BucketInv, Types
<1>2. BucketTypes' /\ InFlightServed'
  BY <1>1 DEF BucketInv, BucketTypes, InFlightServed
<1>3. ASSUME NEW p \in Process
      PROVE  GivenHolds(p)'
  <2>1. PICK n \in Nat : n = now' /\ n = now + 1
    BY <1>1
  <2>2. ASSUME NEW w \in Window
        PROVE  IF w <= n THEN given[p][w] <= Burst + Refill(n - w) ELSE given[p][w] = 0
    <3>1. w \in Nat /\ given[p][w] \in Nat /\ Burst \in Nat
      BY WindowsAreNaturals, EdgeAssumption DEF BucketInv, BucketTypes
    <3>2. IF w <= now THEN given[p][w] <= Burst + Refill(now - w) ELSE given[p][w] = 0
      BY DEF BucketInv, BucketsHold, GivenHolds
    <3>3. CASE w <= now
      <4>1. PICK x \in Nat : x = now - w /\ n - w = x + 1
        BY <1>1, <2>1, <3>1, <3>3
      <4>2. Refill(x + 1) = Refill(x) + Refill(1) /\ Refill(x) \in Nat /\ Refill(1) \in Nat
        BY Refills
      <4> QED
        BY <1>1, <2>1, <3>1, <3>2, <3>3, <4>1, <4>2
    <3>4. CASE w > now
      <4>1. w <= n => Refill(n - w) \in Nat
        <5>1. w <= n => n - w \in Nat
          BY <3>1
        <5> QED
          BY <5>1, Refills
      <4> QED
        BY <1>1, <2>1, <3>1, <3>2, <3>4, <4>1
    <3> QED
      BY <1>1, <3>1, <3>3, <3>4
  <2> QED
    BY <1>1, <2>1, <2>2 DEF GivenHolds
<1>4. ASSUME NEW p \in Process, BucketHolds(p)
      PROVE  BucketHolds(p)'
  <2>1. bucket[p].last \in Nat
    BY WindowsAreNaturals DEF BucketInv, BucketTypes
  <2> QED
    BY <1>1, <1>4, <2>1 DEF BucketHolds
<1>5. \A p \in Process : On(p, InFlight)' = On(p, InFlight)
  BY <1>1 DEF On
<1> QED
  BY <1>1, <1>2, <1>3, <1>4, <1>5 DEF BucketInv, BucketsHold

LEMMA BucketStep ==
  ASSUME BucketInv, InFlightServed, [Next]_vars
  PROVE  BucketTypes' /\ BucketsHold' /\ InFlightServed'
<1>1. ASSUME NEW r \in Request, NEW p \in Process, Arrive(r, p)
      PROVE  BucketTypes' /\ BucketsHold' /\ InFlightServed'
  BY <1>1, RequestMoves
<1>2. ASSUME NEW r \in Request, AuthFails(r) \/ Finish(r) \/ Increment(r) \/ SetExpiry(r)
      PROVE  BucketTypes' /\ BucketsHold' /\ InFlightServed'
  BY <1>2, RequestMoves
<1>3. ASSUME NEW r \in Request, Authenticate(r) \/ RedisFails(r)
      PROVE  BucketTypes' /\ BucketsHold' /\ InFlightServed'
  <2>1. UNCHANGED <<now, phase>> /\ req[r].at \in InFlight
    BY <1>3 DEF Authenticate, RedisFails, InFlight
  <2>2. CASE TakeToken(r)
    BY <2>1, <2>2, TokenMoves
  <2>3. CASE ~TakeToken(r)
    BY <1>3, <2>3, RequestMoves DEF Authenticate, RedisFails
  <2> QED
    BY <2>2, <2>3
<1>4. ASSUME UNCHANGED <<now, bucket, given, req>>, NEW p \in Process, NEW ph \in Phase,
             Enter(p, ph), phase[p] # "exited", ph # "exited"
      PROVE  BucketTypes' /\ BucketsHold' /\ InFlightServed'
  <2>1. phase' \in [Process -> Phase]
        /\ \A q \in Process : phase'[q] = "exited" <=> phase[q] = "exited"
    BY <1>4 DEF Enter, BucketInv, BucketTypes
  <2>2. \A q \in Process : On(q, InFlight)' = On(q, InFlight)
    BY <1>4 DEF On
  <2>3. InFlightServed'
    BY <1>4 DEF InFlightServed
  <2> QED
    BY <1>4, <2>1, <2>2, <2>3, BucketsRest
<1>5. ASSUME NEW p \in Process, FirstSignal(p) \/ BeginClosing(p) \/ Closed(p)
      PROVE  BucketTypes' /\ BucketsHold' /\ InFlightServed'
  BY <1>4, <1>5 DEF FirstSignal, BeginClosing, Closed, limits, Phase
<1>6. ASSUME NEW p \in Process, SecondSignal(p) \/ Leave(p) \/ GraceIsOver(p)
      PROVE  BucketTypes' /\ BucketsHold' /\ InFlightServed'
  BY <1>6, ExitLeaves DEF SecondSignal, Leave, GraceIsOver
<1>7. CASE Tick
  BY <1>7, TickRefills
<1>8. CASE UNCHANGED vars
  BY <1>8 DEF vars, limits, BucketInv, BucketTypes, BucketsHold, GivenHolds, BucketHolds,
              On, InFlightServed
<1> QED
  BY <1>1, <1>2, <1>3, <1>5, <1>6, <1>7, <1>8 DEF Next

LEMMA BucketInit == Init => BucketTypes /\ BucketsHold /\ InFlightServed
<1> SUFFICES ASSUME Init PROVE BucketTypes /\ BucketsHold /\ InFlightServed
  OBVIOUS
<1>1. Full \in [tokens : 0..Burst, last : Window] /\ "up" \in Phase
  BY WindowsAreNaturals, EdgeAssumption DEF Full, Phase
<1>2. BucketTypes
  BY <1>1 DEF Init, BucketTypes
<1>3. \A r \in Request : req[r].at \notin InFlight
  BY DEF Init, Idle, InFlight
<1>4. ASSUME NEW p \in Process, NEW w \in Window
      PROVE  /\ given[p][w] = 0 /\ bucket[p] = Full /\ now = 0 /\ Burst \in Nat
             /\ Refill(0) = 0 /\ w \in Nat
  <2>1. Rps * 0 = 0
    BY EdgeAssumption
  <2> QED
    BY <2>1, WindowsAreNaturals, EdgeAssumption DEF Init, Refill
<1>5. ASSUME NEW p \in Process PROVE GivenHolds(p)
  <2> SUFFICES ASSUME NEW w \in Window
               PROVE  IF w <= now THEN given[p][w] <= Burst + Refill(now - w)
                                  ELSE given[p][w] = 0
    BY DEF GivenHolds
  <2>1. w <= now => now - w = 0
    BY <1>4
  <2> QED
    BY <1>4, <2>1
<1>6. ASSUME NEW p \in Process PROVE BucketHolds(p)
  <2>1. bucket[p] = Full /\ now = 0
    BY DEF Init
  <2>2. ASSUME NEW w \in Window
        PROVE  IF w <= 0 THEN given[p][w] + Burst <= Burst + Refill(0 - w)
                         ELSE given[p][w] = 0
    <3>1. w <= 0 => 0 - w = 0
      BY <1>4
    <3> QED
      BY <1>4, <3>1
  <2> QED
    BY <2>1, <2>2 DEF BucketHolds, Full
<1> QED
  BY <1>2, <1>3, <1>5, <1>6 DEF BucketsHold, InFlightServed, On, Init

\* Whatever Redis does, the counters hold and no process ever gives away more
\* than its bucket holds and is refilled with, for any rate and any burst.
THEOREM LimitsDegradeSafely == Spec => []DegradedNotOpen
<1> DEFINE Inv == EdgeInv /\ BucketTypes /\ BucketsHold /\ InFlightServed
<1>1. Init => Inv
  BY EdgeInit, BucketInit
<1>2. Inv /\ [Next]_vars => Inv'
  BY EdgeStep, BucketStep DEF EdgeInv, BucketInv
<1>3. Inv => DegradedNotOpen
  <2> SUFFICES ASSUME Inv, NEW p \in Process, NEW w \in 0..now
               PROVE  given[p][w] <= Burst + Rps * (now - w)
    BY DEF DegradedNotOpen, EdgeInv
  <2>1. w \in Window /\ w <= now
    BY WindowsAreNaturals, EdgeAssumption DEF EdgeInv, Types, Window
  <2> QED
    BY <2>1 DEF BucketsHold, GivenHolds, Refill
<1> QED
  BY <1>1, <1>2, <1>3, PTL DEF Spec

===========================================================================
