----------------------------- MODULE Quota -----------------------------
(***************************************************************************)
(* The token quota of one tenant and its sessions: the usage table, the    *)
(* Redis counters that cache its sums, the two checks of a turn and the    *)
(* record of what a model call used.                                       *)
(*                                                                         *)
(* A counter operation is a chain of awaits (GET, SUM, SET NX, INCRBY and  *)
(* the fallback to the table), one action each, so that the turns of other *)
(* sessions run in between.  A process that could not reach Redis when it  *)
(* started counts in the table alone, next to processes that did.          *)
(***************************************************************************)
EXTENDS Integers, FiniteSets, Pricing

CONSTANTS
  Session,    \* the sessions of the tenant; the turn lock gives each one turn
  Tenant,     \* the tenant
  Limit,      \* perTenant and perSession; 0 means no limit
  MaxCall,    \* the most tokens one model call uses
  MaxCalls,   \* bound: model calls
  MaxFaults   \* bound: failed operations, lost keys and crashes

Key == Session \cup {Tenant}

ASSUME QuotaAssumption ==
  /\ Tenant \notin Session
  /\ IsFiniteSet(Session)
  /\ Limit \in [Key -> Nat]
  /\ MaxCall \in Nat \ {0}
  /\ MaxCalls \in Nat
  /\ MaxFaults \in Nat

VARIABLES
  usage,      \* usage_records: the tokens of each key
  counter,    \* quota:<scope>:<id> in Redis, NoCount without the key
  turn,       \* where the turn of each session is
  calls,      \* model calls made, bounded
  faults,     \* failures so far, bounded
  lapsed,     \* history: keys whose count may lack tokens of the table
  everLapsed  \* history: keys that have ever been in lapsed

qvars == <<usage, counter, turn, calls, faults, lapsed, everLapsed>>

NoCount == -1
TurnStage == {"idle", "preflight", "check", "model", "append", "record"}
Step == {"none", "get", "sum", "fill", "fallback", "incr", "reread"}
Kind == {"redis", "db"}

\* at: what the turn is doing; on, op, got: the counter operation it is in;
\* tokens: what its last call used; kind: the counter of its process.
Turn == [at : TurnStage, on : Key, op : Step, got : Nat, tokens : 0..MaxCall,
         kind : Kind]

QTypeOK ==
  /\ usage \in [Key -> Nat]
  /\ counter \in [Key -> Nat \cup {NoCount}]
  /\ turn \in [Session -> Turn]
  /\ calls \in 0..MaxCalls
  /\ faults \in 0..MaxFaults
  /\ lapsed \subseteq Key
  /\ everLapsed \subseteq Key

QInit ==
  /\ usage = [k \in Key |-> 0]
  /\ counter = [k \in Key |-> NoCount]
  /\ turn = [s \in Session |->
               [at |-> "idle", on |-> Tenant, op |-> "none", got |-> 0,
                tokens |-> 0, kind |-> "redis"]]
  /\ calls = 0
  /\ faults = 0
  /\ lapsed = {}
  /\ everLapsed = {}

----------------------------------------------------------------------------
\* Helpers

Place(s, at, on, op, got) ==
  turn' = [turn EXCEPT ![s] =
             [at |-> at, on |-> on, op |-> op, got |-> got,
              tokens |-> turn[s].tokens, kind |-> turn[s].kind]]
Proceed(s, op, got) == Place(s, turn[s].at, turn[s].on, op, got)
EndTurn(s) == Place(s, "idle", Tenant, "none", 0)

\* counter.get(k) begins: RedisQuotaCounter or DbQuotaCounter.
Ask(s, at, k) ==
  Place(s, at, k, IF turn[s].kind = "redis" THEN "get" ELSE "fallback", 0)
\* counter.add(k, tokens) begins; in the table alone it reads the sum again.
Add(s, k) ==
  Place(s, "record", k, IF turn[s].kind = "redis" THEN "get" ELSE "reread", 0)

InGet(s, op) == turn[s].op = op /\ turn[s].at \in {"preflight", "check", "record"}
Fault == faults < MaxFaults /\ faults' = faults + 1

\* The count of these keys will lack the tokens just left out, unless there
\* is no count and none is about to be filled from an older sum.
Lapse(K) ==
  LET hit == {k \in K : \/ counter[k] # NoCount
                        \/ \E t \in Session : turn[t].on = k /\ turn[t].op = "fill"}
  IN  /\ lapsed' = lapsed \cup hit
      /\ everLapsed' = everLapsed \cup hit

\* QuotaService.check: utilization >= 1.
Over(k, used) == Limit[k] > 0 /\ used >= Limit[k]

\* get() returns v.  In add the INCRBY follows; in a check the tenant comes
\* before the session, and the preflight lets a session over its limit go on
\* to the check before the model call.
Answered(s, v) ==
  LET t == turn[s]
  IN  \/ /\ t.at = "record"
         /\ Proceed(s, "incr", 0)
      \/ /\ t.at # "record"
         /\ Over(t.on, v)
         /\ t.at = "check" \/ t.on = Tenant
         /\ EndTurn(s)
      \/ /\ t.at # "record" /\ t.on = Tenant
         /\ ~Over(Tenant, v)
         /\ Ask(s, t.at, s)
      \/ /\ t.at = "preflight" /\ t.on = s
         /\ Ask(s, "check", Tenant)
      \/ /\ t.at = "check" /\ t.on = s
         /\ ~Over(s, v)
         /\ Place(s, "model", s, "none", 0)

\* After onUsage, whatever became of it: a tool call asks the model again, a
\* text ends the turn.
GoOn(s) == Ask(s, "check", Tenant) \/ EndTurn(s)

\* add() returned: the session is counted first, then the tenant.
Counted(s) ==
  \/ turn[s].on = s /\ Add(s, Tenant)
  \/ turn[s].on = Tenant /\ GoOn(s)

----------------------------------------------------------------------------
\* A turn: POST /v1/chat, the preflight, the model, the usage record

\* The process that serves the turn has the counter createQuotaCounter gave
\* it when it started.
Start(s) ==
  /\ turn[s].at = "idle"
  /\ calls < MaxCalls
  /\ \E kind \in Kind :
       turn' = [turn EXCEPT ![s] =
                  [at |-> "preflight", on |-> Tenant,
                   op |-> IF kind = "redis" THEN "get" ELSE "fallback",
                   got |-> 0, tokens |-> 0, kind |-> kind]]
  /\ UNCHANGED <<usage, counter, calls, faults, lapsed, everLapsed>>

\* A limit that is not positive is not looked up.
NoLimit(s) ==
  /\ turn[s].at \in {"preflight", "check"}
  /\ turn[s].op \in {"get", "fallback"}
  /\ Limit[turn[s].on] = 0
  /\ Answered(s, 0)
  /\ UNCHANGED <<usage, counter, calls, faults, lapsed, everLapsed>>

\* TokenTracker.add: what a call may be billed.
Billed ==
  LET Tokens == 0..MaxCall
  IN  {Billable(c) : c \in [input : Tokens, output : Tokens,
                            cacheRead : Tokens, cacheWrite : Tokens]}
        \cap 1..MaxCall

\* The call answers, with what it used.
ModelAnswers(s) ==
  /\ turn[s].at = "model"
  /\ calls < MaxCalls
  /\ calls' = calls + 1
  /\ \E n \in Billed :
       turn' = [turn EXCEPT ![s] =
                  [at |-> "append", on |-> s, op |-> "none", got |-> 0,
                   tokens |-> n, kind |-> turn[s].kind]]
  /\ UNCHANGED <<usage, counter, faults, lapsed, everLapsed>>

\* It fails or is cancelled: the turn ends and nothing is billed.
ModelFails(s) ==
  /\ turn[s].at = "model"
  /\ EndTurn(s)
  /\ UNCHANGED <<usage, counter, calls, faults, lapsed, everLapsed>>

Book(s) ==
  usage' = [k \in Key |-> IF k \in {s, Tenant} THEN usage[k] + turn[s].tokens
                                               ELSE usage[k]]

\* onUsage: the row is inserted, then record() counts it.
Insert(s) ==
  /\ turn[s].at = "append"
  /\ Book(s)
  /\ Add(s, s)
  /\ IF turn[s].kind = "db" THEN Lapse({s, Tenant})
                            ELSE UNCHANGED <<lapsed, everLapsed>>
  /\ UNCHANGED <<counter, calls, faults>>

\* The insert fails, or its answer is lost: the loop warns and goes on.
InsertFails(s) ==
  /\ turn[s].at = "append"
  /\ Fault
  /\ \/ UNCHANGED <<usage, lapsed, everLapsed>>
     \/ Book(s) /\ Lapse({s, Tenant})
  /\ GoOn(s)
  /\ UNCHANGED <<counter, calls>>

----------------------------------------------------------------------------
\* RedisQuotaCounter.get and DbQuotaCounter.get

\* GET finds the key.
Hit(s) ==
  /\ InGet(s, "get")
  /\ counter[turn[s].on] # NoCount
  /\ Answered(s, counter[turn[s].on])
  /\ UNCHANGED <<usage, counter, calls, faults, lapsed, everLapsed>>

Miss(s) ==
  /\ InGet(s, "get")
  /\ counter[turn[s].on] = NoCount
  /\ Proceed(s, "sum", 0)
  /\ UNCHANGED <<usage, counter, calls, faults, lapsed, everLapsed>>

\* The sum of the table is read, to fill the key.
Sum(s) ==
  /\ InGet(s, "sum")
  /\ Proceed(s, "fill", usage[turn[s].on])
  /\ UNCHANGED <<usage, counter, calls, faults, lapsed, everLapsed>>

Mutant_Fill(s) ==
  /\ InGet(s, "fill")
  /\ counter' = [counter EXCEPT ![turn[s].on] = turn[s].got]
  /\ Answered(s, turn[s].got)
  /\ UNCHANGED <<usage, calls, faults, lapsed, everLapsed>>

\* The key is incremented by the sum rather than set.
Mutant_FillAdds(s) ==
  /\ InGet(s, "fill")
  /\ counter' = [counter EXCEPT ![turn[s].on] =
                   IF @ = NoCount THEN turn[s].got ELSE @ + turn[s].got]
  /\ Answered(s, turn[s].got)
  /\ UNCHANGED <<usage, calls, faults, lapsed, everLapsed>>

\* SET NX: only a key that is still missing takes the value; the caller gets
\* what it read in the table either way.
Fill(s) ==
  /\ InGet(s, "fill")
  /\ counter' = [counter EXCEPT ![turn[s].on] =
                   IF @ = NoCount THEN turn[s].got ELSE @]
  /\ Answered(s, turn[s].got)
  /\ UNCHANGED <<usage, calls, faults, lapsed, everLapsed>>

\* Redis or the table fails in there: read the table, again if need be.  The
\* SET may have been applied.
GetFails(s) ==
  /\ \E op \in {"get", "sum", "fill"} : InGet(s, op)
  /\ Fault
  /\ \/ UNCHANGED counter
     \/ /\ turn[s].op = "fill"
        /\ counter[turn[s].on] = NoCount
        /\ counter' = [counter EXCEPT ![turn[s].on] = turn[s].got]
  /\ Proceed(s, "fallback", 0)
  /\ UNCHANGED <<usage, calls, lapsed, everLapsed>>

Fallback(s) ==
  /\ InGet(s, "fallback")
  /\ Answered(s, usage[turn[s].on])
  /\ UNCHANGED <<usage, counter, calls, faults, lapsed, everLapsed>>

Mutant_FallbackFails(s) ==
  /\ InGet(s, "fallback")
  /\ Fault
  /\ IF turn[s].at = "record"
     THEN Proceed(s, "reread", 0) /\ Lapse({turn[s].on})
     ELSE Answered(s, 0) /\ UNCHANGED <<lapsed, everLapsed>>
  /\ UNCHANGED <<usage, counter, calls>>

\* The table fails too: get() throws.  A check that throws ends the turn; add()
\* catches it, and the tokens are not counted.
FallbackFails(s) ==
  /\ InGet(s, "fallback")
  /\ Fault
  /\ IF turn[s].at = "record"
     THEN Proceed(s, "reread", 0) /\ Lapse({turn[s].on})
     ELSE EndTurn(s) /\ UNCHANGED <<lapsed, everLapsed>>
  /\ UNCHANGED <<usage, counter, calls>>

----------------------------------------------------------------------------
\* RedisQuotaCounter.add

Incremented(s) ==
  LET k == turn[s].on
  IN  counter' = [counter EXCEPT ![k] =
                    (IF @ = NoCount THEN 0 ELSE @) + turn[s].tokens]

\* INCRBY on a key that went missing since the get() starts from 0.
FromNothing(s) ==
  LET k == turn[s].on
  IN  IF counter[k] = NoCount
      THEN /\ lapsed' = lapsed \cup {k}
           /\ everLapsed' = everLapsed \cup {k}
      ELSE UNCHANGED <<lapsed, everLapsed>>

\* INCRBY and EXPIRE.
Incr(s) ==
  /\ InGet(s, "incr")
  /\ Incremented(s)
  /\ FromNothing(s)
  /\ Counted(s)
  /\ UNCHANGED <<usage, calls, faults>>

\* The INCRBY fails, or it is applied and what follows fails.
IncrFails(s) ==
  /\ InGet(s, "incr")
  /\ Fault
  /\ \/ UNCHANGED counter /\ Lapse({turn[s].on})
     \/ Incremented(s) /\ FromNothing(s)
  /\ Proceed(s, "reread", 0)
  /\ UNCHANGED <<usage, calls>>

\* The table is read for the value add() returns, which record() ignores.
Reread(s) ==
  /\ InGet(s, "reread")
  /\ Counted(s)
  /\ UNCHANGED <<usage, counter, calls, faults, lapsed, everLapsed>>

\* When that throws, record() rejects: the tenant is not counted any more.
RereadFails(s) ==
  /\ InGet(s, "reread")
  /\ Fault
  /\ IF turn[s].on = s THEN Lapse({Tenant}) ELSE UNCHANGED <<lapsed, everLapsed>>
  /\ GoOn(s)
  /\ UNCHANGED <<usage, counter, calls>>

----------------------------------------------------------------------------
\* The environment

\* The key expires, is evicted or is lost with Redis.  Its next fill makes
\* good what was left out, unless a sum read earlier is still to be filled in.
KeyLost(k) ==
  /\ counter[k] # NoCount
  /\ Fault
  /\ counter' = [counter EXCEPT ![k] = NoCount]
  /\ IF \E t \in Session : turn[t].on = k /\ turn[t].op = "fill"
     THEN lapsed' = lapsed \cup {k} /\ everLapsed' = everLapsed \cup {k}
     ELSE lapsed' = lapsed \ {k} /\ UNCHANGED everLapsed
  /\ UNCHANGED <<usage, turn, calls>>

\* The tokens of s that are in the table and that its record() will still
\* add to the count of k.
Owes(s, k) ==
  LET t == turn[s]
  IN  /\ t.at = "record" /\ t.kind = "redis"
      /\ \/ k = s /\ t.on = s /\ t.op # "reread"
         \/ k = Tenant /\ (t.on = s \/ t.op # "reread")

\* The process dies in the middle of a turn.
TurnDies(s) ==
  /\ turn[s].at # "idle"
  /\ Fault
  /\ Lapse({k \in Key : Owes(s, k)})
  /\ EndTurn(s)
  /\ UNCHANGED <<usage, counter, calls>>

SessionNext(s) ==
  \/ Start(s) \/ NoLimit(s) \/ ModelAnswers(s) \/ ModelFails(s)
  \/ Insert(s) \/ InsertFails(s)
  \/ Hit(s) \/ Miss(s) \/ Sum(s) \/ Fill(s) \/ GetFails(s)
  \/ Fallback(s) \/ FallbackFails(s)
  \/ Incr(s) \/ IncrFails(s) \/ Reread(s) \/ RereadFails(s)
  \/ TurnDies(s)

QNext == (\E s \in Session : SessionNext(s)) \/ (\E k \in Key : KeyLost(k))

QSpec == QInit /\ [][QNext]_qvars

----------------------------------------------------------------------------
\* Properties

Sharers(k) == IF k = Tenant THEN Session ELSE {k}

\* The tokens the turns that are recording will still add to the count of k.
Owed(k) ==
  {o \in Sharers(k) \X (1..MaxCall) : Owes(o[1], k) /\ o[2] <= turn[o[1]].tokens}
Owing(k) == Cardinality(Owed(k))

(***************************************************************************)
(* The Redis counter never hides usage: a count, with what the turns that  *)
(* are recording will still add, covers the table.  It may lack tokens     *)
(* only after an INCRBY was left out or started from nothing, or a key was *)
(* lost while an older sum was about to fill it (quota.ts:110, NX).        *)
(***************************************************************************)
CounterCoversTable ==
  \A k \in Key :
    counter[k] # NoCount /\ k \notin lapsed => counter[k] + Owing(k) >= usage[k]

(***************************************************************************)
(* The fill of a cold key from a table that already holds the tokens being *)
(* recorded counts them twice (quota.ts:123), but never more than one call *)
(* of each turn that shares the key, however keys are lost.                *)
(***************************************************************************)
OverchargeBounded ==
  \A k \in Key :
    counter[k] # NoCount =>
      counter[k] + Owing(k) <= usage[k] + Cardinality(Sharers(k)) * MaxCall

(***************************************************************************)
(* Check and deduction are apart (quota.ts:164): turns that all pass the   *)
(* check overshoot a limit by at most one call each, whatever fails, as    *)
(* long as the count never lacked tokens.                                  *)
(***************************************************************************)
OvershootBounded ==
  \A k \in Key :
    Limit[k] > 0 /\ k \notin everLapsed =>
      usage[k] < Limit[k] + Cardinality(Sharers(k)) * MaxCall

\* For price tables of up to three windows on four days.
Unambiguous ==
  LET Day == 1..4
      Window == [from : Day \cup {None}, until : Day \cup {None}]
  IN  \A ws \in UNION {[1..n -> Window] : n \in 1..3} :
        ValidWindows(ws) =>
          \A day \in Day :
            LET r == Resolve(ws, day)
                hits == {i \in DOMAIN ws : Holds(ws[i], day)}
            IN  /\ Cardinality(hits) <= 1
                /\ r.resolved = "exact" <=> hits = {r.window}
                /\ r.resolved = "before-first" =>
                     \A i \in DOMAIN ws : day < ws[i].from
                /\ r.resolved = "after-last" =>
                     \A i \in DOMAIN ws : day > ws[i].until

(***************************************************************************)
(* A price table that validatePriceWindows accepts prices every day by     *)
(* exactly one window, and a day outside all of them by the nearest one    *)
(* (token-tracker.ts:87, :126).  No step changes this: it is evaluated     *)
(* before the first call of the model.                                     *)
(***************************************************************************)
PricesUnambiguous == calls = 0 => Unambiguous

============================================================================
