---------------------------- MODULE Caches -----------------------------
(***************************************************************************)
(* The two caches a request goes through, for one session and its tenant.  *)
(*                                                                         *)
(* CachedSessionStore keeps the entries of the session in Redis, shared by *)
(* all processes, filled by readers, dropped by every append and by Redis  *)
(* when the time to live the fill gave it is over.                         *)
(* CachedTenantConfig keeps the tenant's configuration in a Map of each    *)
(* process, filled by readers and by PUT /v1/tenants/:id/config, for ever. *)
(* Every await between reading a value and caching it is a step.           *)
(*                                                                         *)
(* A Mutant_ operator is the action below it with a plausible bug.         *)
(***************************************************************************)
EXTENDS Naturals

CONSTANTS
  Request,    \* requests under way at once; each is used again and again
  Endless,    \* bound: the doings that may come for ever
  MaxStarts,  \* bound: requests in all, those not counted
  Proc,       \* processes
  On,         \* the process that serves each request
  KeyTtl,     \* ttlSeconds of the session cache, in ticks
  MaxLog,     \* bound: entries of the session
  MaxVersion, \* bound: configurations written by PUT
  MaxFaults,  \* bound: failed calls and restarts
  None,       \* no request, no cached value, no row
  Unset       \* nothing in the Map

ASSUME CachesAssumption ==
  /\ On \in [Request -> Proc]
  /\ KeyTtl \in Nat \ {0}
  /\ MaxStarts \in Nat /\ MaxLog \in Nat
  /\ MaxVersion \in Nat /\ MaxFaults \in Nat

VARIABLES
  log,        \* how many entries session_entries holds for the session
  cached,     \* how many the value under sess:entries:<id> holds, or None
  ttl,        \* ticks until Redis drops that value; 0 when there is none
  cacheOf,    \* the session cache of each process
  lock,       \* the request that holds the turn lock, or None
  stored,     \* the tenant's row in tenant_configs, or None
  known,      \* the Map of each process: a row, or Unset
  req,        \* what each request is doing
  starts,     \* requests so far, bounded
  faults,     \* failures so far, bounded
  excused,    \* history: why the cached entries may lack some
  behind      \* history: processes whose Map may hold an old row

vars == <<log, cached, ttl, cacheOf, lock, stored, known, req, starts, faults,
          excused, behind>>
sessionVars == <<log, cached, ttl, cacheOf, lock, excused>>
configVars == <<stored, known, behind>>

CacheKind == {"redis", "noop"}

\* A row: are there extra safety rules; which PUT wrote policy and limits, 0
\* for none of them.
Row == [rules : BOOLEAN, version : 0..MaxVersion]
Held == Row \cup {None}

Doing == {"turn", "read", "show", "put"}
Stage == {"idle", "get", "load", "fill", "lock", "lookup", "select", "keep",
          "append", "invalidate", "unlock", "upsert", "saved"}

\* entries: what getEntries returned; row: what the database answered.
Req == [doing : Doing, at : Stage, entries : 0..MaxLog, row : Held]

TypeOK ==
  /\ log \in 0..MaxLog
  /\ cached \in 0..MaxLog \cup {None}
  /\ ttl \in 0..KeyTtl
  /\ cacheOf \in [Proc -> CacheKind]
  /\ lock \in Request \cup {None}
  /\ stored \in Held
  /\ known \in [Proc -> Held \cup {Unset}]
  /\ req \in [Request -> Req]
  /\ starts \in 0..MaxStarts
  /\ faults \in 0..MaxFaults
  /\ excused \in BOOLEAN
  /\ behind \subseteq Proc

Idle == [doing |-> "turn", at |-> "idle", entries |-> 0, row |-> None]

Init ==
  /\ log = 0
  /\ cached = None
  /\ ttl = 0
  /\ cacheOf \in [Proc -> CacheKind]
  /\ lock = None
  /\ stored \in {None, [rules |-> TRUE, version |-> 0]}
  /\ known = [p \in Proc |-> Unset]
  /\ req = [r \in Request |-> Idle]
  /\ starts = 0
  /\ faults = 0
  /\ excused = FALSE
  /\ behind = {}

Become(r, at, entries, row) ==
  req' = [req EXCEPT ![r] = [doing |-> req[r].doing, at |-> at,
                             entries |-> entries, row |-> row]]
Goto(r, at) == Become(r, at, req[r].entries, req[r].row)
Done(r) == req' = [req EXCEPT ![r] = Idle]
Fault == faults < MaxFaults /\ faults' = faults + 1

\* The key is gone.
Dropped == cached' = None /\ ttl' = 0 /\ excused' = FALSE
CanCache(r) == cacheOf[On[r]] = "redis"

\* What comes after the entries and after the configuration.
AfterEntries(r, n) ==
  \/ req[r].doing = "read" /\ Done(r)
  \/ req[r].doing = "turn" /\ Become(r, "lock", n, None)
AfterConfig(r) ==
  \/ req[r].doing = "show" /\ Done(r)
  \/ req[r].doing = "turn" /\ Goto(r, "append")

FirstStep == [turn |-> "get", read |-> "get", show |-> "lookup", put |-> "upsert"]

Start(r) ==
  /\ req[r].at = "idle"
  /\ \E doing \in Doing :
       /\ req' = [req EXCEPT ![r] =
                    [doing |-> doing, at |-> FirstStep[doing], entries |-> 0, row |-> None]]
       /\ \/ doing \in Endless /\ UNCHANGED starts
          \/ doing \notin Endless /\ starts < MaxStarts /\ starts' = starts + 1
  /\ UNCHANGED <<sessionVars, configVars, faults>>

----------------------------------------------------------------------------
\* CachedSessionStore: Session.restore reads, a turn appends

\* A hit that gives the key its time again.
Mutant_CacheHit(r) ==
  /\ req[r].at = "get"
  /\ CanCache(r)
  /\ cached # None
  /\ ttl' = KeyTtl
  /\ AfterEntries(r, cached)
  /\ UNCHANGED <<starts, log, cached, cacheOf, lock, excused, configVars, faults>>

\* The key is there: GET, which leaves its time to live alone.
CacheHit(r) ==
  /\ req[r].at = "get"
  /\ CanCache(r)
  /\ cached # None
  /\ AfterEntries(r, cached)
  /\ UNCHANGED <<starts, sessionVars, configVars, faults>>

\* It is not, or there is no Redis, or GET fails: read the database.
CacheMiss(r) ==
  /\ req[r].at = "get"
  /\ \/ ~CanCache(r) /\ UNCHANGED faults
     \/ cached = None /\ UNCHANGED faults
     \/ Fault
  /\ Goto(r, "load")
  /\ UNCHANGED <<starts, sessionVars, configVars>>

LoadEntries(r) ==
  /\ req[r].at = "load"
  /\ Become(r, "fill", log, None)
  /\ UNCHANGED <<starts, sessionVars, configVars, faults>>

\* SET EX: whatever is there is replaced, by what may be older than it, and
\* has its whole time to live before it.
FillCache(r) ==
  /\ req[r].at = "fill"
  /\ \/ /\ CanCache(r)
        /\ cached' = req[r].entries
        /\ ttl' = KeyTtl
        /\ excused' = (req[r].entries # log)
        /\ UNCHANGED faults
     \/ /\ ~CanCache(r)
        /\ UNCHANGED <<cached, ttl, excused, faults>>
     \/ Fault /\ UNCHANGED <<cached, ttl, excused>>
  /\ AfterEntries(r, req[r].entries)
  /\ UNCHANGED <<starts, log, cacheOf, lock, configVars>>

\* prepareTurn: the lock, then resolveForTenant.
Lock(r) ==
  /\ req[r].at = "lock"
  /\ lock = None
  /\ lock' = r
  /\ Goto(r, "lookup")
  /\ UNCHANGED <<starts, log, cached, ttl, cacheOf, excused, configVars, faults>>

Busy(r) ==
  /\ req[r].at = "lock"
  /\ lock # None
  /\ Done(r)
  /\ UNCHANGED <<starts, sessionVars, configVars, faults>>

Mutant_AppendEntry(r) ==
  /\ req[r].at = "append"
  /\ log < MaxLog
  /\ log' = log + 1
  /\ \/ Goto(r, "append") \/ Goto(r, "unlock")
  /\ UNCHANGED <<starts, cached, ttl, cacheOf, lock, excused, configVars, faults>>

\* appendEntry, first await: the row is there, the cache not yet dropped; and
\* never will be when the answer of the insert is lost.
AppendEntry(r) ==
  /\ req[r].at = "append"
  /\ log < MaxLog
  /\ log' = log + 1
  /\ \/ Goto(r, "invalidate") /\ UNCHANGED <<excused, faults>>
     \/ Fault /\ excused' = TRUE /\ Goto(r, "unlock")
  /\ UNCHANGED <<starts, cached, ttl, cacheOf, lock, configVars>>

\* Its second: DEL.  A failure is swallowed, and a process without Redis
\* drops nothing of what the others have cached.
Invalidate(r) ==
  /\ req[r].at = "invalidate"
  /\ \/ CanCache(r) /\ Dropped /\ UNCHANGED faults
     \/ ~CanCache(r) /\ excused' = TRUE /\ UNCHANGED <<cached, ttl, faults>>
     \/ Fault /\ excused' = TRUE /\ UNCHANGED <<cached, ttl>>
  /\ \/ Goto(r, "append") \/ Goto(r, "unlock")
  /\ UNCHANGED <<starts, log, cacheOf, lock, configVars>>

\* Nothing more to append, or the insert failed.
EndAppends(r) ==
  /\ req[r].at = "append"
  /\ Goto(r, "unlock")
  /\ UNCHANGED <<starts, sessionVars, configVars, faults>>

Unlock(r) ==
  /\ req[r].at = "unlock"
  /\ lock' = None
  /\ Done(r)
  /\ UNCHANGED <<starts, log, cached, ttl, cacheOf, excused, configVars, faults>>

\* A tick of Redis' clock, which drops the key when its time is over.
Tick ==
  /\ ttl > 0
  /\ \/ ttl = 1 /\ Dropped
     \/ ttl > 1 /\ ttl' = ttl - 1 /\ UNCHANGED <<cached, excused>>
  /\ UNCHANGED <<starts, log, cacheOf, lock, configVars, req, faults>>

----------------------------------------------------------------------------
\* CachedTenantConfig

\* GET .../config ("show") asks twice: the second time the Map has it.

\* Requests of p that hold a row they have not put into the Map yet.
Between(p) == {r \in Request : On[r] = p /\ req[r].at \in {"keep", "saved"}}

\* get(): the Map has the tenant, be it with null.
MapHit(r) ==
  /\ req[r].at = "lookup"
  /\ known[On[r]] # Unset
  /\ AfterConfig(r)
  /\ UNCHANGED <<starts, sessionVars, configVars, faults>>

MapMiss(r) ==
  /\ req[r].at = "lookup"
  /\ known[On[r]] = Unset
  /\ Goto(r, "select")
  /\ UNCHANGED <<starts, sessionVars, configVars, faults>>

SelectRow(r) ==
  /\ req[r].at = "select"
  /\ Become(r, "keep", req[r].entries, stored)
  /\ UNCHANGED <<starts, sessionVars, configVars, faults>>

\* The query fails: prepareTurn releases the lock and throws.
SelectFails(r) ==
  /\ req[r].at = "select"
  /\ Fault
  /\ lock' = IF lock = r THEN None ELSE lock
  /\ Done(r)
  /\ UNCHANGED <<starts, log, cached, ttl, cacheOf, excused, configVars>>

\* The Map takes what the query answered, over whatever it holds by now.
KeepRow(r) ==
  /\ req[r].at = "keep"
  /\ known' = [known EXCEPT ![On[r]] = req[r].row]
  /\ AfterConfig(r)
  /\ UNCHANGED <<starts, sessionVars, stored, behind, faults>>

\* The row PUT writes.  It has no rules in its body, and upsert replaces all
\* columns: rules there were are replaced by none, what was left out by {}.
Written(version) == [rules |-> FALSE, version |-> version]
NextVersion == IF stored = None THEN 1 ELSE stored.version + 1

\* INSERT ... ON CONFLICT DO UPDATE.  The other processes keep what they know,
\* and so may a request of this one that is between its query and the Map.
Upsert(r) ==
  LET p == On[r]
  IN  /\ req[r].at = "upsert"
      /\ NextVersion <= MaxVersion
      /\ stored' = Written(NextVersion)
      /\ Become(r, "saved", 0, stored')
      /\ behind' = {q \in Proc : Between(q) # {} \/ (q # p /\ known[q] # Unset)}
      /\ UNCHANGED <<starts, sessionVars, known, faults>>

Mutant_CacheSaved(r) ==
  /\ req[r].at = "saved"
  /\ Done(r)
  /\ UNCHANGED <<starts, sessionVars, configVars, faults>>

\* The Map takes the row the database returned.
CacheSaved(r) ==
  /\ req[r].at = "saved"
  /\ known' = [known EXCEPT ![On[r]] = req[r].row]
  /\ Done(r)
  /\ UNCHANGED <<starts, sessionVars, stored, behind, faults>>

\* The query fails; when it was applied all the same, this process does not
\* learn of it either.
UpsertFails(r) ==
  /\ req[r].at = "upsert"
  /\ Fault
  /\ \/ UNCHANGED <<stored, behind>>
     \/ /\ NextVersion <= MaxVersion
        /\ stored' = Written(NextVersion)
        /\ behind' = {q \in Proc : Between(q) # {} \/ known[q] # Unset}
  /\ Done(r)
  /\ UNCHANGED <<starts, sessionVars, known>>

----------------------------------------------------------------------------
\* A process restarts: its Map is empty, its turns are gone and their lock is
\* freed by its TTL.  It has Redis if it reaches it now.
Restart(p) ==
  /\ Fault
  /\ known' = [known EXCEPT ![p] = Unset]
  /\ behind' = behind \ {p}
  /\ \E kind \in CacheKind : cacheOf' = [cacheOf EXCEPT ![p] = kind]
  /\ req' = [r \in Request |-> IF On[r] = p THEN Idle ELSE req[r]]
  /\ lock' = IF lock # None /\ On[lock] = p THEN None ELSE lock
  /\ excused' = (excused \/ \E r \in Request :
                              On[r] = p /\ req[r].at = "invalidate")
  /\ UNCHANGED <<starts, log, cached, ttl, stored>>

RequestNext(r) ==
  \/ Start(r) \/ CacheHit(r) \/ CacheMiss(r) \/ LoadEntries(r) \/ FillCache(r)
  \/ Lock(r) \/ Busy(r) \/ AppendEntry(r) \/ Invalidate(r) \/ EndAppends(r)
  \/ Unlock(r) \/ MapHit(r) \/ MapMiss(r) \/ SelectRow(r) \/ SelectFails(r)
  \/ KeepRow(r) \/ Upsert(r) \/ CacheSaved(r) \/ UpsertFails(r)

Next == (\E r \in Request : RequestNext(r)) \/ Tick \/ (\E p \in Proc : Restart(p))

Spec == Init /\ [][Next]_vars

\* Time passes.
FairSpec == Spec /\ WF_vars(Tick)

----------------------------------------------------------------------------
\* Properties

(***************************************************************************)
(* The cached entries are those of the database, except while an append is *)
(* on its way to its DEL, and after a fill with entries read before an     *)
(* append (session-cache.ts:163), a DEL that failed, an append whose       *)
(* answer was lost, or one by a process that runs without Redis.           *)
(***************************************************************************)
CacheIsCurrent ==
  cached # None /\ cached # log =>
    excused \/ \E r \in Request : req[r].at = "invalidate"

(***************************************************************************)
(* The Map of a process holds the stored row, except while its own upsert  *)
(* is on its way into the Map, and after an upsert in another process, or  *)
(* one here that overlapped another call's query (config.ts:89, :95).      *)
(***************************************************************************)
ConfigIsCurrent ==
  \A p \in Proc :
    known[p] \notin {Unset, stored} =>
      p \in behind \/ \E r \in Between(p) : req[r].at = "saved"

(***************************************************************************)
(* Cached entries that lack some are gone some time, however late a reader *)
(* put them there and however often they are read: the fill gives the key  *)
(* a time to live, and a hit does not extend it (session-cache.ts:64, a    *)
(* SET with EX; get does not touch it).                                    *)
(***************************************************************************)
StaleEnds == (cached # None /\ cached # log) ~> (cached = None \/ cached = log)

(***************************************************************************)
(* Safety rules of a tenant come and go with deployments, never through    *)
(* the API: that is what the comment on PUT says (app.ts:1135).            *)
(***************************************************************************)
RulesLeftAlone ==
  [][stored # None /\ stored.rules => stored' # None /\ stored'.rules]_vars

============================================================================
