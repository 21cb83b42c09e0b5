------------------------- MODULE CachesProofs --------------------------
(***************************************************************************)
(* What holds of the two caches for any requests, processes and bounds.    *)
(*                                                                         *)
(* Invariant: besides the types, what a request is about to put into its   *)
(* process's Map is the stored row unless that process is marked as        *)
(* behind.  A row goes into the Map only through such a request, so the    *)
(* Map itself can only be wrong in a process that is marked.  The entries  *)
(* need no strengthening: every action that separates the cached ones from *)
(* the log leaves an append on its way to its DEL, or the mark.            *)
(***************************************************************************)
EXTENDS Caches, TLAPS

\* What is on its way into the Maps.
RowsAreCurrent ==
  \A r \in Request :
    req[r].at \in {"keep", "saved"} => req[r].row = stored \/ On[r] \in behind

ConfigInv == TypeOK /\ RowsAreCurrent /\ ConfigIsCurrent

----------------------------------------------------------------------------
\* Requests

\* A request that moves on keeps its type, and the others are left alone.
LEMMA BecomeKeeps ==
  ASSUME req \in [Request -> Req], NEW r \in Request, NEW at \in Stage,
         NEW entries \in 0..MaxLog, NEW row \in Held, Become(r, at, entries, row)
  PROVE  /\ req' \in [Request -> Req]
         /\ req'[r].at = at /\ req'[r].row = row
         /\ \A q \in Request \ {r} : req'[q] = req[q]
<1> DEFINE new == [doing |-> req[r].doing, at |-> at, entries |-> entries, row |-> row]
<1>1. new \in Req
  BY DEF Req
<1>2. req' = [req EXCEPT ![r] = new]
  BY DEF Become
<1>3. new.at = at /\ new.row = row
  OBVIOUS
<1> HIDE DEF new
<1> QED
  BY <1>1, <1>2, <1>3

LEMMA GotoKeeps ==
  ASSUME req \in [Request -> Req], NEW r \in Request, NEW at \in Stage, Goto(r, at)
  PROVE  /\ req' \in [Request -> Req]
         /\ req'[r].at = at /\ req'[r].row = req[r].row
         /\ \A q \in Request \ {r} : req'[q] = req[q]
<1>1. req[r].entries \in 0..MaxLog /\ req[r].row \in Held
  BY DEF Req
<1> QED
  BY <1>1, BecomeKeeps DEF Goto

LEMMA IdleIsTyped == Idle \in Req /\ Idle.at = "idle"
BY CachesAssumption DEF Idle, Req, Doing, Stage, Held

LEMMA DoneKeeps ==
  ASSUME req \in [Request -> Req], NEW r \in Request, Done(r)
  PROVE  /\ req' \in [Request -> Req]
         /\ req'[r].at = "idle"
         /\ \A q \in Request \ {r} : req'[q] = req[q]
BY IdleIsTyped DEF Done

\* After the entries or the configuration nothing is on its way to a cache.
LEMMA AfterEntriesKeeps ==
  ASSUME req \in [Request -> Req], NEW r \in Request, NEW n \in 0..MaxLog,
         AfterEntries(r, n)
  PROVE  /\ req' \in [Request -> Req]
         /\ req'[r].at \in {"idle", "lock"}
         /\ \A q \in Request \ {r} : req'[q] = req[q]
<1>1. CASE req[r].doing = "read" /\ Done(r)
  BY <1>1, DoneKeeps
<1>2. CASE req[r].doing = "turn" /\ Become(r, "lock", n, None)
  BY <1>2, BecomeKeeps DEF Stage, Held
<1> QED
  BY <1>1, <1>2 DEF AfterEntries

LEMMA AfterConfigKeeps ==
  ASSUME req \in [Request -> Req], NEW r \in Request, AfterConfig(r)
  PROVE  /\ req' \in [Request -> Req]
         /\ req'[r].at \in {"idle", "append"}
         /\ \A q \in Request \ {r} : req'[q] = req[q]
<1>1. CASE req[r].doing = "show" /\ Done(r)
  BY <1>1, DoneKeeps
<1>2. CASE req[r].doing = "turn" /\ Goto(r, "append")
  BY <1>2, GotoKeeps DEF Stage
<1> QED
  BY <1>1, <1>2 DEF AfterConfig

\* A new request is at its first step.
LEMMA StartKeeps ==
  ASSUME req \in [Request -> Req], NEW r \in Request, Start(r)
  PROVE  /\ req' \in [Request -> Req]
         /\ req'[r].at \in {"get", "lookup", "upsert"}
         /\ \A q \in Request \ {r} : req'[q] = req[q]
<1>1. PICK doing \in Doing :
        req' = [req EXCEPT ![r] =
                 [doing |-> doing, at |-> FirstStep[doing], entries |-> 0, row |-> None]]
  BY DEF Start
<1> DEFINE new == [doing |-> doing, at |-> FirstStep[doing], entries |-> 0, row |-> None]
<1>2. FirstStep[doing] \in {"get", "lookup", "upsert"}
  BY DEF Doing, FirstStep
<1>3. new \in Req /\ new.at = FirstStep[doing]
  BY <1>2, CachesAssumption DEF Req, Stage, Held
<1>4. req' = [req EXCEPT ![r] = new]
  BY <1>1
<1> HIDE DEF new
<1> QED
  BY <1>2, <1>3, <1>4

\* A row that PUT writes, and the number it carries.
LEMMA WrittenIsTyped ==
  ASSUME stored \in Held, NextVersion <= MaxVersion
  PROVE  NextVersion \in 0..MaxVersion /\ Written(NextVersion) \in Held
<1>1. NextVersion \in Nat
  BY CachesAssumption DEF NextVersion, Held, Row
<1>2. NextVersion \in 0..MaxVersion
  BY <1>1, CachesAssumption
<1> QED
  BY <1>2 DEF Written, Held, Row

----------------------------------------------------------------------------
\* Types

LEMMA InitTyped == Init => TypeOK
<1> SUFFICES ASSUME Init PROVE TypeOK
  OBVIOUS
<1>1. log \in 0..MaxLog /\ starts \in 0..MaxStarts /\ faults \in 0..MaxFaults
  BY CachesAssumption DEF Init
<1>2. stored \in Held
  <2>1. [rules |-> TRUE, version |-> 0] \in Row
    BY CachesAssumption DEF Row
  <2> QED
    BY <2>1 DEF Init, Held
<1>3. req \in [Request -> Req]
  BY IdleIsTyped DEF Init
<1>4. /\ cached \in 0..MaxLog \cup {None} /\ lock \in Request \cup {None}
      /\ ttl \in 0..KeyTtl
  BY CachesAssumption DEF Init
<1>5. cacheOf \in [Proc -> CacheKind] /\ known \in [Proc -> Held \cup {Unset}]
  BY DEF Init
<1>6. excused \in BOOLEAN /\ behind \subseteq Proc
  BY DEF Init
<1> QED
  BY <1>1, <1>2, <1>3, <1>4, <1>5, <1>6 DEF TypeOK

LEMMA NextTyped == TypeOK /\ [Next]_vars => TypeOK'
<1> SUFFICES ASSUME TypeOK, [Next]_vars PROVE TypeOK'
  OBVIOUS
<1> USE DEF TypeOK, sessionVars, configVars, Fault
<1>1. ASSUME NEW r \in Request, RequestNext(r) PROVE TypeOK'
  <2>1. CASE Start(r)
    <3>1. req' \in [Request -> Req]
      BY <2>1, StartKeeps
    <3>2. starts' \in 0..MaxStarts
      BY <2>1, CachesAssumption DEF Start
    <3> QED
      BY <2>1, <3>1, <3>2 DEF Start
  <2>2. CASE CacheHit(r)
    BY <2>2, AfterEntriesKeeps DEF CacheHit
  <2>3. CASE CacheMiss(r)
    BY <2>3, GotoKeeps, CachesAssumption DEF CacheMiss, Stage
  <2>4. CASE LoadEntries(r)
    BY <2>4, BecomeKeeps DEF LoadEntries, Stage, Held
  <2>5. CASE FillCache(r)
    <3>1. req[r].entries \in 0..MaxLog
      BY DEF Req
    <3>2. req' \in [Request -> Req]
      BY <2>5, <3>1, AfterEntriesKeeps DEF FillCache
    <3>3. excused' \in BOOLEAN
      BY <2>5 DEF FillCache
    <3>4. faults' \in 0..MaxFaults
      BY <2>5, CachesAssumption DEF FillCache
    <3>5. cached' \in 0..MaxLog \cup {None}
      BY <2>5, <3>1, CachesAssumption DEF FillCache
    <3>6. UNCHANGED <<starts, log, cacheOf, lock, configVars>>
      BY <2>5 DEF FillCache
    <3>7. ttl' \in 0..KeyTtl
      BY <2>5, CachesAssumption DEF FillCache
    <3> QED
      BY <3>1, <3>2, <3>3, <3>4, <3>5, <3>6, <3>7
  <2>6. CASE Lock(r)
    BY <2>6, GotoKeeps DEF Lock, Stage
  <2>7. CASE Busy(r)
    BY <2>7, DoneKeeps DEF Busy
  <2>8. CASE AppendEntry(r)
    <3>1. req' \in [Request -> Req]
      BY <2>8, GotoKeeps DEF AppendEntry, Stage
    <3>2. excused' \in BOOLEAN
      BY <2>8 DEF AppendEntry
    <3>3. faults' \in 0..MaxFaults
      BY <2>8, CachesAssumption DEF AppendEntry
    <3>4. log' \in 0..MaxLog /\ cached' = cached
      BY <2>8, <3>1, CachesAssumption DEF AppendEntry
    <3>5. UNCHANGED <<starts, cached, ttl, cacheOf, lock, configVars>>
      BY <2>8 DEF AppendEntry
    <3> QED
      BY <3>1, <3>2, <3>3, <3>4, <3>5
  <2>9. CASE Invalidate(r)
    <3>1. req' \in [Request -> Req]
      BY <2>9, GotoKeeps DEF Invalidate, Stage
    <3>2. excused' \in BOOLEAN
      BY <2>9 DEF Invalidate, Dropped
    <3>3. faults' \in 0..MaxFaults
      BY <2>9, CachesAssumption DEF Invalidate, Dropped
    <3>4. cached' \in 0..MaxLog \cup {None}
      BY <2>9, <3>1, CachesAssumption DEF Invalidate, Dropped
    <3>5. UNCHANGED <<starts, log, cacheOf, lock, configVars>>
      BY <2>9 DEF Invalidate, Dropped
    <3>6. ttl' \in 0..KeyTtl
      BY <2>9, CachesAssumption DEF Invalidate, Dropped
    <3> QED
      BY <3>1, <3>2, <3>3, <3>4, <3>5, <3>6
  <2>10. CASE EndAppends(r)
    BY <2>10, GotoKeeps DEF EndAppends, Stage
  <2>11. CASE Unlock(r)
    BY <2>11, DoneKeeps DEF Unlock
  <2>12. CASE MapHit(r)
    BY <2>12, AfterConfigKeeps DEF MapHit
  <2>13. CASE MapMiss(r)
    BY <2>13, GotoKeeps DEF MapMiss, Stage
  <2>14. CASE SelectRow(r)
    <3>1. req[r].entries \in 0..MaxLog
      BY DEF Req
    <3> QED
      BY <2>14, <3>1, BecomeKeeps DEF SelectRow, Stage
  <2>15. CASE SelectFails(r)
    BY <2>15, DoneKeeps, CachesAssumption DEF SelectFails
  <2>16. CASE KeepRow(r)
    <3>1. req[r].row \in Held
      BY DEF Req
    <3> QED
      BY <2>16, <3>1, AfterConfigKeeps DEF KeepRow
  <2>17. CASE Upsert(r)
    <3>1. stored' \in Held
      BY <2>17, WrittenIsTyped DEF Upsert
    <3>2. req' \in [Request -> Req]
      BY <2>17, <3>1, BecomeKeeps, CachesAssumption DEF Upsert, Stage
    <3> QED
      BY <2>17, <3>1, <3>2 DEF Upsert
  <2>18. CASE CacheSaved(r)
    <3>1. req[r].row \in Held
      BY DEF Req
    <3> QED
      BY <2>18, <3>1, DoneKeeps DEF CacheSaved
  <2>19. CASE UpsertFails(r)
    <3>1. stored' \in Held
      BY <2>19, WrittenIsTyped DEF UpsertFails
    <3>2. req' \in [Request -> Req]
      BY <2>19, DoneKeeps DEF UpsertFails
    <3> QED
      BY <2>19, <3>1, <3>2, CachesAssumption DEF UpsertFails
  <2> QED
    BY <1>1, <2>1, <2>2, <2>3, <2>4, <2>5, <2>6, <2>7, <2>8, <2>9, <2>10, <2>11,
       <2>12, <2>13, <2>14, <2>15, <2>16, <2>17, <2>18, <2>19 DEF RequestNext
<1>2. CASE Tick
  <2>1. ttl' \in 0..KeyTtl
    BY <1>2, CachesAssumption DEF Tick, Dropped
  <2>2. cached' \in 0..MaxLog \cup {None} /\ excused' \in BOOLEAN
    BY <1>2 DEF Tick, Dropped
  <2> QED
    BY <1>2, <2>1, <2>2 DEF Tick
<1>3. ASSUME NEW p \in Proc, Restart(p) PROVE TypeOK'
  <2>1. req' \in [Request -> Req]
    BY <1>3, IdleIsTyped DEF Restart
  <2>2. cacheOf' \in [Proc -> CacheKind]
    BY <1>3 DEF Restart
  <2>3. excused' \in BOOLEAN /\ faults' \in 0..MaxFaults
    BY <1>3, CachesAssumption DEF Restart
  <2> QED
    BY <1>3, <2>1, <2>2, <2>3 DEF Restart
<1>4. CASE UNCHANGED vars
  BY <1>4 DEF vars
<1> QED
  BY <1>1, <1>2, <1>3, <1>4 DEF Next

\* Every reachable state is well typed: a request never holds more entries
\* than were appended, nor a row that nobody wrote.
THEOREM TypeCorrect == Spec => []TypeOK
BY InitTyped, NextTyped, PTL DEF Spec

----------------------------------------------------------------------------
\* The cached entries

\* What changes neither the log, the cache nor the mark, and leaves requests
\* that are about to invalidate alone, keeps the property.
LEMMA EntriesUntouched ==
  ASSUME CacheIsCurrent, UNCHANGED <<log, cached, excused>>,
         \A r \in Request : req[r].at = "invalidate" => req'[r] = req[r]
  PROVE  CacheIsCurrent'
BY DEF CacheIsCurrent

LEMMA CacheStep == TypeOK /\ CacheIsCurrent /\ [Next]_vars => CacheIsCurrent'
<1> SUFFICES ASSUME TypeOK, CacheIsCurrent, [Next]_vars PROVE CacheIsCurrent'
  OBVIOUS
<1> USE DEF sessionVars, configVars
<1>0. req \in [Request -> Req]
  BY DEF TypeOK
<1>1. ASSUME NEW r \in Request, RequestNext(r) PROVE CacheIsCurrent'
  <2> DEFINE Others == \A q \in Request \ {r} : req'[q] = req[q]
  <2>1. CASE Start(r)
    BY <1>0, <2>1, StartKeeps, EntriesUntouched DEF Start
  <2>2. CASE CacheHit(r)
    <3>1. cached \in 0..MaxLog
      BY <2>2 DEF CacheHit, TypeOK
    <3>2. Others
      BY <1>0, <2>2, <3>1, AfterEntriesKeeps DEF CacheHit
    <3> QED
      BY <2>2, <3>2, EntriesUntouched DEF CacheHit
  <2>3. CASE CacheMiss(r)
    BY <1>0, <2>3, GotoKeeps, EntriesUntouched DEF CacheMiss, Stage
  <2>4. CASE LoadEntries(r)
    <3>1. Others
      BY <1>0, <2>4, BecomeKeeps DEF LoadEntries, Stage, Held, TypeOK
    <3> QED
      BY <2>4, <3>1, EntriesUntouched DEF LoadEntries
  <2>5. CASE FillCache(r)
    <3>1. req[r].entries \in 0..MaxLog
      BY <1>0 DEF Req
    <3>2. Others
      BY <1>0, <2>5, <3>1, AfterEntriesKeeps DEF FillCache
    <3>3. log' = log
      BY <2>5 DEF FillCache
    <3>4. CASE cached' = req[r].entries /\ excused' = (req[r].entries # log)
      BY <3>3, <3>4 DEF CacheIsCurrent
    <3>5. CASE UNCHANGED <<cached, excused>>
      BY <2>5, <3>2, <3>3, <3>5, EntriesUntouched DEF FillCache
    <3> QED
      BY <2>5, <3>4, <3>5 DEF FillCache
  <2>6. CASE Lock(r)
    BY <1>0, <2>6, GotoKeeps, EntriesUntouched DEF Lock, Stage
  <2>7. CASE Busy(r)
    BY <1>0, <2>7, DoneKeeps, EntriesUntouched DEF Busy
  <2>8. CASE AppendEntry(r)
    <3>1. CASE Goto(r, "invalidate")
      <4>1. req'[r].at = "invalidate"
        BY <1>0, <3>1, GotoKeeps DEF Stage
      <4> QED
        BY <4>1 DEF CacheIsCurrent
    <3>2. CASE excused' = TRUE
      BY <3>2 DEF CacheIsCurrent
    <3> QED
      BY <2>8, <3>1, <3>2 DEF AppendEntry
  <2>9. CASE Invalidate(r)
    <3>1. CASE cached' = None
      BY <3>1 DEF CacheIsCurrent
    <3>2. CASE excused' = TRUE
      BY <3>2 DEF CacheIsCurrent
    <3> QED
      BY <2>9, <3>1, <3>2 DEF Invalidate, Dropped
  <2>10. CASE EndAppends(r)
    BY <1>0, <2>10, GotoKeeps, EntriesUntouched DEF EndAppends, Stage
  <2>11. CASE Unlock(r)
    BY <1>0, <2>11, DoneKeeps, EntriesUntouched DEF Unlock
  <2>12. CASE MapHit(r)
    BY <1>0, <2>12, AfterConfigKeeps, EntriesUntouched DEF MapHit
  <2>13. CASE MapMiss(r)
    BY <1>0, <2>13, GotoKeeps, EntriesUntouched DEF MapMiss, Stage
  <2>14. CASE SelectRow(r)
    <3>1. req[r].entries \in 0..MaxLog /\ stored \in Held
      BY <1>0 DEF Req, TypeOK
    <3>2. Others
      BY <1>0, <2>14, <3>1, BecomeKeeps DEF SelectRow, Stage
    <3> QED
      BY <2>14, <3>2, EntriesUntouched DEF SelectRow
  <2>15. CASE SelectFails(r)
    BY <1>0, <2>15, DoneKeeps, EntriesUntouched DEF SelectFails
  <2>16. CASE KeepRow(r)
    BY <1>0, <2>16, AfterConfigKeeps, EntriesUntouched DEF KeepRow
  <2>17. CASE Upsert(r)
    <3>1. stored' \in Held
      BY <2>17, WrittenIsTyped DEF Upsert, TypeOK
    <3>2. Others
      BY <1>0, <2>17, <3>1, BecomeKeeps, CachesAssumption DEF Upsert, Stage
    <3> QED
      BY <2>17, <3>2, EntriesUntouched DEF Upsert
  <2>18. CASE CacheSaved(r)
    BY <1>0, <2>18, DoneKeeps, EntriesUntouched DEF CacheSaved
  <2>19. CASE UpsertFails(r)
    BY <1>0, <2>19, DoneKeeps, EntriesUntouched DEF UpsertFails
  <2> QED
    BY <1>1, <2>1, <2>2, <2>3, <2>4, <2>5, <2>6, <2>7, <2>8, <2>9, <2>10, <2>11,
       <2>12, <2>13, <2>14, <2>15, <2>16, <2>17, <2>18, <2>19 DEF RequestNext
<1>2. CASE Tick
  BY <1>2 DEF Tick, Dropped, CacheIsCurrent
<1>3. ASSUME NEW p \in Proc, Restart(p) PROVE CacheIsCurrent'
  <2>1. UNCHANGED <<log, cached>>
    BY <1>3 DEF Restart
  <2>2. CASE excused'
    BY <2>2 DEF CacheIsCurrent
  <2>3. CASE ~excused'
    <3>1. ~excused
      BY <1>3, <2>3 DEF Restart
    <3>2. \A q \in Request : req[q].at = "invalidate" => req'[q] = req[q]
      BY <1>0, <1>3, <2>3 DEF Restart
    <3> QED
      BY <2>1, <3>1, <3>2 DEF CacheIsCurrent
  <2> QED
    BY <2>2, <2>3
<1>4. CASE UNCHANGED vars
  BY <1>4 DEF vars, CacheIsCurrent
<1> QED
  BY <1>1, <1>2, <1>3, <1>4 DEF Next

\* Entries in Redis differ from the database's only while an append is on its
\* way to its DEL or after one of the marked races.
THEOREM CachedEntriesAreCurrent == Spec => []CacheIsCurrent
<1>1. Init => CacheIsCurrent
  BY DEF Init, CacheIsCurrent
<1> QED
  BY <1>1, InitTyped, NextTyped, CacheStep, PTL DEF Spec

----------------------------------------------------------------------------
\* The Maps

\* Nothing is put into a Map or the table, and the request r does not come to
\* hold a row, nor leaves one behind.
LEMMA ConfigUntouched ==
  ASSUME RowsAreCurrent, ConfigIsCurrent, NEW r \in Request,
         UNCHANGED <<stored, known, behind>>,
         req[r].at # "saved", req'[r].at \notin {"keep", "saved"},
         \A q \in Request \ {r} : req'[q] = req[q]
  PROVE  RowsAreCurrent' /\ ConfigIsCurrent'
<1>1. RowsAreCurrent'
  BY DEF RowsAreCurrent
<1>2. ASSUME NEW p \in Proc, known'[p] \notin {Unset, stored'}
      PROVE  p \in behind' \/ \E q \in Between(p)' : req'[q].at = "saved"
  <2>1. CASE p \in behind
    BY <2>1
  <2>2. CASE \E q \in Between(p) : req[q].at = "saved"
    <3>1. PICK q \in Between(p) : req[q].at = "saved"
      BY <2>2
    <3>2. q \in Request \ {r} /\ On[q] = p
      BY <3>1 DEF Between
    <3> QED
      BY <3>1, <3>2 DEF Between
  <2> QED
    BY <1>2, <2>1, <2>2 DEF ConfigIsCurrent
<1> QED
  BY <1>1, <1>2 DEF ConfigIsCurrent

\* A Map takes what a request of its process holds: the stored row, or one in
\* a process that is behind.
LEMMA RowKept ==
  ASSUME TypeOK, RowsAreCurrent, ConfigIsCurrent, NEW r \in Request,
         req[r].at \in {"keep", "saved"}, UNCHANGED <<stored, behind>>,
         known' = [known EXCEPT ![On[r]] = req[r].row],
         req'[r].at \notin {"keep", "saved"},
         \A q \in Request \ {r} : req'[q] = req[q]
  PROVE  RowsAreCurrent' /\ ConfigIsCurrent'
<1>1. RowsAreCurrent'
  BY DEF RowsAreCurrent
<1>2. ASSUME NEW p \in Proc, known'[p] \notin {Unset, stored'}
      PROVE  p \in behind' \/ \E q \in Between(p)' : req'[q].at = "saved"
  <2>1. CASE p = On[r]
    <3>1. known'[p] = req[r].row
      BY <2>1 DEF TypeOK
    <3> QED
      BY <1>2, <2>1, <3>1 DEF RowsAreCurrent
  <2>2. CASE p # On[r]
    <3>1. known'[p] = known[p]
      BY <2>2 DEF TypeOK
    <3>2. CASE p \in behind
      BY <3>2
    <3>3. CASE \E q \in Between(p) : req[q].at = "saved"
      <4>1. PICK q \in Between(p) : req[q].at = "saved"
        BY <3>3
      <4>2. q \in Request \ {r} /\ On[q] = p
        BY <2>2, <4>1 DEF Between
      <4> QED
        BY <4>1, <4>2 DEF Between
    <3> QED
      BY <1>2, <3>1, <3>2, <3>3 DEF ConfigIsCurrent
  <2> QED
    BY <2>1, <2>2
<1> QED
  BY <1>1, <1>2 DEF ConfigIsCurrent

\* A row is written: whoever may hold an older one is marked as behind.
LEMMA RowWritten ==
  ASSUME TypeOK, NEW r \in Request, req[r].at = "upsert",
         behind' = {q \in Proc : Between(q) # {} \/ (q # On[r] /\ known[q] # Unset)},
         known' = known, req'[r].at = "saved", req'[r].row = stored',
         \A q \in Request \ {r} : req'[q] = req[q]
  PROVE  RowsAreCurrent' /\ ConfigIsCurrent'
<1>1. \A q \in Request : On[q] \in Proc
  BY CachesAssumption
<1>2. RowsAreCurrent'
  <2> SUFFICES ASSUME NEW q \in Request, req'[q].at \in {"keep", "saved"}
               PROVE  req'[q].row = stored' \/ On[q] \in behind'
    BY DEF RowsAreCurrent
  <2>1. CASE q = r
    BY <2>1
  <2>2. CASE q # r
    <3>1. q \in Between(On[q])
      BY <2>2 DEF Between
    <3> QED
      BY <1>1, <3>1
  <2> QED
    BY <2>1, <2>2
<1>3. ASSUME NEW p \in Proc, known'[p] \notin {Unset, stored'}
      PROVE  p \in behind' \/ \E q \in Between(p)' : req'[q].at = "saved"
  <2>1. CASE p = On[r]
    BY <2>1 DEF Between
  <2>2. CASE p # On[r]
    BY <1>3, <2>2
  <2> QED
    BY <2>1, <2>2
<1> QED
  BY <1>2, <1>3 DEF ConfigIsCurrent

\* A row is written and nobody learns of it.
LEMMA RowWrittenUnseen ==
  ASSUME TypeOK, NEW r \in Request,
         behind' = {q \in Proc : Between(q) # {} \/ known[q] # Unset},
         known' = known, req'[r].at = "idle",
         \A q \in Request \ {r} : req'[q] = req[q]
  PROVE  RowsAreCurrent' /\ ConfigIsCurrent'
<1>1. \A q \in Request : On[q] \in Proc
  BY CachesAssumption
<1>2. RowsAreCurrent'
  <2> SUFFICES ASSUME NEW q \in Request, req'[q].at \in {"keep", "saved"}
               PROVE  On[q] \in behind'
    BY DEF RowsAreCurrent
  <2>1. q # r /\ req'[q] = req[q]
    OBVIOUS
  <2>2. q \in Between(On[q])
    BY <2>1 DEF Between
  <2> QED
    BY <1>1, <2>2
<1> QED
  BY <1>2 DEF ConfigIsCurrent

LEMMA ConfigStep == ConfigInv /\ [Next]_vars => ConfigInv'
<1> SUFFICES ASSUME ConfigInv, [Next]_vars PROVE RowsAreCurrent' /\ ConfigIsCurrent'
  BY NextTyped DEF ConfigInv
<1> USE DEF sessionVars, configVars, ConfigInv
<1>0. req \in [Request -> Req]
  BY DEF TypeOK
<1>1. ASSUME NEW r \in Request, RequestNext(r) PROVE RowsAreCurrent' /\ ConfigIsCurrent'
  <2> DEFINE Others == \A q \in Request \ {r} : req'[q] = req[q]
  <2>1. CASE Start(r)
    BY <1>0, <2>1, StartKeeps, ConfigUntouched DEF Start
  <2>2. CASE CacheHit(r)
    <3>1. cached \in 0..MaxLog
      BY <2>2 DEF CacheHit, TypeOK
    <3> QED
      BY <1>0, <2>2, <3>1, AfterEntriesKeeps, ConfigUntouched DEF CacheHit
  <2>3. CASE CacheMiss(r)
    BY <1>0, <2>3, GotoKeeps, ConfigUntouched DEF CacheMiss, Stage
  <2>4. CASE LoadEntries(r)
    <3>1. req'[r].at = "fill" /\ Others
      BY <1>0, <2>4, BecomeKeeps DEF LoadEntries, Stage, Held, TypeOK
    <3> QED
      BY <2>4, <3>1, ConfigUntouched DEF LoadEntries
  <2>5. CASE FillCache(r)
    <3>1. req[r].entries \in 0..MaxLog
      BY <1>0 DEF Req
    <3>2. req'[r].at \in {"idle", "lock"} /\ Others
      BY <1>0, <2>5, <3>1, AfterEntriesKeeps DEF FillCache
    <3> QED
      BY <2>5, <3>2, ConfigUntouched DEF FillCache
  <2>6. CASE Lock(r)
    BY <1>0, <2>6, GotoKeeps, ConfigUntouched DEF Lock, Stage
  <2>7. CASE Busy(r)
    BY <1>0, <2>7, DoneKeeps, ConfigUntouched DEF Busy
  <2>8. CASE AppendEntry(r)
    BY <1>0, <2>8, GotoKeeps, ConfigUntouched DEF AppendEntry, Stage
  <2>9. CASE Invalidate(r)
    BY <1>0, <2>9, GotoKeeps, ConfigUntouched DEF Invalidate, Stage
  <2>10. CASE EndAppends(r)
    BY <1>0, <2>10, GotoKeeps, ConfigUntouched DEF EndAppends, Stage
  <2>11. CASE Unlock(r)
    BY <1>0, <2>11, DoneKeeps, ConfigUntouched DEF Unlock
  <2>12. CASE MapHit(r)
    BY <1>0, <2>12, AfterConfigKeeps, ConfigUntouched DEF MapHit
  <2>13. CASE MapMiss(r)
    BY <1>0, <2>13, GotoKeeps, ConfigUntouched DEF MapMiss, Stage
  <2>14. CASE SelectRow(r)
    <3>1. req[r].entries \in 0..MaxLog /\ stored \in Held
      BY <1>0 DEF Req, TypeOK
    <3>2. req'[r].at = "keep" /\ req'[r].row = stored /\ Others
      BY <1>0, <2>14, <3>1, BecomeKeeps DEF SelectRow, Stage
    <3>3. RowsAreCurrent'
      BY <2>14, <3>2 DEF SelectRow, RowsAreCurrent
    <3>4. ASSUME NEW p \in Proc, known[p] \notin {Unset, stored}
          PROVE  p \in behind \/ \E q \in Between(p)' : req'[q].at = "saved"
      <4>1. ASSUME NEW q \in Between(p), req[q].at = "saved"
            PROVE  q \in Between(p)' /\ req'[q].at = "saved"
        BY <2>14, <3>2, <4>1 DEF SelectRow, Between
      <4> QED
        BY <3>4, <4>1 DEF ConfigIsCurrent
    <3> QED
      BY <2>14, <3>3, <3>4 DEF SelectRow, ConfigIsCurrent
  <2>15. CASE SelectFails(r)
    BY <1>0, <2>15, DoneKeeps, ConfigUntouched DEF SelectFails
  <2>16. CASE KeepRow(r)
    BY <1>0, <2>16, AfterConfigKeeps, RowKept DEF KeepRow
  <2>17. CASE Upsert(r)
    <3>1. stored' \in Held
      BY <2>17, WrittenIsTyped DEF Upsert, TypeOK
    <3>2. req'[r].at = "saved" /\ req'[r].row = stored' /\ Others
      BY <1>0, <2>17, <3>1, BecomeKeeps, CachesAssumption DEF Upsert, Stage
    <3> QED
      BY <2>17, <3>2, RowWritten DEF Upsert
  <2>18. CASE CacheSaved(r)
    BY <1>0, <2>18, DoneKeeps, RowKept DEF CacheSaved
  <2>19. CASE UpsertFails(r)
    <3>1. req'[r].at = "idle" /\ Others
      BY <1>0, <2>19, DoneKeeps DEF UpsertFails
    <3>2. CASE UNCHANGED <<stored, behind>>
      BY <2>19, <3>1, <3>2, ConfigUntouched DEF UpsertFails
    <3>3. CASE behind' = {q \in Proc : Between(q) # {} \/ known[q] # Unset}
      BY <2>19, <3>1, <3>3, RowWrittenUnseen DEF UpsertFails
    <3> QED
      BY <2>19, <3>2, <3>3 DEF UpsertFails
  <2> QED
    BY <1>1, <2>1, <2>2, <2>3, <2>4, <2>5, <2>6, <2>7, <2>8, <2>9, <2>10, <2>11,
       <2>12, <2>13, <2>14, <2>15, <2>16, <2>17, <2>18, <2>19 DEF RequestNext
<1>2. CASE Tick
  <2>1. UNCHANGED <<stored, known, behind, req>>
    BY <1>2 DEF Tick
  <2> QED
    BY <2>1 DEF RowsAreCurrent, ConfigIsCurrent, Between
<1>3. ASSUME NEW p \in Proc, Restart(p) PROVE RowsAreCurrent' /\ ConfigIsCurrent'
  <2>1. \A r \in Request : req'[r] = IF On[r] = p THEN Idle ELSE req[r]
    BY <1>3 DEF Restart
  <2>2. stored' = stored /\ behind' = behind \ {p}
    BY <1>3 DEF Restart
  <2>3. known' = [known EXCEPT ![p] = Unset]
    BY <1>3 DEF Restart
  <2>4. RowsAreCurrent'
    BY <2>1, <2>2, IdleIsTyped DEF RowsAreCurrent
  <2>5. ASSUME NEW q \in Proc, known'[q] \notin {Unset, stored'}
        PROVE  q \in behind' \/ \E r \in Between(q)' : req'[r].at = "saved"
    <3>1. q # p /\ known'[q] = known[q]
      BY <2>3, <2>5 DEF TypeOK
    <3>2. \A r \in Between(q) : req'[r] = req[r]
      BY <2>1, <3>1 DEF Between
    <3> QED
      BY <2>2, <2>5, <3>1, <3>2 DEF ConfigIsCurrent, Between
  <2> QED
    BY <2>4, <2>5 DEF ConfigIsCurrent
<1>4. CASE UNCHANGED vars
  BY <1>4 DEF vars, RowsAreCurrent, ConfigIsCurrent, Between
<1> QED
  BY <1>1, <1>2, <1>3, <1>4 DEF Next

\* The Map of a process differs from the table only while its own write is on
\* its way, or in a process that is marked as behind.
THEOREM ConfigurationIsCurrent == Spec => []ConfigIsCurrent
<1>1. Init => ConfigInv
  <2>1. Init => RowsAreCurrent
    BY IdleIsTyped DEF Init, RowsAreCurrent
  <2>2. Init => ConfigIsCurrent
    BY DEF Init, ConfigIsCurrent
  <2> QED
    BY <2>1, <2>2, InitTyped DEF ConfigInv
<1>2. ConfigInv => ConfigIsCurrent
  BY DEF ConfigInv
<1> QED
  BY <1>1, <1>2, ConfigStep, PTL DEF Spec

============================================================================
