-------------------------- MODULE Idempotency --------------------------
(***************************************************************************)
(* One row of idempotency_keys and the requests that carry its key.        *)
(*                                                                         *)
(* POST /v1/chat/sync and POST /v1/confirmations/:id wrap their work in    *)
(* withIdempotency; POST /v1/chat claims the key itself, answers a         *)
(* completed key with a pointer instead of a replay, and has its own exit  *)
(* paths.  Rows share nothing, so one (key, key_id) is enough; a retry is  *)
(* one more request.  request_hash is kept as the request whose body it    *)
(* fingerprints, and a stored response as the request that produced it.    *)
(* `left' counts the ticks until expires_at has passed.  A query that      *)
(* rejects may have been applied or not.                                   *)
(*                                                                         *)
(* A Mutant_ operator is the action below it with a plausible bug.         *)
(***************************************************************************)
EXTENDS Naturals

CONSTANTS
  Request,      \* the requests that carry this key
  NoRequest,    \* not a request
  Stream,       \* the requests to POST /v1/chat
  Body,         \* the body of each request, as requestFingerprint sees it
  Ttl,          \* idempotencyTtlMs, in ticks
  RunsFitTtl    \* TRUE: no request is still at work when its row expires

ASSUME RequestAssumption == NoRequest \notin Request
ASSUME StreamAssumption == Stream \subseteq Request
ASSUME TtlAssumption == Ttl \in Nat \ {0}
ASSUME FitAssumption == RunsFitTtl \in BOOLEAN

VARIABLES
  row,          \* the row: its status, whose hash, whose response
  left,         \* ticks until the row has expired
  pc,           \* where each request is
  result,       \* what the work of a request came to
  replayed,     \* whose stored response a request was answered with
  released,     \* history: the requests that called release()
  unguarded     \* history: the requests at work while the row was not theirs

vars == <<row, left, pc, result, replayed, released, unguarded>>

Absent == [status |-> "absent", by |-> NoRequest, resp |-> NoRequest]
Placeholder(r) == [status |-> "in_progress", by |-> r, resp |-> NoRequest]
Completed(q) == [status |-> "completed", by |-> row.by, resp |-> q]

\* Working: the key was granted, and the request has not finished with it.
Working == {"running", "completing", "releasing", "unwinding"}
Stage == Working \cup {"idle", "conflict", "done", "crashed"}
AtWork(r) == pc[r] \in Working

Results == {"none", "ok", "refused", "failed", "threw"}

Goto(r, stage) == pc' = [pc EXCEPT ![r] = stage]

Init ==
  /\ row = Absent
  /\ left = 0
  /\ pc = [r \in Request |-> "idle"]
  /\ result = [r \in Request |-> "none"]
  /\ replayed = [r \in Request |-> NoRequest]
  /\ released = {}
  /\ unguarded = {}

----------------------------------------------------------------------------
\* PgIdempotencyStore.claim

\* INSERT ... ON CONFLICT DO UPDATE WHERE expired RETURNING: a row comes back.
\* When the query rejects after it was applied the placeholder has no request.
Mutant_ClaimOrphan(r) ==
  /\ pc[r] = "idle"
  /\ \/ row.status # "completed"
     \/ left = 0
  /\ row' = Placeholder(r)
  /\ left' = Ttl
  /\ Goto(r, "running") \/ Goto(r, "done")
  /\ UNCHANGED <<result, replayed, released, unguarded>>

Claim(r) ==
  /\ pc[r] = "idle"
  /\ row = Absent \/ left = 0
  /\ row' = Placeholder(r)
  /\ left' = Ttl
  /\ Goto(r, "running") \/ Goto(r, "done")
  /\ UNCHANGED <<result, replayed, released, unguarded>>

\* The row is there and has not expired: no row comes back.
Conflict(r) ==
  /\ pc[r] = "idle"
  /\ row # Absent /\ left > 0
  /\ Goto(r, "conflict")
  /\ UNCHANGED <<row, left, result, replayed, released, unguarded>>

\* The second query finds the row gone: claimed, without a placeholder.
RowVanished(r) ==
  /\ pc[r] = "conflict"
  /\ row = Absent
  /\ Goto(r, "running")
  /\ unguarded' = unguarded \cup {r}
  /\ UNCHANGED <<row, left, result, replayed, released>>

\* It finds another body (idempotency_key_reused) or work under way
\* (request_in_progress): 409.  Either query may also reject: 500.
Refuse(r) ==
  /\ \/ pc[r] = "idle"
     \/ /\ pc[r] = "conflict"
        /\ row # Absent => Body[row.by] # Body[r] \/ row.status = "in_progress"
  /\ Goto(r, "done")
  /\ UNCHANGED <<row, left, result, replayed, released, unguarded>>

\* It finds a response to the same body: withIdempotency replays it, and
\* POST /v1/chat answers already_completed with its pointer.
Mutant_ReplayAnyBody(r) ==
  /\ pc[r] = "conflict"
  /\ row.status = "completed"
  /\ replayed' = [replayed EXCEPT ![r] = row.resp]
  /\ Goto(r, "done")
  /\ UNCHANGED <<row, left, result, released, unguarded>>

Replay(r) ==
  /\ pc[r] = "conflict"
  /\ row.status = "completed" /\ Body[row.by] = Body[r]
  /\ replayed' = [replayed EXCEPT ![r] = row.resp]
  /\ Goto(r, "done")
  /\ UNCHANGED <<row, left, result, released, unguarded>>

----------------------------------------------------------------------------
\* The work, and what becomes of the row

\* fn() returns a status below 500, of which a stream knows no 4xx; or run()
\* ends with an outcome that is not an error.
RunReturns(r) ==
  /\ pc[r] = "running"
  /\ \E s \in IF r \in Stream THEN {"ok"} ELSE {"ok", "refused"} :
       result' = [result EXCEPT ![r] = s]
  /\ Goto(r, "completing")
  /\ UNCHANGED <<row, left, replayed, released, unguarded>>

\* fn() returns 5xx, which is not stored: the row is to be released.  A stream
\* whose outcome is an error neither completes nor releases.
Mutant_RunFails(r) ==
  /\ pc[r] = "running"
  /\ result' = [result EXCEPT ![r] = "failed"]
  /\ Goto(r, "done")
  /\ UNCHANGED <<row, left, replayed, released, unguarded>>

RunFails(r) ==
  /\ pc[r] = "running"
  /\ result' = [result EXCEPT ![r] = "failed"]
  /\ IF r \in Stream THEN Goto(r, "done") ELSE Goto(r, "releasing")
  /\ UNCHANGED <<row, left, replayed, released, unguarded>>

\* fn() or run() rejects.
RunThrows(r) ==
  /\ pc[r] = "running"
  /\ result' = [result EXCEPT ![r] = "threw"]
  /\ Goto(r, "unwinding")
  /\ UNCHANGED <<row, left, replayed, released, unguarded>>

\* complete() updates the row by its key, if there is one; when it rejects the
\* handler goes on in its catch block.
Complete(r) ==
  /\ pc[r] = "completing"
  /\ \/ /\ row' = IF row = Absent THEN row ELSE Completed(r)
        /\ Goto(r, "done") \/ Goto(r, "unwinding")
     \/ UNCHANGED row /\ Goto(r, "unwinding")
  /\ UNCHANGED <<left, result, replayed, released, unguarded>>

\* release() deletes the row by its key while it is in progress.
Deleted == IF row.status = "in_progress" THEN Absent ELSE row

\* The release of a 5xx.  When it rejects the catch block releases once more,
\* by which time the row may be another request's.
Release(r) ==
  /\ pc[r] = "releasing"
  /\ \/ /\ row' = Deleted
        /\ \/ Goto(r, "done") /\ UNCHANGED unguarded
           \/ Goto(r, "unwinding") /\ unguarded' = unguarded \cup {r}
     \/ UNCHANGED <<row, unguarded>> /\ Goto(r, "unwinding")
  /\ released' = released \cup {r}
  /\ UNCHANGED <<left, result, replayed>>

\* The catch block: release(), its own rejection swallowed.
Mutant_UnwindAnyStatus(r) ==
  /\ pc[r] = "unwinding"
  /\ row' \in {Absent, row}
  /\ Goto(r, "done")
  /\ released' = released \cup {r}
  /\ UNCHANGED <<left, result, replayed, unguarded>>

Unwind(r) ==
  /\ pc[r] = "unwinding"
  /\ row' \in {Deleted, row}
  /\ Goto(r, "done")
  /\ released' = released \cup {r}
  /\ UNCHANGED <<left, result, replayed, unguarded>>

----------------------------------------------------------------------------
\* The sweeper, the clock, and lost processes

\* purgeExpired deletes by expires_at alone.
PurgeExpired ==
  /\ row # Absent /\ left = 0
  /\ row' = Absent
  /\ UNCHANGED <<left, pc, result, replayed, released, unguarded>>

\* The process of a request dies.
Crash(r) ==
  /\ pc[r] \in Working \cup {"conflict"}
  /\ Goto(r, "crashed")
  /\ UNCHANGED <<row, left, result, replayed, released, unguarded>>

Mutant_TickOnlyCompleted ==
  /\ left > 0 /\ row.status = "completed"
  /\ RunsFitTtl => ~(left = 1 /\ \E r \in Request : row.by = r /\ AtWork(r))
  /\ left' = left - 1
  /\ UNCHANGED <<row, pc, result, replayed, released, unguarded>>

Tick ==
  /\ left > 0
  /\ RunsFitTtl => ~(left = 1 /\ \E r \in Request : row.by = r /\ AtWork(r))
  /\ left' = left - 1
  /\ UNCHANGED <<row, pc, result, replayed, released, unguarded>>

----------------------------------------------------------------------------

\* What the server does for a request whose key it has tried to claim.
Serve(r) ==
  \/ RowVanished(r) \/ (pc[r] = "conflict" /\ Refuse(r)) \/ Replay(r)
  \/ RunReturns(r) \/ RunFails(r) \/ RunThrows(r)
  \/ Complete(r) \/ Release(r) \/ Unwind(r)

Next ==
  \/ \E r \in Request :
       \/ Claim(r) \/ Conflict(r) \/ RowVanished(r) \/ Refuse(r) \/ Replay(r)
       \/ RunReturns(r) \/ RunFails(r) \/ RunThrows(r)
       \/ Complete(r) \/ Release(r) \/ Unwind(r) \/ Crash(r)
  \/ PurgeExpired
  \/ Tick

Spec == Init /\ [][Next]_vars

\* An awaited call answers or rejects in the end, time does not stop and the
\* sweeper's timer keeps firing.  Requests need not come or processes crash.
Fairness ==
  /\ \A r \in Request : WF_vars(Serve(r))
  /\ WF_vars(Tick) /\ WF_vars(PurgeExpired)

FairSpec == Spec /\ Fairness

----------------------------------------------------------------------------
\* Properties

\* Every variable has its type, and no row outlives its TTL.
TypeOK ==
  /\ row \in [status : {"absent", "in_progress", "completed"},
              by : Request \cup {NoRequest}, resp : Request \cup {NoRequest}]
  /\ left \in 0..Ttl
  /\ pc \in [Request -> Stage]
  /\ result \in [Request -> Results]
  /\ replayed \in [Request -> Request \cup {NoRequest}]
  /\ released \subseteq Request
  /\ unguarded \subseteq Request

\* Two requests with one key are never at work at once (claim relies on the
\* primary key to that end).  This is the case until a request goes to work
\* on a row that vanished between claim's two queries, or releases twice.
OneAtWork ==
  unguarded = {} => \A r, q \in Request : AtWork(r) /\ AtWork(q) => r = q

\* A replayed response is the outcome of a request with the same body, and
\* never that of a failure (withIdempotency's table and its `< 500').
ReplayFaithful ==
  unguarded = {} =>
    \A r, q \in Request :
      replayed[r] = q => Body[q] = Body[r] /\ result[q] \in {"ok", "refused"}

\* A completed row that has not expired is what the comment of purgeExpired
\* calls an asset to be replayed: no later claim, release, completion or
\* sweep touches it, so the work behind it is not done again within the TTL.
CompletedIsKept ==
  [][unguarded' = {} /\ row.status = "completed" /\ left > 0 => row' = row]_vars

\* A key does not stay in progress for one request for ever: a crash, a failed release or a
\* stream that ended in an error blocks its retries until the TTL at most.
KeyComesBack ==
  \A r \in Request : row = Placeholder(r) ~> row # Placeholder(r)

\* Every request that failed has called release(), so that its caller need
\* not wait for the TTL to try again (the comment on IdempotencyStore.release);
\* except for a stream that told its caller of the error and ended in order.
FailureReleases ==
  \A r \in Request :
    /\ pc[r] = "done"
    /\ result[r] = "threw" \/ (result[r] = "failed" /\ r \notin Stream)
    => r \in released

=============================================================================
