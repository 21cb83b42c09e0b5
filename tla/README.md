# TLA+ models of the e-commerce agent

The repository is a customer-service agent: a Fastify server that takes chat
messages over HTTP and SSE, runs a model with tools over the shop's data, and
keeps sessions, confirmations, return flows, idempotency keys and usage in
PostgreSQL (or PGlite), with Redis as an optional accelerator. Several
processes may serve the same database. A handler runs until its next `await`,
and everything that happens between two `await`s of different requests may
interleave; what keeps that safe is a handful of SQL statements with a
condition in them. These modules say what those statements must hold together,
check it with TLC and prove most of it with TLAPS.

Paths below are in `src/src/` unless they begin with `docs/` or `tests/`.

## Inventory

| Component | State | Operations | Talks to | Hard because |
|---|---|---|---|---|
| Session turn lock: `store/pg-session-store.ts`, `server/app.ts` `prepareTurn` | `sessions.turn_locked_until`, `session_entries` | `acquireTurnLock`, `releaseTurnLock`, `appendEntry`, `getEntries` | both chat endpoints, agent loop | two requests on one session; a lock with a TTL and no owner; exits that do not release |
| Idempotency keys: `server/idempotency.ts`, `store/pg-idempotency-store.ts`, `server/sweeper.ts` | `idempotency_keys` | `claim` (two queries), `complete`, `release`, `purgeExpired` | chat endpoints, confirmation endpoint, sweeper | retries that race the original; crashes; a row that goes between two queries |
| Confirmations: `flows/confirmation.ts`, `store/pg-confirmation-store.ts` | `confirmations` | `require` (up to four queries), `decide`, `consume` | agent loop (`onConfirm`), decision endpoint | an approval must admit one refund, whoever finds it |
| Return flows: `flows/engine.ts`, `flows/return-flow.ts`, `tools/return-request.ts` | `business_flows`, `flow_transitions` | `start`, `fire` | tools, flow endpoints | look-up then create, read then write, write then trace, none of it in a transaction |
| Agent loop: `core/agent-loop.ts`, `core/session.ts`, `core/pipeline.ts` | the session in memory, the pipeline's context | `run`, `executeToolUses`, `finishTurn`, `blockTurn`, `cancelTurn` | model, tools, middleware | tool_use and tool_result must pair up on every way out |
| Remote tools: `tools/remote-gateway.ts`, `resilience/circuit-breaker.ts`, `tool-service/app.ts` | breaker state and counters, cached tool list | `execute`, `run`, `onSuccess`, `onFailure`, `withRetry` | agent loop, tool service | lost answers, retries, results that arrive after the breaker has moved on |
| Refund tickets: `tools/refund-apply.ts`, `store/pg-refund-store.ts` | `refund_tickets` | `createIfAbsent` | tool gateway | the last line of defence against a repeated call |
| Quota: `billing/quota.ts`, `middleware/quota.mw.ts`, `store/pg-usage-store.ts`, `core/token-tracker.ts` | `usage_records`, Redis counters, price table | `check`, `record`, `get`, `add`, `validatePriceWindows`, `resolveFromWindows` | `prepareTurn`, agent loop | check and deduction are apart; a cold counter is filled from a table that moves |
| Caches: `store/session-cache.ts`, `tenants/config.ts` | Redis entries, a Map per process | `get`, `set`, `invalidate`, `upsert` | session store, `resolveForTenant` | a slow reader fills the cache after the writer emptied it |
| Context memory: `memory/*.ts`, `middleware/compaction.mw.ts`, `core/session.ts` | summaries in the session, the loop's list | `trimSafely`, `findCutoff`, `compact`, `getMessages` | pipeline | cuts must not split a tool pair; counts relate to different lists |
| Rate limiting: `server/rate-limit.ts` | buckets, Redis window keys | `consume` | every request | Redis fails between two calls; window edges |
| Safety: `safety/*.ts`, `middleware/safety.mw.ts` | the redactor's buffer | `resolveSafetyRules`, `scan`, `feed`, `flush` | pipeline, SSE | tenants' rules beside global ones; a match split over two chunks |
| Intent and routing: `intent/*.ts`, `agents/*.ts`, their middleware | the intent state of a session | `advance`, `resolve` | pipeline | slots that outlive their topic |
| Authentication: `server/auth.ts` | `api_keys` | the hook, `requireScope`, `canAccessTenant` | every request | which answer tells a stranger something |
| Shutdown: `server/shutdown.ts` | draining flag, timers | `shutdown`, `closeResources` | the server, the process | timers race requests that do not end |
| Observability, evaluation, command line | | | | not modelled, see the end |

Interactions: `POST /v1/chat/sync` claims its idempotency key, then restores
the session, takes the turn lock, resolves the tenant, checks the quota and
runs the loop; `POST /v1/chat` does the same with the key claimed under the
lock. In the loop a high-risk tool goes through `ConfirmationService.require`;
`POST /v1/confirmations/:id` decides the sheet, itself under an idempotency
key. `return_request` drives the flow engine.

What makes each correct: turns of a session do not interleave and the session
comes back; a key is worked for once and replayed faithfully; an approval
admits one call; a flow's state is earned, an order has one active flow, and
terminal is terminal; no usage is forgotten, and a limit is overshot by what was
under way at most; a cache is behind only for a reason one can name; what the
model is sent is well formed; what a customer said under one topic is not used
for another; a failing Redis does not lift a limit; a process that was told to
stop stops.

## Modules

| Module | What it is |
|---|---|
| `SessionTurn` | the turn lock, `prepareTurn`, both endpoints' exits, and the entries of `AgentLoop.run` |
| `TurnLog` | abstract: a session's history is a sequence of whole turns |
| `SessionTurnProofs` | theorems about `SessionTurn` |
| `Idempotency`, `MCIdempotency` | one row of `idempotency_keys` and the requests that carry its key |
| `Confirmation`, `MCConfirmation` | the sheets of one session and the calls that need them |
| `Approval` | abstract: an approval is granted or denied once and spent once |
| `ConfirmationProofs` | theorems about `Confirmation` |
| `ReturnFlow` | the flows of one order and the calls that drive them |
| `ReturnFlowProofs` | theorems about `ReturnFlow` |
| `ToolGateway` | `RemoteToolGateway`, `withRetry` and the breaker, with the network and the tool service around them |
| `ToolGatewayProofs` | theorems about `ToolGateway` |
| `Quota`, `MCQuota` | the tokens of one tenant: the usage table, the Redis counters and the turns that check and record |
| `Pricing` | the windows of the price table and what of a call is billed, used by `Quota` |
| `ChargeProofs` | theorems about `Idempotency`, `Quota` and `Pricing`: a request is worked for once, and charged what it used |
| `Caches`, `MCCaches` | the session cache and the configuration Map, with the requests that go through them |
| `CachesProofs` | theorems about `Caches` |
| `TurnPipeline`, `MCTurnPipeline` | the turns of one session through the hooks of the default pipeline |
| `Conversation` | messages, summaries, the projection, the cuts of compaction and trimming, used by `TurnPipeline` |
| `Intents` | the intent state, `advance`, the agents and their tools, used by `TurnPipeline` |
| `Safety` | rules and verdicts, masking, the streaming redactor, used by `TurnPipeline` |
| `TurnPipelineProofs` | theorems about `TurnPipeline` |
| `Edge` | what a request meets before its handler, and the end of a process |
| `EdgeProofs` | theorems about `Edge` |

Operators named `Mutant_...` are the definition below them with a plausible
bug; replacing the definition by its mutant breaks the property PROJECT.json
names.

### SessionTurn and the code

`lock` is `turn_locked_until` as the ticks that are left; 0 is NULL or a time
that has passed, which the compare-and-set treats alike. `log` is
`session_entries` by author and kind. `pc` says where a request is: `restored`
after `Session.restore`, `locked` after the compare-and-set, `resolved` after
`resolveForTenant`, `claiming` when `POST /v1/chat` carries an idempotency key,
`running`, `thinking` and `tools` in `AgentLoop.run`, `releasing` in the
`finally`. `view` is the length of the history a request restored. One tool
stands for the tools of a message: their results are appended one after the
other by the same request.

`owner`, `lost`, `freed` and `threw` are history variables: the code has no owner
on the lock, and `owner` is what it would be; `lost` are the requests whose lock
went while their turn was not over, to its TTL or to the `releaseTurnLock` of
another. What such a request may do, `OnlyHolderFrees` says without assuming that
there is none.

### Idempotency and the code

`row` is the row with the request that claimed it (for its body hash) and the
one whose response it stores. `Claim` is the conditional upsert; `Conflict`
followed by `RowVanished`, `Refuse` or `Replay` is the second query; `Complete`,
`Release` and `Unwind` are the three updates, each of which may reject before
or after it took effect. Streams (`Stream`) take the exits of `POST /v1/chat`,
the others those of `withIdempotency`. `unguarded` marks requests that went to
work on a vanished row, or that release a second time.

### Confirmation and the code

`sheets` is the session's rows of `confirmations` in `seq` order. A call is
`looking` after `findPending` found nothing, `consuming` after `findDecided`
found an approved sheet, `creating` before the insert. `Subject` is the tool
with its input. `Window` is the 50 of `listBySession(.., 50)`. `Drop` and
`Lose` are turns that end between two queries. `overlapped` marks runs in which
two calls were inside `require()` at once, which the turn lock prevents as long
as no turn outlives it.

### ReturnFlow and the code

`flows` are the order's rows with the facts their `data` holds, `trail` their
`flow_transitions`. A caller is one execution of `return_request`: look up
(`FindActive`, `FindNothing`), `Create`, `TraceStart`, then `fire('accept')` and
`fire('approve')` or `fire('reject')`, each as `Read` or `Refuse`, `Write`,
`Trace`. Officers are other users of `fire()`: at this commit only the tests
complete, cancel or manually approve a flow, with the payloads modelled here.
`raced`, `overlapped` and `untraced` record that two lookups, or two `fire()` on
one flow, were under way at once, and that a trace was lost.

### ToolGateway and the code

`breaker` holds the fields of `CircuitBreaker`, with `since` for
`now() - openedAt`, counted up to the cooldown, the only value it is compared
with; time has no bound. `Current`, `Succeeded` and `Failed` are `getState`,
`onSuccess` and `onFailure`. A call is `planned` when `AgentLoop` has listed the
tools, `ready` when `execute()` is about to make an attempt (the first, or after
a pause), `waiting` between a request and its settlement. JavaScript runs
`getState` and the sending, and a settlement and `onSuccess` or `onFailure`,
without an `await` at which another call could interleave: one action each.
`old` (history) are the calls whose request was under way when the breaker last
tripped, until it settles. `inbox` are requests the service may still serve, abandoned ones included; it is
external with the network, except for what `POST /v1/tools/execute` answers.
`ran` counts executions of the tool.

### Quota, Pricing and the code

`usage` is the sum over `usage_records` for a session or the tenant, `counter`
the Redis key. A turn is at the preflight of `prepareTurn`, at the check before
a model call, in the model, at the insert, or in `record()`; within a check or a
record, `op` is the await it is at: GET, SUM, SET NX, INCRBY, the fallback to
the table, and the table read whose value `record()` ignores. `kind` is the
counter `createQuotaCounter` gave the process: one that could not reach Redis
when it started counts in the table alone for ever and never increments the key
the others use. Each operation may fail, with or without its effect. `lapsed` are
the keys whose count may lack tokens of the table because an increment was left
out. What turns under way still owe to a key is counted as the cardinality of a
set of tokens. The names begin with `Q`, for `ChargeProofs` extends this module
and `Idempotency`. `Pricing` has the validation of price windows and the choice among them as
operators; `PricesUnambiguous` compares them over all tables of up to three
windows on four days.

### Caches and the code

`log` and `cached` are numbers of entries: entries are only appended, so a
number says which. A request is a turn (`Session.restore`, the lock,
`resolveForTenant`, appends), a read of a session, or a GET or PUT of the
configuration; `at` is the await it is at. `known` is the Map of a process,
which nothing expires; `ttl` is what Redis has left for the key: the `SET` of a fill gives
it `KeyTtl` ticks (900 s), a hit leaves it alone, `Tick` takes one and with the
last the key. `stored` is the row, with its safety rules and the PUT
that wrote the rest. `excused` and `behind` record why a cache may be behind.

### TurnPipeline, Conversation, Intents, Safety and the code

One action is one hook, or one await of `AgentLoop.run` between hooks: `Begin`
(restore and the safety hook), `Recognise` (the intent and routing hooks),
`Speak` (the user's message is appended), `Compact`, `Trim`, the model's answer,
`RunTools`, `Reply` (`finishTurn` with the safety hook). `log` is the session by
kind of entry, and `list` the messages the loop holds, as indices into it. A
turn that breaks off (a failing append, a quota block, a failing model, a client
that left) forgets `list` and keeps `log`, as the next request builds its own
`AgentLoop` from the log. `drifted` records the compaction that the
finding of `turn_pipeline_drift` is about. The results of a message are those that follow it without a
gap. `UsesAreAnswered` demands one for every use, at its place behind the message,
except of the messages in `broken`, whose tools broke off: of those it demands the
results there are. That they are sent with fewer at all is among the differences
below.

The value of a slot is the intent it was said under; whether it may be used is
all that matters about it. For the verdict a text is the set of rules that match
it; for the redactor it is a sequence of characters, and three patterns (3 digits
anywhere; exactly 2 digits alone; an address) stand for the five real ones with a
lag of 4 for the real 40. All texts of up to five characters, cut into three
chunks in every way, are streamed and compared with the mask of the whole.

### Edge and the code

The clock counts windows. A request is in the authentication hook, at INCR, at
PEXPIRE, or in its handler; `passed` counts what a window's key let through,
`given` what a process's bucket has let through since a window began. A failing Redis call may have been carried out.
`phase` follows `installGracefulShutdown`: draining is the wait for the load
balancer, closing is `app.close()`, releasing `closeResources()`. `ChatAnswer`
and `ReadAnswer` are the order in which the handlers check.

## Runs

| Run | Bounds | Shows |
|---|---|---|
| `session_turn` | 3 requests, TTL 2, 1 tool call | exclusion, answered tools, who frees the lock, what a turn's history may lack, the session comes back, refinement of `TurnLog` |
| `session_turn_leak` | 2 requests | finding |
| `idempotency` | 3 requests, one a stream, one with another body, TTL 2 | one at work, faithful replays, kept responses, failures free the key, the key comes back |
| `confirmation` | 5 calls on 2 subjects, window 2 | single use, final decisions, no second asking, refinement of `Approval` |
| `return_flow` | 2 callers, 1 officer | earned states, no zombies, one active flow, whole trails, terminal stays, an accepted flow is not rejected |
| `tool_gateway` | 1 retryable call, 1 of high risk, thresholds 2, cooldown 2, timeout 2, 3 attempts | the high risk tool runs once, its answers are so, old answers, late successes and refusals do not move the breaker, every call is answered |
| `quota` | 2 sessions, limits 2, 2 and none, calls of up to 2 tokens, 3 calls, 2 faults | the counter covers the table, overcharge and overshoot are bounded, prices are unambiguous |
| `caches` | 3 requests in 2 processes, 2 starts and reads without end, a key of 2 ticks, 2 entries, 2 versions, 1 fault | when a cache may differ from the database; stale entries end, however often they are read |
| `caches_rules` | the same | finding |
| `turn_pipeline` | window 7, threshold 8, keep 2, 2 model calls a turn, 2 tool uses, 3 turns, 2 faults | well-formed messages, topics and rules, the redactor |
| `turn_pipeline_drift` | the same | finding |
| `edge` | 3 requests, 2 processes (both or one with Redis), 2 a window, bucket of 2, 3 windows | limits under failure, strangers' sessions, shutdown |

The bounds are enough for the cases that matter. With three requests there is
one that holds the lock, one that waits and one that comes after both; TTL 2 lets
a lock be live and yet expire while somebody works. Five calls fill a window of
two and leave it again; two callers race and an officer finishes what they began
(a run with two officers, 8.7 million states, found nothing more). Two calls
share the breaker with four attempts between them: enough to trip it, see it half
open and close it or trip it again. Three model calls over two sessions reach a
limit of two, cross it, and fill a cold key with two others under way. Two
turns or configuration calls, and readers, let a slow reader, a writer and a victim
meet; a key of two ticks is one that a hit could prolong. Three turns with eight
messages above a window of seven trim, compact, and compact a list that was
trimmed, which takes a turn of two tool uses; the ratio of the constants is that
of the code (20, 24, 8). Three requests exceed a limit of two, with one to
come after a failed INCR. No run uses symmetry. The systems really stop when every
request was served, so deadlock is not checked.

### Fairness

`session_turn` and `idempotency` check liveness under weak fairness of `Serve`
for each request (an `await` answers or rejects in the end: queries and model
calls go through clients that reject on a lost connection), of `Tick` (time
passes) and of `PurgeExpired` (an interval timer). Nothing makes a request come
or a process die. Neither property needs a request to finish: after a crash it
is the clock alone that frees the session or the key. `tool_gateway` assumes that
an attempt that is due is made, that a fired abort timer and an answer that
arrived are handled, and that time passes; nothing makes the service answer.
`caches` assumes only that Redis' clock ticks: a key that is filled or read for
ever could still outlive every tick, and that none is, is what the property says.
`edge` only that the two timers
of a shutdown fire: no request has to end and no `close()` has to answer.

### Assumptions the code does not establish

`TurnsFitTtl` and `RunsFitTtl` say that nobody is still at work when the lock or
the row runs out. The code relies on it (60 s for a turn, 24 h for a key) and
enforces it nowhere: no time limit bounds the model calls of a turn. With
`TurnsFitTtl = FALSE` TLC violates `TurnExclusion` at once: the lock expires, a
second request takes it, and the first one's `releaseTurnLock`, which names no
owner, frees the second one's lock. `OnlyHolderFrees` is proved
without the assumption and says how far this goes: only a request that has lost
its own lock frees another's. (The run keeps the assumption for the sake of its
other properties; with `TurnsFitTtl = FALSE`, TTL 1 and logs cut off above two
entries, 266,628 states, TLC found `OnlyHolderFrees` to hold as well, and the chain
in which a first request frees the second's lock and the second the third's.) Both constants are explicit so that every
statement says what it depends on.

`TimeAssumption` of `ToolGateway` says that the abort timer is no longer than the
cooldown. The defaults are equal (10 s); `TOOL_TIMEOUT_MS` can break it, and
answers from before a trip would then decide about the half open breaker. Equal is
the boundary: a request sent in the very instant of the trip is due in the instant
in which the cooldown ends, and if another call makes the breaker half open before
its timer is handled, its answer counts like a probe's. `OldAnswersDoNotDecide`
says that this one kind is left, and with a shorter timer none; the run has the
boundary (both 2). Timers are taken to be punctual. `WindowAssumption` of `TurnPipeline` has the compaction
threshold at or above the trimming window, as in the defaults.

Properties that begin with `unguarded = {}`, `overlapped` or `~raced`, or that
name `lapsed`, `excused`, `behind` or `drifted`, hold until a rare interleaving
has happened that the code knows of or leaves open; what such an interleaving
leads to is below or in the properties that need no such guard.

## Findings

* `session_turn_leak`: `server/app.ts:385` asks every exit path to call
  `release()`; the 409 of `POST /v1/chat` for a taken idempotency key (line 681),
  a rejecting `claim()` and a rejecting quota check do not. The session answers
  `session_busy` until the TTL.
* `caches_rules`: the comment at `server/app.ts:1135` keeps safety rules out of
  the configuration endpoint; its PUT upserts a record without any
  (line 1137), and the upsert overwrites `extra_safety_rules`
  (`store/pg-tenant-config-store.ts:54`). Any PUT erases the tenant's rules, and
  an omitted policy or limit likewise.
* `turn_pipeline_drift`: `memory/summary-compactor.ts:94` aligns the cut with
  turns so that no result loses its use; the cut counts messages of the list the
  loop has trimmed and `compactedCount` (`middleware/compaction.mw.ts:22`) is
  applied to the whole projection. With the real constants it takes a history of
  21 to 24 messages at the beginning of a turn, which the first call trims, and
  then an answer with at least four tool uses.

Where the code differs from a comment, or from what one may expect, without a run
of its own (the property in brackets says what does hold):

* `core/agent-loop.ts:354` has every tool_use produce exactly one result, or the next
  request is refused by the API. The message with the uses is appended first
  (line 312), and nothing catches what `tools.list`, `validate`, `onConfirm`
  (line 394, up to four queries) or the append of a result throw: the turn ends with
  an error, its lock is released, and every later turn of the session is sent a
  tool_use without its result (`ToolUseAnswered` excepts turns that threw,
  `HistoryHoldsTogether` those in `broken`; without the exceptions TLC violates both).
* `core/session.ts:27` says the cached history stays consistent with the
  database; it is restored before the lock is taken (`server/app.ts:410`, 438)
  and lacks the turns that ran in between (`HistoryIsCurrent`).
* `docs/iterations/v1.0-production/SPEC.md:59` has one probe pass after the cooldown;
  a half open breaker lets every call through (`CountersBelowLimits`, `StaysOpen`).
* The deltas of a stream are masked by the global rules alone: the redactor is made
  with `SafetyScanner.forOutput()` (`server/app.ts:545`), so that what a tenant's own
  mask rule hides in the reply has been streamed before (`StreamIsMasked` and
  `AnyStreamIsMasked` are about the global rules).
* `auth/types.ts:110` has a failed request release its key; a streamed turn with
  outcome `error` neither completes nor releases it (`FailureReleases`).
* `store/migrations.ts:133` counts on a partial unique index that no migration
  creates: two first calls at once open two flows (`OneActive`).
* `tools/return-request.ts:82` means to reject flows that were not accepted; the
  late one of two calls rejects the flow the other accepted
  (`AcceptedNotRejected`).
* `tenants/config.ts:32` says a tenant can only tighten; a tenant's output rule
  that blocks or hands over makes `scan` return the reply unmasked
  (`safety/scanner.ts:77`), so that the matches of the global rules are readable
  (`TenantsOnlyTighten` excepts it).
* A response below 500, a 409 `session_busy` among them, is frozen for 24 h under
  its key, and the stored endpoint is not compared (`server/idempotency.ts:96`, 60).
* A rejected sheet is never consumed and answers for ever
  (`flows/confirmation.ts:48`).
* The tenant's return policy is shown by the configuration endpoint and used
  nowhere else.
* Six tools (`return_request`, `flow_status`, `logistics_check`, `coupon_list`,
  `membership_info`, `invoice_apply`) are in no routed agent's list: only the
  general agent offers them. The advice to hand over names `human_handoff`, which
  the presale and order agents do not offer.
* A second signal exits at once, though the log line says it is ignored
  (`server/shutdown.ts:31`).
* `findCutoff` may keep fewer messages than `keepRecent`, as it moves forward to
  the next turn; and an input rule of a tenant that masks is treated like one that
  hands over.
* A run of pattern characters longer than the lag may leak a prefix, as the
  comment on the redactor says it may (`StreamIsMasked` excepts it).

## Proofs

All theorems are for every value of the constants.

* `SessionTurnProofs`. `LostInv` says that a holder's lock is live and its own unless
  it has lost it; it needs no assumption and gives `OnlyHolderFrees` for turns of
  any length. Under `TurnsFitTtl` nobody loses a lock, which leaves `LockInv`, that
  every holder's lock is live and its own, and with it `TurnExclusion`. `TailInv`, that a holder's entries are the
  last of the log, carries `TurnsContiguous` and `HistoryIsCurrent`; with it
  `ToolUseAnswered` is inductive. `TurnsAreSerialised` maps every step to a
  step of `TurnLog` or a stutter. `TypeCorrect` needs no assumption.
* `ChargeProofs`, on keys. `KeyInv` adds to the types that whoever is at work
  owns the placeholder, that a stored response fits the result of the request
  that gave it, and that replays are faithful. `OneAtWork`, `ReplayFaithful` and
  `CompletedIsKept` assume `RunsFitTtl`; `FailureReleases`, from `ExitInv` on the
  ways out of a request, does not.
* `ChargeProofs`, on tokens. `Balanced` is about the books of one key: the count
  with what turns still owe covers the table (`Covers`) and is above it by one
  call a turn at most (`Charged`), and a sum about to fill the key is no older
  than what is owed explains (`FillsFit`). A step does to the books of a key one
  of five things (`Accounted`), each of which keeps them balanced
  (`StaysBalanced`). `CounterCoversTable` and `OverchargeBounded` are parts of
  that; `OvershootBounded` needs besides that usage stays below the limit by a
  call for each turn that has not passed its check. Of prices,
  `OneWindowPrices` says, for any table that validation accepts and any day, that
  the first window that applies is the only one; `PricesUnambiguous` is a case.
* `ConfirmationProofs`. `SheetInv` adds that a call about to consume holds a
  sheet of its own subject. `AskInv`, for `NotAskedTwice`, says that what a call
  learnt from its queries stays true while it is alone in `require()`, and that
  open sheets of one subject are a window apart. `ApprovalIsImplemented` is the
  refinement.
* `ReturnFlowProofs`. `FlowInv` is about rows, those in the table and those a
  `fire()` has read: a row's state is covered by its data, wherever it is.
  `LoneInv` adds that two actors midway on one flow have marked it, so that
  without the mark a writer's copy is the row. `SoleInv` has nobody between
  lookup and creation beside another or beside an active flow, for `OneActive`;
  `TrailInv` says how a trail ends while somebody is about to write its next
  entry, for `TrailIsComplete`; `AcceptInv` gives `AcceptedNotRejected`.
* `ToolGatewayProofs`. Lemmas say what the breaker's operators preserve;
  `BreakerMoves` that nothing else touches it. `HighInv` follows the one request
  of a high risk call: unsent, under way with nothing run, or settled; it rests
  on the list being cached from planning on, for else the risk is unknown.
  `OldInv` says that a request under way at the last trip is as old as the trip at
  least, so that its timer is due when the cooldown ends at the latest.
* `CachesProofs`. `CacheIsCurrent` is inductive with the types, for a reader on
  its way to fill the cache is among the excuses. `ConfigIsCurrent` needs
  `ConfigInv`: what a process is about to put into its Map is the stored row, or
  the process is marked as behind.
* `TurnPipelineProofs`, on topics and rules. `SlotsInv` says that slots are of the
  present intent and that there are none before anything was recognised;
  `RefundsAreRouted` reads off the agents which intents are offered the refund
  tool. `VerdictIsWorst` says what the worst of a set of matching rules is; with
  `GlobalRulesStay`, that no tenant's rule displaces a global one, it gives
  `TenantsOnlyTighten`. It assumes that tenants' rules have one of the four
  treatments (`RulesAssumption`).
* `TurnPipelineProofs`, on the history. `HistoryInv` says that a compaction has
  drifted or `Held` holds: the projection of the log and the loop's list are
  `Paired`, a result being in them right behind what it is behind in the log and
  never missing there, and the list is the projection until it is trimmed;
  `Complete`, that in the log only the message whose tools are running and those in
  `broken` lack results.
  `MessagesAppend` and `MessagesExtend` say how the projection grows with the
  log, `ResultsPair` that the results of a message keep a list paired, `CutPairs`
  and `SummaryPairs` that cuts at a turn and summaries do.
* `TurnPipelineProofs`, on the redactor. A match ends before any character outside
  the alphabet and does not see beyond it (`MatchLocal`, `MatchShift`), so masking
  the two sides of one masks the whole (`MaskSplits`); `feed()` cuts there and
  nowhere else as long as the tail is no longer than the lag (`CutsStay`).
  `AnyStreamIsMasked` is for all replies, chunks and lags; `StreamIsMasked` is what
  it says of the texts TLC tries.
* `EdgeProofs`. While a window or the next one lasts, its key does not expire
  (`KeysOutliveTheirWindow`), one request at most waits for its PEXPIRE
  (`OneWaits`), and the key has counted all that passed and the one that waits
  (`KeysCount`). The tokens a process gave since a window began, with those in its
  bucket, are a full bucket and its refills at most (`BucketsHold`). The two give
  `DegradedNotOpen` for any rate, burst and number of processes.
  `OthersAreHidden` is `OnlyOwnersServed`.

What recursive functions compute is proved where the induction could be put in
first order: the lemmas `Least` and `Greatest` say that a set of naturals has a
least, and a bounded one a greatest, member; a proof then takes the first entry
of a log or the last place of a text at which a claim fails. That a recursive
function has the values its equation gives it takes such a proof of its own
(`ProjectionsExist`, `ReplacementsExist`, `MatchesExist`, `FeedingExists`). For
this the projection, masking, the release point and the stream are written as
recursive functions and not as folds.

Only model-checked: `SessionComesBack`, `KeyComesBack`, `EveryCallAnswered`,
`StaleEnds` and `ShutdownEnds`, which are liveness under fairness and out of the
prover's reach. Every invariant and every action property of a passing run is
proved. The three findings are counterexamples of TLC.

## What is left

1. `ChatService`: `Idempotency` and `SessionTurn` composed, with endpoints, to
   say what a retried request means for the session.
2. An abstract ledger that `Quota` refines, to say in one place what
   `CounterCoversTable` and the two bounds say apart.

## Not modelled

* Refund tickets: one `INSERT ... ON CONFLICT DO NOTHING` and a read of rows that
  nothing updates; the constraint says it all.
* Observability, evaluation, the command line and sample data: output and
  development tools; no step of the server reads what they produce.
* The model provider and the recogniser's model are external: an answer, or a
  failure. Prompts, profiles and the wording of answers are text.
* Of authentication, issuing, revoking and touching keys; of the health
  endpoints, the answer; of the gateway, `invalidate()` and `reset()`, which only
  tests call.
* Of the agent loop, the repair of a truncated answer, the budget of one turn in
  money and the old filters of `guardrails/`, which the default pipeline does not
  install.
* The real regular expressions.
