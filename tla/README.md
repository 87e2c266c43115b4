# SocioPulse platform: a TLA+ verification project

The platform runs telephone surveys: operators work in shifts, a dialer feeds
them respondents, a bridge drives FreeSWITCH, recordings and results are stored,
reported and billed. It is a modular monolith in Go over Redis (live state and
queues, changed by Lua scripts), Postgres (row-level security per tenant, a
transactional outbox), NATS JetStream, ClickHouse and S3. Several replicas of
`cmd/api`, `cmd/worker` and `cmd/telephony-bridge` run at the same time, so
almost everything that is hard in this code is one store being changed by
several processes, or one operation spread over two stores.

This directory models the operations of the platform's modules that change
state, checks them with TLC on small instances and proves the central properties
of ten of them (the operator state machine, the retry sweep with its queue, the
command bridge with its connections, the report jobs, the outbox, the recordings,
login, the refresh tokens, users with their second factor, onboarding) with TLAPS
for every instance. `PROJECT.json`
lists components, runs, mutants, findings, hazards and theorems, and maps every
definition to the lines it stands for.

## 1. Inventory

| part | module | state | what is hard | what is shown |
|---|---|---|---|---|
| operator FSM and watchdog (`dialer/fsm`) | `FSMTransitions`, `OperatorFSM` | Redis hash with version; session and log rows; presence keys | load / decide / compare-and-set by concurrent requests; two stores one after the other; the version restarts with every shift | no lost update, one audit row per transition, whole operations, absent operators go offline |
| call queue (`dialer/queue`) | `CallQueue` | sorted set and dedup set | two keys kept in step by four scripts | whoever is deduplicated is queued |
| retry orchestrator (`dialer/retry`) | `RetryOrchestrator` | `respondents` rows, advisory lock | hand-off of leadership, crash between two stores | nobody dialled twice or forgotten; due retries are taken up |
| random digit generator (`dialer/rdd`) | `RddGenerator` | Bloom filters, Redis set and bucket, rows, queue | two processes draw one number by two clocks; a step of several fails | what is reported is what is queued; the bucket bounds all calls together |
| working hours (`dialer/hours`) | `DialHours` | tenant settings | two pieces of code follow one precedence | NextAllowed is the next instant IsAllowed allows |
| router, backpressure, reconciler, capacity (`telephony/router`, `dialer/capacity`) | `ChannelRouter` | channel counter per node | the reconciler overwrites what it read earlier; lost and repeated releases | slots are conserved; drift is repaired |
| command bridge (`telephony/nats_bridge`) | `CommandBridge` | stream, idempotency keys | redelivery to any replica, failure after the key is set | at most once, never lost silently |
| ESL client and pool (`telephony/esl`, `telephony/pool`) | `ESLClient`, `CommandBridge` | connection, mutex, reply channel | replies without identifiers, timeouts, a client closed under its users | a reply goes to its command; the mutex is given back |
| outbox relay (`pkg/outbox`) | `OutboxRelay` | outbox rows, stream | publish before commit, several relays | at least once; twice only after a fault |
| analytics ingest (`analytics`) | `AnalyticsIngest` | buffers, dedup LRU, ClickHouse | acknowledged before it is flushed | nothing acknowledged is forgotten unnoticed; events arrive |
| websocket connection (`realtime/service`) | `RealtimeConnection` | two lanes, bucket, close-once | three goroutines, a slow or silent peer | no gap in critical frames; everything unwinds |
| hub and presence (`realtime/service`) | `RealtimeHub` | four indexes, counts, Redis keys | close against attach, subscribe, broadcast and a change of claims | indexes agree but for two named remains; nobody stays online |
| resolver caches (`realtime/service`, `realtime/events`) | `ResolverCache` | TTL maps, shared lookups | a lookup that started before the invalidation | stale for one lookup and one TTL at most |
| login (`auth/service`) | `LoginGuard` | Redis counters and lock | count, check and lock are separate commands | guesses and attempts are bounded |
| refresh tokens (`auth/store`) | `RefreshTokens` | whitelist, rotated markers, revocations | one token in two requests; a refresh against a revocation | exchanged once; only a refresh past its check outlives a revocation |
| users and second factor (`auth/service`) | `Accounts` | user and TOTP rows | reads and writes in separate transactions | a backup code works once; an enrolled factor is asked for, one race of Disable apart |
| data keys (`tenancy/service`) | `KeyCache` | LRU of buffers that are wiped | a buffer in use is wiped | the right, live key is handed out |
| onboarding (`tenancy/service`) | `Tenants` | KMS keys, rows, buckets, events | five external steps that each may fail | complete, or accounted for |
| projects, respondents, imports, purge (`crm`) | `Projects`, `Respondents`, `Imports` | rows, tasks, progress | overlapping requests, retried tasks, grace periods | one number one row; counters add up; an archived project is not edited and archived is final; the grace of a deletion is kept; what the routes answer agrees |
| surveys and versions (`surveys/service`) | `Surveys` | survey and version rows, lock | saving and activating together | numbered without gaps; activations form a chain; an archived survey comes to rest |
| schema validator, conditions, runtime (`surveys/...`) | `SurveyGraph`, `SurveyCaches` | a schema, an interview; two LRU caches | does what is accepted always work | walkable; dominators exact; only checked conditions run |
| recordings (`recording`) | `Recordings`, `Retention`, `RecordingLife` | rows, objects, audit and outbox | racing commits; object and row change separately; workers overlap | committed once, erased once, never before the day the commit asked for, never back |
| reports (`reports`) | `ReportJobs`, `JobListing` | tasks, job rows | task before row, cancel against run, retries | one outcome per job; jobs end |
| billing (`billing`) | `Billing` | tariffs, cost rows | redelivery under changing tariffs; period boundaries | charged once and in the end; reports agree |

Interaction: the telephony bridge turns FreeSWITCH events into
`tenant.*.telephony.event.>`; the dialer's subscriber turns these into
RecordCallStarted and RecordCallEnded; SubmitStatus writes `call.finalized` to
the outbox in the transaction that audits the transition; the relay publishes
it; billing, analytics and realtime consume it. In the other direction the
dialer publishes commands, which the bridge carries out once. The office modules
(crm, surveys) prepare what the dialer works on: `Respondents` has the marks of
the retry sweep on rows that are being deleted, `Imports` works on the rows and
projects of `Respondents` and `Projects`, `AnalyticsIngest` on the stream of
`OutboxRelay`, `Retention` on the rows of `Recordings`, `CommandBridge` on the
connections of `ESLClient`, `RetryOrchestrator` on the queue of `CallQueue`.

## 2. Modules

A module has the state of its part as variables, one action per handler, script
or transaction, and its properties. `MC...` modules are instances for TLC,
`..._proofs` modules have the theorems. Two modules are abstract specifications:
`OperatorShift` (what `api.OperatorFSM` promises) and `RecordingLife` (what
happens to a recording).

A definition named `Fault...` is a plausible mistake in the definition after it.
No specification uses it; it is there to be substituted, to show that the
property named in `PROJECT.json` notices the mistake.

### 2.1 Operator state machine

`hash` and `version` are the Redis hash; `sessions` and `log` the rows in
Postgres; `job[p]` the local variables of a request in flight: what it loaded,
at which version, what it is about to write. A request is three steps, as in
`applyEventFull`: load and decide (`EndShiftReq`, `GoPauseReq`, ...), the
compare-and-set script (`CasWins`, `CasConflicts`), the audit transaction
(`Audit`). StartShift is different, as in the code: transaction first
(`InsertSession`), script second (`StartShiftWins`, `StartShiftLoses`). The
watchdog's sweep is `WatchState`, `WatchPresence`, `WatchForce`, then the same
script and audit. `Abort` may end any request between two steps.

Abstractions: one operator, because no operation touches two; `project_id` goes
with the session and `respondent_id` with the call; outcomes are the two classes
that `IsSuccessClass` tells apart; the version stands for the log timestamp. A
request that the table rejects changes nothing and is no step of the model
except for the presence key it refreshes (`Ping`). Three history variables are
read by no guard: `shift` counts version resets, `overwritten` records that a
snapshot of an earlier shift was written, `orphans` collects the session rows
the code knowingly leaves open (it logs them).

### 2.2 Call queue and retries

One (tenant, project). Every script and every transaction is a step; a sweep
works on the rows it listed, while workers, the generator, the clock and the
other replica carry on. `lock` is the advisory lock as Postgres sees it,
`replica[o].conn` the leadership as the process believes it: `SessionLost` lets
the two disagree. The worker that pops the queue and concludes calls is not in
this repository; `Pick`, `Conclude`, `PutBack`, `WorkerCrash` and `Withdraw` are
external and use only what the queue and `retry.Apply` offer. `stranded` is
history. A comment in `retry/store.go` says that "a hand-off between leaders
never double-issues the same row"; the model shows the opposite after a fault,
because the row locks end with the listing and a leader that lost its session
carries on, so `NoDoubleDial` and `OneLeader` are stated for runs without one.

### 2.3 Command bridge

A replica has a handler (one message at a time, as the push subscription
delivers them), a supervisor per node and a reconciler, all using the node's one
`esl.Client`. A client is a record of its mutex, what is on the wire, and the
reply channel, which keeps its bound. A reply is characterised by the kind of
command it answers, because that is all its readers can see: a health probe
accepts a body that names a profile, a channel count accepts a number or an
empty body, the others look for `+OK`. A frame's `late` flag is history: its
sender has given up. The stream redelivers what is not acknowledged, on either
replica; FreeSWITCH answers in order and may carry out a prefix of what a dying
connection had sent.

### 2.4 Reports

An export either renders at once (`RunRender`, `RunAudit`) or becomes a task in
Redis and then a row in Postgres (`EnqueueTask`, `Create`: in this order, as in
`Queue.Enqueue`). A handler goroutine goes through the phases of `handleJobRun`:
`MarkRunning`, `Render`, `Put`, `PresignedURL`, `MarkSucceeded`, or `markFailed`
from any of the middle ones; each phase is a transaction or an external call,
and each may fail. A transaction that reports an error has not committed. What
asynq does with a task follows from the handler's return value (`settle`), and
a lease that runs out delivers the task again while the first handler may still
be at work. `missed` and `abandoned` are history: the two ways in which a job is
lost that the code accepts. A transient failure marks the row failed *and* asks
for a retry, which then finds the row closed; the model has this, and
`TerminalIsFinal` is what remains true.

`JobListing` is a client that follows `next_cursor` while rows are inserted.
The database clock ticks faster than the seconds of the cursor.

### 2.5 Outbox and analytics ingest

`outbox[e]` is the committed row of an event, `relay[r]` the open transaction of
a relay: the rows it locked and still has to publish, and the results it has
recorded and not yet committed. `Drain` is the `FOR UPDATE SKIP LOCKED` query,
`handleRow` publishes one row and records the result, `CommitDrain` ends the
transaction. A statement that fails in it aborts the transaction, although
`handleRow` goes on to the next row: everything the batch publishes after that
is published again. `stream[e]` counts the copies in JetStream, which stores a
publish, refuses it, or stores it and loses the acknowledgement. Two facts of the
wiring that the model shows and no comment denies: a row that failed `MaxRetry`
times is parked for ever (nothing resets `attempts`), and `drainUntilEmpty`
retries at once, so a short outage is enough to park rows.

`AnalyticsIngest` is one subject of the pipeline; the three run the same code on
separate state. The handler runs in the goroutine of the subscription, the
ticker in one of its own, so each may have rows in flight (`taken`) that are no
longer in the buffer. `Stop`, `FinalDrain`, `Return` and `Close` follow
`IngestPipeline.Run` and the deferred closes of `cmd/worker`, in their order.
`lost` is history: events whose rows were given up by a failed insert or the end
of a process.

### 2.6 Realtime

`RealtimeConnection` is one WebSocket: `link` holds the stage of the socket, the
pc of its reader, writer and pinger, the two outbound lanes, the inbound token
bucket and the close-once state. Critical frames carry a sequence number (modulo
`Wrap`, which only has to exceed the queue), telemetry is counted. The writer's
two selects are two steps, because a frame may arrive between them.
`RealtimeHub` has the hub's four indexes, the handlers of the sockets, the
two-phase broadcast (a snapshot under the read lock, then sends) and the
presence of a user: the count under `refMu`, the Redis call after it. A refresh
frame exchanges the claims of a connection (`SwapClaims`, the part of
`handleRefresh` that `RealtimeConnection` has no state for): its registration and
subscriptions stay where the old claims put them, the handler's presence calls go
on with the user of the handshake, and the close callback goes by the new claims.
`ResolverCache` follows one id: the map, lookups that share a flight, and an
invalidation that may come before, during or after a flight, or never.

### 2.7 Auth and tenancy

Every Redis command of a login is a step (`LoginGuard`); keys expire at any
moment, which stands for time. In `RefreshTokens` a rotation is one script, and
everything around it (issue, replay detection, revocation, logout) is a step of
its own; a Redis call may fail. Tokens are stamped, and the cutoff of
`RevokeAllForUser` is kept, in whole seconds of a clock; a refresh is checked,
rotated and signed in three steps, between which the clock and a revocation may
move (`origin` is history: what a token was exchanged for, and when that was
checked). `Accounts` has one transaction where the
code opens one and two steps where it reads in one and writes in another; a
`Disable` whose DELETE finds no row locks nothing and is two steps as well
(`raced` is history: a factor confirmed between them).
`KeyCache` models the byte buffers themselves: the cache hands out the buffer it
holds, and whoever drops an entry zeroes it; a ciphertext remembers the key that
was wrapped beside it and the one it was really sealed with. `Tenants` has the
five steps of `Create`, each with its failure, and the status changes; the row is
validated after its key was made, as in the code.

### 2.8 CRM

A service method is a READ COMMITTED transaction: what it reads is one step, its
writes with the commit another. Row-level security and `RequireSameTenant` are
guards on the caller's organisation. `Respondents` adds the deletion with its
grace, the purge in batches and the two marks of the retry sweep, which know
nothing of deletions. `Imports` has the upload, the task, its two servers on one
queue, the parser over the rows of a file (blank, unreadable, both formats), the
batches and the progress hash, with a crash or a failure at each step. The answer
to a duplicate task id (`import.go:228`) is left out: no route supplies an id, so
each upload has a new one.

### 2.9 Surveys

`Surveys` has the advisory lock as a variable, and the unique index as the guard
that makes a second insert of a number fail. `activations` is history: what each
activation replaced, which the code hands to an audit logger after the commit;
the module registers a no-op one, so no row is written. `SurveyGraph` drafts a schema out of
all small ones, validates it with every check of `schemavalidator`, and, when it
is accepted, walks it with every answer; a condition is the set of the nodes of
its syntax tree, and what a comparison yields is a choice. The whitelist visits
that tree. The reference check does not: it searches the text for `q.value` and
`q.answered`, so a read written as `q["value"]`, `q .value` or `q?.value` passes
the one and is not seen by the other. Each read in a condition therefore has a
form, "dotted" or "other". `SurveyCaches`
are the two LRU caches between them with a lock per operation.

### 2.10 Dialling

`DialHours` counts time in slots of a day; zones are fixed offsets; overrides
are what the JSON can hold: missing fields, unreadable times, inverted windows.
`RddGenerator` is `Generate` attempt by attempt: bucket, draw, do-not-call,
filter, mark, create, enqueue. The bucket is read and refilled by the clock of
the caller, which may be `GenSkew` behind; `setBack` is history: by how much a
caller's reading was before the one it replaced.

### 2.11 Recordings

`recRows`, `objects` and `rectrail` (how many audit rows and events there are)
are the committed state; `creq[q]` a Commit in flight: an insert that conflicts
with an uncommitted one waits, as in Postgres. The cold and the delete day of a
row are copied from the request, whatever the day of the commit; a timestamp the
request leaves out is the epoch, which is past on every day and passes the
validation. `sweeper[w]` and `checker[w]` are
the two passes of worker `w`; `leaders` the advisory locks, which a lost session
frees while the pass goes on. The listing of due rows is any sequence the
`ORDER BY ... LIMIT` may return. Deletion is two steps, the object first
(`DeleteObject`) and the row in a transaction (`handleDelete`).
`RecordingLife` has a status, a plan (the day of the commit, the cold and the
erase day) and the calendar; `ImplementsRecordingLife` maps the row's status,
`committed_at`, `cold_at` and `delete_at` to them.

### 2.12 Channel router

`active` is the Redis counter, `channels` what FreeSWITCH has; a call takes a
slot by the router's walk or the tracker, originates, hangs up and releases, each
of which can be lost or repeated. The reconciler sweeps node by node: list, ask,
compare, write. `forgotten` is history: slots the counter was made to forget.

### 2.13 Billing

The tariffs are rows read one by one, so a reader may mix two versions. A
message is delivered until it is acknowledged; `MaxAckPending` bounds what is
outstanding. Money is integers; rounding follows `calculator.go`.

## 3. Runs

Where parts share no state, one run holds several of them: a variable `scenario`
chooses the part a behaviour moves, and a property is evaluated where its part
moves. Groups such as `CommandsAreSafe` are conjunctions of properties stated,
each with its comment, in the parts' own modules.

Passing runs:

* `fsm_safety` (619,193 states). Two requests at a time plus the watchdog, four
  requests, two sessions, two calls. Four requests are the least that reach the
  case that matters most (a shift, a slow request, the end of the shift, a new
  shift). `CleanSnapshot`, `NoLostUpdate`, `LiveSessionIsOpen`,
  `AuditTrailComplete` (one row per transition, and none missing but those of
  requests that died), and the action properties `WritesAreAtomic` (every write
  is one operation of `OperatorShift`) and `CallNotDisplaced`.
* `fsm_watchdog` (253,478 states). One request or sweep dies anywhere.
  `NoSilentSessionLeak`, and `AbsentGoesOffline` under weak fairness of the
  sweep only: it runs off a ticker in a worker that is restarted. Nothing is
  assumed of requests; they are bounded in number, which stands for their not
  arriving between every two steps of the sweep for ever.
* `retry_sweep` (233,508 states). Two orchestrators, two respondents, one of
  whom cannot be decrypted, one fault, a batch of two. `RespondentsAreKept` is
  `DedupIsBacked`, `OneLeader`, `NoDoubleDial` and `NoSilentStrand`;
  `MatureIsTakenUp` holds under weak fairness of each replica's sweep (a ticker
  again). The batch is larger than the number of undecryptable rows: with a
  smaller one the property fails, as it would in production with a thousand such
  rows.
* `bridge_commands` (1,027,363 states). Two replicas, one command, two faults
  out of timeouts, lost links, lost acks, early redelivery, Redis errors and
  crashes; a reply channel of one, so that it overflows. `CommandsAreSafe` is
  `AtMostOnce`, `RepliesMatch` and `MutexIsHeldByWaiter`; `NoSilentLoss`. One
  command suffices: another one would only be one more caller of the client, of
  which the probe and the reconciler are two.
* `reports_jobs` (136,529 states). Two jobs, two handlers, two faults, one
  retry: enough for a second delivery while the first handler is stalled, with a
  fault to spare; three finished calls, a tariff change and a fault of billing.
  `JobsAreAccounted` is `OutcomeIsPublishedOnce`, `OneRenderer`,
  `SucceededHasArtifact` and `NoSilentStall`; `SettledIsFinal` is the action
  property that an ended job keeps its outcome (`TerminalIsFinal`) and a cost row
  is never rewritten (`ChargedOnce`); `SumsAgree` compares every report with the
  others on every day. `JobsEnd` under weak fairness of the handlers, of asynq's
  delivery and lease recovery, and of the second half of a request that was
  begun; `FinalizedIsCharged` under weak fairness of the subscriber's steps and
  strong fairness of the delivery of a message (JetStream redelivers what is not
  acknowledged, though other messages may hold the one slot of the subscriber).
* `pipeline_events` (65,539 states). Two events, two relays, batches of two, one
  replica of the ingest whose restart stands for a second one, two faults (an
  orderly shutdown is counted among them to bound both), a dedup cache of one
  entry so that it evicts. Both events have the same creation time, which
  allows every order. The ingest starts when the relays have come to rest: it
  only reads the stream, and the bus may deliver as late as it likes, so nothing
  is left out but the product of the two state spaces. `PublishedWasSent`,
  `NoDoublePublish`; `EventsAreAccounted` is `AckedIsAccounted`,
  `OneRowPerEvent` and `DedupWindow`, which compares the cache with its
  definition on all sequences of up to five of four ids; `EventsArrive` under
  weak fairness of the relays (a ticker), of the subscription's goroutine, the
  ticker's, and the replacement of a stopped pod, and of the appends, which only
  says that the instance gets all its events.
* `console_desk` (581,858 states), ten scenarios. `EventsAreKept`: no gap in
  the critical frames (`NoCriticalGap`), at most one telemetry frame before them
  (`CriticalFirst`). `CopiesAreTrue`: what is kept of something else agrees
  with it, the hub's indexes and presence with the sockets (`HubIndexesAgree`,
  which names what a refresh into another tenant leaves behind, and
  `QuietMeansOffline` where Redis did not fail; sockets of one user on two
  replicas), the resolver caches with the rows
  (`StaleAtMostTtl`), the cached data keys with the ones in use
  (`CacheHoldsLiveKeys`, `RightKeyIsUsed`). `LoginsAreBounded`: `BoundedGuesses`,
  `RateIsBounded`. `TokensAreSafe`: `ExchangedOnce`, `OnlyRacersSurvive`. `UsersAreConsistent`:
  `AccountsAgree`, `BackupUsedOnce`. `TenantsAreAccounted`:
  `OnboardingIsAccounted`. These four are proved as well (section 4).
  `SilentPeerUnwinds` under weak fairness of the goroutines of
  a connection, the reader's only once the connection is closed: a read from a
  silent peer never returns. Two sockets, requests, logins or organisations each:
  every property here is about two that overlap.
* `office_records` (487,189 states), eight scenarios. `RespondentsAreConsistent`:
  `OnePhoneOneRow`, `ImportIsAccounted`; the imports begin beside a
  deleted respondent past its grace, so that the purge removes a row while they
  run. `RetiredStaysRetired`: the action properties `ArchivedIsFrozen` (fields and
  mark of an archived project, and its status once no Pause or Resume that read
  it before is under way), `ArchivedSurveySettles` (the same for a survey and its
  versions) and `GraceIsKept`, over the three days a deletion, its grace and its
  purge take. `AnswersAgree`: routes that answer the same question from different
  queries agree, `ProjectAnswersAgree` (open, list), `RespondentAnswersAgree`
  (progress, search, open) and `SurveyAnswersAgree` (survey, active version,
  versions, list); and a respondent is its project's organisation's
  (`OwnersAgree`), which only the route chain ensures. `VersionsHold`: `VersionsAreNumbered`, `ActivationsFormAChain`.
  `InterviewsAreSound`: `AcceptedIsWalkable` and `DominatorsAreExact` over schemas of a
  start, two questions and an end (every set of edges from each question, the
  first question always reachable, at most one condition that reads an answer, in
  either form) and ten that are malformed or unusual in other ways,
  `OnlyCheckedIsCached`.
  `DiallingIsPlanned`: `NextAllowedIsNext` in two zones at every slot of eight
  days with three holidays, under the overrides listed in `MCOffice`, for
  windows that end after they start (the parser does not demand it),
  `GeneratedIsQueued`, `BucketHolds` with clocks one unit apart. Respondents and
  requests are symmetric, and so is what shares their model values; no liveness is
  checked here.
* `media_records` (112,388 states), four scenarios: racing commits, two workers
  on two stored recordings, one recording from upload to erasure (one worker
  sweeps it, both check it), the channels.
  A commit asks to be erased before it is cold, or leaves both days out.
  `RecordsAreAccounted`: `RecordedOnce`, `PagesCoverOnce`, `ErasedIsAccounted`,
  `NoFalseAlarm`. `ChannelsAreBounded`: `SlotsAreConserved`.
  `ImplementsRecordingLife` is the refinement. `ExpiredIsErased` under weak
  fairness of each worker's sweep (a ticker) and of the calendar.
  `DriftIsRepaired` under weak fairness of the reconciler (a ticker), of calls
  going on to their end, and of a node that was ill recovering; node 2 stays
  healthy, so that the walk has somewhere to go.

`CHECK_DEADLOCK FALSE` everywhere, because requests, faults and time are
bounded and the bounded system stops.

Runs that TLC refutes, each a sentence of the repository's documentation:

* `fsm_refines`: `fsm/doc.go` says concurrent transitions never tear the
  snapshot. `start_shift.lua` restarts the version at 1, so a request that was
  loaded in one shift passes the compare in the next. `WritesAreAtomic` says
  that this is the only way.
* `keys_zeroed`: "Decrypt reverses Encrypt", but the cache wipes a data key in
  place when its entry is replaced, evicted or swept, also while an encryption
  still holds it; the row is then sealed with zeroes and filed under the wrapped
  key. `RightKeyIsUsed` says what remains: the cache itself never hands out a key
  it has wiped, and a ciphertext is opened with the key wrapped beside it.
* `reports_listing`: "Unix seconds are sufficient because the keyset predicate
  tiebreaks on id within the same second", but the column has fractions of a
  second, and the rest of the second in which a page ends is skipped.

## 4. Proofs

`OperatorFSM_proofs` proves, for any sets of requests, sessions and calls and
any bounds:

| theorem | statement |
|---|---|
| `TypeCorrect` | `Spec => []TypeOK` |
| `HashIsClean` | `Spec => []CleanSnapshot` |
| `OptimisticLock` | `Spec => []NoLostUpdate` |
| `RunningSessionOpen` | `Spec => []LiveSessionIsOpen` |
| `SessionsAccountedFor` | `Spec => []NoSilentSessionLeak` |
| `AtomicWithinShift` | `Spec => WritesAreAtomic`: every step maps to a step of `OperatorShift`, a stutter, or a write loaded in an earlier shift |
| `AuditsComplete` | `Spec => []AuditTrailComplete` |
| `CallsAreNotDisplaced` | `Spec => CallNotDisplaced`, an action property: no effect of a request exchanges a call, and the one written within a shift is an effect of the stored snapshot |

Assumptions: `Nil` is not a session, a call or an outcome; the watchdog is not
one of the request processes; the bounds are naturals. All come from `Invariance`, whose
invariant `IInv` adds to the properties

* `UpdateInv`: what a request is about to write is an effect of what it loaded
  (so the write is an operation, once the loaded snapshot is known to be the
  stored one);
* `VersionInv`: a request was loaded in this shift or an earlier one, and a
  version loaded in the current shift is not above the stored one (so a match
  means nothing was written in between);
* `SessionInv`: every session known to the hash or to a loaded snapshot has been
  inserted, and a row that StartShift has inserted and not yet bound is open and
  known to its inserter alone;
* `ClosingInv`: as long as no StartShift has overwritten a running shift, the
  session an EndShift is about to close is no longer the one in the hash (so
  closing it does not close the running shift's).

`AuditsComplete` needs a second invariant, `LogInv`, over the first: rows exist
for inserted sessions only (`LogInserted`), a session that is not bound yet has
the row of its StartShift and no other (`FreshLogged`), and nothing of the
running shift is logged or about to be logged ahead of the version in the hash
(`NoneAhead`). Without the last one a new version could meet a row that is
already there.

The lemmas follow the layers: `EffectType`, `Edges`, `EffectClean` about the
operators on snapshots; `RequestStep` and `NextStep` reduce the twenty-odd
actions to a handful of shapes; `TypeStep`, `LockStep` and `SessionStep`
preserve one group of conjuncts each.

`Background_proofs` has two parts. The first, about the outbox, proves, for any sets of events and relays, any batch size
and any number of faults:

| theorem | statement |
|---|---|
| `PublishedRowsWereSent` | `OutboxSpec => []PublishedWasSent` |
| `RelaysPartitionTheWork` | `OutboxSpec => []NoDoublePublish` |

Assumptions: creation times, `MaxRetry`, the batch size and the fault bound are
naturals. `OutboxInvariance` has the inductive invariant: the batches of two
relays are disjoint (`Disjoint`) and contain only pending rows that may still be
retried (`OwnRows`), which is what the row locks give; a row recorded as sent is
in the stream (`SentIsThere`), so that the commit may mark it; and `Budget`,
which is stronger than the property: an event that is neither marked nor
recorded in a transaction that can still commit has no more copies than there
were faults, and an aborted transaction has a fault to spare for each row it
still publishes. The property alone is not inductive, because a crash forgets
the copy it has recorded and the next relay sends another. The lemmas
`HandleEffect` and `DrainEffect` say what the two quantified actions do, and each
group of conjuncts has a step lemma.

The second, about the recordings, proves, for any calls, commit requests, workers, retention
plans and fault bounds:

| theorem | statement |
|---|---|
| `Invariance` | `RetentionSpec => []RecordingInv` |
| `Refinement` | `RetentionSpec => ImplementsRecordingLife`: stored, cold, deleted, in this order, never before the day its commit asked for and never back |
| `Accounted` | `RetentionSpec => [](RecordedOnce /\ ErasedIsAccounted)` |

Assumptions: the named ones of `Recordings` and `Retention` (calls are numbers,
the days of a plan are naturals or unset, the batch is at least one). The properties are not
inductive, because a sweep acts on rows it listed earlier, and between the object
and the row of a deletion anything may happen. `RecordingInv` has what makes up
for it:

* `Rows`: the days of a committed row are days of a plan, and it was committed
  today or before;
* `Trails`: audit rows and events agree with the status of the row;
* `Requests`: a request about to announce its commit has an uncommitted call, its
  days are those of a plan, and the time it took at the start is not after today;
* `Audio`: an object is gone only when the deletion of its row is due;
* `Sweeps`: what a sweep still has to do is committed and was due when listed,
  and time does not take that back;
* `Checks`: what an integrity pass has sampled is committed.

`Aging` relates two consecutive states (rows only grow older), and carries
`Sweeps` and `Checks` over the steps of the others. For the refinement
`FinishCommit` maps to `Keep`, `handleColdMove` to `Cool`, `handleDelete` to
`Erase`, `PassDay` to `Tomorrow`; everything else, verification included, maps to
a stutter.

`RetryOrchestrator_proofs` proves `RetriesAreKept`, `Spec => []RespondentsAreKept`,
for any respondents, replicas, workers, times, batch sizes and faults.
Assumptions: the respondents of the project are a finite set, some of which
cannot be decrypted; `Nil` is not a replica and not a time; the bounds are
naturals. `DedupIsBacked` and `NoSilentStrand` are nearly inductive (`Unborn`: a
respondent who is not in the table yet has no due time); `NoDoubleDial` is not, because a sweep
enqueues from a list that it read earlier. `Own` says who answers for a
respondent while nothing has failed: the leader holds the lock and is the only
one to sweep (`Lead`), a respondent is queued once, or held once, or with the
generator (`Items`), and a row that waits for its time, and a row of the list
that the sweep has yet to enqueue, is in nobody's hands (`Lists`). `Batches` has
what `ORDER BY ... LIMIT` returns: different rows of the set. Each action has a
lemma for the types and one for `Own`; `HandsAreOne` turns `Items` into the count
that the property uses.

`BridgeMutex_proofs` and `CommandBridge_proofs` prove, for any replicas,
commands, connections, sizes of the reply channel and faults:

| theorem | statement |
|---|---|
| `CommandsAreKept` | `Spec => []CommandsAreSafe` |
| `NoCommandIsLost` | `Spec => []NoSilentLoss` |

Assumptions: `Nil` is not a command and not a caller; reconcilers are replicas,
malformed commands are commands; the reply channel holds at least one. The first
module has what the steps do to a client (`Released`, `Sent`, `close`, `answer`
as changes of one record), reduces the twenty-odd actions to changes of one
client (`Moves`), and shows the types, `Match` (as long as nobody has timed out
on it, an open client has exactly as many commands or replies under way as its
mutex has holders) and `Held` (a holder is waiting on that client). The second
adds

* `Tokens`: the one right to carry out a command. It is created with the
  idempotency key, is with one handler, or in one place on one wire, or used up;
  `AtMostOnce` is not inductive without saying where else it could be;
* `Ours`: a reply that is not late, and that the handler could take for its own,
  is the answer to its command;
* `Traced`: an acknowledged command has a key, and a command with a key is
  settled or some handler is at it. That is `NoSilentLoss` before the
  acknowledgement.

`ReportJobs_proofs` proves, for any jobs, handlers, retries and faults:

| theorem | statement |
|---|---|
| `JobsAreKept` | `Spec => []JobsAreAccounted` |
| `OutcomesAreFinal` | `Spec => TerminalIsFinal`, an action property |

Assumptions: `NoJob` is not a job, "custom" is a kind of report, the bounds are
naturals. Row and task are written by different steps of the request and of the
handlers, so the invariant (`ReportInvariance`) ties both to them: there is a
row just when the request was accepted, and a handler past MarkRunning has moved
it on from queued (`Rows`); a job whose row is queued or still to be inserted has
a task that will come, or is on record as missed (`Tasks`); a handler past the
upload has its object (`Uploaded`); a running row has its handler, unless a fault
took it (`Attended`). `MarkRunning` accepts a row only when it is queued, which
makes `OneRenderer` and `OutcomeIsPublishedOnce` inductive beside these.

`Desk_proofs` and `LoginGuard_proofs` prove the properties of `console_desk` that
are about overlapping requests:

| theorem | statement |
|---|---|
| `GuessesAreBounded` | `LoginSpec => []LoginsAreBounded`, for any limits and any finite set of requests |
| `TokensAreExchangedOnce` | `TokenSpec => []TokensAreSafe`, for any sessions, tokens, requests and faults of Redis |
| `FactorsAreSound` | `AccountSpec => []UsersAreConsistent`, for any users, codes and requests |
| `OnboardingAccounted` | `TenantSpec => []TenantsAreAccounted`, for any organisations and requests that fail or die, with a bucket provisioner or without |

Login. Assumptions: the threshold is at least one (`NewLockoutRedis` replaces
anything less), the other limits and the bounds are naturals, the requests are a finite
set and there is one. The bounds speak of counters; what makes them inductive is
how many requests are where (`LoginInv`). `Rate`: whoever has counted the
hits of a window will add one, and each of those still to be admitted is counted
with those that were. `Guessed`: a wrong guess is on the failure counter, or
about to be, or was lost to a fault; while the account is open no more than the
threshold allows have been made by requests that are neither counting nor
locking; once it is locked only those already past the check guess on. A step
moves one request from one of these sets to another: `Placed` and `Windows` say
by how much their cardinalities change, `Figures` that they are numbers.

Refresh tokens. Assumptions: token ids are the numbers from 1 on, the fault bound
is a natural. The property is not inductive: the request deals the new id, and
its script whitelists that id later, after anything else has run. The invariant
(`TokenInvariance`) adds `Ids`, only dealt ids are in Redis, and `Dealt`: until
its rotation the new id is known to its request alone, no client holds it, and
what a request asks to exchange is a token that a client holds. `Sessions` is
for the types: a request about to revoke holds a token that was issued, so only
sessions are revoked. `Stamps` is for `OnlyRacersSurvive`: a request under way, and
a token that came out of one, had its old token checked in a second that is past,
and if that token is dead by now, the cutoff is no earlier than the check
(`racer`).

Users. Assumption: the bounds are naturals. That a backup code opens one session
is not inductive: the codes of an enrolment are made by one step and stored by a
later one. `Secrets` says where a code is: in the row of one user, or with one
request that enrols, and as long as it is there nobody has used it. `Factors`: a
row belongs to a user who exists, which is needed because `Create` writes the
flag anew. `Races`: whoever is enrolled while the second statement of a `Disable`
is still to come was confirmed after the first.

Onboarding. Assumption: `HasBuckets` is a Boolean. The property speaks of
organisations and of finished requests; the invariant (`TenantInvariance`) adds
what the requests under way know (`Underway`): a key not inserted yet is no
tenant's and belongs to one request, and once it is inserted the row of the
organisation carries it. `MovesOn`, `Answered` and `Advances` treat the steps that
change no organisation, `RowChanges` those that update a row; `Stores` says that
orphans are keys that were made and buckets belong to organisations. A key that
nobody reported is excused by its request (`excused`): under way, dead, or refused
by `Validate`.

Only model-checked: all liveness (`AbsentGoesOffline`, `MatureIsTakenUp`,
`JobsEnd`, `FinalizedIsCharged`, `EventsArrive`, `SilentPeerUnwinds`,
`ExpiredIsErased`, `DriftIsRepaired`), which is beyond the prover;
`PagesCoverOnce` and `NoFalseAlarm`; of the runs' safety properties
`CopiesAreTrue`, `EventsAreKept`, `EventsAreAccounted` and `ChannelsAreBounded`;
the properties of `office_records`; `ChargedOnce` and `SumsAgree`. `SurveyGraph`, `DialHours` and `Billing` compare algorithms with reference
definitions; for every input that would need induction over data.

## 5. Remarks

Met while modelling. Where the models can take these steps, the properties above
are stated so as to say what holds in spite of them; no run is about them alone,
and those an instance is too small for are from reading only.

* `VerifyDone` leaves the finished call bound to the operator
  (`fsm/machine.go:657`), `RecordCallEnded` does not compare the call of the
  event with the operator's (`:566`).
* The idempotency key of a command is set before it is dispatched
  (`cmd_subscriber.go:160`): a crash in between loses the command, since a
  redelivery finds the key and acknowledges.
* A reply that arrives after its caller timed out can be taken by the next one
  (`esl/client.go:431` drains what has arrived, not what is still to come).
* Events acknowledged into the buffer of the ingest are lost when the final
  flush fails or the process dies.
* Two relays may publish the events of one aggregate out of order.
* Presence is one key per user, so the last socket of one replica takes a user
  offline who is connected to another (`realtime/api/interfaces.go:58` says "at
  least one active connection").
* Crm: `Pause` or `Resume` that read a project before it was archived leaves it
  paused or active with `archived_at` set ("(terminal)", `crm/api/interfaces.go:33`);
  operators can be assigned to an archived project; both asynq servers serve the
  queue `crm`, so an import taken by the wrong one uses up its retries and stays
  "queued"; a retried import reports the counters of its last attempt; the marks
  of the retry sweep overwrite the status of a deleted respondent.
* Tenancy: an org_code of more than 64 characters is refused after its key was
  made, and that orphan alone is not logged (`tenant_service.go:195`); `Resume` revives an archived tenant ("(terminal)",
  `tenancy/api/tenant_service.go:107`); `InvalidateCache` is not called on
  suspension (`tenancy/api/kms.go:66`).
* Auth: a failing EXPIRE leaves the failure counter without expiry; a refresh
  whose answer was lost and that is repeated counts as a replay and ends the
  session; `ChangePassword` may overwrite a concurrent `ResetPassword`; a refresh
  past its check outlives `RevokeAllForUser` when it is signed in a later second;
  a `Disable` that finds no row and overlaps an enrolment leaves a confirmed
  factor that Login does not ask for (`totp.go:445`).
* Hub: a connection whose claims were exchanged for those of another tenant stays
  in the first tenant's index after it has closed (`hub.go:312`).
* Surveys: the status is read before the lock is taken; references in a condition
  that are not written `q.value` or `q.answered` are not checked (`graph.go:483`); the validator does not
  report dead ends; a skipped optional question makes a comparison fail at run
  time; dominators are inexact for graphs with unreachable nodes, which are
  rejected.
* Recordings: a replayed insert finds nothing to read back when the first was
  committed after its statement began ("no race window", `recording/store/postgres.go:38`) and is
  answered with an error; objects that cannot be deleted stay at the head of the
  listing, and a batch of them starves the rest; a page of the maximal size never
  reports that there is more; a commit without delete_at is accepted and due at
  once, since an unset timestamp arrives as 1970 and not as the zero time
  ("service validation rejects zero values", `commit_handler.go:57`, and
  "validation guaranteed non-zero", `service.go:424`).
* Billing: concurrent tariff updates lose values and repeat version numbers; a
  charge may mix two versions; no delivery limit is set, so undecodable messages
  come back for ever ("max-deliver policy eventually drops the message",
  `call_finalized_subscriber.go:101`) and `MaxAckPending` of them stop delivery.
* Router: a sweep that asked FreeSWITCH before an acquire overwrites the counter
  after it; the walk over the nodes may find each one full in turn though one is
  free at any time.
* Hours: with an inverted window `NextAllowed` returns an instant that
  `IsAllowed` refuses; `activeWindow` is not shared by `IsAllowed` as
  `checker.go:307` says.
* Generator: two processes can dial one number for two projects before either
  marks it (`dedup.go:102`: "we never re-dialled this phone"); a bucket whose
  clock is behind is refilled twice.

The code has no production callers for the router's `Select`, the working hours,
`RevokeAllForUser` and `ValidateAnswer`; they are modelled as their interfaces
are meant to be called.

## 6. Not modelled

* The event publisher of the bridge, the frame codec and the event side of the
  ESL client: stateless translations of bytes.
* Queries of analytics and the contents of reports: SQL and layout.
* Audit log, health probes, module wiring and `cmd/`: append-only writes and
  start-up order. What they say about replicas and tickers is in the fairness.
* Configuration, cryptographic primitives, metrics, HTTP and gRPC plumbing:
  library calls. Encryption is modelled as which key a value was sealed with,
  hashing as equality.
* Connection handling of the event bus and of Postgres: a call fails or does not.
* Generated protobuf code, migrations, smoke tests and the web client.
