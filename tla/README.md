# BugSathi: TLA+ models, checks and proofs

BugSathi turns a screen recording into a bug report: a browser uploads a
recording, a media worker extracts key frames, an AI worker writes the report,
and the API serves, shares and discusses it. The program is a Go modular
monolith with two kinds of processes (`cmd/api`, `cmd/worker`, any number of
each) that share Postgres, an S3-compatible object store (MinIO), Kafka
(Redpanda) and, optionally, Redis. No process talks to another one directly:
everything that can go wrong between them goes wrong in the order of SQL
statements, object store calls and Kafka deliveries. That order is what these
models are about.

All paths below are relative to the repository root.

## 1. Inventory

### The pipeline

| Component | State | Operations | Interacts through |
|---|---|---|---|
| Upload service (`internal/uploads`) | `recordings` row (status, byte_size, updated_at), source object, frames prefix | Create, Complete, Reprocess, Delete, SweepAbandonedUploads | conditional SQL, presigned PUT, outbox rows |
| Outbox and relays (`internal/uploads/adapter/outbox`, `WithClaimed`) | `outbox` rows, row locks of a session | insert in a business transaction, claim a batch, publish, mark | `FOR UPDATE SKIP LOCKED`, Kafka |
| Kafka consumer loop (`internal/platform/kafka`, `*/adapter/kafka/consumer.go`) | group offset, `kafka_retry_attempts`, in-memory counters | fetch, handle with retries, commit, dead-letter | Kafka, Postgres |
| Media worker (`internal/media`) | status, `processing_owner`, `processing_expires_at`, `media_artifacts` | claim, heartbeat, extract, FinalizeReady, MarkFailed | lease in the row, outbox (`FramesExtracted`) |
| AI worker (`internal/ai`) | `analyses` (status, updated_at), `reports` (status, ai_status, content) | claim, touch, MarkGenerating, CompleteAnalysis, FailAnalysis, re-emit | lease in `updated_at`, outbox (`AnalysisCompleted`, `ReportGenerated`) |

A recording is created UPLOADING, completed (one transaction sets UPLOADED and
inserts the `RecordingUploaded` outbox row), published by whichever relay claims
the row, consumed by a media worker, finished READY or FAILED together with its
`FramesExtracted` outbox row, consumed by an AI worker, and ends as a report
that is READY or FAILED. A consumer whose `Run` returns an error ends its whole
worker process, which a supervisor restarts. A goroutine of the worker sweeps
uploads that were never completed.

### The read side and the platform

| Component | State | Operations |
|---|---|---|
| Authentication (`internal/auth`) and the web client's sessions (`web/src/api/client.ts`, `web/src/auth/AuthContext.tsx`) | users, refresh tokens (`revoked_at`, `expires_at`), localStorage of a browser | Register, Login, Refresh (rotation, grace period, reuse), Logout; `refreshAccess`, boot |
| Projects (`internal/projects`) | projects, members with roles | Create, Update, Delete (with object cleanup), AddMember, RemoveMember |
| Reports and cache (`internal/reports`) | reports, cache entries with a TTL | Get, GetByRecording, List, cache Get/Set/Invalidate |
| Share links (`internal/sharing`) | link rows (expiry, revoked_at) | Create, List, Revoke, PublicGet |
| Comments and presence (`internal/collab`) | comments, hub of subscribers with bounded buffers | CreateComment, ListComments, Subscribe, Publish, presence |
| Rate limits (`internal/platform/httpx`) | token buckets, or Redis fixed windows | Allow, cleanup, fallback |
| Pure algorithms | none | `keyframes.Select`, `Backoff`, `pagination.Parse`/`TrimPage`, `ValidateAnalysisResult` |

### What is hard

* **Leases and clocks.** Both workers protect a long job with a lease that is
  compared with the clock of whoever reads it. The media lease has an owner, the
  AI lease has none.
* **Statements that are not one transaction.** Reads followed by conditional
  writes (Complete, ClaimProcessing, sweeps), two-statement failures
  (`FailAnalysis`), the object store next to the database.
* **Kafka.** At-least-once delivery, rebalances while a message is being handled,
  a poison message at the head of a partition, a counter kept partly in a table
  and partly in memory.
* **Reads that are stale when they are used.** `RemoveMember` reads a role and a
  count of owners in two statements before it deletes; a public view passes the check
  of its link and signs URLs afterwards; a cached report is filled from a read that is
  older than the invalidation; a page lists comments while the stream already pushes
  them.
* **Signals that are sent once.** Cache invalidations, Redis PUBLISH, EXPIRE after
  INCR and sends into a full channel drop their errors.
* **Process ends.** A crash between any two of these; a shutdown, which is a
  different path (contexts are cancelled, handlers return errors, nothing can be
  committed); a restart.

`PROJECT.json` lists each such place as a hazard at its line, with the
properties that would catch it going wrong.

What makes each component correct:

* upload service: bytes of a completed recording are never taken from under it;
  a completion is announced exactly once; deletions leave no avoidable orphans;
  abandoned uploads do not stay for ever;
* outbox: nothing is published that was not committed, nothing committed stays
  unpublished, duplicates come from faults alone;
* consumer loop: no offset is committed past an unsettled message, messages of a
  partition take effect in order, poison is bounded and never blocks for good;
* media worker: one owner at a time, only the owner settles, status, artifacts
  and event agree, every recording settles;
* sessions: one live refresh token per session however refreshes race; racing tabs
  are not taken for thieves; sign-out ends the session;
* projects: a project keeps an owner except by a race of removals, deletion leaves no
  avoidable objects, every acknowledged request had its own effect;
* share links: a link that is revoked or expired stops serving frames after a bounded
  time; its token reads nothing but a READY report;
* reports: a cached report is stale for a known reason and for a bounded time;
* comments and presence: a settled page shows every comment and the users in the room,
  but for what it missed for a known reason;
* lists and rate limits: a walk gives every row that stays exactly once, an address gets
  no more than its limit in any window, and a client that retries is served in the end;
* AI worker: a result once persisted is not lost, a report is announced only with
  content, one analysis at a time as long as heartbeats are punctual; the frames it
  shows to the model cover the whole recording.

## 2. Modules

| Module | Models | Role |
|---|---|---|
| `RecordingLifecycle` | `internal/uploads/domain/recording.go` (`allowed`, `Transition`) | abstract specification: the status of a recording and its legal moves |
| `Uploads` | upload service, its SQL, its store calls, the collector | detailed; refines `RecordingLifecycle` |
| `MediaClaim` | media worker with lease, heartbeat, retries, crash, shutdown | detailed; refines `RecordingLifecycle` |
| `ReportLifecycle` | the report of a recording as `docs/architecture/STATE-MACHINES.md` draws it | abstract specification |
| `AnalysisClaim` | AI worker with the ownerless lease and the report row, and the frames it selects | detailed; moves as `ReportLifecycle` does while its leases hold |
| `KafkaConsumer` | the delivery loop both consumers share | detailed; any handler |
| `EventChannel` | the promise of an outbox: at-least-once from committed rows | abstract specification |
| `Outbox` | outbox rows, relays, publisher | detailed; refines `EventChannel` |
| `Sessions` | refresh tokens, the requests on them, tabs and browsers | detailed |
| `Projects` | projects and members: handlers, service, SQL, object clean-up | detailed |
| `Sharing` | share links on top of `Projects`, presigned URLs, time | detailed |
| `Workspace` | the two together, with the deletion that cascades | composition |
| `Reports` | the report cache between readers and the workers' writes | detailed |
| `Collab` | comments and presence: service, hub, Redis fan-out, SSE handler, page | detailed |
| `RateLimit` | token buckets, Redis windows, client address | detailed |
| `Paging` | limits, cursors, `TrimPage` and the five list queries | operators on one list |
| `Listing` | a client walking a list behind the rate limit | composition |
| `KeyFrames` | `keyframes.Select` | pure algorithm |
| `MC*` | | symmetry sets and small values for TLC |
| `*Proofs` | | theorems about the module they extend |

The composition is by interface rather than by one large product. `KafkaConsumer`
and `Outbox` establish what the broker side gives a worker (every committed event
arrives at least once, in order per partition, possibly again and possibly while
another process still handles it); `MediaClaim` and `AnalysisClaim` assume exactly
that and no more: any idle worker may be handed the first uncommitted event of a
recording, also while another one handles it. `Uploads` contains the media
worker's effect on the row (`MediaStart`, `MediaFrames`, `MediaSettle`,
`MediaStop`), and `MediaClaim` contains the upload service's (`CompleteUpload`,
`Reprocess`, `DeleteRecording`); both are shown to implement the same
`RecordingLifecycle`. On the read side the parts that meet in one database row are
composed into one module: `Workspace` runs the requests of `Projects` and `Sharing`
against each other, `Listing` runs `RateLimit` in front of `Paging`.

### How state and actions correspond to the code

One action is one SQL statement or transaction, one object store call, or one
Kafka call, together with the code up to the next one. Between two actions
everything else may happen. `PROJECT.json` maps every action to its lines.

**`Uploads`.** `status`, `sized`, `aged` are columns (`aged`: `updated_at` is
before the collector's cutoff); `source`, `frames` the objects; `urls` the
presigned URLs clients hold; `done`, `events` the outbox rows. A request `q` runs
one operation: Create is `Create; Presign`, Complete is `Complete; Stat;
CompleteWithOutbox` or, when another request was faster, `CompleteRaced; Reread`;
Reprocess is `Reprocess; InsertOutbox`; Delete is `Delete; DeleteRow;
DeletePrefix`. `Abort` ends a request between any two (an error, a deadline, a
dead process). A sweeper lists, then deletes rows one by one with
`DeleteIfStatus`, then the object. `Put` may happen at any time after the URL was
handed out, also after the row is gone. `Create` happens with the URL's
fifteen minutes of life left open: expiry only removes behaviours.

**`MediaClaim`.** `ttl[r]` is `processing_expires_at` relative to the clock, so
that time is finite-state. Every statement that takes `s.now()` reads a clock
that is off by some `d` in `Skews`. A delivery is `Get`, then `ListArtifacts` and
`PublishFramesExtracted` for a READY recording, or `ClaimProcessing` (whose
refusal is looked into by `ClaimRejection`), extraction (`ExtractDone`,
`ExtractFail`) with `Renew` and `RenewLost` as the heartbeat goroutine, and
`FinalizeReady`, which is one transaction over status, artifacts and outbox.
A commit may lose its reply; `FinalizeFail` covers the rollback. When `extract` has
returned an error the heartbeat still runs: `ReturnCause` looks at the cause of the
job context in a step of its own, and a heartbeat in between that finds the claim
released turns a failure into `ErrClaimLost`.
`CommitMessage`, `Retry` and `DeadLetter` are `HandleWithRetries`. `Crash` keeps
the row as it is; `Shutdown` releases the claim through `MarkFailed` as `fail`
does on a cancelled context.

**`AnalysisClaim`.** `since[r]` is the time since `analyses.updated_at`. The
failure path is two actions, `FailAnalysis` and `FailReport`, because the code
runs two statements outside a transaction; the replay of a completed analysis is
`ReadReport` and `Reemit`, which writes back what was read. `punctual` is a
history variable: no heartbeat has been late so far; `outrun` has the recordings for
which a failure was written to the report after the next claim of the analysis.
`ReportLifecycle` is the documented machine: `Start` (to GENERATING, from no row or
FAILED), `Publish` (GENERATING to READY, with content and announcement), `Fail`
(GENERATING to FAILED), `Delete`. `LegalTransitions` says that every step of the
workers is one of these, or none, for each recording while the two histories are
clean. Nothing in the SQL says so: no statement that writes `reports` looks at its
status or at the owner of the analysis, and the README lists below what happens
otherwise.

**`KafkaConsumer`.** `rows` is the durable counter, `mem` each process's memory,
`IncFallback` the path where the statement erred (with or without having taken
effect). Commit and clear are separate steps in both orders the code uses: commit
then clear after success, publish then clear then commit for a dead letter.
`failures` and `resets` are history: the failed calls per message, and how often its
row was cleared.

**`Outbox`.** A row's id is drawn when it is inserted and the row becomes visible
when its transaction commits, so rows appear out of order. `LoseSession` frees the
locks while the relay goes on publishing what it read.

**`Sessions`.** Rows of `refresh_tokens` are numbered; `revokedAt` and `expired`
are their columns, `live` the rows that are not revoked; `origin` is history (the
login a token descends from: the table has no such column, which is why reuse
revokes all sessions of the user). A call of a tab is `RefreshAccess; Refresh;
Rotate` or, when the UPDATE matched nothing or erred, `FindByHash` and perhaps
`ScanForUser; RevokeAllForUser`, then `StoreTokens` or `ClearStore`, which act on
the localStorage all tabs of the browser share. `Refresh` reads the clock once and
`Rotate` writes that reading to `revoked_at`, however late its transaction runs;
`now` keeps it. RevokeAllForUser is two steps since a READ COMMITTED UPDATE does
not see rows committed after it began. A tab may be closed or lose its answer at any
step of a call (`Lose`), also in the middle of a sign-out. Three variables are history
for the properties: `overlapped` has the tabs whose call was in flight together with
another one of the browser, `swept` the tokens that were revoked with all sessions of
the user, `taken` those that calls of a browser rotated or revoked.

**`Projects`, `Sharing`, `Workspace`.** A request is a slot in `req`: `at` names the
statement it runs next, the other fields are what the code still holds from earlier
statements (a member's role, a number of owners, a link, a lifetime). `requireMember`
and `requireOwner` are the first statement of every operation; `RemoveMember` is
`HandleRemoveMember` (own role), `RemoveTarget` (the member's role), `RemoveCount`,
`RemoveMember`; `Delete` is `HandleDelete`, `DeleteProject` with its cascade, `Cleanup`.
Every statement may fail, and a write may take effect and lose its reply. `answer` is
the HTTP status of the last step. `raced` and `excused` are history: a member was
removed on a stale read; an object was left behind for one of the named reasons. A
share link is what is left of its lifetime (`ttl`) and `revoked`; `url` is what is left
of the youngest presigned URL issued under it, `dark` how long it has been inactive.
`PublicGet` is three steps, `PublicLookup`, `PublicPayload`, `PublicSign`: a view that
passed the first may sign after the link was revoked, and `held` bounds for how long.

**`Reports`.** `db` is the version of the row and of its frames (two statements:
`LoadRow`, `LoadFrames`); `cache` holds a detail, its time left and why it may be
stale. `MemoryGet` and `Evict` are the two critical sections of the map's `Get`,
`MemorySet`/`RedisSet` and `RedisInvalidate` the rest of the two caches. `WriteReport`
is a write the AI worker announces by `invalidateReport`, `WriteUnannounced` one it does
not (`MarkGenerating`, a replay, frames, a deletion).

**`Collab`.** One step per critical section of the hub: `Join` and `Leave` change the
room under one lock, `presenceLocked` reads the presence list under another, and
`broadcastPresence` publishes it afterwards. `chan` is a subscriber's buffered channel and a send to a full one is
dropped. Comments go through `bus` when Redis is configured; presence does not.
`CreateComment` is `InsertComment` and `PublishCreated`; a page is `Open`, `load` (the
list read by `ListComments`), `Receive`, `Apply`, reconnects and `Close`. `missed` and
`outdated` are history variables and name every way in which a page can miss a comment
or end with an old presence.

**`RateLimit`, `Paging`, `Listing`.** A bucket holds its tokens and the time since its
last use, a Redis key its count and its time to live, `None` when the EXPIRE was lost
(`redisAllow` and `redisExpire` are the two commands). A row of a list is its sort key;
`ServePage` is Parse, the query with its cursor, and `TrimPage`. `cleanup` may run at
any request instead of only above 10000 entries: the number of entries is outside the
model. The walker repeats a request that was refused or failed with the same cursor.
`recent[a][i]` is history: the admissions of address `a` in the last `i` ticks. The
rows of an ORDER BY are the one enumeration of the selected rows that is ordered
(`InOrder`).

**`KeyFrames`.** `Select` with its loop, whose turns are the arguments of the recursive
function in `Drawn`; frames are their places in the timeline. `AnalysisClaim` extends
it: a worker at `analyze` gives the analyzer what `Select` returns.

## 3. Runs

| Run | Checks | Instance |
|---|---|---|
| `media` | `ClaimIffProcessing`, `LostOnlyAfterStall`, `FramesEventIffReady`, `OwnerSettles`, `LifecycleSpec`, `Settles`, `Drains` | 1 recording, 2 workers, lease 3, skew 1, stalls allowed, 2 events, 2 attempts, 1 stop, fair |
| `media_stranded` | `RecoversOnItsOwn`: **violated** | one event, one stop |
| `ai` | `ReadyHasContent`, `AnnouncedHasContent`, `ExclusiveAnalysis`, `FramesSpread`, `LegalTransitions` | 1 recording, 2 workers, lease 3, skew 1, stalls, 2 events, 1 stop; up to 20 frames, limits up to 10 |
| `kafka` | `NothingSkipped`, `InOrder`, `NoEarlyDeadLetter`, `RetriesBounded`, `AllSettled` | 2 processes, 3 messages, one mistyped, one garbled, a stop, a rebalance, a table failure |
| `kafka_garbled` | `GarbledDeadLettered`: **violated** | 1 process, nothing else goes wrong |
| `outbox` | `DuplicatesBounded`, `ImplementsChannel`, `EventuallyPublished` | 2 relays, 3 rows, batches of 2, 2 faults |
| `uploads` | `SourceKept`, `CompletionQueuedOnce`, `OrphansExcused`, `LifecycleSpec`, `AbandonedSwept` | 1 recording, 2 requests, 2 sweepers, 2 events, 1 fault |
| `sessions` | `OneLiveToken`, `NoUnprovokedRevocation`, `RefusedForAReason`, `LogoutEndsSession` | 2 browsers, 3 tabs, 3 tokens; a clock tick, an expiry and a fault, two of them at most |
| `workspace` | `OwnerlessOnlyByRace`, `ProjectBytesExcused`, `PublicBytesExpire`, `EachAckItsOwnEffect` | 2 users, 2 requests in flight, 1 project, 1 link of at most 2 ticks, URLs of 1 tick, requests of at most 1 tick |
| `reports` | `QuietMeansFresh`, `StaleForAReason` | 2 readers, entries of 2 ticks, 2 writes and a deletion, either cache |
| `collab` | `CommentsShown`, `PresenceSettles` | 2 pages that come and go without bound, 1 comment, channels of 2 events, either hub |
| `listing` | `EachRowOnce`, `WindowBound`, `WalkEnds` | up to 3 rows, two of them with equal times, pages of 1 or 2, each of the five lists, burst 2, window 2, either limiter, 1 fault, 1 request of other traffic, fair |

Of the modules with proofs the type invariant is a theorem, and no run repeats it.

**Why these bounds are enough.** Every race in this code is between two actors on
one recording, one partition or one row: no statement touches two recordings, and
a third worker can only repeat what the second one does. So two actors and one
recording reach every pair of program points. Two events per recording give a
delivery and a duplicate or reprocess; two attempts give a retry and a dead
letter; a lease of three with a clock error of one is the smallest with a
difference between punctual, late and expired. The outbox has more rows than a
batch holds. In `sessions` one browser has two tabs (overlapping calls on one
localStorage), the other one stands for a second device; three tokens are a login,
a rotation and one more of either; a grace period of no tick and a clock of one
tick distinguish within and past the grace. The run takes at most two of tick, expiry
and fault together (`FewMishaps`), which halves its states; the theorems hold for every
grace period and any number of each.

In `workspace` two users are the fewest of whom one can be removed by the other and
both can be owners, and two requests reach every pair of statements. `DarkBound` is the
life of a URL plus the time a request may hold what it read (`MaxHold`): from there on
nothing may be left; counting further would add nothing. `QuietBound` of `reports` is
the life of an entry plus twice `MaxHold` and one tick in the same way; `MaxWrites` lets
a fill fall between two writes. In `collab` the buffer is smaller than the number of
events two pages and a comment cause, so that full channels occur, and pages reconnect
without bound. `listing` has more rows than a page and two pages' worth of admissions
in a window, so that a walk is refused in its middle; `MaxFaults` and `MaxTraffic` bound
what the environment does to it. The limits in `ai` are those the
configuration admits (`AI_MAX_FRAMES` is 1 to 10) and two it does not, for up to twice
as many frames.

The safety properties marked below are proved without any of these
bounds.

`CHECK_DEADLOCK FALSE` is set where the modelled work is finite (all messages
consumed, all rows published, all recording ids used).

### Fairness

Weak fairness only. `MediaClaim`: each worker's consumer goroutine, its heartbeat
goroutine, the restart by its supervisor, and the clock. `KafkaConsumer`: each
consumer, its restart, and the assignment of a partition that nobody has (what a
consumer group does). `Outbox`: each relay's ticker, its restart, and the end of
every open transaction (each runs under a request's or message's context).
`Uploads`: time and the collector's ticker. `Listing`: the walking client goes on (the
premise of `WalkEnds`, which is about such a client), admitted requests are served
(a premise: `cmd/api/main.go` gives its `http.Server` no timeouts), and time passes. The other modules of the read side
state safety only. Nothing is assumed of users, of
rebalances, of crashes, of errors ending, or of requests making progress; the
number of process ends, rebalances and table failures is bounded by constants.

### What the violated properties mean

* `media_stranded`: a worker dies while extracting. Its event is delivered to
  another worker before the lease ends, `ClaimProcessing` is refused because the
  claim is held, and `Run` counts that as done and commits. When the lease ends
  there is no delivery left. ADR 0025 promises recovery without an operator.
* `kafka_garbled`: `json.RawMessage` is validated by `json.Marshal`, so a payload
  that is not JSON cannot be enveloped; ADR 0023 says it is dead-lettered.

More that the models show and no run is kept for:

* the AI worker has the shape of `media_stranded` without any crash: an error after
  `TryClaimRunning` leaves the row `running`, and the retry takes it for work in flight
  elsewhere and is committed;
* the report makes transitions that the table of `docs/architecture/STATE-MACHINES.md`
  does not have, since no statement that writes it has a condition. READY to FAILED and
  FAILED to READY happen without any late heartbeat: a worker marks its analysis failed,
  another one claims it, generates or completes the report, and the second statement of
  the first one's `FailAnalysis` lands on that. With a late heartbeat two workers
  generate at once, and READY to FAILED, FAILED to READY and READY to GENERATING happen
  as well. `LegalTransitions` excludes the two causes (`outrun`, `punctual`) and fails
  without either;
* a media job that fails releases its claim before `HandleUploaded` looks at the cause of
  its context. A heartbeat in between finds no claim of its own and cancels the context
  with `ErrClaimLost`: the delivery counts as done and is committed, and the recording
  stays FAILED without the retries and the dead letter that `fail` expects;
* `emitCompletedEvents` writes back an `ai_status` it read in an earlier statement, so a
  READY report may carry `ai_status` failed;
* `deadLetter` clears the durable counter before it commits, and a handled message is
  cleared after the commit, which a late commit of a former consumer may undo; so a
  settled message that is read again has all its attempts again, although ADR 0034 says
  a restart no longer resets the count. `RetriesBounded` admits this for settled
  messages, once per reading; for all others a restart costs one call;
* two racing removals leave a project without an owner, which
  `docs/architecture/AGGREGATES.md` rules out: `OwnerlessOnlyByRace` says that nothing
  but the race does;
* a report the map of an API process has cached is never invalidated by a worker, which
  is another process; it stays until the entry expires;
* a fill that read before a write may be stored after the invalidation and is served
  for a full lifetime of the entry;
* a comment that the stream delivers while the page loads its list is overwritten by
  the older list; the page shows it again only after a reload;
* a Redis key whose EXPIRE failed refuses its address until somebody deletes the key.

Beside the models: `ReportPage` loads the first page of comments and does not follow
`next_cursor`; the Redis limit is per path, because `r.Pattern` is not set yet when the
middleware runs; the map of auth buckets alone never triggers `cleanup`.

## 4. Proofs

`tlapm` checks the `*Proofs` modules. All theorems hold for any number of actors
and recordings (messages, rows) and any value of the bounds.

| Theorem | States | Inductive invariant |
|---|---|---|
| `MediaClaimProofs`: `TypeCorrect`, `ClaimsMatchStatus`, `ClaimsAreKept`, `OneExtraction`, `FramesMatchStatus`, `OnlyOwnersSettle`, `ImplementsLifecycle` | `TypeOK`, `ClaimIffProcessing`, `LostOnlyAfterStall`, `ExclusiveExtraction`, `FramesEventIffReady`, `OwnerSettles`, `LifecycleSpec` | `TypeOK`, `JobOK`, `ClaimIffProcessing`, `Heartbeat`, `Punctual`, `ExclusiveExtraction`, `FramesOK` |
| `AnalysisClaimProofs`: `TypeCorrect`, `ResultsAreKept`, `AnnouncedAreFilled`, `OneAnalysis` | `TypeOK`, `ReadyHasContent`, `AnnouncedHasContent`, `ExclusiveAnalysis` | `TypeOK`, `JobOK`, `ContentOK`, `LeaseOK` |
| `AnalysisClaimProofs`: `ReportsMoveLegally`, `ImplementsReportLifecycle` | `LegalTransitions`; `Lifecycle!Spec` for behaviours in which `punctual` and `outrun = {}` always hold | the above with `ShownOK` |
| `AnalysisClaimProofs`: `IndicesSpread`, `FramesAreSpread` | the indices that `keyframes.Select` computes; `FramesSpread` | none: arithmetic and an induction over the loop |
| `AnalysisClaimProofs`: `WindowsAreBounded` | `WindowBound` | `LimitTypes`, `RequestsOK`, `LimitOK` |
| `AnalysisClaimProofs`: `RowsOnce` | `EachRowOnce` | the above with `WalkTypes`, `WalkOK` |
| `KafkaConsumerProofs`: `TypeCorrect`, `AtLeastOnce`, `SequentialProcessing` | `TypeOK`, `NothingSkipped`, `InOrder` | `TypeOK`, `NothingSkipped`, `Progress` |
| `KafkaConsumerProofs`: `DeadLettersAreDue`, `RetriesArePaidFor` | `NoEarlyDeadLetter`, `RetriesBounded` | the above with `CountInv` (`RowsOK`, `MemOK`, `DueOK`) and `RetryInv` (`PaidOK`, `EarnedOK`, `UnreadOK`) |
| `OutboxProofs`: `TypeCorrect`, `ImplementsAtLeastOnce` | `TypeOK`, `ImplementsChannel` | `TypeOK`, `BatchOK` |
| `OutboxProofs`: `DuplicatesArePaidFor` | `DuplicatesBounded` | the above with `SessionsOK`, `LoadOK` |
| `UploadsProofs`: `TypeCorrect`, `BytesAreKept`, `OneCompletion`, `NoAvoidableOrphans`, `ImplementsLifecycle` | `TypeOK`, `SourceKept`, `CompletionQueuedOnce`, `OrphansExcused`, `LifecycleSpec` | `TypeOK`, `RequestsOK`, `SweepsOK`, `EarlyOK` and the three properties |
| `SessionsProofs`: `TypeCorrect`, `NoDoubleRotation`, `GraceProtectsRaces` | `TypeOK`, `OneLiveToken`, `NoUnprovokedRevocation` | `TypeOK`, `OriginsOK`, `Prompt` and the two properties |
| `SessionsProofs`: `RefusalsHaveReasons`, `SignOutEndsSession` | `RefusedForAReason`, `LogoutEndsSession` | the above with `OwnersOK`, `CallsOK`, `FreshOK`, `BrowsersOK` |
| `WorkspaceProofs`: `TypeCorrect`, `OwnersKept`, `BytesCleaned`, `LinksGoDark`, `AcksAreEffects` | `TypeOK`, `OwnerlessOnlyByRace`, `ProjectBytesExcused`, `PublicBytesExpire`, `EachAckItsOwnEffect` | `TypeOK`, `RequestOK`, `ViewOK`, `MembersOK`, `DarkOK` and the first two properties |
| `ReportsProofs`: `TypeCorrect`, `QuietReportsAreFresh`, `StalenessExplained` | `TypeOK`, `QuietMeansFresh`, `StaleForAReason` | `TypeOK`, `RequestsOK`, `EntryOK`, `StaleForAReason` |
| `ReportsProofs`: `CollabTypeCorrect`, `PresenceIsRight`, `CommentsAreShown` | `CollabTypeOK`, `PresenceSettles`, `CommentsShown` | `CollabTypeOK`, `RoomOK`, `PresenceOK`, `ShownOK`, `MissedOK`, `WayOK` |

* **Media.** `LostOnlyAfterStall` speaks of what a worker lost; to prove it one
  needs what it still has. `HeartbeatOf(w)`: a working job owns its recording with
  `ttl + age >= Lease - MaxSkew`, or the row is gone, or it was silent for
  `Lease - 2 * MaxSkew`. A thief's clock may run `MaxSkew` ahead, and the holder's
  may have run `MaxSkew` behind when it wrote the expiry: this is where the factor
  two comes from. `OneExtraction` is the same argument for a configuration with
  `MaxLag + 2 * MaxSkew < Lease`; it needs `Punctual`, that the clock waits for
  live heartbeats, and is proved only, since a run with stalls would check it
  vacuously. `FramesOK` adds that a worker about to re-emit `FramesExtracted` read
  READY, which is final but for deletion.
* **AI worker.** The lease has no owner: a heartbeat refreshes whatever row is
  running. So `LeaseOK` says of all workers at once, as long as none has been late,
  that the row of a working job is running and was touched recently enough, and that
  no two jobs work on one recording; each of the three needs the others. `ContentOK`
  gives a worker that replays a completed analysis its content, without which
  `AnnouncedHasContent` is not inductive: `emitCompletedEvents` acts on what an earlier
  statement read. The same part keeps `emitCompletedEvents` from publishing an empty
  report. `ReportsMoveLegally` needs more: as no statement looks at the report's status,
  what the status is when a worker writes it has to follow from the lease. `ShownOK`
  says that a report is READY exactly when its analysis is completed, and that a worker
  between its mark and its result finds GENERATING. The lease (`LeaseOK`) gives that
  worker the recording to itself; what it does not cover is a worker that has marked its
  analysis failed, which has no lease any more and still has a statement to run, hence
  `outrun`. `ImplementsReportLifecycle` draws the conclusion for a whole behaviour.
* **Key frames.** `IndicesSpread` is proved from the division with remainder: with more
  frames than the limit, each index is at least one above the one before. So the loop's
  check for an index it has seen never skips a turn, and after `i` turns the frames drawn
  are those of the first `i` indices (`DrawnFrames`, an induction over the turns). With
  the cases of few frames, of a limit of one and of none this is `FramesSpread`, for
  every number of frames and every limit.
* **Rate limit** (in `AnalysisClaimProofs` with the rest of what the last sections
  prove; this is why `Listing` calls its specification `ListingSpec`). `BucketOK`: what
  an address was given in the last `i` ticks, with what its bucket has left, is at most
  a full bucket and the refill of `i - 1` ticks. A bucket that is dropped is replaced by
  a full one, so the invariant also says of a bucket that is not full how long it has
  been refilled (`Rate * idle <= tokens`); this is where `Burst <= Rate * Cutoff` is
  needed. `CounterOK` speaks of fixed windows: admissions since the key's first INCR are
  at most its count, and what came before it is of one earlier window and at most its
  capacity. A request between INCR and EXPIRE has been counted and not yet admitted,
  hence `Expiring`; a key whose EXPIRE was lost counts for ever and gives less.
  `RequestsOK` has the address of the client: no header changes the key of one that is
  not a trusted proxy.
* **Lists.** `WalkOK`: the rows given so far are in order, and the cursor is the last of
  them as long as the walk goes on. Everything else is about one page (`ServePageStep`):
  the query has an enumeration of its rows in order, and only one (`CanBeOrdered`, from
  which `InOrder` takes it); a page is its beginning, so a row behind the cursor that is
  not on the page comes after all that are; and the row read in excess decides whether
  there is a next page without ever being given.
* **Consumer.** `NothingSkipped` is not inductive: a commit is safe because the
  committing process settled that message and had read on from a committed
  offset. `ProgressOf(c)` says so for every process, including one that lost the
  partition and commits late.
  `CountInv`: a row, with the processes that are about to add to it, never counts
  more failures than there were, and neither does a memory; so whoever reaches the
  limit is right. `RetryInv` is an account of the failures: one life of a counter, from
  one clear to the next, pays for `MaxAttempts - 1` of them, and each reading of the
  message for one more, the call whose process ended before it was counted or the one
  that reached the limit. Both have to be bounded: a counter is cleared only for a
  message that is settled (`EarnedOK`) and once per reading, so that an unsettled one
  has a single life however often it is read; and readings are not free. `Owed(o)` is the number of readings to come that
  nobody has to pay for any more: one if the partition will be read from `o` or before
  it anyway, and one for each process that may still commit an older offset and so
  set the group back. A stop or a rebalance adds one at most, a reading of `o` takes
  one away, and a commit trades one kind for the other. `PaidOK` balances the failures,
  and the calls under way, against the lives so far (`Worth`), what the table counts of
  the present one (`Remembered`), the readings and the failures of the table; what a
  clear erases in the table it gives back as a life.
* **Outbox.** `BatchOK` says what a relay may believe about the rows in its memory
  with or without its session: they were committed, and those it no longer has to
  publish are in Kafka. For `DuplicatesBounded`, `LoadOK` adds to the copies of a row
  the relays that still have it to publish, each a copy to come. A row that the next
  claim can take has not used the free copy: whoever had it before paid with a fault.
* **Uploads.** `RequestsOK`, `SweepsOK` and `EarlyOK` say what a request or sweeper
  may still rely on after the read that sent it to its next statement: for example
  that between `Stat` and `CompleteWithOutbox` nobody but a deleter of the row
  removes the source object.
* **Sessions.** `OneLiveToken` needs `OriginsOK`: sessions are named after tokens
  that exist, so a new login starts a new one. For `NoUnprovokedRevocation`,
  `Prompt` says that, as long as nobody was late, a token whose grace has ended is
  in no store and in no request, and no request that is about to revoke a token
  read the clock more than a grace period ago. The second part is what the first
  attempt at the property missed: `revoked_at` is the time the winner *arrived*, so
  a winner that waits longer than the grace period for its transaction makes every
  request behind it look like reuse.
  `RefusedForAReason` and `LogoutEndsSession` follow the token of a call from the store
  to the answer. In a browser without a failed call the store has the newest token of a
  session, or a call in flight is about to replace it (`StoreOK`); a call has a token
  that is live or was revoked with all of the user's, unless another call of the same
  browser took it while both were in flight (`CallOK`). This rests on `OwnersOK` (no two
  browsers ever know tokens of one session, so that nobody else can have rotated it),
  `CallsOK` (calls of one browser that meet are marked, and one that met no other finds
  its token in the store) and `FreshOK` (a new token is with the one call it was issued
  to).
* **Workspace.** `RequestOK` says what a request has read before its next statement; one
  that is about to remove an owner counted two. `OwnersKept` then has only to show that
  a count that is not true any more is what the property calls a race. `DarkOK` relates
  the youngest URL of a link to the time the link has been dark: `url[l] + dark[l]`
  stays within `DarkBound`, since a view signs no later than `MaxHold` after the check
  of its link (`ViewOK`).
* **Reports.** What a request or the cache holds is the report itself, if it was read
  after the last write; and it was read no longer ago than the request, the entry, or
  both, have lived. `RequestsOK` and `EntryOK` relate these ages to `quiet`, the time
  since the last write; past the sum of the three lifetimes nothing older is left.
* **Comments and presence** (also in `ReportsProofs`, with the rest of a report's page;
  this is why `Collab` calls its specification `CollabSpec`). `PresenceSettles` speaks of
  empty channels; `PresenceOK` says of any channel that its last number of users, or the
  page's own if there is none, is the size of the room. It may be said only when no
  goroutine is between its change of the room and its broadcast, and for a page whose
  last number was not dropped or old. `CommentsShown` follows from three parts that need
  each other: what pages show is committed (`ShownOK`), what they miss they do not show
  (`MissedOK`), and any other committed comment is somewhere (`WayOK`): with its creator,
  in Redis, or in the page's channel. A page that still waits for its list is outside
  `WayOK`, as the list will have what was committed before it was read.

The assumptions are the `ASSUME`s of the component modules: bounds are natural
numbers, limits and lifetimes are positive, the default lifetime of a link is within
the maximum, the users and the sort keys of a list are finitely many, the clock error of
the AI workers is at most half of their lease, a bucket that is old enough to be dropped
has had the time to fill up (the defaults are 40 tokens, 20 a second and 10 minutes), and
the null values differ from the ids and records they stand beside. Every invariant above
was checked by TLC on its run's instance before it was proved.

**Only model-checked:** liveness (`Settles`, `Drains`, `AllSettled`,
`EventuallyPublished`, `AbandonedSwept`, `WalkEnds`), since the prover handles neither
fairness nor `ENABLED`. Every safety property of a passing run is a theorem.

Two proofs need induction over data: the turns of the loop of `Select`, and the existence
of an ordered enumeration of a finite set of rows. The library's induction theorems take
an operator as their parameter, which the provers cannot instantiate. Both inductions are
therefore stated about sets: a set of numbers that has 0 and the successors of its
members has all numbers (`SetInduction`, from the least number it lacks). The set is an
ordinary term, and the theorem is cited with it.

## 5. Not modelled

* Parts of modelled components: the HTTP handlers of auth and uploads beyond the order
  of their calls; the second set of rate limits of the auth routes (the same code with
  other constants); more than one project or report in `Workspace`, `Reports` and
  `Collab` (no statement joins two); a second page of comments in `Collab`; a project's
  name and a member's profile, which are data; password hashing and access tokens, which keep no state; several API
  servers whose clocks disagree (`Sessions` has one clock).
* Contents: payload fields, prompts, report text, frame images, object keys,
  presigned URL signatures; a payload is valid, mistyped or garbled, a source
  object good or bad.
* `AnalysisStarted`'s consumer, which logs and commits; ffmpeg and the AI
  providers, which succeed, fail or are cancelled; HTTP decoding and encoding;
  configuration, logging, metrics, health; migrations beyond the constraints the
  statements meet; in-memory adapters, which are test doubles; the web client's
  user interface and the deployment files.
* Durations: backoff and tickers are steps that may happen at any time.

## 6. Plan

Done, in this order: life cycle and media lease with proofs; AI lease; consumer
loop with proofs; outbox and its abstract channel with proofs; uploads with
proofs; sessions with proofs; `Projects`, `Sharing` and `Workspace`; `Reports`;
`Collab`; `RateLimit`, `Paging` and `Listing`; `KeyFrames`; `ReportLifecycle`.

Then the proofs: `AnalysisClaim`, `Workspace`, `Reports`, the counting properties of
`KafkaConsumer` and `Outbox`, the refusals of `Sessions`, the indices of
`KeyFrames`, comments and presence of `Collab`, the loop of `KeyFrames`, the rate limit
and the walk of `Listing`, the life cycle of a report.

Left to do: of `Workspace`, that the requests of a removed member change nothing
afterwards, but for the window between the check of the membership and the statement.
