# A TLA+ model of the Bemi capture pipeline

Bemi tracks every change of a Postgres database. Debezium reads the replication
slot and publishes each change as a message into a NATS JetStream stream; a
worker fetches the messages, pairs them with the *context* an application
emitted in the same transaction, and writes one row per change into an audit
table. This directory holds a model of that pipeline, the TLC runs that check
it, and TLAPS proofs of its main safety properties.

The central claim is the one `core/src/nats.ts` makes when it sets up
the stream: a full stream pushes back instead of evicting, so nothing is lost
without notice. That is a property of four parts together (source, stream,
worker, table), each of which can stop or repeat itself at any moment.

## Inventory

| Part | State | Operations | Talks to |
|---|---|---|---|
| Ingestion loop (`core/src/ingestion.ts`, started by `worker/src/index.ts`) | last stream sequence, held records, the batch in hand | fetch, parse, stitch, filter, INSERT per chunk, acknowledge, release | consumer (pull, ack), audit table, stream manager (info, purge) |
| Stitching (`stitching.ts`, `fetched-record-buffer.ts`) | none; a function of the buffer | pair contexts and changes, hold back, pick the ack sequence | called by the loop |
| Message parsing (`fetched-record.ts`) | none | message to record, or ignored, or a throw | called by the loop |
| Capture filter (`capture-filter.ts`) | none | compare the images of an update, drop it if only ignored fields differ | called by the loop |
| Audit table (`entities/Change.ts`) | rows, with a unique key | INSERT ... ON CONFLICT DO NOTHING | written by the loop |
| NATS stream and consumer (`nats.ts`, external server) | log, first sequence, pending messages, ack floor | publish, deliver, redeliver, ack, purge | Debezium, worker |
| Debezium (external server; `debezium/debezium.sh`, `application.properties`) | replication slot, offsets file, position in the WAL | check the slot, keep or discard the offsets, connect, publish, flush, confirm, exit | Postgres, stream |
| Stream setup (`worker/src/reset.ts`, `nats.ts`) | its attempt | drop the slot; info, then create, recreate or update the stream; retry | Postgres, stream manager |
| Consumer setup (`nats.ts` `buildConsumer`) | none | get, update, add the consumer | stream manager |
| Stack bring-up (`docker-compose.yml`) | - | order of the services, restarts, resets | all containers |
| Slot monitor (`replication-slot.ts`, `worker/src/index.ts:80-116`) | since when each slot is inactive, a timer | poll, warn | its own timer beside the loop |
| Health probe (`worker/src/index.ts:49-74`) | time of the last tick | report healthy or stalled | set by the loop's `onTick` |
| Context emitter (`context/src/index.ts`) | none | check and emit a logical message | the application's transaction |

What is hard here: the worker may be killed between any two awaits and loses the
records it held; one acknowledgement acknowledges everything before it; the
server delivers again what was not acknowledged in time; Debezium publishes again
what it had not flushed; a fetch cuts a transaction anywhere; acknowledgements
are not awaited, and a purge follows each turn; a stream that is full stays full
until something can be acknowledged. Around that, the setup of the stream looks
and then acts, while others act, and is repeated after it failed in part; offsets
are kept or thrown away on the evidence of an earlier check; a monitor must tell
an abandoned slot from a restart by looking now and then; and the images of a row
are repaired, compared and dropped one at a time, though they only make sense as
a history. Each of these is a hazard in `PROJECT.json`
at its line, with the properties that would catch it going wrong.

What makes each part correct:

* *loop* - nothing is acknowledged, and so nothing is purged, before it is
  durable; every pending message is still to be processed by somebody;
* *stitching* - a context goes only to changes of its own transaction; what is
  held is not acknowledged; nothing is held for ever;
* *table* - a replayed change adds no row and changes none;
* *stream and source* - back-pressure ends; what the source can no longer read
  is in the stream or in the table;
* *setup, bring-up and Debezium's start* - nothing promised is discarded, no
  offsets are stranded, the capture comes back after every restart and reset;
* *slot monitor* - an abandoned or lagging slot is reported in bounded time, a
  consumer's restart is not;
* *health probe* - a worker that makes progress is not reported as stalled;
* *emitter, parsing, filter* - the audit rows are a history of the table without
  gaps, and each says who changed it, whole or not at all.

## Modules

| Module | Models | Comment |
|---|---|---|
| `FetchedRecord` | `fetched-record.ts` | messages by kind, the record made of each |
| `Stitching` | `stitching.ts`, `fetched-record-buffer.ts` | `StitchFetchedRecords(recs, order)` |
| `JetStream` | the stream and consumer as configured | external, seen from the worker |
| `Source` | Postgres and Debezium | external |
| `Ingestion` | `ingestion.ts`, `worker/src/index.ts`, the table; composes the four above | the specification and its properties |
| `AuditLog` | what the pipeline promises | abstract; `Ingestion!ImplementsAuditLog` is the refinement |
| `StitchSession` | a caller of `stitchFetchedRecords` over many calls | several subjects; the deployed consumer reads one |
| `StitchingLoop` | `stitching.ts` loop by loop | the same result as `Stitching`: `LoopAgrees` |
| `StreamSetup` | `reset.ts`, `ensureDebeziumStream` | one action per request that is awaited |
| `Connector` | `debezium.sh`; the server as its properties configure it | slot and offsets file apart |
| `Deployment` | `docker-compose.yml`, `buildConsumer`; composes the two above | life of an installation |
| `Clock`, `SlotMonitor`, `HealthProbe` | `replication-slot.ts`; the timers of `worker/src/index.ts` | time is unbounded |
| `WorkerWatch` | composes the three with a database server whose slots change | what a worker's process reports |
| `ContextEmitter` | `context/src/index.ts` | operators |
| `CaptureFilter` | `capture-filter.ts`, the images of `fetched-record.ts` | operators |
| `Capture` | composes the two with `Stitching` and the tracked table | from a write to a row |
| `MCIngestion`, `MCStitchSession`, `MCDeployment`, `MCWorkerWatch`, `MCCapture` | - | the small sets of the runs |
| `StitchingProofs`, `SessionProofs`, `LoopProofs`, `IngestionProofs`, `ContextProofs`, `DeploymentProofs`, `WatchProofs`, `CaptureProofs` | - | theorems about `Stitching`, `StitchSession`, `StitchingLoop`, `Ingestion` (two modules), `Deployment`, `WorkerWatch`, `Capture` |

There are four compositions instead of one because their questions differ in what
they may leave out. `Ingestion` has a source and a stream that are set up;
`Deployment` has a worker that is one step, which is what `Ingestion` shows of it;
`WorkerWatch` has time and no data; `Capture` has data and a worker that takes
whole transactions, since what a cut transaction does is `Ingestion`'s subject.

**State.** `pc`, `lastStreamSequence`, `fetchedRecordBuffer`,
`keptFetchedRecords` and `ackStreamSequence` are the loop's variables of these
names; `batch` is the key set of `natsMessageBySequence`, `fetched` the number of
messages received in the current fetch. `acking` is an acknowledgement that was sent
and is not there yet, `releasable` the floor that `consumer.info` answered.
`null` and `undefined` sequences are 0.
`log`, `firstSeq`, `delivered`, `pending`, `expired`, `ackFloor` are the server's;
`wal`, `sent`, `flushed` the source's; `changes` the table's.

**Actions.** A turn of the loop awaits the fetch, each INSERT, and both requests of
the release, so those are the boundaries of the actions:

| Action | Code |
|---|---|
| `ReceiveNew`, `ReceiveRedelivered` | one message of `consumer.fetch` (`ingestion.ts:56-68`); `IsNew` is its filter on `lastStreamSequence` |
| `Stitch` | from the end of the fetch to the first INSERT (`ingestion.ts:111-152`), which runs without an await |
| `ParseFails` | the same when a message throws: nothing catches it, the process exits |
| `Persist` | one chunk's INSERT |
| `Ack` | `ack()` on the message of that sequence, if this fetch has it; it is sent and not awaited |
| `AckArrives`, `LoseAck` | it reaches the server, at once or after later requests, or never |
| `ReadFloor`, `NothingToRelease` | `consumer.info`, and what the loop does with the floor (`ingestion.ts:181-182`) |
| `Release` | the purge below the floor that was read |
| `ReleaseFails` | either request throws; the error is swallowed |
| `Crash`, `Start` | the process dies (also: an INSERT throws) and is started again |
| `Publish`, `Flush`, `Replay`, `Expire`, `LoseDelivery` | the environment |

Between the read and the purge an acknowledgement of this turn may arrive, so the
purge may run up to a floor that has moved on. A second acknowledgement takes the
place of one that is still on the wire: with `AckPolicy.All` it implies it.

**Stitching** is stated without the loops. The code visits the records subject by
subject, sorted by transaction id and then by sequence, and every branch depends
on the record, its transaction and the running `maxSequence`. `MaxSequence` is
the sequence of the *last* record in that order, which is not the largest
sequence when transaction ids and commit order differ; the model keeps that.
`StitchingLoop` writes the loops out as folds, with the walk over
`maxSequenceBySubject` and its insertion order, and the run `Session` compares
the two on every buffer that four records of two subjects can bring about;
`LoopProofs` proves them equal on every buffer.

**Setup and bring-up.** Every request of `ensureDebeziumStream` is a step of its own
(`Look`, `Delete`, `Add`, `Update`), because a publisher, a worker or a database may act
in between; a request can be lost, or applied although its answer is lost, and both lead
into the retry of `reset.ts:54-75`. The worker's own setup is three steps,
`GetConsumer`, `UpdateConsumer` and `AddConsumer`, and its container may be restarted at
any time, so a stream can be deleted between them. Debezium's start is `CheckSlot` and
`Connect` (the script's query, and the rest of it), with room for a drop of the slot in
between. `SetupFirst` is the order that `depends_on` gives a whole stack; the model
without it exists, see below. `Fresh` and `Upgraded` are the two ways an installation
begins: empty, and with the stream in memory that Debezium's sink made before `reset.ts`
existed (`nats.ts:35-40`).

**Watch.** A poll is a query under way and its answer, up to `QueryTime` later; the
answer shows the server as it was when the query was sent. The server's slots come,
go, lose and regain their consumer and fall behind at any moment. What a slot
retains and what it has lost are two things, since `observeSlots` judges them apart;
a slot without a consumer gets worse only, and one that lost what it needed may
retain nothing more. Time passes (`Tick`) only while nothing that is due is put off.

**Capture.** Transactions of two sessions interleave; a write takes its LSN when it is
made, a transaction its id with its first write or message, and the log is in
commit order. An image is a function from columns to values. Debezium sends no
before-image without a full replica identity, no excluded column, and a placeholder
for an array that an update left out of line.

**Data** in `Ingestion` and the stitching modules. A message has a kind, a
transaction id and a position. The position (LSN) stands for the unique key of the
table. A context's payload is the position of the message that emitted it, so a
row's `ctx` says which context it got. An ignored field, an operation or a prefix is
a `kind`; what a row holds besides, the wall clock and log lines are left out.

## Runs

The runs about the pipeline use `MCIngestion`; `Session`, `Deployment`, `Watch` and
`Capture` have a module of their own. A *history* is a short WAL; transaction ids in it
descend as well as ascend, because an id is taken when a transaction first writes
and the WAL is in commit order.

| Run | Question | Answer |
|---|---|---|
| `Worker` | The worker as it is deployed (no `useBuffer`), with a crash, a replay, a lost ack, redeliveries, a foreign message, a message that cannot be parsed: is anything acknowledged too early or lost? | No; and the system implements `AuditLog` |
| `Buffered` | The same with `useBuffer`: are held records safe over turns and crashes, is a context held no longer than the gap, and is a change paired whatever the fetches cut apart? | Yes; what is paired is the first change of a transaction |
| `Adverse` | What is left when deliveries are lost, too, and the worker restarts before the ack wait is over? | Held records are above the floor, contexts are sound; durability is not kept (below) |
| `LiveWorker` | Does a stream that is full drain, and is every change recorded in the end? | Yes |
| `LiveBuffered` | The same with held records that clamp the acknowledgement | Yes |
| `Session` | Stitching by itself, with two subjects: do the loops do what `Stitching` says, is an acknowledgement safe for every subject, and does a context wait as long as the gap promises? | Yes |
| `Deployment` | Is anything promised lost, or the capture stopped for good, by an upgrade, a reset, failed requests, restarts, or a transaction larger than the stream? | No, as long as the setup comes first |
| `Watch` | What does a worker report about slots and itself, over unbounded time? | Abandoned slots, and slots that are behind, within a deadline, no restart of a consumer, no loop that works |
| `Capture` | Do the rows tell the table's history, and who wrote it? | Yes, with a full replica identity; what is dropped is noise in any case |
| `PromptRestart`, `Unbuffered`, `ForeignFill` | see *Disagreements* | violated |

Every property of a passing run has a mutant in `PROJECT.json` (the operators
marked "Wrong:" in the modules): a change of the code's logic that the property
catches in the run that checks it.

**Properties.** `AckedIsDurable`: every message at or below the ack floor that must
leave a row has left it. `NothingLost`: what the source flushed past is in the
table or still in the stream. `Accounted`: every owed pending message is durable,
in memory, in the current fetch, or due for redelivery before anything this
fetch could acknowledge. `BufferedUnacked`: records held in memory are above the
floor. `ContextSound`: a row's context comes from its own transaction.
`ContextComplete`: a change whose transaction emitted a context has one; it does not
hold, and is checked only where it is refuted. What the buffer does promise is
`FirstChangePaired`: the first change of a transaction has a context if the stream
has one within the gap before it (`Leads`), or as the next record after it, when no
record so far has as high an id (`Trails`).
`HeldWithinGap`: a held context is within the gap of the newest message or, if a
message before it has a higher transaction id, within the gap of that one: the code
measures from the last record by id. With foreign messages, which make no record, at
the end of what was seen it says nothing.
`LoopAgrees`, `AckedIsSaved` and `PairedWithinGap` are about sessions of stitching
alone: the loops agree with the statement, what is acknowledged was returned for
saving whichever subject it came from, and the first change of a transaction gets
its context if all sequences before it were within the gap.
`ImplementsAuditLog`: every step is an offer, a write of new rows, or a
giving-up of recorded messages. `BackPressureTemporary`: in the end all is
published. `AllRecorded`: in the end all that is owed has a row.

In `Deployment` a change is *promised* once it was committed under a slot, until a
reset gives up what the slot had not confirmed. `NothingDiscarded`: it is recorded,
in the stream, or can still be read from the slot. `OffsetsFitSlot`: no offsets beside
a slot they were not taken from. `FileBacked`: Debezium never runs beside a stream
in memory. `CaptureResumes`: every promised change is recorded in the end.
In `WorkerWatch`, `AbandonedIsReported` and `BackloggedIsReported` promise a warning
within `Deadline`, the time it takes to see an inactive slot, to wait out the grace
and to see it again, with the failed polls counted; `RestartsAreNotReported` is the
converse; `OnlyHangsLookStalled` is about the probe; `SlotDataNeverGoesBack` says
that no answer replaces a later one.
In `Capture`, `HistoryWithoutGaps`: the rows of a key, by position, begin where the
one before ended, and end at the committed row. `OnlyNoiseIsDropped`: a change has
no row if and only if it changed ignored columns alone and the images could show
it. `AttributedAsGiven`: a row has the context its own transaction was first given,
whole.

**Bounds.** `MaxCrashes` and `MaxReplays` bound the worker's crashes and Debezium's
restarts, the length of the histories bounds everything else. One crash is enough
to lose each kind of in-memory state, and the position of the crash is free. With
`StreamCap` 3 or 4 the stream fills and drains more than once in a history of
three to six messages; `FetchBatchSize` 2 cuts each transaction in
every place; an `InsertBatchSize` of 1 puts a crash between two chunks.
`OrphanGap` is 1 or 2 instead of 1000, so that contexts become orphans.
A session has four records: enough for one subject to hold a record while the
other has settled ones on both sides of it, and for a context to be exactly at
the gap and one beyond it.
`Buffered` has histories with several changes of a transaction, a context ahead of
lower ids, and one exactly at the gap from its change; with a replay each of them also
comes a second time, in part or whole. `LiveBuffered` has a stream and a pending limit
of 4 and heartbeats at the end of its histories: a lone last change is held until
something follows it. At the real sizes (a stream of gigabytes) something can follow,
except for the pending limit noted below.

`Deployment` has a transaction of one change and one of three, with a stream of two
messages, so that the second never fits; the stack is brought up twice, and once
more with a reset; two requests fail, which with `MAX_ATTEMPTS` 2 (30 in the code)
is enough for one setup to fail altogether or two to be retried; one container is
killed. `CHECK_DEADLOCK FALSE`: once everything is recorded and the bounds are used up,
there is nothing left to do.
`Watch` has no bound on time or on the number of polls, restarts and changes of the
server: `VIEW Ages` makes states one in which everything happened equally long ago, up
to the longest time that an action or a property compares. What a query read counts
by what its answer will tell. One slot is enough as
slots do not depend on each other. One failed poll in a row, a grace of two
intervals, a query as long as the interval, and a probe that is stricter than a
turn by one unit are the smallest numbers at which each of them matters.
`Capture` has two sessions, two keys, four columns (a plain one, an array out of
line, an ignored timestamp, an excluded one) and up to three messages in the log:
two contexts and the write they compete for, a context and two writes, or a
history of three writes. Names of sessions, keys and values are interchangeable
(`SYMMETRY`; there is no liveness property). The application may stop at any
time, so deadlock is not checked.

**Fairness.** The worker is sequential code, so each of its enabled steps happens
(WF), and its supervisor starts it again. `Publish` is retried by Debezium (WF).
A fetch waits 30 seconds for messages, so one that is deliverable over and over
arrives (SF on the receives; a fetch that ends early may disable them in
between). The release is retried every turn and does not fail for ever (SF).
Nothing is assumed of `Flush`, `Replay` and `Crash`. An acknowledgement that is sent
arrives (WF): the liveness runs set `LossyAck = FALSE`. That is an assumption, not
something the code makes true. A lost acknowledgement is made good only by a later
one, as the messages that are delivered again are at or below `lastStreamSequence`
and ignored (`ingestion.ts:64-67`); in a stream as small as a fetch there may be no
later one until the process is restarted, while at the real sizes (a fetch of
100, a pending limit of 1000, a stream of gigabytes) ten or so in a row would have to
be lost. The safety runs lose acknowledgements freely. The liveness runs also set
`LongAckWait`: a running worker gets through what is due before more becomes due,
which the default of 30 seconds is for; otherwise redeliveries could fill every
fetch.

`Deployment` assumes that the stack is brought up, and again after a setup that
failed; that Docker restarts containers (`restart: unless-stopped`), of which a
worker that is new is started only when the setup is done, while one that was
running may be restarted before; that a request does not fail for ever; and that the
operator drains a stream that the setup refuses to recreate (SF: other runs of the
setup come in between). It does not assume that offsets are ever flushed except on
an orderly exit (`debezium.sh:62-65`).

**Assumptions about what is not in the repository.** One worker. The server
delivers what is due in stream order and ahead of new messages; an
acknowledgement is applied or lost as a whole; stream and consumer survive
restarts; the stream is bounded by messages instead of bytes; a delivery is
identified by its sequence alone. Debezium publishes in order and one at a time,
and its slot advances only with the flushed offset, at the ends of transactions.
An orderly exit flushes the offsets. A server with offsets of another slot cannot
resume and exits. Each change has a position of its own (rows that share a WAL
record, as those of a COPY may, are not told apart). Debezium fills in a scalar
that is out of line from a full before-image and leaves arrays to the worker.
A fetch ends by its expiry, and the rest of a turn and the start of the worker
together with it take less than `STALL_TIMEOUT`; a loop that takes longer counts as one
that hangs.

## Disagreements between the code and what it says

Each of these is a run whose property is violated.

* `PromptRestart` - `worker/src/index.ts:152-153` says that the stream "only holds
  what is not yet durable", and so that what was released is durable. A worker that
  is back before the ack wait of its predecessor's messages is over is sent new
  messages first; acknowledging one of them acknowledges the older ones, and the
  purge deletes them. They had no row. The other runs assume that a restart takes
  longer than the ack wait (`PromptRestart = FALSE`).
* `Unbuffered` - `README.md:109-110` says the worker pairs a context to the changes
  of its transaction. The deployed worker does not set `useBuffer`, so a fetch that
  ends between the two drops the context.
* `ForeignFill` - `ingestion.ts:170-171` says that releasing keeps back-pressure
  temporary. Messages with a foreign prefix make no record and so no
  acknowledgement; when they fill the pending limit, nothing is delivered any more.

Further disagreements that these modules show when the constants or histories
are set accordingly, without a run of their own:

* a delivery lost with the connection is acknowledged by a later message, and its
  own redelivery is ignored because its sequence is not above
  `lastStreamSequence` (`ingestion.ts:64-67`): `AckedIsDurable` with
  `LossyDelivery = TRUE`;
* an acknowledgement that is lost when no later message can be had stops a stream
  for as long as the process lives, since what is delivered again is ignored
  (`ingestion.ts:64-67`): `BackPressureTemporary` with `LossyAck = TRUE`;
* with `useBuffer` a context is not kept for later changes of its transaction
  (`stitching.ts:67`), so that only the first is sure to get it: `ContextComplete` with
  a history `Tx(1, <<"context", "change", "change">>)`;
* a lone change that Debezium publishes twice is no longer alone and is saved before
  its context comes (`stitching.ts:55`): `ContextComplete` with `MaxReplays = 1`.
  `FirstChangePaired` holds all the same, as the change was sent a second time before its
  context was, so that the context is not the record after it;
* a logical message with the empty prefix passes the check of
  `fetched-record.ts:100-103` and is stored as a row: kind `"bare"`;
* the gap is measured in transaction order (`stitching.ts:31`), not from the newest
  sequence, as `stitching.ts:7-9` has it: an orphan context of a high id that commits
  first is held for as long as lower ids follow it: `HeldWithinGap` without its second
  disjunct;
* the gap of 1000 is not smaller than the consumer's default limit of 1000 pending
  messages, so a held context may stop the deliveries that would make it an orphan
  (`stitching.ts:10`): `AllRecorded` with `MaxAckPending` at most `OrphanGap`;
* an inactive slot over the threshold is silent for the whole grace period, because
  the check of the retention is the `else` of the check for activity
  (`replication-slot.ts:107-128`), while `README.md:164` says that retained WAL above the
  threshold is reported, and `replication-slot.ts:129-130` that there is no grace
  period: `BackloggedIsReported` with a deadline below the grace;
* without a full replica identity the placeholder of a value out of line is stored
  as it is, because only the keys of the before-image are looked at
  (`fetched-record.ts:35`); `application.properties:21-23` says that it is stripped:
  `HistoryWithoutGaps` without its condition.

Two more things that are as documented, and worth knowing. With `SetupFirst = FALSE`,
that is with Debezium running while the setup runs, `FileBacked`, `NothingDiscarded`
and `OffsetsFitSlot` fail; `debezium.sh:51-52` and `README.md:180-184` ask for that order.
And an upgrade from a stream in memory that still has messages cannot finish by
itself: the setup refuses, and the worker that would drain the stream is gated on
the setup; the messages it counts include those already recorded.

## Proofs

Proved for all values of the constants that satisfy the modules' assumptions, with
`Spec` that of the module the theorem is about:

| Theorem | Statement | Further hypotheses |
|---|---|---|
| `TypeCorrect` | `Spec => []TypeOK` | - |
| `HeldRecordsStay` | `Spec => []BufferedUnacked` | - |
| `ContextsAreSound` | `Spec => []ContextSound` | - |
| `NothingPassedOver` | `Spec => []Accounted` | no prompt restart, no lost delivery |
| `AckedStaysDurable` | `Spec => []AckedIsDurable` | the same |
| `NoChangeLost` | `Spec => []NothingLost` | the same |
| `PipelineIsAuditLog` | `Spec => Log!AuditSpec` | the same |
| `ContextsHeldWithinGap` | `Spec => []HeldWithinGap` | - |
| `ContextsHeldNearGap` | `Spec => []HeldWithin(d)`: `HeldWithinGap` with `OrphanGap + d` | `LateBy(d)`: no message comes more than `d` after one with a higher id; `SentOnce`; `NothingForeign` |
| `FirstChangesArePaired` | `Spec => []FirstChangePaired` | `UseBuffer`; no prompt restart, no lost delivery; `PositionsAreDistinct`: no two messages of the write-ahead log at one position |
| `SessionsAckWhatTheySaved` | `SessionSpec => []AckedIsSaved` | - |
| `ContextsWaitForTheirChange` | `SessionSpec => []PairedWithinGap` | `UseBuffer` |
| `LoopsAgree` | `SessionSpec => []LoopAgrees` | - |
| `LoopIsStatement` | `LoopResult(recs, ord) = StitchFetchedRecords(recs, ord)` | `WellFormed(recs, Subjects)`: finitely many records, no two at one sequence; `Fits(recs, ord)`: the order has the subjects of the records, each once |
| `DeploymentTypeCorrect` | `Spec => []TypeOK` | setup first |
| `NothingPromisedIsLost` | `Spec => []NothingDiscarded` | the same |
| `OffsetsAlwaysFit` | `Spec => []OffsetsFitSlot` | the same |
| `StreamIsOnDisk` | `Spec => []FileBacked` | the same |
| `WatchTypeCorrect` | `Spec => []TypeOK` | - |
| `ProbeReportsOnlyHangs` | `Spec => []OnlyHangsLookStalled` | - |
| `SlotDataIsMonotonic` | `Spec => SlotDataNeverGoesBack` | - |
| `AbandonedReported` | `Spec => []AbandonedIsReported` | - |
| `BackloggedReported` | `Spec => []BackloggedIsReported` | - |
| `RestartsUnreported` | `Spec => []RestartsAreNotReported` | - |
| `CaptureTyped` | `Spec => []TypeOK` | - |
| `HistoryIsWhole` | `Spec => []HistoryWithoutGaps` | - |
| `OnlyNoiseDropped` | `Spec => []OnlyNoiseIsDropped` | - |
| `AttributedToItsOwn` | `Spec => []AttributedAsGiven` | - |

The hypotheses are needed. The run `PromptRestart` violates `AckedIsDurable` without
the first, and `LossyDelivery = TRUE` violates it without the second;
`SetupFirst = FALSE` violates all three properties of `Deployment`. Without `UseBuffer`
no context waits for a later fetch, which is what the run `Unbuffered` shows of the
worker as it is deployed; `FirstChangesArePaired` is about what the option would give.
It allows transactions of any number of changes and contexts, in any order of ids, and
any number of replays. Positions are what a row is known by; at one position two
changes would share it.
`ContextsHeldNearGap` says in numbers what `ContextsHeldWithinGap` says by the order of the ids,
for streams of which that order is known: a context is held too long by no more than
the distance at which a message still follows one of a later transaction.
Acknowledgements and, except where the table says otherwise, deliveries may be lost
in all theorems about `Ingestion`.

`CaptureAssumption` has two parts that the proofs need and the code gives: the worker
does not set `useBuffer` (`worker/src/index.ts:145-157`), and not every column is
excluded from the capture.

The argument goes up in layers, each an inductive invariant over the one before.

1. `TypeInv` is `TypeOK`, and that every record in memory was built from the
   message at its sequence, and that a worker that is down holds nothing. The
   lemmas of `StitchingProofs` say what stitching returns: stitched records are
   input records up to their context, the new buffer is a subset of the old one,
   the ack is a natural number below every held record.
2. `Unacked` adds that held records are above the floor, and that the chosen ack and the
   one on the wire are below all of them. The clamp (`stitching.ts:123-142`) is what makes it a step
   invariant.
3. `Durable` is `AckedIsDurable` with `Accounted`, and with `Tracked`, which relates
   `lastStreamSequence` and the ack to the batch. `AckedIsDurable` alone is not inductive:
   an acknowledgement is safe only because every owed pending message below it is
   in memory, and after stitching (`SavedOrHeld`) in the rows to save or held.
   By the time of `Ack` the former have their rows, and `AckingIsDurable` keeps that
   until the server has it (`DurableStep`, one step per action).
4. `Published` relates the source to the log (whatever was sent is in it), so that
   with `AckedIsDurable` and the release below the floor `NothingLost` follows, and
   the refinement: `Publish` is an `Offer` (`PublishOffers`), `Persist` a `Write`
   (`PersistWrites`), `Release` a `GiveUp` (`ReleaseGivesUp`), all else stutters.
5. `AllPaired` says of every record in memory and every row that its context has its
   transaction; `WithContextType` and `ContextOfTransaction` carry it over
   stitching.

6. `Ahead` (in `ContextProofs`): a turn takes only messages beyond those it has seen. So the
   newest message of a turn is one of its records, unless it is foreign, and the
   last record by id, from which the gap is measured, is that one or has a higher id
   (`LastIsHighest`, `HeldNearLast`): that is `HeldWithinGap`, and needs nothing of the stream.
   Without replays the stream is a prefix of the write-ahead log (`IsSentPrefix`), whose
   order then gives `ContextsHeldNearGap`.
7. `PairInv`, for `FirstChangePaired`. It says of contexts what `Accounted` says of changes.
   A context that comes before the first change of its transaction is *open* as long as
   the stream has no such change and the gap is not over (`Open`); a partner of a change
   without a row is *awaited*. Both are `Safe`: above the floor and the acknowledgement
   on the wire, and held, in the fetch, due again ahead of what the fetch has, or still
   to come. Openness is needed because the context may have to survive before its change is
   published at all. Stitching is the step to look at: a change whose partner is not among
   the records is the last of them and alone, so it is held (`ChangeWaits`); a context
   whose change is not among them is within the gap, so it is held (`ContextStays`), and
   `Durable` puts the change ahead (`ChangeIsAhead`); when both are there they are paired
   (`StitchPairsFirst`). `RowsFromStream` and `Reads` tie rows and records to the stream, and
   `OnePerPosition` (from `AllPaired`) makes a replayed change the same change: its
   row was made of the first copy or of a later one, and has a context either way.
   `LastUnsaved` is for a change at the end of the stream, which must not have been saved
   when its context is published behind it.

The session's theorem about acknowledgements needs that a change that was received is saved or held
(`NothingDropped`), and that an acknowledgement is never beyond the records seen
(`AckIsSeen`): with both, what lies at or below it and is not held was saved. `PairInv` adds, for
`PairedWithinGap`, what becomes of a context until its change comes. `ContextsWait`: it
is held while its transaction has no change and the sequences received are within
the gap. `OwedArePaired`: a held change that is owed a context has it beside it in the
buffer; so it is not alone, and `HeldChange` cannot hold it past the next call.
`Origins` leads from a saved record to the one it was received as.

`LoopIsStatement` goes from the inside of the loops outwards. The loops are folds, and
those are recursive functions, so the first thing to prove is that they satisfy
their equations: `FoldExists` builds the function for the subsets of at most `m`
elements, for every `m`. The induction is that of `FromZeroOn`, which speaks of a set of
numbers where the library speaks of a predicate, and rests on every nonempty set of
naturals having a least element. `ListExists` does the same for the records of a
subject: however many there are, they can be sorted. Then `VisitMakes` says what the
visit of one record adds to the accumulator, `VisitsMake` what the records visited so far
of a subject have made, and `PassesMake` what the subjects visited so far have; in the last,
`MaxSequenceGrows` and `Visited` make the running `maxSequence` the one that `Orphaned`
reads, and `Keyed` lists the keys of `maxSequenceBySubject` as the places of the subjects
that have settled records. What the walk over them does is an invariant of its own,
`StandsAt`: it stands at a key whose maximum is above all before it, has passed no such
key that holds records, and is below a later one only where it stopped. At the end
that is the key `AckSequence` picks (`WalkEnds`). `LoopsAgree` needs besides that a session's
order fits its buffer (`LoopInv`): a record appends its subject when it is new, and a
call keeps the subjects that hold records.

`DeploymentInv` (in `DeploymentProofs`) says why one step of the life of an installation cannot undo
what another relied on, in three parts that are inductive only together.
`StreamInv`: what the setup is about to do still fits the stream it looked at, so one
that it deletes is empty. `StartInv`: Debezium is down unless the setup is done, so the
slot that `debezium.sh` saw is the slot the server finds. `CursorInv`: every promised
change up to the cursor is kept, and up to the offsets when they are of the slot
that exists. The last makes `Confirm` safe, since the slot follows the offsets; and
`NothingDiscarded` itself is what makes a *new* slot safe, since without a slot
everything still promised is kept.

`WatchInv` (in `WatchProofs`) has the discipline of the polls (`OneAtATime`: a poll is due only when
no query is under way), from which new slot data is never older (`NoneOlder`), and
how long before now a phase of the loop began and the tick before it (`InTime`); the
bound on the tick's age is the sum of the two, which `HealthAssumption` keeps below
`STALL_TIMEOUT`.

`DeadlineInv` is what the deadlines of the monitor rest on. `Polling` says how old the data
of the last poll can be in each state of the next (due, under way, failed so many
times in a row), in periods of a poll and the wait for it. `SlotTimes`, `QueriesTell`
and `AnswersTell` carry what is true of the server, if it began before the query was
sent, into the rows of the query and from there into the monitor's state.
`TimerStarts` bounds when the timer of an inactive slot was started: after it became
inactive by a query and the polls that may be missed at most, so that at the
deadline the grace is over and `WarningsTell` applies. Its last part is the converse,
for restarts: a timer that began before its consumer was last back for long enough
is one that a query under way is about to delete, and that query may not fail.

`CaptureInv` (in `CaptureProofs`) relates the table, the open transactions, the WAL and the audit
rows. `Chained` says of messages what `HistoryWithoutGaps` says of rows: for each key the
images in the WAL lead from its initial row to the committed one, and those of an
open transaction on from there to what the transaction sees. `Ordered` says why a
commit can append them: a key is written by one transaction at a time, so the
positions of its messages ascend although transactions commit in any order.
`Attributed` does for contexts what `Chained` does for images. `Recorded` says that a row
tells of a message that was taken and is not noise, and that there is one for each.
The step from messages to rows is `LastBefore`: between a row and the one before it lie
only messages that are noise, and noise does not change what an image shows of the
columns that are not ignored (`NoiseIsEmpty`).

Only model-checked are the three liveness properties, `BackPressureTemporary`,
`AllRecorded` and `CaptureResumes`: fairness and ENABLED are beyond the prover. Every
other property of a passing run is stated by a theorem above.

No module uses a RECURSIVE operator.

## Not modelled, and the plan

Left out for good: logging, ORM configuration, migrations, scripts, the hash
column, indexes, byte sizes, TLS and connection options, the templating of
Debezium's configuration, table exclusion (a table that is excluded is one that
does not exist for the pipeline), TRUNCATE, and the HTTP of the probe.

The plan is carried out. What could still be added is a bound on how long an
acknowledgement may stay lost, for a liveness run with `LossyAck = TRUE`.
