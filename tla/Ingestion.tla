------------------------------ MODULE Ingestion ------------------------------
(***************************************************************************)
(* The capture pipeline: Debezium publishes into the stream, one worker    *)
(* runs runIngestionLoop (core/src/ingestion.ts) over it as                *)
(* worker/src/index.ts starts it, and the audit table receives the rows.   *)
(*                                                                         *)
(* One turn of the loop is                                                 *)
(*                                                                         *)
(*   fetching    messages of one fetch arrive, until it is full or expires *)
(*   persisting  one INSERT per chunk, then at most one acknowledgement,   *)
(*               which nobody waits for                                    *)
(*   releasing   the consumer is asked for its ack floor                   *)
(*   purging     the stream is purged up to what it answered               *)
(*                                                                         *)
(* and between any two steps the process may die, losing all its state.    *)
(* From the end of the fetch to the first INSERT the code does not await,  *)
(* so parsing, stitching and filtering are one action.                     *)
(*                                                                         *)
(* Not covered here: the wall clock, the hash column, what a row holds     *)
(* besides its position and context, more than one worker.                 *)
(***************************************************************************)
EXTENDS Stitching, JetStream, Source

CONSTANTS
    FetchBatchSize,    \* max_messages of one fetch
    InsertBatchSize,   \* rows of one INSERT
    Ignoring,          \* whether BEMI_IGNORE_FIELDS is set
    MaxCrashes,        \* bound on the crashes of the worker
    PromptRestart,     \* may the worker be back before the ack wait is over?
    LongAckWait,       \* does a running worker get all that is due before
                       \* anything else becomes due?
    LossyDelivery,     \* may a delivery be lost with the connection?
    LossyAck           \* may an acknowledgement be lost with the connection?

ASSUME IngestionAssumption ==
    /\ FetchBatchSize \in Nat \ {0}
    /\ InsertBatchSize \in Nat \ {0}
    /\ MaxCrashes \in Nat
    /\ {Ignoring, PromptRestart, LongAckWait, LossyDelivery,
        LossyAck} \subseteq BOOLEAN

VARIABLES
    pc,                    \* where the worker is, "down" when it is not running
    lastStreamSequence,    \* 0 before the first message, null in the code
    fetchedRecordBuffer,   \* the records held for a later turn
    batch,                 \* the sequences in natsMessageBySequence
    fetched,               \* messages this fetch has received
    keptFetchedRecords,    \* the records this turn has still to save
    ackStreamSequence,     \* what this turn acknowledges, 0 for nothing
    acking,                \* the acknowledgement on the wire, or 0
    releasable,            \* the ack floor that the consumer reported, or 0
    changes,               \* the rows of the audit table
    crashes                \* crashes so far

loopVars == <<lastStreamSequence, fetchedRecordBuffer, batch, fetched,
              keptFetchedRecords, ackStreamSequence, acking, releasable>>

vars == <<jsVars, srcVars, pc, loopVars, changes, crashes>>

-----------------------------------------------------------------------------
\* The only subject that the consumer reads.
Subject == "bemi"

Record == RecordOf({Subject})

Sequences == 1..delivered

Positions == {c.pos : c \in changes}

TypeOK ==
    /\ JSTypeOK
    /\ SrcTypeOK
    /\ pc \in {"down", "fetching", "persisting", "releasing", "purging"}
    /\ lastStreamSequence \in 0..delivered
    /\ fetchedRecordBuffer \subseteq Record
    /\ batch \subseteq Sequences
    /\ fetched \in 0..FetchBatchSize
    /\ keptFetchedRecords \subseteq Record
    /\ ackStreamSequence \in Nat
    /\ acking \in 0..delivered
    /\ releasable \in 0..ackFloor
    /\ changes \subseteq [pos : Nat \ {0}, ctx : Nat]
    /\ crashes \in 0..MaxCrashes

Init ==
    /\ JSInit
    /\ SrcInit
    /\ pc = "down"
    /\ lastStreamSequence = 0
    /\ fetchedRecordBuffer = {}
    /\ batch = {}
    /\ fetched = 0
    /\ keptFetchedRecords = {}
    /\ ackStreamSequence = 0
    /\ acking = 0
    /\ releasable = 0
    /\ changes = {}
    /\ crashes = 0

-----------------------------------------------------------------------------
(***************************************************************************)
(* The environment: Debezium and the ack wait of the server.               *)
(***************************************************************************)
Publish ==
    /\ SrcSend
    /\ JSPublish(wal[sent + 1])
    /\ UNCHANGED <<pc, loopVars, changes, crashes>>

Flush ==
    /\ SrcFlush
    /\ UNCHANGED <<jsVars, pc, loopVars, changes, crashes>>

Replay ==
    /\ SrcRestart
    /\ UNCHANGED <<jsVars, pc, loopVars, changes, crashes>>

Expire ==
    /\ LongAckWait => expired = {} \/ pc = "down"
    /\ \E s \in pending : JSExpire(s)
    /\ UNCHANGED <<srcVars, pc, loopVars, changes, crashes>>

-----------------------------------------------------------------------------
(***************************************************************************)
(* The life of the worker process.                                         *)
(***************************************************************************)
\* main: the durable consumer is found as it was left, the loop starts empty.
Start ==
    /\ pc = "down"
    /\ PromptRestart \/ pending \subseteq expired
    /\ pc' = "fetching"
    /\ UNCHANGED <<jsVars, srcVars, loopVars, changes, crashes>>

\* Everything the process held in memory is gone, an acknowledgement that it
\* did not get out included.
Die ==
    /\ pc' = "down"
    /\ lastStreamSequence' = 0
    /\ fetchedRecordBuffer' = {}
    /\ batch' = {}
    /\ fetched' = 0
    /\ keptFetchedRecords' = {}
    /\ ackStreamSequence' = 0
    /\ acking' = 0
    /\ releasable' = 0
    /\ UNCHANGED <<jsVars, srcVars, changes>>

\* Killed, or an INSERT failed and the error left the loop.
Crash ==
    /\ pc # "down"
    /\ crashes < MaxCrashes
    /\ crashes' = crashes + 1
    /\ Die

-----------------------------------------------------------------------------
(***************************************************************************)
(* Fetching.                                                               *)
(***************************************************************************)
CanReceive == pc = "fetching" /\ fetched < FetchBatchSize

\* Wrong: the message that follows the last one is skipped.
IsNewButNext(s) == lastStreamSequence = 0 \/ lastStreamSequence + 1 < s

\* A message at or below the last sequence of an earlier turn is ignored.
IsNew(s) == lastStreamSequence = 0 \/ lastStreamSequence < s

Accumulate(s) ==
    /\ batch' = IF IsNew(s) THEN batch \cup {s} ELSE batch
    /\ fetched' = fetched + 1
    /\ UNCHANGED <<srcVars, pc, lastStreamSequence, fetchedRecordBuffer,
                   keptFetchedRecords, ackStreamSequence, acking, releasable,
                   changes, crashes>>

ReceiveNew ==
    /\ CanReceive
    /\ \E s \in 1..Len(log) : JSDeliverNew(s) /\ Accumulate(s)

ReceiveRedelivered ==
    /\ CanReceive
    /\ \E s \in expired : JSRedeliver(s) /\ Accumulate(s)

\* The connection breaks while a delivery is on the wire.
LoseDelivery ==
    /\ LossyDelivery
    /\ CanReceive
    /\ \/ \E s \in 1..Len(log) : JSDeliverNew(s)
       \/ \E s \in expired : JSRedeliver(s)
    /\ UNCHANGED <<srcVars, pc, loopVars, changes, crashes>>

-----------------------------------------------------------------------------
(***************************************************************************)
(* Stitching, once the fetch has ended.                                    *)
(***************************************************************************)
FetchedRecords ==
    {FromNatsMessage(log[s], s, Subject) : s \in {t \in batch : ~IsIgnored(log[t])}}

\* isEmptyChange, for a worker that was given fields to ignore.
IsEmptyChange(r) == Ignoring /\ r.kind = "noop"

Order(recs) == IF recs = {} THEN <<>> ELSE <<Subject>>

Stitch ==
    /\ pc = "fetching"
    /\ \A s \in batch : ~Throws(log[s])
    /\ LET recs   == fetchedRecordBuffer \cup FetchedRecords
           result == StitchFetchedRecords(recs, Order(recs))
       IN  /\ fetchedRecordBuffer' = result.buffer
           /\ keptFetchedRecords' = {r \in result.stitched : ~IsEmptyChange(r)}
           /\ ackStreamSequence' = result.ack
    /\ lastStreamSequence' = Max(batch \cup {lastStreamSequence})
    /\ pc' = "persisting"
    /\ UNCHANGED <<jsVars, srcVars, batch, fetched, acking, releasable, changes,
                   crashes>>

\* Parsing one message throws, nothing catches it, and the process exits.
ParseFails ==
    /\ pc = "fetching"
    /\ \E s \in batch : Throws(log[s])
    /\ Die
    /\ UNCHANGED crashes

-----------------------------------------------------------------------------
(***************************************************************************)
(* Persisting and acknowledging.                                           *)
(***************************************************************************)
\* The next chunk, in the order in which stitching returned the records.
Chunk ==
    {r \in keptFetchedRecords :
        Cardinality({q \in keptFetchedRecords : Precedes(q, r)}) < InsertBatchSize}

\* Of several records with one position, the first is inserted.
FirstAt(recs, p) ==
    CHOOSE r \in recs :
        /\ r.pos = p
        /\ \A q \in recs : q.pos = p => q = r \/ Precedes(r, q)

\* Wrong: inserted whether or not the position has a row.
InsertedAnyway(recs) ==
    {[pos |-> p, ctx |-> FirstAt(recs, p).ctx] : p \in {r.pos : r \in recs}}

\* ON CONFLICT DO NOTHING: a position that has a row keeps it.
Inserted(recs) ==
    {[pos |-> p, ctx |-> FirstAt(recs, p).ctx] :
        p \in {r.pos : r \in recs} \ Positions}

Persist ==
    /\ pc = "persisting"
    /\ keptFetchedRecords # {}
    /\ changes' = changes \cup Inserted(Chunk)
    /\ keptFetchedRecords' = keptFetchedRecords \ Chunk
    /\ UNCHANGED <<jsVars, srcVars, pc, lastStreamSequence, fetchedRecordBuffer,
                   batch, fetched, ackStreamSequence, acking, releasable, crashes>>

\* Wrong: acknowledging does not wait for the INSERTs.
AckFirst == pc = "persisting"

AllPersisted == pc = "persisting" /\ keptFetchedRecords = {}

\* Only a message of this very fetch can be acknowledged.
Acks == ackStreamSequence \in batch

\* ack() sends and does not wait; a later acknowledgement implies an earlier.
Ack ==
    /\ AllPersisted
    /\ acking' = IF Acks THEN ackStreamSequence ELSE acking
    /\ pc' = "releasing"
    /\ UNCHANGED <<jsVars, srcVars, lastStreamSequence, fetchedRecordBuffer, batch,
                   fetched, keptFetchedRecords, ackStreamSequence, releasable,
                   changes, crashes>>

\* The server has it: at once, or after it has answered other requests.
AckArrives ==
    /\ acking > 0
    /\ JSAckAll(acking)
    /\ acking' = 0
    /\ UNCHANGED <<srcVars, pc, lastStreamSequence, fetchedRecordBuffer, batch,
                   fetched, keptFetchedRecords, ackStreamSequence, releasable,
                   changes, crashes>>

\* The connection breaks, and nobody notices that the server never got it.
LoseAck ==
    /\ LossyAck
    /\ acking > 0
    /\ acking' = 0
    /\ UNCHANGED <<jsVars, srcVars, pc, lastStreamSequence, fetchedRecordBuffer,
                   batch, fetched, keptFetchedRecords, ackStreamSequence,
                   releasable, changes, crashes>>

-----------------------------------------------------------------------------
(***************************************************************************)
(* Releasing what the consumer has acknowledged.  The floor is read, and   *)
(* the stream purged to what was read, with an await between the two, in   *)
(* which an acknowledgement may still arrive and move the floor on.        *)
(***************************************************************************)
EndTurn ==
    /\ pc' = "fetching"
    /\ batch' = {}
    /\ fetched' = 0
    /\ ackStreamSequence' = 0
    /\ releasable' = 0
    /\ UNCHANGED <<srcVars, lastStreamSequence, fetchedRecordBuffer,
                   keptFetchedRecords, acking, changes, crashes>>

\* consumer.info answers, and there is something to release.
ReadFloor ==
    /\ pc = "releasing"
    /\ ackFloor > 0
    /\ releasable' = ackFloor
    /\ pc' = "purging"
    /\ UNCHANGED <<jsVars, srcVars, lastStreamSequence, fetchedRecordBuffer, batch,
                   fetched, keptFetchedRecords, ackStreamSequence, acking, changes,
                   crashes>>

NothingToRelease ==
    /\ pc = "releasing"
    /\ ackFloor = 0
    /\ EndTurn
    /\ UNCHANGED jsVars

\* Wrong: purging one too far, up to what was delivered, or only after a
\* fresh acknowledgement.
ReleasePastFloor ==
    /\ pc = "purging"
    /\ EndTurn
    /\ JSPurge(releasable + 2)

ReleaseDelivered ==
    /\ pc = "purging"
    /\ EndTurn
    /\ JSPurge(delivered + 1)

ReleaseFreshAck ==
    /\ pc = "purging"
    /\ EndTurn
    /\ IF Acks THEN JSPurge(releasable + 1) ELSE UNCHANGED jsVars

Release ==
    /\ pc = "purging"
    /\ EndTurn
    /\ JSPurge(releasable + 1)

\* consumer.info or the purge fails; the error is logged and swallowed.
ReleaseFails ==
    /\ pc \in {"releasing", "purging"}
    /\ EndTurn
    /\ UNCHANGED jsVars

-----------------------------------------------------------------------------
Next ==
    \/ Publish
    \/ Flush
    \/ Replay
    \/ Expire
    \/ Start
    \/ Crash
    \/ ReceiveNew
    \/ ReceiveRedelivered
    \/ LoseDelivery
    \/ Stitch
    \/ ParseFails
    \/ Persist
    \/ Ack
    \/ AckArrives
    \/ LoseAck
    \/ ReadFloor
    \/ NothingToRelease
    \/ Release
    \/ ReleaseFails

Spec == Init /\ [][Next]_vars

-----------------------------------------------------------------------------
(***************************************************************************)
(* Fairness.  A server timer runs out; the worker is restarted by its      *)
(* supervisor and, being sequential code, takes its next step; Debezium    *)
(* retries a rejected publish.  A fetch waits 30 seconds, so a message     *)
(* that can be delivered again and again does arrive, although the fetch   *)
(* may expire before it: hence SF for the deliveries.  The release is      *)
(* retried every turn, and neither of its two requests fails forever: SF   *)
(* as well.                                                                *)
(***************************************************************************)
Fairness ==
    /\ WF_vars(Publish)
    /\ WF_vars(Expire)
    /\ WF_vars(Start)
    /\ SF_vars(ReceiveNew)
    /\ SF_vars(ReceiveRedelivered)
    /\ WF_vars(Stitch)
    /\ WF_vars(ParseFails)
    /\ WF_vars(Persist)
    /\ WF_vars(Ack)
    /\ WF_vars(AckArrives)
    /\ WF_vars(NothingToRelease)
    /\ SF_vars(ReadFloor)
    /\ SF_vars(Release)

FairSpec == Spec /\ Fairness

-----------------------------------------------------------------------------
(***************************************************************************)
(* Properties.                                                             *)
(***************************************************************************)
\* A message that must leave a row behind: a change, unless the deployment
\* asked for it to be dropped.  A message that cannot be parsed is a change
\* that nobody could record, so it is owed as well.
OwedKinds == {"change", "poison"} \cup (IF Ignoring THEN {} ELSE {"noop"})

Owed(m) == m.kind \in OwedKinds

\* Whatever the consumer has acknowledged is durable: no message at or below
\* the ack floor still has to be written, whatever the batches, crashes,
\* redeliveries and replays were (ingestion.ts:163-171).
AckedIsDurable ==
    \A s \in 1..ackFloor : Owed(log[s]) => log[s].pos \in Positions

\* End to end: a change that Debezium can no longer read again, because its
\* offset was flushed past it, has a row or is still stored in the stream
\* (the data loss that nats.ts:47-54 is about).
NothingLost ==
    \A i \in 1..flushed :
        Owed(wal[i]) =>
            \/ wal[i].pos \in Positions
            \/ \E s \in firstSeq..Len(log) : log[s] = wal[i]

\* What is held only in the memory of the process is never acknowledged, so
\* a restart finds it in the stream again (stitching.ts:123-127).
BufferedUnacked ==
    \A r \in fetchedRecordBuffer : r.seq > ackFloor

\* A running worker has every message it may still acknowledge in hand, or
\* will see it first: an owed message that is pending has its row, or is in
\* memory, or is due for redelivery ahead of everything this fetch could
\* acknowledge (ingestion.ts:63-67, 111-118, 163-166).
InMemory(s) == \E r \in fetchedRecordBuffer \cup keptFetchedRecords : r.seq = s

InFetch(s) == pc = "fetching" /\ s \in batch

StillDue(s) ==
    s \in expired /\ s > lastStreamSequence /\ \A b \in batch : b < s

Accounted ==
    pc # "down" => \A s \in pending : Owed(log[s]) =>
        log[s].pos \in Positions \/ InMemory(s) \/ InFetch(s) \/ StillDue(s)

\* The context stored with a change was emitted in the transaction of that
\* change, also when records of several turns and several runs of the
\* process were stitched (README.md:109 "pairs it to the changes by
\* transaction id").
ContextSound ==
    \A c \in changes : c.ctx # NoContext =>
        \E i, j \in DOMAIN wal :
            /\ wal[i].pos = c.pos
            /\ wal[j].pos = c.ctx
            /\ wal[j].kind = "context"
            /\ wal[i].tx = wal[j].tx

\* A change whose transaction emitted a context is stored with a context, no
\* matter how the fetches cut the transaction (README.md:108-110).
ContextComplete ==
    \A c \in changes : \A i, j \in DOMAIN wal :
        (/\ wal[i].pos = c.pos
         /\ wal[j].kind = "context"
         /\ wal[i].tx = wal[j].tx) => c.ctx # NoContext

\* What the buffer does promise of that.  The first change of a transaction is
\* stored with a context, however the fetches, crashes, redeliveries and
\* replays cut the transaction, if the stream has a context of it within the
\* gap before the change (stitching.ts:66-80), or as the next record after it;
\* in the second case the change must have the highest transaction id up to
\* there, as only the last record by id is held (stitching.ts:55-64).
Leads(j, s) ==
    /\ j < s
    /\ s - 1 - j <= OrphanGap
    /\ \A k \in 1..(s - 1) : log[k].tx = log[s].tx => ~IsChange(log[k])

MakesRecord(m) == m.kind \notin {"idle", "foreign"}

Highest(s) == \A k \in 1..(s - 1) : MakesRecord(log[k]) => log[k].tx < log[s].tx

Trails(j, s) ==
    /\ s < j
    /\ \A k \in (s + 1)..(j - 1) : ~MakesRecord(log[k])
    /\ Highest(s)

Partner(s, j) ==
    /\ IsChange(log[s]) /\ Owed(log[s])
    /\ IsContextMessage(log[j]) /\ log[j].tx = log[s].tx
    /\ Leads(j, s) \/ Trails(j, s)

FirstChangePaired ==
    \A c \in changes : \A s, j \in 1..Len(log) :
        log[s].pos = c.pos /\ Partner(s, j) => c.ctx # NoContext

\* A context is held only while the newest message seen is within the gap of
\* it, or one is that the newest is behind by its transaction id: the gap is
\* measured from the last record by id (stitching.ts:28-33, 71).  A foreign
\* message makes no record, so with it nothing is measured.
HeldWithinGap ==
    \A r \in fetchedRecordBuffer :
        LET n == lastStreamSequence
        IN  r.kind = "context" /\ ~IsIgnored(log[n]) =>
                \/ n - r.seq <= OrphanGap
                \/ \E i \in 1..(n - 1) : /\ log[i].tx > log[n].tx
                                         /\ i - r.seq <= OrphanGap

\* A full stream does not stay full: in the end Debezium has published
\* everything (ingestion.ts:168-171).
BackPressureTemporary == <>[](sent = Len(wal))

\* In the end every change that is owed a row has one.
AllRecorded ==
    <>(\A i \in DOMAIN wal : Owed(wal[i]) => wal[i].pos \in Positions)

\* The pipeline implements the abstract audit log: the stream offers, the
\* INSERTs write, and the purge gives up.
Log == INSTANCE AuditLog WITH
    DueKinds <- OwedKinds,
    Capacity <- StreamCap,
    offered  <- log,
    recorded <- changes,
    released <- firstSeq - 1

\* Every step of the pipeline is a step of the audit log or leaves it alone.
ImplementsAuditLog == Log!AuditSpec
=============================================================================
