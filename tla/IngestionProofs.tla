--------------------------- MODULE IngestionProofs ---------------------------
(***************************************************************************)
(* What Ingestion guarantees for every stream, consumer, fetch, INSERT and *)
(* write-ahead log: its types, that nothing held in memory is acknowledged *)
(* and, for a worker that restarts after the ack wait and loses no         *)
(* delivery, that nothing is acknowledged or purged before it is durable.  *)
(***************************************************************************)
EXTENDS Ingestion, StitchingProofs

-----------------------------------------------------------------------------
(***************************************************************************)
(* What is in memory was read from the stream.  A record of the buffer is  *)
(* the parsed message itself; a record to save may carry a context.        *)
(***************************************************************************)
FromStream ==
    /\ \A r \in fetchedRecordBuffer :
           /\ r.seq \in Sequences
           /\ r = FromNatsMessage(log[r.seq], r.seq, Subject)
    /\ \A r \in keptFetchedRecords :
           /\ r.seq \in Sequences
           /\ r.pos = log[r.seq].pos
    /\ DistinctSequences(keptFetchedRecords)

Idle ==
    /\ pc # "persisting" => keptFetchedRecords = {}
    /\ pc = "down" => /\ lastStreamSequence = 0
                      /\ fetchedRecordBuffer = {}
                      /\ batch = {}

TypeInv == TypeOK /\ FromStream /\ Idle

\* What Stitch hands to stitching is well-formed, and each record of it is
\* the parsed message of its sequence.
LEMMA StitchInput ==
    ASSUME TypeInv
    PROVE  LET recs == fetchedRecordBuffer \cup FetchedRecords
           IN  /\ WellFormed(recs, {Subject})
               /\ Order(recs) \in Seq({Subject})
               /\ \A r \in recs :
                      /\ r.seq \in Sequences
                      /\ r = FromNatsMessage(log[r.seq], r.seq, Subject)
<1> DEFINE recs == fetchedRecordBuffer \cup FetchedRecords
<1>1. /\ delivered \in Nat
      /\ \A s \in Sequences : log[s] \in Message
  BY DEF TypeInv, TypeOK, JSTypeOK, Sequences
<1>2. \A r \in FetchedRecords :
          /\ r.seq \in Sequences
          /\ r = FromNatsMessage(log[r.seq], r.seq, Subject)
          /\ r \in RecordOf({Subject})
  <2> TAKE r \in FetchedRecords
  <2>1. PICK s \in batch : r = FromNatsMessage(log[s], s, Subject)
    BY DEF FetchedRecords
  <2>2. s \in Sequences /\ s \in Nat \ {0} /\ log[s] \in Message
    BY <1>1 DEF TypeInv, TypeOK, Sequences
  <2> QED BY <2>1, <2>2 DEF FromNatsMessage, RecordOf, Message, NoContext
<1>3. \A r \in recs :
          /\ r.seq \in Sequences
          /\ r = FromNatsMessage(log[r.seq], r.seq, Subject)
          /\ r \in RecordOf({Subject})
  BY <1>2 DEF TypeInv, TypeOK, FromStream, Record
<1>4. DistinctSequences(recs)
  BY <1>3, Zenon DEF DistinctSequences
<1>5. IsFiniteSet(recs)
  BY <1>1, <1>3, <1>4, DistinctFinite DEF Sequences
<1>6. Order(recs) \in Seq({Subject})
  <2>1. <<>> \in Seq({Subject}) /\ <<Subject>> \in Seq({Subject})
    OBVIOUS
  <2> HIDE DEF recs
  <2> QED BY <2>1 DEF Order
<1> QED
  BY <1>3, <1>4, <1>5, <1>6 DEF WellFormed

\* Of the records at one position one comes first.
LEMMA FirstAtExists ==
    ASSUME NEW recs \in SUBSET Record, DistinctSequences(recs),
           NEW p, \E r \in recs : r.pos = p
    PROVE  FirstAt(recs, p) \in recs /\ FirstAt(recs, p).pos = p
<1> DEFINE here == {r \in recs : r.pos = p}
           Txs == {r.tx : r \in here}
<1>1. \A r \in here : r.tx \in Nat /\ r.seq \in Nat
  BY DEF Record, RecordOf
<1>2. PICK t \in Txs : \A k \in Txs : t <= k
  <2>1. Txs \in SUBSET Nat /\ Txs # {}
    BY <1>1
  <2> HIDE DEF Txs
  <2> QED BY <2>1, NatHasLeast
<1> DEFINE Seqs == {r.seq : r \in {q \in here : q.tx = t}}
<1>3. PICK s \in Seqs : \A k \in Seqs : s <= k
  <2>1. Seqs \in SUBSET Nat /\ Seqs # {}
    BY <1>1, <1>2
  <2> HIDE DEF Seqs
  <2> QED BY <2>1, NatHasLeast
<1>4. PICK f \in here : f.tx = t /\ f.seq = s
  BY <1>3
<1>5. \A q \in here : q = f \/ Precedes(f, q)
  <2> TAKE q \in here
  <2>1. t <= q.tx /\ t \in Nat /\ q.tx \in Nat /\ q.seq \in Nat /\ s \in Nat
    BY <1>1, <1>2, <1>4
  <2>2. CASE q.tx = t
    <3>1. s <= q.seq
      BY <1>3, <2>2
    <3>2. q.seq = s => q = f
      BY <1>4 DEF DistinctSequences
    <3> QED BY <1>4, <2>1, <2>2, <3>1, <3>2 DEF Precedes
  <2>3. CASE t < q.tx
    BY <1>4, <2>3 DEF Precedes
  <2> QED BY <2>1, <2>2, <2>3
<1>6. \E r \in recs : /\ r.pos = p
                      /\ \A q \in recs : q.pos = p => q = r \/ Precedes(r, q)
  BY <1>5
<1> QED
  BY <1>6, Zenon DEF FirstAt

\* An acknowledgement moves the floor up to it, and no pending message below
\* the floor remains.
LEMMA AckAllEffect ==
    ASSUME JSTypeOK, NEW a \in 1..delivered, JSAckAll(a)
    PROVE  /\ JSTypeOK'
           /\ log' = log /\ delivered' = delivered
           /\ ackFloor' \in {ackFloor, a}
           /\ pending' = {t \in pending : t > a}
           /\ expired' = {t \in expired : t > a}
<1>1. /\ log' = log /\ firstSeq' = firstSeq /\ delivered' = delivered
      /\ pending' = {t \in pending : t > a}
      /\ expired' = {t \in expired : t > a}
      /\ ackFloor' = IF a > ackFloor THEN a ELSE ackFloor
  BY DEF JSAckAll
<1>2. /\ log \in Seq(Message) /\ firstSeq \in 1..(Len(log) + 1)
      /\ delivered \in 0..Len(log) /\ ackFloor \in 0..delivered
      /\ firstSeq <= ackFloor + 1
      /\ pending \subseteq (ackFloor + 1)..delivered
      /\ expired \subseteq pending /\ Len(log) \in Nat
  BY DEF JSTypeOK
<1>3. ackFloor' \in 0..delivered /\ firstSeq <= ackFloor' + 1
  BY <1>1, <1>2
<1>4. \A t \in pending' : t \in (ackFloor' + 1)..delivered
  BY <1>1, <1>2
<1>5. expired' \subseteq pending'
  BY <1>1, <1>2
<1>6. JSTypeOK'
  BY <1>1, <1>2, <1>3, <1>4, <1>5 DEF JSTypeOK
<1> QED
  BY <1>1, <1>6

\* The last sequence is the largest one that the process has taken.
LEMMA LastIsNewest ==
    ASSUME TypeInv, Stitch
    PROVE  /\ lastStreamSequence' \in batch \cup {lastStreamSequence}
           /\ lastStreamSequence' \in 0..delivered
           /\ \A k \in batch \cup {lastStreamSequence} : k <= lastStreamSequence'
<1> DEFINE S == batch \cup {lastStreamSequence}
<1>1. lastStreamSequence' = Max(S)
  BY DEF Stitch
<1>2. S \in SUBSET (0..delivered) /\ S # {} /\ delivered \in Nat
  BY DEF TypeInv, TypeOK, JSTypeOK, Sequences
<1>3. IsFiniteSet(0..delivered)
  BY <1>2, FS_Interval
<1> HIDE DEF S
<1>4. IsFiniteSet(S)
  BY <1>2, <1>3, FS_Subset, Zenon
<1>5. S \in SUBSET Nat
  BY <1>2
<1>6. Max(S) \in S /\ \A k \in S : k <= Max(S)
  BY <1>2, <1>4, <1>5, MaxIsGreatest
<1> QED
  BY <1>1, <1>2, <1>6 DEF S

-----------------------------------------------------------------------------
(***************************************************************************)
(* Types.                                                                  *)
(***************************************************************************)
LEMMA TypeInit == Init => TypeInv
BY StitchingAssumption, JetStreamAssumption, SourceAssumption, IngestionAssumption
   DEF Init, JSInit, SrcInit, TypeInv, TypeOK, JSTypeOK, SrcTypeOK, FromStream,
       Idle, Sequences, DistinctSequences

LEMMA TypeStep == TypeInv /\ [Next]_vars => TypeInv'
<1> SUFFICES ASSUME TypeInv, [Next]_vars PROVE TypeInv'
  OBVIOUS
<1> USE StitchingAssumption, JetStreamAssumption, SourceAssumption, IngestionAssumption
<1>1. CASE Publish
  <2>1. wal \in Seq(Message) /\ wal[sent + 1] \in Message
    BY <1>1 DEF TypeInv, TypeOK, SrcTypeOK, Publish, SrcSend, SrcUnsent
  <2>2. /\ log' \in Seq(Message)
        /\ Len(log') = Len(log) + 1
        /\ \A s \in 1..Len(log) : log'[s] = log[s]
    BY <1>1, <2>1 DEF TypeInv, TypeOK, JSTypeOK, Publish, JSPublish
  <2>3. JSTypeOK'
    BY <1>1, <2>2 DEF TypeInv, TypeOK, JSTypeOK, Publish, JSPublish
  <2>4. SrcTypeOK'
    BY <1>1 DEF TypeInv, TypeOK, SrcTypeOK, Publish, SrcSend, SrcUnsent
  <2>5. TypeOK'
    BY <1>1, <2>3, <2>4 DEF TypeInv, TypeOK, Publish, JSPublish, loopVars, Sequences
  <2>6. \A s \in Sequences : log'[s] = log[s]
    BY <2>2 DEF TypeInv, TypeOK, JSTypeOK, Sequences
  <2>7. FromStream' /\ Idle'
    BY <1>1, <2>6 DEF TypeInv, FromStream, Idle, Publish, JSPublish, loopVars, Sequences
  <2> QED BY <2>5, <2>7 DEF TypeInv
<1>2. CASE Flush
  BY <1>2 DEF TypeInv, TypeOK, JSTypeOK, SrcTypeOK, FromStream, Idle, Sequences,
              Flush, SrcFlush, jsVars, loopVars
<1>3. CASE Replay
  BY <1>3 DEF TypeInv, TypeOK, JSTypeOK, SrcTypeOK, FromStream, Idle, Sequences,
              Replay, SrcRestart, jsVars, loopVars
<1>4. CASE Expire
  BY <1>4 DEF TypeInv, TypeOK, JSTypeOK, SrcTypeOK, FromStream, Idle, Sequences,
              Expire, JSExpire, srcVars, loopVars
<1>5. CASE Start
  BY <1>5 DEF TypeInv, TypeOK, JSTypeOK, SrcTypeOK, FromStream, Idle, Sequences,
              Start, jsVars, srcVars, loopVars
<1>6. CASE Crash
  BY <1>6 DEF TypeInv, TypeOK, JSTypeOK, SrcTypeOK, FromStream, Idle, Sequences,
              Crash, Die, jsVars, srcVars, DistinctSequences
<1>7. CASE ParseFails
  BY <1>7 DEF TypeInv, TypeOK, JSTypeOK, SrcTypeOK, FromStream, Idle, Sequences,
              ParseFails, Die, jsVars, srcVars, DistinctSequences
<1>8. CASE ReceiveNew
  BY <1>8 DEF TypeInv, TypeOK, JSTypeOK, SrcTypeOK, FromStream, Idle, Sequences,
              ReceiveNew, JSDeliverNew, IsNext, CanReceive, Accumulate, srcVars
<1>9. CASE ReceiveRedelivered
  BY <1>9 DEF TypeInv, TypeOK, JSTypeOK, SrcTypeOK, FromStream, Idle, Sequences,
              ReceiveRedelivered, JSRedeliver, CanReceive, Accumulate, srcVars
<1>10. CASE LoseDelivery
  <2>1. /\ pc = "fetching"
        /\ UNCHANGED <<srcVars, pc, loopVars, changes, crashes>>
    BY <1>10 DEF LoseDelivery, CanReceive
  <2>2. CASE \E s \in 1..Len(log) : JSDeliverNew(s)
    BY <2>1, <2>2 DEF TypeInv, TypeOK, JSTypeOK, SrcTypeOK, FromStream, Idle, Sequences,
                      JSDeliverNew, IsNext, srcVars, loopVars
  <2>3. CASE \E s \in expired : JSRedeliver(s)
    BY <2>1, <2>3 DEF TypeInv, TypeOK, JSTypeOK, SrcTypeOK, FromStream, Idle, Sequences,
                      JSRedeliver, srcVars, loopVars
  <2> QED BY <1>10, <2>2, <2>3 DEF LoseDelivery
<1>11. CASE Stitch
  <2> DEFINE recs == fetchedRecordBuffer \cup FetchedRecords
             result == StitchFetchedRecords(recs, Order(recs))
  <2>1. /\ WellFormed(recs, {Subject})
        /\ Order(recs) \in Seq({Subject})
        /\ \A r \in recs : /\ r.seq \in Sequences
                           /\ r = FromNatsMessage(log[r.seq], r.seq, Subject)
    BY StitchInput
  <2>2. recs \subseteq Record
    BY <2>1 DEF WellFormed, Record
  <2>3. /\ result.buffer \subseteq recs
        /\ result.stitched \subseteq Record
        /\ DistinctSequences(result.stitched)
        /\ \A r \in result.stitched : \E q \in recs : r.seq = q.seq /\ r.pos = q.pos
        /\ result.ack \in Nat
    <3> HIDE DEF recs
    <3> QED BY <2>1, StitchingResult DEF Record
  <2>4. /\ fetchedRecordBuffer' = result.buffer
        /\ keptFetchedRecords' = {r \in result.stitched : ~IsEmptyChange(r)}
        /\ ackStreamSequence' = result.ack
        /\ lastStreamSequence' = Max(batch \cup {lastStreamSequence})
        /\ pc' = "persisting"
        /\ UNCHANGED <<jsVars, srcVars, batch, fetched, acking, releasable, changes,
                       crashes>>
    BY <1>11 DEF Stitch
  <2>5. lastStreamSequence' \in 0..delivered
    BY <1>11, LastIsNewest
  <2> HIDE DEF result
  <2>6. TypeOK'
    BY <2>2, <2>3, <2>4, <2>5 DEF TypeInv, TypeOK, JSTypeOK, SrcTypeOK, Sequences,
                                  jsVars, srcVars
  <2>7. \A r \in result.stitched : r.seq \in Sequences /\ r.pos = log[r.seq].pos
    <3> TAKE r \in result.stitched
    <3>1. PICK q \in recs : r.seq = q.seq /\ r.pos = q.pos
      BY <2>3
    <3> QED BY <2>1, <3>1 DEF FromNatsMessage
  <2>8. FromStream'
    BY <2>1, <2>3, <2>4, <2>7 DEF FromStream, Sequences, jsVars, DistinctSequences
  <2>9. Idle'
    BY <2>4 DEF Idle
  <2> QED BY <2>6, <2>8, <2>9 DEF TypeInv
<1>12. CASE Persist
  <2>1. Chunk \subseteq keptFetchedRecords
    BY DEF Chunk
  <2>2. Chunk \subseteq Record /\ DistinctSequences(Chunk)
    BY <2>1 DEF TypeInv, TypeOK, FromStream, DistinctSequences
  <2>3. Inserted(Chunk) \subseteq [pos : Nat \ {0}, ctx : Nat]
    BY <2>2, FirstAtExists DEF Inserted, Record, RecordOf
  <2>4. TypeOK'
    BY <1>12, <2>3 DEF TypeInv, TypeOK, JSTypeOK, SrcTypeOK, Sequences, Persist,
                       jsVars, srcVars
  <2>5. FromStream' /\ Idle'
    BY <1>12 DEF TypeInv, FromStream, Idle, Persist, jsVars, Sequences,
                 DistinctSequences
  <2> QED BY <2>4, <2>5 DEF TypeInv
<1>13. CASE Ack
  BY <1>13 DEF TypeInv, TypeOK, JSTypeOK, SrcTypeOK, FromStream, Idle, Sequences,
               Ack, Acks, AllPersisted, jsVars, srcVars
<1>14. CASE AckArrives
  <2>1. /\ JSAckAll(acking) /\ acking \in 1..delivered /\ acking' = 0
        /\ UNCHANGED <<log, delivered, srcVars, pc, lastStreamSequence,
                       fetchedRecordBuffer, batch, fetched, keptFetchedRecords,
                       ackStreamSequence, releasable, changes, crashes>>
    BY <1>14 DEF AckArrives, JSAckAll, TypeInv, TypeOK
  <2>2. JSTypeOK' /\ ackFloor' >= ackFloor
    <3>1. JSTypeOK'
      BY <2>1, AckAllEffect DEF TypeInv, TypeOK
    <3> QED BY <2>1, <3>1 DEF JSAckAll, TypeInv, TypeOK, JSTypeOK
  <2>3. releasable' \in 0..ackFloor'
    BY <2>1, <2>2 DEF TypeInv, TypeOK, JSTypeOK
  <2>4. TypeOK'
    <3>1. SrcTypeOK'
      BY <2>1 DEF TypeInv, TypeOK, SrcTypeOK, srcVars
    <3>2. delivered \in Nat
      BY DEF TypeInv, TypeOK, JSTypeOK
    <3> QED BY <2>1, <2>2, <2>3, <3>1, <3>2 DEF TypeInv, TypeOK, Sequences
  <2>5. FromStream' /\ Idle'
    BY <2>1 DEF TypeInv, FromStream, Idle, Sequences
  <2> QED BY <2>4, <2>5 DEF TypeInv
<1>15. CASE LoseAck
  BY <1>15 DEF TypeInv, TypeOK, JSTypeOK, SrcTypeOK, FromStream, Idle, Sequences,
               LoseAck, jsVars, srcVars
<1>16. CASE ReadFloor
  BY <1>16 DEF TypeInv, TypeOK, JSTypeOK, SrcTypeOK, FromStream, Idle, Sequences,
               ReadFloor, jsVars, srcVars
<1>17. CASE Release
  <2>1. /\ EndTurn /\ pc = "purging"
        /\ UNCHANGED <<log, delivered, pending, expired, ackFloor>>
        /\ firstSeq' \in {firstSeq, releasable + 1}
    BY <1>17 DEF Release, JSPurge, jsVars
  <2>2. JSTypeOK'
    BY <2>1 DEF TypeInv, TypeOK, JSTypeOK
  <2>3. TypeOK'
    BY <2>1, <2>2 DEF TypeInv, TypeOK, JSTypeOK, SrcTypeOK, Sequences, EndTurn, srcVars
  <2>4. FromStream' /\ Idle'
    BY <2>1 DEF TypeInv, FromStream, Idle, Sequences, EndTurn
  <2> QED BY <2>3, <2>4 DEF TypeInv
<1>18. CASE ReleaseFails \/ NothingToRelease
  <2>1. EndTurn /\ UNCHANGED jsVars
    BY <1>18 DEF ReleaseFails, NothingToRelease
  <2>2. TypeOK'
    BY <2>1 DEF TypeInv, TypeOK, JSTypeOK, SrcTypeOK, Sequences, EndTurn, jsVars,
                srcVars
  <2>3. FromStream' /\ Idle'
    BY <1>18, <2>1 DEF TypeInv, FromStream, Idle, Sequences, EndTurn, ReleaseFails,
                       NothingToRelease, jsVars
  <2> QED BY <2>2, <2>3 DEF TypeInv
<1>19. CASE UNCHANGED vars
  BY <1>19 DEF TypeInv, TypeOK, JSTypeOK, SrcTypeOK, FromStream, Idle, Sequences,
               vars, jsVars, srcVars, loopVars
<1> QED
  BY <1>1, <1>2, <1>3, <1>4, <1>5, <1>6, <1>7, <1>8, <1>9, <1>10, <1>11, <1>12, <1>13,
     <1>14, <1>15, <1>16, <1>17, <1>18, <1>19 DEF Next

LEMMA TypeInvariant == Spec => []TypeInv
BY TypeInit, TypeStep, PTL DEF Spec

\* Every variable keeps to its type, whatever the constants.
THEOREM TypeCorrect == Spec => []TypeOK
<1>1. TypeInv => TypeOK
  BY DEF TypeInv
<1> QED
  BY <1>1, TypeInvariant, PTL

-----------------------------------------------------------------------------
(***************************************************************************)
(* What is held in memory is not acknowledged.  It was above the floor     *)
(* when it was fetched, and what a turn acknowledges is below what it      *)
(* holds.  An acknowledgement still on the wire is at most the last        *)
(* sequence, and a fetch takes nothing below that, so it is also below     *)
(* what later turns take.                                                  *)
(***************************************************************************)
Unacked ==
    /\ BufferedUnacked
    /\ \A r \in fetchedRecordBuffer : acking < r.seq
    /\ pc = "fetching" => \A s \in batch : s > ackFloor /\ s > acking
    /\ pc = "persisting" => \A r \in fetchedRecordBuffer : ackStreamSequence < r.seq
    /\ acking <= lastStreamSequence
    /\ pc # "fetching" => \A s \in batch : s <= lastStreamSequence

\* What the invariant says of types and of the stream, for the steps below.
LEMMA TypeFacts ==
    ASSUME TypeInv
    PROVE  /\ log \in Seq(Message) /\ Len(log) \in Nat
           /\ delivered \in 0..Len(log) /\ ackFloor \in 0..delivered
           /\ firstSeq \in 1..(Len(log) + 1) /\ firstSeq <= ackFloor + 1
           /\ pending \subseteq (ackFloor + 1)..delivered
           /\ expired \subseteq pending
           /\ batch \subseteq 1..delivered
           /\ lastStreamSequence \in 0..delivered
           /\ \A r \in fetchedRecordBuffer : r.seq \in 1..delivered
           /\ \A r \in keptFetchedRecords : r.seq \in 1..delivered
           /\ ackStreamSequence \in Nat
           /\ acking \in 0..delivered /\ releasable \in 0..ackFloor
BY DEF TypeInv, TypeOK, JSTypeOK, FromStream, Sequences

\* Every step preserves it; Receive, Stitch and Ack are the ones to look at.
LEMMA UnackedStep ==
    ASSUME TypeInv, Unacked, [Next]_vars
    PROVE  Unacked'
<1>1. CASE Publish \/ Flush \/ Replay \/ Expire \/ UNCHANGED vars
  <2>1. UNCHANGED <<pc, loopVars, ackFloor>>
    BY <1>1 DEF Publish, Flush, Replay, Expire, JSPublish, JSExpire, jsVars, vars
  <2> QED BY <2>1 DEF Unacked, BufferedUnacked, loopVars
<1>2. CASE Start
  <2>1. /\ fetchedRecordBuffer' = {} /\ batch' = {} /\ pc' = "fetching"
        /\ UNCHANGED <<acking, lastStreamSequence>>
    BY <1>2 DEF Start, loopVars, TypeInv, Idle
  <2> QED BY <2>1 DEF Unacked, BufferedUnacked
<1>3. CASE Crash \/ ParseFails
  <2>1. /\ fetchedRecordBuffer' = {} /\ batch' = {} /\ pc' = "down"
        /\ acking' = 0 /\ lastStreamSequence' = 0
    BY <1>3 DEF Crash, ParseFails, Die
  <2> QED BY <2>1 DEF Unacked, BufferedUnacked
<1>4. CASE ReceiveNew \/ ReceiveRedelivered
  <2>1. PICK s \in Nat \ {0} :
            /\ s > ackFloor
            /\ Accumulate(s)
            /\ ackFloor' = ackFloor /\ pc = "fetching"
    BY <1>4, TypeFacts DEF ReceiveNew, ReceiveRedelivered, JSDeliverNew, IsNext,
                           JSRedeliver, CanReceive
  <2>2. /\ batch' \subseteq batch \cup {s}
        /\ s \in batch' \ batch => IsNew(s)
        /\ UNCHANGED <<pc, fetchedRecordBuffer, acking, lastStreamSequence>>
    BY <2>1 DEF Accumulate
  <2>3. IsNew(s) => s > acking
    BY <2>1, TypeFacts DEF IsNew, Unacked
  <2> QED BY <2>1, <2>2, <2>3 DEF Unacked, BufferedUnacked
<1>5. CASE LoseDelivery
  <2>1. UNCHANGED <<pc, loopVars, ackFloor>>
    BY <1>5 DEF LoseDelivery, JSDeliverNew, JSRedeliver
  <2> QED BY <2>1 DEF Unacked, BufferedUnacked, loopVars
<1>6. CASE Stitch
  <2> DEFINE recs == fetchedRecordBuffer \cup FetchedRecords
             result == StitchFetchedRecords(recs, Order(recs))
  <2>1. /\ pc = "fetching" /\ pc' = "persisting"
        /\ fetchedRecordBuffer' = result.buffer
        /\ ackStreamSequence' = result.ack
        /\ UNCHANGED <<ackFloor, acking, batch>>
    BY <1>6 DEF Stitch, jsVars
  <2>2. result.buffer \subseteq recs /\ \A r \in result.buffer : result.ack < r.seq
    <3>1. WellFormed(recs, {Subject}) /\ Order(recs) \in Seq({Subject})
      BY StitchInput
    <3> HIDE DEF recs
    <3> QED BY <3>1, StitchingResult
  <2>3. \A r \in FetchedRecords : r.seq \in batch
    BY DEF FetchedRecords, FromNatsMessage
  <2>4. \A r \in recs : r.seq > ackFloor /\ acking < r.seq
    BY <2>1, <2>3, TypeFacts DEF Unacked, BufferedUnacked
  <2>5. /\ \A s \in batch : s <= lastStreamSequence'
        /\ acking <= lastStreamSequence'
    <3>1. lastStreamSequence <= lastStreamSequence' /\ lastStreamSequence' \in Nat
      BY <1>6, LastIsNewest, TypeFacts
    <3>2. \A s \in batch : s <= lastStreamSequence'
      BY <1>6, LastIsNewest
    <3> QED BY <3>1, <3>2, TypeFacts DEF Unacked
  <2> HIDE DEF recs, result
  <2> QED BY <2>1, <2>2, <2>4, <2>5 DEF Unacked, BufferedUnacked
<1>7. CASE Persist
  <2>1. UNCHANGED <<pc, fetchedRecordBuffer, batch, ackStreamSequence, ackFloor,
                    acking, lastStreamSequence>>
    BY <1>7 DEF Persist, jsVars
  <2> QED BY <2>1 DEF Unacked, BufferedUnacked
<1>8. CASE Ack
  <2>1. /\ pc = "persisting" /\ pc' = "releasing"
        /\ UNCHANGED <<fetchedRecordBuffer, batch, ackFloor, lastStreamSequence>>
        /\ acking' = acking \/ (Acks /\ acking' = ackStreamSequence)
    BY <1>8 DEF Ack, AllPersisted, jsVars
  <2>2. Acks => ackStreamSequence <= lastStreamSequence
    BY <2>1 DEF Acks, Unacked
  <2> QED BY <2>1, <2>2 DEF Unacked, BufferedUnacked
<1>9. CASE AckArrives
  <2>1. /\ JSAckAll(acking) /\ acking \in 1..delivered /\ acking' = 0
        /\ UNCHANGED <<pc, fetchedRecordBuffer, batch, ackStreamSequence,
                       lastStreamSequence>>
    BY <1>9, TypeFacts DEF AckArrives
  <2>2. ackFloor' \in {ackFloor, acking}
    BY <2>1, AckAllEffect DEF TypeInv, TypeOK
  <2>3. \A r \in fetchedRecordBuffer : r.seq > ackFloor' /\ r.seq > 0
    BY <2>2, TypeFacts DEF Unacked, BufferedUnacked
  <2>4. pc = "fetching" => \A s \in batch : s > ackFloor' /\ s > 0
    BY <2>2, TypeFacts DEF Unacked
  <2> QED BY <2>1, <2>3, <2>4, TypeFacts DEF Unacked, BufferedUnacked
<1>10. CASE LoseAck
  <2>1. /\ acking' = 0
        /\ UNCHANGED <<pc, fetchedRecordBuffer, batch, ackStreamSequence, ackFloor,
                       lastStreamSequence>>
    BY <1>10 DEF LoseAck, jsVars
  <2> QED BY <2>1, TypeFacts DEF Unacked, BufferedUnacked
<1>11. CASE ReadFloor
  <2>1. /\ pc' = "purging" /\ pc = "releasing"
        /\ UNCHANGED <<fetchedRecordBuffer, batch, ackFloor, acking,
                       lastStreamSequence>>
    BY <1>11 DEF ReadFloor, jsVars
  <2> QED BY <2>1 DEF Unacked, BufferedUnacked
<1>12. CASE Release \/ ReleaseFails \/ NothingToRelease
  <2>1. /\ batch' = {} /\ pc' = "fetching"
        /\ UNCHANGED <<fetchedRecordBuffer, ackFloor, acking, lastStreamSequence>>
    BY <1>12 DEF Release, ReleaseFails, NothingToRelease, EndTurn, JSPurge, jsVars
  <2> QED BY <2>1 DEF Unacked, BufferedUnacked
<1> QED
  BY <1>1, <1>2, <1>3, <1>4, <1>5, <1>6, <1>7, <1>8, <1>9, <1>10, <1>11, <1>12 DEF Next

LEMMA UnackedInvariant == Spec => []Unacked
<1>1. Init => Unacked
  BY DEF Init, Unacked, BufferedUnacked
<1>2. TypeInv /\ Unacked /\ [Next]_vars => Unacked'
  BY UnackedStep
<1> QED
  BY <1>1, <1>2, TypeInvariant, PTL DEF Spec

\* Nothing that only the process remembers is acknowledged, whatever is lost,
\* delivered again or restarted, with or without useBuffer.
THEOREM HeldRecordsStay == Spec => []BufferedUnacked
<1>1. Unacked => BufferedUnacked
  BY DEF Unacked
<1> QED
  BY <1>1, UnackedInvariant, PTL

-----------------------------------------------------------------------------
(***************************************************************************)
(* What is acknowledged is durable.  Two assumptions are needed, and TLC   *)
(* finds it violated without either: with them, the messages come to a new *)
(* process in stream order from the first pending one, so none is passed   *)
(* over.                                                                   *)
(***************************************************************************)
\* Whatever the consumer reads and was delivered is acknowledged or pending.
Tracked == \A s \in (ackFloor + 1)..delivered : Matches(s) => s \in pending

\* What an acknowledgement on the wire acknowledges is durable as well.
AckingIsDurable ==
    \A s \in 1..acking : Owed(log[s]) => log[s].pos \in Positions

Durable == Tracked /\ Accounted /\ AckedIsDurable /\ AckingIsDurable

\* A step that leaves all this alone, or only adds messages or rows, and for
\* which an owed message stays accounted for, preserves the invariant.
LEMMA DurableFrame ==
    ASSUME TypeInv, Durable, [Next]_vars,
           delivered' = delivered, ackFloor' = ackFloor, pending' = pending,
           changes \subseteq changes', Accounted', acking' \in {0, acking},
           \A s \in 1..Len(log) : log'[s] = log[s]
    PROVE  Durable'
<1>1. Positions \subseteq Positions'
  BY DEF Positions
<1>2. \A s \in 1..delivered : s \in 1..Len(log)
  BY TypeFacts
<1>3. Tracked'
  BY <1>2, TypeFacts DEF Durable, Tracked, Matches
<1>4. AckedIsDurable'
  BY <1>1, <1>2, TypeFacts DEF Durable, AckedIsDurable
<1>5. AckingIsDurable'
  BY <1>1, <1>2, TypeFacts DEF Durable, AckingIsDurable
<1> QED
  BY <1>3, <1>4, <1>5 DEF Durable

\* An owed message passes the consumer's filter and the prefix check, is
\* neither a context nor a heartbeat, and is not dropped as an empty change.
LEMMA OwedIsKept ==
    ASSUME NEW s, Owed(log[s])
    PROVE  /\ Matches(s)
           /\ ~IsIgnored(log[s])
           /\ \A r : r.kind = log[s].kind => /\ ~IsHeartbeatMessage(r)
                                             /\ ~IsContextMessage(r)
                                             /\ ~IsEmptyChange(r)
BY DEF Owed, OwedKinds, Matches, IsIgnored, IsHeartbeatMessage, IsContextMessage,
       IsEmptyChange

\* Stitching keeps every owed message that it is given in memory.
LEMMA StitchKeepsOwed ==
    ASSUME TypeInv, Stitch, NEW s \in batch \cup {r.seq : r \in fetchedRecordBuffer},
           Owed(log[s])
    PROVE  InMemory(s)'
<1> DEFINE recs == fetchedRecordBuffer \cup FetchedRecords
           result == StitchFetchedRecords(recs, Order(recs))
<1>1. WellFormed(recs, {Subject}) /\ \A q \in recs :
          q = FromNatsMessage(log[q.seq], q.seq, Subject)
  BY StitchInput
<1>2. PICK r \in recs : r.seq = s
  <2>1. CASE s \in batch
    <3>1. FromNatsMessage(log[s], s, Subject) \in FetchedRecords
      BY <2>1, OwedIsKept DEF FetchedRecords
    <3>2. FromNatsMessage(log[s], s, Subject).seq = s
      BY DEF FromNatsMessage
    <3> QED BY <3>1, <3>2
  <2>2. CASE s \in {q.seq : q \in fetchedRecordBuffer}
    BY <2>2
  <2> QED BY <2>1, <2>2
<1>3. r.kind = log[s].kind
  BY <1>1, <1>2 DEF FromNatsMessage
<1>4. /\ fetchedRecordBuffer' = result.buffer
      /\ keptFetchedRecords' = {q \in result.stitched : ~IsEmptyChange(q)}
  BY DEF Stitch
<1>5. \/ r \in result.buffer
      \/ \E q \in result.stitched : q.seq = r.seq /\ q.kind = r.kind
  <2>1. /\ recs \in SUBSET RecordOf({Subject})
        /\ ~IsHeartbeatMessage(r) /\ ~IsContextMessage(r)
    BY <1>1, <1>3, OwedIsKept DEF WellFormed
  <2> HIDE DEF recs
  <2> QED BY <2>1, SavedOrHeld
<1> HIDE DEF result
<1>6. CASE r \in result.buffer
  BY <1>2, <1>4, <1>6 DEF InMemory
<1>7. CASE \E q \in result.stitched : q.seq = r.seq /\ q.kind = r.kind
  <2>1. PICK q \in result.stitched : q.seq = s /\ q.kind = log[s].kind
    BY <1>2, <1>3, <1>7
  <2>2. q \in keptFetchedRecords'
    BY <1>4, <2>1, OwedIsKept
  <2> QED BY <2>1, <2>2 DEF InMemory
<1> QED
  BY <1>5, <1>6, <1>7

\* Every step preserves it.
LEMMA DurableStep ==
    ASSUME ~PromptRestart, ~LossyDelivery, TypeInv, Unacked, Durable, [Next]_vars
    PROVE  Durable'
<1>1. CASE Publish
  <2>1. /\ \A s \in 1..Len(log) : log'[s] = log[s]
        /\ UNCHANGED <<pc, loopVars, delivered, pending, expired, ackFloor, changes>>
    BY <1>1, TypeFacts DEF Publish, JSPublish
  <2>2. UNCHANGED <<lastStreamSequence, fetchedRecordBuffer, batch,
                    keptFetchedRecords, acking, Positions>>
    BY <2>1 DEF loopVars, Positions
  <2>3. \A s \in pending : log'[s] = log[s]
    BY <2>1, TypeFacts
  <2>4. Accounted'
    BY <2>1, <2>2, <2>3 DEF Durable, Accounted, InMemory, InFetch, StillDue
  <2> QED BY <2>1, <2>2, <2>4, DurableFrame
<1>2. CASE Flush \/ Replay \/ UNCHANGED vars
  <2>1. UNCHANGED <<pc, loopVars, jsVars, changes>>
    BY <1>2 DEF Flush, Replay, vars
  <2>2. Accounted'
    BY <2>1 DEF Durable, Accounted, Positions, InMemory, InFetch, StillDue,
                loopVars, jsVars
  <2> QED BY <2>1, <2>2, DurableFrame DEF jsVars, loopVars
<1>3. CASE Expire
  <2>1. /\ expired \subseteq expired'
        /\ UNCHANGED <<pc, loopVars, log, delivered, pending, ackFloor, changes>>
    BY <1>3 DEF Expire, JSExpire
  <2>2. Accounted'
    BY <2>1 DEF Durable, Accounted, Positions, InMemory, InFetch, StillDue, loopVars
  <2> QED BY <2>1, <2>2, DurableFrame DEF loopVars
<1>4. CASE Start
  <2>1. /\ pending \subseteq expired
        /\ lastStreamSequence = 0 /\ batch = {}
        /\ UNCHANGED <<loopVars, jsVars, changes>>
    BY <1>4 DEF Start, TypeInv, Idle
  <2>2. \A s \in pending : s > 0
    BY TypeFacts
  <2>3. Accounted'
    BY <2>1, <2>2 DEF Accounted, StillDue, loopVars, jsVars
  <2> QED BY <2>1, <2>3, DurableFrame DEF jsVars, loopVars
<1>5. CASE Crash \/ ParseFails
  <2>1. pc' = "down" /\ acking' = 0 /\ UNCHANGED <<jsVars, changes>>
    BY <1>5 DEF Crash, ParseFails, Die
  <2>2. Accounted'
    BY <2>1 DEF Accounted
  <2> QED BY <2>1, <2>2, DurableFrame DEF jsVars, loopVars
<1>6. CASE ReceiveNew
  <2>1. PICK s \in 1..Len(log) : JSDeliverNew(s) /\ Accumulate(s)
    BY <1>6 DEF ReceiveNew
  <2>2. /\ s \in (delivered + 1)..Len(log)
        /\ \A t \in (delivered + 1)..(s - 1) : ~Matches(t)
        /\ expired = {} /\ expired' = {}
        /\ delivered' = s /\ pending' = pending \cup {s}
        /\ log' = log /\ ackFloor' = ackFloor
    BY <2>1 DEF JSDeliverNew, IsNext
  <2>3. /\ pc = "fetching" /\ pc' = "fetching"
        /\ UNCHANGED <<lastStreamSequence, fetchedRecordBuffer, keptFetchedRecords,
                       acking, changes>>
        /\ batch \subseteq batch' /\ s \in batch'
    BY <1>6, <2>1, <2>2, TypeFacts DEF ReceiveNew, CanReceive, Accumulate, IsNew
  <2>4. Tracked'
    BY <2>2, TypeFacts DEF Durable, Tracked, Matches
  <2>5. Accounted'
    BY <2>2, <2>3 DEF Durable, Accounted, Positions, InMemory, InFetch, StillDue
  <2>6. AckedIsDurable' /\ AckingIsDurable'
    BY <2>2, <2>3 DEF Durable, AckedIsDurable, AckingIsDurable, Positions
  <2> QED BY <2>4, <2>5, <2>6 DEF Durable
<1>7. CASE ReceiveRedelivered
  <2>1. PICK s \in expired : JSRedeliver(s) /\ Accumulate(s)
    BY <1>7 DEF ReceiveRedelivered
  <2>2. /\ \A t \in expired : s <= t
        /\ expired' = expired \ {s}
        /\ UNCHANGED <<log, delivered, pending, ackFloor>>
    BY <2>1 DEF JSRedeliver
  <2>3. /\ pc = "fetching" /\ pc' = "fetching"
        /\ UNCHANGED <<lastStreamSequence, fetchedRecordBuffer, keptFetchedRecords,
                       acking, changes>>
        /\ batch \subseteq batch' /\ batch' \subseteq batch \cup {s}
        /\ s > lastStreamSequence => s \in batch'
    BY <1>7, <2>1 DEF ReceiveRedelivered, CanReceive, Accumulate, IsNew
  <2>4. \A t \in pending : StillDue(t) => InFetch(t)' \/ StillDue(t)'
    <3> SUFFICES ASSUME NEW t \in pending, StillDue(t)
                 PROVE  InFetch(t)' \/ StillDue(t)'
      OBVIOUS
    <3>1. CASE t = s
      BY <2>3, <3>1 DEF StillDue, InFetch
    <3>2. CASE t # s
      <4>1. s < t
        BY <2>2, <3>2, TypeFacts DEF StillDue
      <4> QED BY <2>2, <2>3, <3>2, <4>1 DEF StillDue
    <3> QED BY <3>1, <3>2
  <2>5. Accounted'
    BY <2>2, <2>3, <2>4 DEF Durable, Accounted, Positions, InMemory, InFetch
  <2> QED BY <2>2, <2>3, <2>5, DurableFrame
<1>8. CASE LoseDelivery
  BY <1>8 DEF LoseDelivery
<1>9. CASE Stitch
  <2>1. /\ pc = "fetching" /\ pc' = "persisting"
        /\ keptFetchedRecords = {}
        /\ lastStreamSequence' = Max(batch \cup {lastStreamSequence})
        /\ UNCHANGED <<jsVars, batch, acking, changes>>
    BY <1>9 DEF Stitch, TypeInv, Idle
  <2>2. \A s \in pending : StillDue(s) => StillDue(s)'
    <3> DEFINE S == batch \cup {lastStreamSequence}
    <3>1. lastStreamSequence' \in S
      BY <1>9, LastIsNewest
    <3>2. \A s \in pending : StillDue(s) => \A k \in S : k < s
      BY TypeFacts DEF StillDue
    <3> HIDE DEF S
    <3> QED BY <2>1, <3>1, <3>2, TypeFacts DEF StillDue, jsVars
  <2>3. Accounted'
    <3> SUFFICES ASSUME NEW s \in pending, Owed(log[s]), log[s].pos \notin Positions
                 PROVE  InMemory(s)' \/ StillDue(s)'
      BY <2>1 DEF Accounted, Positions, jsVars
    <3>1. \/ s \in batch \cup {r.seq : r \in fetchedRecordBuffer}
          \/ StillDue(s)
      BY <2>1 DEF Durable, Accounted, InMemory, InFetch
    <3>2. CASE s \in batch \cup {r.seq : r \in fetchedRecordBuffer}
      BY <1>9, <2>1, <3>2, StitchKeepsOwed
    <3> QED BY <2>2, <3>1, <3>2
  <2> QED BY <2>1, <2>3, DurableFrame DEF jsVars, loopVars
<1>10. CASE Persist
  <2>1. /\ pc = "persisting"
        /\ changes' = changes \cup Inserted(Chunk)
        /\ keptFetchedRecords' = keptFetchedRecords \ Chunk
        /\ UNCHANGED <<jsVars, pc, lastStreamSequence, fetchedRecordBuffer, batch,
                       acking>>
    BY <1>10 DEF Persist
  <2>2. Positions \subseteq Positions'
    BY <2>1 DEF Positions
  <2>3. \A r \in Chunk : r.pos \in Positions'
    <3> SUFFICES ASSUME NEW r \in Chunk, r.pos \notin Positions
                 PROVE  r.pos \in Positions'
      BY <2>2
    <3> DEFINE row == [pos |-> r.pos, ctx |-> FirstAt(Chunk, r.pos).ctx]
    <3>1. row \in Inserted(Chunk)
      BY DEF Inserted
    <3>2. row \in changes' /\ row.pos = r.pos
      BY <2>1, <3>1
    <3> HIDE DEF row
    <3> QED BY <3>2, Zenon DEF Positions
  <2>4. Accounted'
    <3> SUFFICES ASSUME NEW s \in pending, Owed(log[s])
                 PROVE  log[s].pos \in Positions' \/ InMemory(s)' \/ StillDue(s)'
      BY <2>1 DEF Accounted, jsVars
    <3>1. log[s].pos \in Positions \/ InMemory(s) \/ StillDue(s)
      BY <2>1 DEF Durable, Accounted, InFetch
    <3>2. CASE InMemory(s)
      <4>1. PICK r \in fetchedRecordBuffer \cup keptFetchedRecords : r.seq = s
        BY <3>2 DEF InMemory
      <4>2. CASE r \in Chunk
        <5>1. r \in keptFetchedRecords
          BY <4>2 DEF Chunk
        <5> QED BY <2>3, <4>1, <4>2, <5>1 DEF TypeInv, FromStream
      <4>3. CASE r \notin Chunk
        BY <2>1, <4>1, <4>3 DEF InMemory
      <4> QED BY <4>2, <4>3
    <3>3. CASE StillDue(s)
      BY <2>1, <3>3 DEF StillDue, jsVars
    <3> QED BY <2>2, <3>1, <3>2, <3>3
  <2> QED BY <2>1, <2>4, DurableFrame DEF jsVars, loopVars
<1>11. CASE Ack
  <2>1. /\ pc = "persisting" /\ pc' = "releasing"
        /\ keptFetchedRecords = {}
        /\ UNCHANGED <<jsVars, changes, lastStreamSequence, fetchedRecordBuffer, batch,
                       keptFetchedRecords>>
    BY <1>11 DEF Ack, AllPersisted
  <2>2. Accounted'
    BY <2>1 DEF Durable, Accounted, Positions, InMemory, InFetch, StillDue, jsVars
  <2>3. CASE ~Acks
    BY <1>11, <2>1, <2>2, <2>3, DurableFrame DEF Ack, jsVars
  <2>4. CASE Acks
    <3> DEFINE a == ackStreamSequence
    <3>1. a \in batch /\ a \in 1..delivered /\ acking' = a
      BY <1>11, <2>4, TypeFacts DEF Ack, Acks
    <3>2. Tracked' /\ AckedIsDurable'
      BY <2>1 DEF Durable, Tracked, Matches, AckedIsDurable, Positions, jsVars
    <3>3. AckingIsDurable'
      <4> SUFFICES ASSUME NEW s \in 1..a, Owed(log[s])
                   PROVE  log[s].pos \in Positions
        BY <2>1, <3>1 DEF AckingIsDurable, Positions, jsVars
      <4>1. CASE s <= ackFloor
        BY <4>1, TypeFacts DEF Durable, AckedIsDurable
      <4>2. CASE s > ackFloor
        <5>1. s <= a /\ s \in (ackFloor + 1)..delivered
          BY <3>1, <4>2, TypeFacts
        <5>2. s \in pending
          BY <5>1, OwedIsKept DEF Durable, Tracked
        <5>3. ~InMemory(s)
          BY <2>1, <5>1, TypeFacts DEF InMemory, Unacked
        <5>4. ~InFetch(s) /\ ~StillDue(s)
          BY <2>1, <3>1, <5>1, TypeFacts DEF InFetch, StillDue
        <5> QED BY <2>1, <5>2, <5>3, <5>4 DEF Durable, Accounted
      <4> QED BY <3>1, <4>1, <4>2, TypeFacts
    <3> QED BY <2>2, <3>2, <3>3 DEF Durable
  <2> QED BY <2>3, <2>4
<1>12. CASE AckArrives
  <2> DEFINE a == acking
  <2>1. /\ JSAckAll(a) /\ a \in 1..delivered /\ acking' = 0
        /\ UNCHANGED <<pc, changes, lastStreamSequence, fetchedRecordBuffer, batch,
                       keptFetchedRecords>>
    BY <1>12, TypeFacts DEF AckArrives
  <2>2. /\ log' = log /\ delivered' = delivered
        /\ ackFloor' \in {ackFloor, a}
        /\ pending' = {t \in pending : t > a}
        /\ expired' = {t \in expired : t > a}
    BY <2>1, AckAllEffect DEF TypeInv, TypeOK
  <2>3. ackFloor' >= a /\ ackFloor' >= ackFloor
    BY <2>1, TypeFacts DEF JSAckAll
  <2>4. Tracked'
    <3> SUFFICES ASSUME NEW s \in (ackFloor' + 1)..delivered', Matches(s)
                 PROVE  s \in pending'
      BY <2>2 DEF Tracked, Matches
    <3>1. s > a /\ s \in (ackFloor + 1)..delivered
      BY <2>1, <2>2, <2>3, TypeFacts
    <3> QED BY <2>2, <3>1 DEF Durable, Tracked
  <2>5. Accounted'
    BY <2>1, <2>2 DEF Durable, Accounted, Positions, InMemory, InFetch, StillDue
  <2>6. AckedIsDurable'
    <3> SUFFICES ASSUME NEW s \in 1..ackFloor', Owed(log[s])
                 PROVE  log[s].pos \in Positions
      BY <2>1, <2>2 DEF AckedIsDurable, Positions
    <3> QED BY <2>2 DEF Durable, AckedIsDurable, AckingIsDurable
  <2>7. AckingIsDurable'
    BY <2>1 DEF AckingIsDurable
  <2> QED BY <2>4, <2>5, <2>6, <2>7 DEF Durable
<1>13. CASE LoseAck \/ ReadFloor
  <2>1. /\ acking' \in {0, acking}
        /\ pc' = pc \/ (pc = "releasing" /\ pc' = "purging")
        /\ UNCHANGED <<jsVars, changes, lastStreamSequence, fetchedRecordBuffer, batch,
                       keptFetchedRecords>>
    BY <1>13 DEF LoseAck, ReadFloor
  <2>2. Accounted'
    BY <2>1 DEF Durable, Accounted, Positions, InMemory, InFetch, StillDue, jsVars
  <2> QED BY <2>1, <2>2, DurableFrame DEF jsVars
<1>14. CASE Release \/ ReleaseFails \/ NothingToRelease
  <2>1. /\ pc \in {"releasing", "purging"} /\ pc' = "fetching" /\ batch' = {}
        /\ UNCHANGED <<log, delivered, pending, expired, ackFloor, acking, changes,
                       lastStreamSequence, fetchedRecordBuffer, keptFetchedRecords>>
    BY <1>14 DEF Release, ReleaseFails, NothingToRelease, EndTurn, JSPurge, jsVars
  <2>2. Accounted'
    BY <2>1 DEF Durable, Accounted, Positions, InMemory, InFetch, StillDue
  <2> QED BY <2>1, <2>2, DurableFrame
<1> QED
  BY <1>1, <1>2, <1>3, <1>4, <1>5, <1>6, <1>7, <1>8, <1>9, <1>10, <1>11, <1>12,
     <1>13, <1>14 DEF Next

LEMMA DurableInvariant ==
    ASSUME ~PromptRestart, ~LossyDelivery
    PROVE  Spec => []Durable
<1>1. Init => Durable
  BY DEF Init, JSInit, Durable, Tracked, Accounted, AckedIsDurable, AckingIsDurable
<1>2. TypeInv /\ Unacked /\ Durable /\ [Next]_vars => Durable'
  BY DurableStep
<1> QED
  BY <1>1, <1>2, TypeInvariant, UnackedInvariant, PTL DEF Spec

\* A running worker has in hand, or will be handed first, every message that
\* it may still acknowledge.
THEOREM NothingPassedOver ==
    ASSUME ~PromptRestart, ~LossyDelivery
    PROVE  Spec => []Accounted
<1>1. Durable => Accounted
  BY DEF Durable
<1> QED
  BY <1>1, DurableInvariant, PTL

\* No message is acknowledged before its row is written.
THEOREM AckedStaysDurable ==
    ASSUME ~PromptRestart, ~LossyDelivery
    PROVE  Spec => []AckedIsDurable
<1>1. Durable => AckedIsDurable
  BY DEF Durable
<1> QED
  BY <1>1, DurableInvariant, PTL

-----------------------------------------------------------------------------
(***************************************************************************)
(* End to end: from the write-ahead log to the audit table.                *)
(***************************************************************************)
\* What Debezium counts as sent was accepted by the stream.
Published == \A i \in 1..sent : \E s \in 1..Len(log) : log[s] = wal[i]

LEMMA PublishedStep ==
    ASSUME TypeInv, Published, [Next]_vars
    PROVE  Published'
<1>1. CASE Publish
  <2>1. /\ wal' = wal /\ sent' = sent + 1 /\ sent \in Nat
        /\ wal[sent + 1] \in Message
        /\ log' = Append(log, wal[sent + 1])
    BY <1>1, SourceAssumption
       DEF Publish, SrcSend, SrcUnsent, JSPublish, TypeInv, TypeOK, SrcTypeOK
  <2>2. /\ Len(log') = Len(log) + 1 /\ Len(log) \in Nat
        /\ log'[Len(log) + 1] = wal[sent + 1]
        /\ \A s \in 1..Len(log) : log'[s] = log[s]
    BY <2>1, TypeFacts
  <2> SUFFICES ASSUME NEW i \in 1..sent'
               PROVE  \E s \in 1..Len(log') : log'[s] = wal'[i]
    BY DEF Published
  <2>3. CASE i = sent + 1
    <3>1. Len(log) + 1 \in 1..Len(log')
      BY <2>2
    <3> QED BY <2>1, <2>2, <2>3, <3>1
  <2>4. CASE i \in 1..sent
    <3>1. PICK s \in 1..Len(log) : log[s] = wal[i]
      BY <2>4 DEF Published
    <3>2. s \in 1..Len(log') /\ log'[s] = wal'[i]
      BY <2>1, <2>2, <3>1
    <3> QED BY <3>2
  <2> QED BY <2>1, <2>3, <2>4
<1>2. CASE Replay
  <2>1. /\ sent' = flushed /\ flushed \in 0..sent /\ sent \in Nat
        /\ wal' = wal /\ log' = log
    BY <1>2 DEF Replay, SrcRestart, jsVars, TypeInv, TypeOK, SrcTypeOK
  <2>2. \A i \in 1..sent' : i \in 1..sent
    BY <2>1
  <2> QED BY <2>1, <2>2 DEF Published
<1>3. CASE Flush
  BY <1>3 DEF Flush, SrcFlush, jsVars, Published
<1>4. CASE ~Publish /\ ~Replay /\ ~Flush
  <2>1. log' = log /\ sent' = sent /\ wal' = wal
    BY <1>4 DEF Next, Expire, Start, Crash, ReceiveNew, ReceiveRedelivered,
                LoseDelivery, Stitch, ParseFails, Die, Persist, Ack,
                AckArrives, LoseAck, ReadFloor, NothingToRelease, Release,
                ReleaseFails, EndTurn, Accumulate, JSExpire,
                JSDeliverNew, JSRedeliver, JSAckAll, JSPurge,
                jsVars, srcVars, vars
  <2> QED BY <2>1 DEF Published
<1> QED
  BY <1>1, <1>2, <1>3, <1>4

\* A change that Debezium's flushed offset has passed is in the audit table
\* or still in the stream.
THEOREM NoChangeLost ==
    ASSUME ~PromptRestart, ~LossyDelivery
    PROVE  Spec => []NothingLost
<1>1. Init => Published
  BY DEF Init, SrcInit, Published
<1>2. TypeInv /\ Published /\ [Next]_vars => Published'
  BY PublishedStep
<1>3. TypeInv /\ Published /\ Durable => NothingLost
  <2> SUFFICES ASSUME TypeInv, Published, Durable,
                      NEW i \in 1..flushed, Owed(wal[i]), wal[i].pos \notin Positions
               PROVE  \E s \in firstSeq..Len(log) : log[s] = wal[i]
    BY DEF NothingLost
  <2>1. i \in 1..sent
    BY DEF TypeInv, TypeOK, SrcTypeOK
  <2>2. PICK s \in 1..Len(log) : log[s] = wal[i]
    BY <2>1 DEF Published
  <2>3. s \notin 1..ackFloor
    BY <2>2 DEF Durable, AckedIsDurable
  <2>4. s \in firstSeq..Len(log)
    BY <2>3, TypeFacts
  <2> QED BY <2>2, <2>4
<1> QED
  BY <1>1, <1>2, <1>3, TypeInvariant, DurableInvariant, PTL DEF Spec

-----------------------------------------------------------------------------
(***************************************************************************)
(* The context of a change.                                                *)
(***************************************************************************)
\* A row or record carries no context, or one of its own transaction.
Paired(c) ==
    c.ctx # NoContext =>
        \E i, j \in DOMAIN wal :
            /\ wal[i].pos = c.pos
            /\ wal[j].pos = c.ctx
            /\ wal[j].kind = "context"
            /\ wal[i].tx = wal[j].tx

AllPaired ==
    /\ \A s \in 1..Len(log) : \E i \in DOMAIN wal : log[s] = wal[i]
    /\ \A r \in keptFetchedRecords : Paired(r)
    /\ \A c \in changes : Paired(c)

\* Records of any number of turns are stitched by the transaction that their
\* messages were written in.
LEMMA StitchPairs ==
    ASSUME TypeInv, AllPaired, Stitch
    PROVE  \A r \in keptFetchedRecords' : Paired(r)
<1> DEFINE recs == fetchedRecordBuffer \cup FetchedRecords
<1>1. /\ recs \in SUBSET RecordOf({Subject})
      /\ \A q \in recs : /\ q.seq \in 1..Len(log)
                         /\ q = FromNatsMessage(log[q.seq], q.seq, Subject)
  <2>1. /\ WellFormed(recs, {Subject})
        /\ \A q \in recs : /\ q.seq \in Sequences
                           /\ q = FromNatsMessage(log[q.seq], q.seq, Subject)
    BY StitchInput
  <2>2. Sequences \subseteq 1..Len(log)
    BY TypeFacts DEF Sequences
  <2> HIDE DEF recs
  <2> QED BY <2>1, <2>2 DEF WellFormed
<1>2. keptFetchedRecords' \subseteq Stitched(recs)
  BY DEF Stitch, StitchFetchedRecords
<1>3. \A q \in recs : \E i \in DOMAIN wal :
          /\ wal[i].pos = q.pos /\ wal[i].tx = q.tx /\ wal[i].kind = q.kind
          /\ q.ctx = IF IsContextMessage(q) THEN q.pos ELSE NoContext
  <2> TAKE q \in recs
  <2>1. PICK i \in DOMAIN wal : log[q.seq] = wal[i]
    BY <1>1 DEF AllPaired
  <2>2. /\ q.pos = wal[i].pos /\ q.tx = wal[i].tx /\ q.kind = wal[i].kind
        /\ q.ctx = IF wal[i].kind = "context" THEN wal[i].pos ELSE NoContext
    <3>1. q = FromNatsMessage(wal[i], q.seq, Subject)
      BY <1>1, <2>1
    <3> HIDE DEF recs
    <3> QED BY <3>1 DEF FromNatsMessage
  <2> QED BY <2>2 DEF IsContextMessage
<1> HIDE DEF recs
<1> SUFFICES ASSUME NEW r \in Stitched(recs), r.ctx # NoContext
             PROVE  \E i, j \in DOMAIN wal :
                        /\ wal[i].pos = r.pos
                        /\ wal[j].pos = r.ctx
                        /\ wal[j].kind = "context"
                        /\ wal[i].tx = wal[j].tx
  BY <1>2 DEF Paired
<1>4. PICK q \in Savable(recs) :
          /\ r.pos = q.pos
          /\ \/ r.ctx = q.ctx
             \/ \E c \in recs : /\ IsContextMessage(c)
                                /\ c.tx = q.tx
                                /\ r.ctx = c.ctx
  BY <1>1, ContextOfTransaction
<1>5. q \in recs /\ ~IsContextMessage(q)
  BY DEF Savable
<1>6. PICK c \in recs : IsContextMessage(c) /\ c.tx = q.tx /\ r.ctx = c.ctx
  BY <1>3, <1>4, <1>5
<1>7. PICK i \in DOMAIN wal : wal[i].pos = q.pos /\ wal[i].tx = q.tx
  BY <1>3, <1>5
<1>8. PICK j \in DOMAIN wal : /\ wal[j].pos = c.pos /\ wal[j].tx = c.tx
                              /\ wal[j].kind = c.kind /\ c.ctx = c.pos
  BY <1>3, <1>6
<1> QED
  BY <1>4, <1>6, <1>7, <1>8 DEF IsContextMessage

LEMMA AllPairedStep ==
    ASSUME TypeInv, AllPaired, [Next]_vars
    PROVE  AllPaired'
<1>1. wal' = wal
  BY DEF Next, Publish, Flush, Replay, Expire, Start, Crash, ReceiveNew,
         ReceiveRedelivered, LoseDelivery, Stitch, ParseFails, Die, Persist, Ack,
         AckArrives, LoseAck, ReadFloor, NothingToRelease, Release, ReleaseFails,
         EndTurn, Accumulate, SrcSend, SrcFlush,
         SrcRestart, srcVars, vars
<1>2. CASE Publish
  <2>1. /\ sent + 1 \in DOMAIN wal /\ wal[sent + 1] \in Message
        /\ log' = Append(log, wal[sent + 1])
        /\ UNCHANGED <<keptFetchedRecords, changes>>
    BY <1>2, SourceAssumption
       DEF Publish, SrcSend, SrcUnsent, JSPublish, TypeInv, TypeOK, SrcTypeOK, loopVars
  <2>2. \A s \in 1..Len(log') :
            log'[s] = wal[sent + 1] \/ (s \in 1..Len(log) /\ log'[s] = log[s])
    BY <2>1, TypeFacts
  <2>3. \A s \in 1..Len(log') : \E i \in DOMAIN wal' : log'[s] = wal'[i]
    <3> TAKE s \in 1..Len(log')
    <3>1. CASE log'[s] = wal[sent + 1]
      BY <1>1, <2>1, <3>1
    <3>2. CASE s \in 1..Len(log) /\ log'[s] = log[s]
      BY <1>1, <3>2 DEF AllPaired
    <3> QED BY <2>2, <3>1, <3>2
  <2> QED BY <1>1, <2>1, <2>3 DEF AllPaired, Paired
<1>3. CASE Stitch
  <2>1. UNCHANGED <<log, changes>>
    BY <1>3 DEF Stitch, jsVars
  <2>2. \A r \in keptFetchedRecords' : Paired(r)
    BY <1>3, StitchPairs
  <2> QED BY <1>1, <2>1, <2>2 DEF AllPaired, Paired
<1>4. CASE Persist
  <2>1. /\ Chunk \subseteq keptFetchedRecords
        /\ keptFetchedRecords' \subseteq keptFetchedRecords
        /\ changes' = changes \cup Inserted(Chunk)
        /\ log' = log
    BY <1>4 DEF Persist, Chunk, jsVars
  <2>2. \A c \in Inserted(Chunk) : Paired(c)
    <3> SUFFICES ASSUME NEW p \in {r.pos : r \in Chunk}
                 PROVE  Paired([pos |-> p, ctx |-> FirstAt(Chunk, p).ctx])
      BY DEF Inserted
    <3>1. FirstAt(Chunk, p) \in Chunk /\ FirstAt(Chunk, p).pos = p
      <4>1. Chunk \in SUBSET Record /\ DistinctSequences(Chunk)
        BY <2>1 DEF TypeInv, TypeOK, FromStream, DistinctSequences
      <4> QED BY <4>1, FirstAtExists
    <3>2. Paired(FirstAt(Chunk, p))
      BY <2>1, <3>1 DEF AllPaired
    <3> QED BY <3>1, <3>2 DEF Paired
  <2> QED BY <1>1, <2>1, <2>2 DEF AllPaired, Paired
<1>5. CASE ~Publish /\ ~Stitch /\ ~Persist
  <2>1. /\ log' = log /\ changes' = changes
        /\ keptFetchedRecords' \subseteq keptFetchedRecords
    BY <1>5 DEF Next, Flush, Replay, Expire, Start, Crash, ReceiveNew,
                ReceiveRedelivered, LoseDelivery, ParseFails, Die, Ack,
                AckArrives, LoseAck, ReadFloor, NothingToRelease, Release,
                ReleaseFails, EndTurn, Accumulate, JSExpire,
                JSDeliverNew, JSRedeliver, JSAckAll, JSPurge, jsVars, loopVars, vars
  <2> QED BY <1>1, <2>1 DEF AllPaired, Paired
<1> QED
  BY <1>2, <1>3, <1>4, <1>5

\* The context of a row was emitted in the transaction of its change, for
\* every interleaving, loss, replay and restart.
THEOREM ContextsAreSound == Spec => []ContextSound
<1>1. Init => AllPaired
  BY DEF Init, JSInit, AllPaired
<1>2. TypeInv /\ AllPaired /\ [Next]_vars => AllPaired'
  BY AllPairedStep
<1>3. AllPaired => ContextSound
  BY DEF AllPaired, ContextSound, Paired
<1> QED
  BY <1>1, <1>2, <1>3, TypeInvariant, PTL DEF Spec

-----------------------------------------------------------------------------
(***************************************************************************)
(* The pipeline implements the audit log.                                  *)
(***************************************************************************)
\* The rows that one INSERT adds are for positions that had none, of messages
\* that the stream accepted, and one for each position.
LEMMA PersistWrites == TypeInv /\ Persist => Log!Write
<1> SUFFICES ASSUME TypeInv, Persist PROVE Log!Write
  OBVIOUS
<1>1. changes' = changes \cup Inserted(Chunk) /\ UNCHANGED jsVars
  BY DEF Persist
<1>2. Chunk \subseteq keptFetchedRecords
  BY DEF Chunk
<1>3. \A new \in Inserted(Chunk) :
          /\ new.pos \notin Positions
          /\ new.ctx = FirstAt(Chunk, new.pos).ctx
          /\ new = [pos |-> new.pos, ctx |-> new.ctx]
          /\ \E r \in keptFetchedRecords : r.pos = new.pos
  BY <1>2 DEF Inserted
<1>4. \A new \in changes' \ changes :
          /\ ~Log!HasRow(new.pos)
          /\ \E i \in DOMAIN log : log[i].pos = new.pos
          /\ \A other \in changes' : other.pos = new.pos => other = new
  <2> TAKE new \in changes' \ changes
  <2>1. new \in Inserted(Chunk)
    BY <1>1
  <2>2. ~Log!HasRow(new.pos)
    BY <1>3, <2>1 DEF Log!HasRow, Positions
  <2>3. \E i \in DOMAIN log : log[i].pos = new.pos
    <3>1. PICK r \in keptFetchedRecords : r.pos = new.pos
      BY <1>3, <2>1
    <3>2. r.seq \in DOMAIN log /\ log[r.seq].pos = r.pos
      BY TypeFacts DEF TypeInv, FromStream
    <3> QED BY <3>1, <3>2
  <2>4. \A other \in changes' : other.pos = new.pos => other = new
    <3> SUFFICES ASSUME NEW other \in changes', other.pos = new.pos
                 PROVE  other = new
      OBVIOUS
    <3>1. other \in Inserted(Chunk)
      BY <1>1, <1>3, <2>1 DEF Positions
    <3> QED BY <1>3, <2>1, <3>1
  <2> QED BY <2>2, <2>3, <2>4
<1> QED
  BY <1>1, <1>4 DEF Log!Write, jsVars

\* A release gives up only messages that are acknowledged, hence durable.
LEMMA ReleaseGivesUp == TypeInv /\ TypeInv' /\ Durable /\ Release => Log!GiveUp
<1> SUFFICES ASSUME TypeInv, TypeInv', Durable, Release PROVE Log!GiveUp
  OBVIOUS
<1>1. /\ log' = log /\ changes' = changes /\ ackFloor' = ackFloor
      /\ \/ firstSeq' = firstSeq
         \/ firstSeq' > firstSeq /\ firstSeq' = releasable + 1
  BY DEF Release, EndTurn, JSPurge, jsVars
<1>2. firstSeq' - 1 \in (firstSeq - 1)..Len(log)
  BY <1>1, TypeFacts
<1>3. \A i \in 1..(firstSeq' - 1) : i \in 1..ackFloor
  BY <1>1, TypeFacts
<1>4. \A i \in 1..(firstSeq' - 1) :
          log[i].kind \in OwedKinds => Log!HasRow(log[i].pos)
  BY <1>3 DEF Durable, AckedIsDurable, Owed, Positions, Log!HasRow
<1> QED
  BY <1>1, <1>2, <1>4 DEF Log!GiveUp

\* A publish is accepted only while there is room.
LEMMA PublishOffers == TypeInv /\ Publish => Log!Offer
<1> SUFFICES ASSUME TypeInv, Publish PROVE Log!Offer
  OBVIOUS
<1>1. /\ wal[sent + 1] \in Message
      /\ log' = Append(log, wal[sent + 1])
      /\ HasRoom
      /\ UNCHANGED <<firstSeq, changes>>
  BY SourceAssumption
     DEF Publish, SrcSend, SrcUnsent, JSPublish, TypeInv, TypeOK, SrcTypeOK
<1>2. Len(log') = Len(log) + 1 /\ log'[Len(log')] = wal[sent + 1]
  BY <1>1, TypeFacts
<1>3. Len(log) - (firstSeq - 1) < StreamCap
  BY <1>1, TypeFacts, JetStreamAssumption DEF HasRoom
<1>4. /\ Len(log') = Len(log) + 1
      /\ log'[Len(log')] \in Message
      /\ log' = Append(log, log'[Len(log')])
      /\ firstSeq' - 1 = firstSeq - 1
      /\ changes' = changes
  BY <1>1, <1>2
<1>5. Log!Message = Message
  BY DEF Log!Message, Message, Log!Kinds, Kinds
<1> QED
  BY <1>3, <1>4, <1>5 DEF Log!Offer

\* Every step of the pipeline is a step of the audit log, or changes nothing
\* that the audit log sees.
THEOREM PipelineIsAuditLog ==
    ASSUME ~PromptRestart, ~LossyDelivery
    PROVE  Spec => ImplementsAuditLog
<1>1. Init => Log!AuditInit
  BY DEF Init, JSInit, Log!AuditInit
<1>2. TypeInv /\ TypeInv' /\ Durable /\ [Next]_vars => [Log!AuditNext]_(Log!auditVars)
  <2> SUFFICES ASSUME TypeInv, TypeInv', Durable, [Next]_vars
               PROVE  Log!AuditNext \/ UNCHANGED <<log, changes, firstSeq>>
    BY DEF Log!auditVars
  <2>1. CASE Publish
    BY <2>1, PublishOffers DEF Log!AuditNext
  <2>2. CASE Persist
    BY <2>2, PersistWrites DEF Log!AuditNext
  <2>3. CASE Release
    BY <2>3, ReleaseGivesUp DEF Log!AuditNext
  <2>4. CASE ~Publish /\ ~Persist /\ ~Release
    BY <2>4 DEF Next, Flush, Replay, Expire, Start, Crash, ReceiveNew,
                ReceiveRedelivered, LoseDelivery, Stitch, ParseFails, Die, Ack,
                AckArrives, LoseAck, ReadFloor, NothingToRelease, ReleaseFails,
                EndTurn, Accumulate, JSExpire,
                JSDeliverNew, JSRedeliver, JSAckAll, jsVars, vars
  <2> QED BY <2>1, <2>2, <2>3, <2>4
<1> QED
  BY <1>1, <1>2, TypeInvariant, DurableInvariant, PTL
     DEF Spec, ImplementsAuditLog, Log!AuditSpec
=============================================================================
