---------------------------- MODULE ContextProofs ----------------------------
(***************************************************************************)
(* What Ingestion promises of contexts that wait for their change from one *)
(* turn to the next: how long they are held, and that the first change of  *)
(* a transaction gets one, however the fetches, crashes, redeliveries and  *)
(* replays cut the transaction.                                            *)
(***************************************************************************)
EXTENDS IngestionProofs

-----------------------------------------------------------------------------
(***************************************************************************)
(* A turn adds to what the process has seen before it: what it fetches is  *)
(* beyond the last sequence, and what it holds is not.                     *)
(***************************************************************************)
Ahead ==
    /\ pc = "fetching" => \A s \in batch : lastStreamSequence < s
    /\ \A r \in fetchedRecordBuffer : r.seq <= lastStreamSequence

\* What a turn stitches, and the sequence that it has seen everything up to.
Recs == fetchedRecordBuffer \cup FetchedRecords

Newest == Max(batch \cup {lastStreamSequence})

\* It is a sequence, and that of a message of the fetch if there is one.
LEMMA NewestBounds ==
    ASSUME TypeInv, Ahead, pc = "fetching"
    PROVE  /\ Newest \in Nat /\ Newest \in batch \cup {lastStreamSequence}
           /\ lastStreamSequence <= Newest
           /\ \A s \in batch : s <= Newest
           /\ \A q \in Recs : q.seq <= Newest
           /\ batch # {} => Newest \in batch
<1> DEFINE S == batch \cup {lastStreamSequence}
<1>1. /\ delivered \in Nat /\ batch \subseteq 1..delivered
      /\ lastStreamSequence \in 0..delivered
  BY TypeFacts
<1>2. Newest \in S /\ \A k \in S : k <= Newest
  <2>1. S \in SUBSET (0..delivered) /\ S # {} /\ S \in SUBSET Nat
    BY <1>1
  <2>2. 0 \in Int /\ delivered \in Int
    BY <1>1
  <2>3. IsFiniteSet(0..delivered)
    BY <2>2, FS_Interval
  <2> HIDE DEF S
  <2>4. IsFiniteSet(S)
    BY <2>1, <2>3, FS_Subset, Zenon
  <2>5. Max(S) \in S /\ \A k \in S : k <= Max(S)
    BY <2>1, <2>4, MaxIsGreatest
  <2> QED BY <2>5 DEF Newest, S
<1>3. Newest \in Nat
  BY <1>1, <1>2
<1>4. \A q \in FetchedRecords : q.seq <= Newest
  <2>1. \A q \in FetchedRecords : q.seq \in batch
    BY DEF FetchedRecords, FromNatsMessage
  <2> QED BY <1>2, <2>1
<1>5. \A q \in fetchedRecordBuffer : q.seq <= Newest
  <2>1. lastStreamSequence <= Newest
    BY <1>2
  <2>2. \A q \in fetchedRecordBuffer : q.seq \in 1..delivered /\ q.seq <= lastStreamSequence
    BY TypeFacts DEF Ahead
  <2> QED BY <1>1, <1>3, <2>1, <2>2
<1>6. batch # {} => Newest \in batch
  <2>1. SUFFICES ASSUME NEW b \in batch PROVE Newest \in batch
    OBVIOUS
  <2>2. lastStreamSequence < b /\ b <= Newest
    BY <1>2 DEF Ahead
  <2> QED BY <1>1, <1>2, <1>3, <2>2
<1> QED
  BY <1>2, <1>3, <1>4, <1>5, <1>6 DEF Recs

\* A fetch takes only messages beyond those seen.
LEMMA AheadStep ==
    ASSUME TypeInv, Ahead, [Next]_vars
    PROVE  Ahead'
<1>1. CASE Stitch
  <2>1. /\ pc = "fetching" /\ pc' = "persisting" /\ lastStreamSequence' = Newest
        /\ fetchedRecordBuffer' = Held(Recs, Order(Recs))
    BY <1>1 DEF Stitch, StitchFetchedRecords, Recs, Newest
  <2>2. fetchedRecordBuffer' \subseteq Recs
    BY <2>1 DEF Held
  <2> QED BY <2>1, <2>2, NewestBounds DEF Ahead
<1>2. CASE ReceiveNew \/ ReceiveRedelivered
  <2>1. PICK s \in Nat \ {0} : Accumulate(s) /\ pc = "fetching"
    BY <1>2, TypeFacts DEF ReceiveNew, ReceiveRedelivered, CanReceive
  <2>2. /\ batch' \subseteq batch \cup {s}
        /\ s \in batch' \ batch => IsNew(s)
        /\ UNCHANGED <<pc, lastStreamSequence, fetchedRecordBuffer>>
    BY <2>1 DEF Accumulate
  <2>3. IsNew(s) => lastStreamSequence < s
    BY <2>1 DEF IsNew
  <2> QED BY <2>1, <2>2, <2>3 DEF Ahead
<1>3. CASE Crash \/ ParseFails
  <2>1. pc' = "down" /\ fetchedRecordBuffer' = {}
    BY <1>3 DEF Crash, ParseFails, Die
  <2> QED BY <2>1 DEF Ahead
<1>4. CASE Start
  <2>1. batch' = {} /\ UNCHANGED <<lastStreamSequence, fetchedRecordBuffer>>
    BY <1>4 DEF Start, loopVars, TypeInv, Idle
  <2> QED BY <2>1 DEF Ahead
<1>5. CASE NothingToRelease \/ Release \/ ReleaseFails
  <2>1. batch' = {} /\ UNCHANGED <<lastStreamSequence, fetchedRecordBuffer>>
    BY <1>5 DEF NothingToRelease, Release, ReleaseFails, EndTurn
  <2> QED BY <2>1 DEF Ahead
<1>6. CASE Persist \/ Ack \/ ReadFloor
  <2>1. pc' # "fetching" /\ UNCHANGED <<lastStreamSequence, fetchedRecordBuffer>>
    BY <1>6 DEF Persist, Ack, ReadFloor
  <2> QED BY <2>1 DEF Ahead
<1>7. CASE \/ Publish \/ Flush \/ Replay \/ Expire \/ LoseDelivery
           \/ AckArrives \/ LoseAck \/ UNCHANGED vars
  <2>1. UNCHANGED <<pc, batch, lastStreamSequence, fetchedRecordBuffer>>
    BY <1>7 DEF Publish, Flush, Replay, Expire, LoseDelivery, AckArrives, LoseAck,
                loopVars, vars
  <2> QED BY <2>1 DEF Ahead
<1> QED
  BY <1>1, <1>2, <1>3, <1>4, <1>5, <1>6, <1>7 DEF Next

LEMMA AheadInvariant == Spec => []Ahead
<1>1. Init => Ahead
  BY DEF Init, Ahead
<1>2. TypeInv /\ Ahead /\ [Next]_vars => Ahead'
  BY AheadStep
<1> QED
  BY <1>1, <1>2, TypeInvariant, PTL DEF Spec

-----------------------------------------------------------------------------
(***************************************************************************)
(* The records of a turn.                                                  *)
(***************************************************************************)
\* What is known of the records that a turn stitches.
LEMMA RecsFacts ==
    ASSUME TypeInv
    PROVE  /\ WellFormed(Recs, {Subject})
           /\ \A q \in Recs :
                  /\ q \in RecordOf({Subject}) /\ q.subject = Subject
                  /\ q.seq \in 1..Len(log) /\ q.tx \in Nat
                  /\ q = FromNatsMessage(log[q.seq], q.seq, Subject)
                  /\ q.tx = log[q.seq].tx /\ q.kind = log[q.seq].kind
                  /\ q.pos = log[q.seq].pos
           /\ OfSubject(Recs, Subject) = Recs
<1>1. /\ WellFormed(Recs, {Subject})
      /\ \A q \in Recs : /\ q.seq \in Sequences
                         /\ q = FromNatsMessage(log[q.seq], q.seq, Subject)
  BY StitchInput DEF Recs
<1>2. \A q \in Recs : /\ q.seq \in 1..Len(log)
                      /\ q \in RecordOf({Subject})
  <2>1. Sequences \subseteq 1..Len(log)
    BY TypeFacts DEF Sequences
  <2>2. \A q \in Recs : q.seq \in Sequences
    BY <1>1
  <2>3. Recs \subseteq RecordOf({Subject})
    BY <1>1 DEF WellFormed
  <2> QED BY <2>1, <2>2, <2>3
<1>3. \A q \in Recs : q.subject = Subject /\ q.tx \in Nat
  BY <1>2 DEF RecordOf
<1>4. \A q \in Recs : /\ q.tx = log[q.seq].tx /\ q.kind = log[q.seq].kind
                      /\ q.pos = log[q.seq].pos
  BY <1>1 DEF FromNatsMessage
<1>5. OfSubject(Recs, Subject) = Recs
  BY <1>3 DEF OfSubject
<1>6. \A q \in Recs : q = FromNatsMessage(log[q.seq], q.seq, Subject)
  BY <1>1
<1> QED
  BY <1>1, <1>2, <1>3, <1>4, <1>5, <1>6, Zenon

\* The last record in transaction order is one of them, and none of the others
\* has a higher transaction id.
LEMMA LastIsHighest ==
    ASSUME TypeInv, Recs # {}
    PROVE  LET l == LastOf(Recs, Subject)
           IN  /\ l \in Recs
               /\ \A q \in Recs : q.tx <= l.tx
               /\ \A q \in Recs : q.tx = l.tx => q.seq <= l.seq
<1>1. /\ LastOf(Recs, Subject) \in Recs
      /\ \A q \in Recs : q = LastOf(Recs, Subject) \/ Precedes(q, LastOf(Recs, Subject))
  <2>1. OfSubject(Recs, Subject) # {}
    BY RecsFacts
  <2> QED BY <2>1, RecsFacts, LastOfExists
<1>2. \A q \in Recs : q.tx \in Nat /\ q.seq \in Nat
  BY RecsFacts
<1> QED
  BY <1>1, <1>2 DEF Precedes

\* A record that none follows, in the stream or by its transaction id, is the
\* last in transaction order.
LEMMA HighestIsLast ==
    ASSUME TypeInv, NEW f \in Recs, \A q \in Recs : q.seq <= f.seq /\ q.tx <= f.tx
    PROVE  LastOf(Recs, Subject) = f
<1>1. PICK l \in Recs : /\ l = LastOf(Recs, Subject)
                        /\ \A q \in Recs : q.tx <= l.tx
                        /\ \A q \in Recs : q.tx = l.tx => q.seq <= l.seq
  BY LastIsHighest
<1>2. l.seq \in Nat /\ f.seq \in Nat /\ l.tx \in Nat /\ f.tx \in Nat
  BY RecsFacts
<1>3. l.tx = f.tx
  BY <1>1, <1>2
<1>4. l.seq = f.seq
  BY <1>1, <1>2, <1>3
<1> QED
  BY <1>1, <1>4, RecsFacts DEF WellFormed, DistinctSequences

\* The gap is measured from the last record in transaction order.
LEMMA GapIsFromLast ==
    ASSUME Recs # {}
    PROVE  \A r \in Recs : r.subject = Subject =>
               MaxSequence(Recs, Visited(Order(Recs), r.subject))
                   = Max({LastOf(Recs, Subject).seq})
<1>1. Visited(<<Subject>>, Subject) = {Subject}
  BY DEF Visited
<1>2. {LastOf(Recs, u).seq : u \in {Subject}} = {LastOf(Recs, Subject).seq}
  OBVIOUS
<1> QED
  BY <1>1, <1>2 DEF MaxSequence, Order

LEMMA MaxOfOne == \A n \in Nat : Max({n}) = n
BY DEF Max

\* A context that is held is within the gap of that last record.
LEMMA HeldNearLast ==
    ASSUME TypeInv, NEW r \in Held(Recs, Order(Recs)), r.kind = "context"
    PROVE  /\ r \in Recs /\ LastOf(Recs, Subject).seq \in Nat
           /\ LastOf(Recs, Subject).seq - r.seq <= OrphanGap
<1>1. r \in Recs /\ ~Orphaned(Recs, Order(Recs), r)
  BY DEF Held, HeldChange, HeldContext, IsChange
<1> DEFINE top == LastOf(Recs, Subject).seq
<1>2. top \in Nat /\ r.seq \in Nat
  BY <1>1, LastIsHighest, RecsFacts
<1>3. MaxSequence(Recs, Visited(Order(Recs), r.subject)) = top
  BY <1>1, <1>2, GapIsFromLast, MaxOfOne, RecsFacts
<1> HIDE DEF top
<1>4. top - r.seq <= OrphanGap
  BY <1>1, <1>2, <1>3, StitchingAssumption DEF Orphaned
<1> QED
  BY <1>1, <1>2, <1>4 DEF top

-----------------------------------------------------------------------------
(***************************************************************************)
(* How long a context is held.  The code measures the gap from the last    *)
(* record in transaction order, which is the newest message unless an      *)
(* earlier one has a higher transaction id.                                *)
(***************************************************************************)
\* After a turn that fetched nothing there is less to hold; after another the
\* newest message has a record, unless it is ignored, and either that is the
\* last record or it is behind the last one by its transaction id.
LEMMA StitchWithinGap ==
    ASSUME TypeInv, Ahead, HeldWithinGap, Stitch
    PROVE  HeldWithinGap'
<1>1. /\ pc = "fetching" /\ lastStreamSequence' = Newest /\ log' = log
      /\ fetchedRecordBuffer' = Held(Recs, Order(Recs))
  BY DEF Stitch, StitchFetchedRecords, Recs, Newest, jsVars
<1>2. CASE batch = {}
  <2>1. Recs = fetchedRecordBuffer
    BY <1>2 DEF Recs, FetchedRecords
  <2>2. Newest = lastStreamSequence
    BY <1>1, <1>2, NewestBounds
  <2>3. fetchedRecordBuffer' \subseteq fetchedRecordBuffer
    BY <1>1, <2>1 DEF Held
  <2> QED BY <1>1, <2>2, <2>3 DEF HeldWithinGap
<1>3. CASE batch # {}
  <2> SUFFICES ASSUME NEW r \in Held(Recs, Order(Recs)), r.kind = "context",
                      ~IsIgnored(log[Newest])
               PROVE  \/ Newest - r.seq <= OrphanGap
                      \/ \E i \in 1..(Newest - 1) : /\ log[i].tx > log[Newest].tx
                                                    /\ i - r.seq <= OrphanGap
    BY <1>1 DEF HeldWithinGap
  <2> DEFINE f == FromNatsMessage(log[Newest], Newest, Subject)
  <2>1. f \in Recs /\ f.seq = Newest /\ f.tx = log[Newest].tx
    BY <1>1, <1>3, NewestBounds DEF FetchedRecords, FromNatsMessage, Recs
  <2> HIDE DEF f
  <2>2. PICK l \in Recs : /\ l = LastOf(Recs, Subject)
                          /\ \A q \in Recs : q.tx <= l.tx
                          /\ \A q \in Recs : q.tx = l.tx => q.seq <= l.seq
    BY <2>1, LastIsHighest
  <2>3. /\ r \in Recs /\ l.seq - r.seq <= OrphanGap
    BY <2>2, HeldNearLast
  <2>4. /\ l.seq \in 1..Len(log) /\ l.tx = log[l.seq].tx /\ l.tx \in Nat
        /\ f.tx \in Nat /\ f.tx <= l.tx /\ l.seq <= Newest /\ Newest \in Nat
        /\ r.seq \in Nat
    BY <1>1, <2>1, <2>2, <2>3, RecsFacts, NewestBounds
  <2>5. CASE f.tx = l.tx
    <3>1. l.seq = Newest
      BY <2>1, <2>2, <2>4, <2>5, TypeFacts
    <3> QED BY <2>3, <3>1
  <2>6. CASE f.tx < l.tx
    <3>1. l.seq \in 1..(Newest - 1)
      BY <2>1, <2>4, <2>6, TypeFacts
    <3>2. log[l.seq].tx > log[Newest].tx
      BY <2>1, <2>4, <2>6
    <3> QED BY <2>3, <3>1, <3>2
  <2> QED BY <2>4, <2>5, <2>6
<1> QED
  BY <1>2, <1>3

\* Only stitching holds a context or moves the sequences on, and a publish
\* changes nothing of what the process has seen.
LEMMA GapStep ==
    ASSUME TypeInv, Ahead, HeldWithinGap, [Next]_vars
    PROVE  HeldWithinGap'
<1>1. CASE Stitch
  BY <1>1, StitchWithinGap
<1>2. CASE Crash \/ ParseFails
  <2>1. fetchedRecordBuffer' = {}
    BY <1>2 DEF Crash, ParseFails, Die
  <2> QED BY <2>1 DEF HeldWithinGap
<1>3. CASE Publish
  <2>1. /\ UNCHANGED <<lastStreamSequence, fetchedRecordBuffer>>
        /\ \A s \in 1..Len(log) : log'[s] = log[s]
    BY <1>3, TypeFacts DEF Publish, JSPublish, loopVars
  <2> SUFFICES ASSUME NEW r \in fetchedRecordBuffer, r.kind = "context",
                      ~IsIgnored(log'[lastStreamSequence])
               PROVE  LET n == lastStreamSequence
                      IN  \/ n - r.seq <= OrphanGap
                          \/ \E i \in 1..(n - 1) : /\ log'[i].tx > log'[n].tx
                                                   /\ i - r.seq <= OrphanGap
    BY <2>1 DEF HeldWithinGap
  <2>2. /\ lastStreamSequence \in 1..Len(log)
        /\ \A i \in 1..(lastStreamSequence - 1) : i \in 1..Len(log)
    BY TypeFacts DEF Ahead
  <2>3. \/ lastStreamSequence - r.seq <= OrphanGap
        \/ \E i \in 1..(lastStreamSequence - 1) :
               log[i].tx > log[lastStreamSequence].tx /\ i - r.seq <= OrphanGap
    BY <2>1, <2>2 DEF HeldWithinGap
  <2> QED BY <2>1, <2>2, <2>3
<1>4. CASE ~Stitch /\ ~Crash /\ ~ParseFails /\ ~Publish
  <2>1. UNCHANGED <<log, lastStreamSequence, fetchedRecordBuffer>>
    BY <1>4 DEF Next, Flush, Replay, Expire, Start, ReceiveNew, ReceiveRedelivered,
                LoseDelivery, Persist, Ack, AckArrives, LoseAck, ReadFloor,
                NothingToRelease, Release, ReleaseFails, EndTurn, Accumulate,
                JSExpire, JSDeliverNew, JSRedeliver, JSAckAll, JSPurge, jsVars,
                loopVars, vars
  <2> QED BY <2>1 DEF HeldWithinGap
<1> QED
  BY <1>1, <1>2, <1>3, <1>4

\* A context is held no longer than the gap allows, counted from the newest
\* message or, when that is behind an earlier one by its transaction id, from
\* the earlier one: for every stream, in whatever order the transactions
\* commit, whatever is lost, delivered again, sent again or restarted
\* (stitching.ts:28-33, 71).
THEOREM ContextsHeldWithinGap == Spec => []HeldWithinGap
<1>1. Init => HeldWithinGap
  BY DEF Init, HeldWithinGap
<1>2. TypeInv /\ Ahead /\ HeldWithinGap /\ [Next]_vars => HeldWithinGap'
  BY GapStep
<1> QED
  BY <1>1, <1>2, TypeInvariant, AheadInvariant, PTL DEF Spec

(***************************************************************************)
(* The distance to the newest message follows when the stream bounds how   *)
(* far its transactions are out of order.                                  *)
(***************************************************************************)
\* Debezium sends each message once.
SentOnce == MaxReplays = 0

NothingForeign == \A h \in Histories : \A i \in DOMAIN h : ~IsIgnored(h[i])

\* No message comes more than `distance` after one with a higher id.
LateBy(distance) ==
    \A h \in Histories : \A i, j \in DOMAIN h :
        i < j /\ h[j].tx < h[i].tx => j - i <= distance

HeldWithin(distance) ==
    \A r \in fetchedRecordBuffer :
        r.kind = "context" => lastStreamSequence - r.seq <= OrphanGap + distance

\* Unless Debezium sends something again, the stream holds a prefix of the
\* write-ahead log.
IsSentPrefix == Len(log) = sent /\ \A s \in 1..Len(log) : log[s] = wal[s]

LEMMA SentInvariant ==
    ASSUME SentOnce
    PROVE  Spec => []IsSentPrefix
<1>1. Init => IsSentPrefix
  BY DEF Init, JSInit, SrcInit, IsSentPrefix
<1>2. ASSUME TypeInv, IsSentPrefix, [Next]_vars PROVE IsSentPrefix'
  <2>1. CASE Publish
    <3>1. /\ sent + 1 \in DOMAIN wal /\ wal[sent + 1] \in Message
          /\ log' = Append(log, wal[sent + 1])
          /\ sent' = sent + 1 /\ wal' = wal
      BY <1>2, <2>1, SourceAssumption
         DEF Publish, SrcSend, SrcUnsent, JSPublish, TypeInv, TypeOK, SrcTypeOK
    <3>2. log \in Seq(Message) /\ Len(log) \in Nat
      BY <1>2, TypeFacts
    <3>3. Len(log') = Len(log) + 1 /\ log'[Len(log) + 1] = wal[sent + 1]
          /\ \A s \in 1..Len(log) : log'[s] = log[s]
      BY <3>1, <3>2
    <3>4. \A s \in 1..Len(log') : s \in 1..Len(log) \/ s = Len(log) + 1
      BY <3>2, <3>3
    <3> QED BY <1>2, <3>1, <3>3, <3>4 DEF IsSentPrefix
  <2>2. CASE Replay
    BY <1>2, <2>2 DEF Replay, SrcRestart, TypeInv, TypeOK, SrcTypeOK, SentOnce
  <2>3. CASE ~Publish /\ ~Replay
    <3>1. UNCHANGED <<log, wal, sent>>
      BY <1>2, <2>3
         DEF Next, Flush, Expire, Start, Crash, ReceiveNew, ReceiveRedelivered,
             LoseDelivery, Stitch, ParseFails, Die, Persist, Ack, AckArrives, LoseAck,
             ReadFloor, NothingToRelease, Release, ReleaseFails, EndTurn, Accumulate,
             JSExpire, SrcFlush, JSDeliverNew, JSRedeliver, JSAckAll, JSPurge, jsVars,
             srcVars, vars
    <3> QED BY <1>2, <3>1 DEF IsSentPrefix
  <2> QED BY <2>1, <2>2, <2>3
<1>3. TypeInv /\ IsSentPrefix /\ [Next]_vars => IsSentPrefix'
  BY <1>2
<1> QED
  BY <1>1, <1>3, TypeInvariant, PTL DEF Spec

\* The stream has a beginning of one of the histories.
LEMMA StreamIsWal ==
    ASSUME TypeInv, IsSentPrefix
    PROVE  /\ wal \in Histories /\ 1..Len(log) \subseteq DOMAIN wal
           /\ \A i \in 1..Len(log) : log[i] = wal[i]
<1>1. wal \in Histories /\ sent \in 0..Len(wal) /\ wal \in Seq(Message)
  BY SourceAssumption DEF TypeInv, TypeOK, SrcTypeOK
<1> QED
  BY <1>1 DEF IsSentPrefix

\* A context is held no longer than the gap and the distance by which the
\* transactions of the stream are out of order, whatever is lost, delivered
\* again or restarted (stitching.ts:7-9, 28-33).
THEOREM ContextsHeldNearGap ==
    ASSUME NEW d \in Nat, LateBy(d), SentOnce, NothingForeign
    PROVE  Spec => []HeldWithin(d)
<1>1. ASSUME TypeInv, Ahead, IsSentPrefix, HeldWithinGap PROVE HeldWithin(d)
  <2> SUFFICES ASSUME NEW r \in fetchedRecordBuffer, r.kind = "context"
               PROVE  lastStreamSequence - r.seq <= OrphanGap + d
    BY DEF HeldWithin
  <2> DEFINE n == lastStreamSequence
  <2>1. n \in 1..Len(log) /\ r.seq \in Nat /\ OrphanGap \in Nat
    BY <1>1, TypeFacts, StitchingAssumption DEF Ahead
  <2>2. /\ wal \in Histories /\ 1..Len(log) \subseteq DOMAIN wal
        /\ \A i \in 1..Len(log) : log[i] = wal[i]
    BY <1>1, StreamIsWal
  <2>3. ~IsIgnored(log[n])
    BY <2>1, <2>2 DEF NothingForeign
  <2>4. CASE n - r.seq <= OrphanGap
    BY <2>1, <2>4
  <2>5. CASE ~(n - r.seq <= OrphanGap)
    <3>1. PICK i \in 1..(n - 1) : log[i].tx > log[n].tx /\ i - r.seq <= OrphanGap
      BY <1>1, <2>3, <2>5 DEF HeldWithinGap
    <3>2. i \in 1..Len(log) /\ i < n
      BY <2>1, TypeFacts, <1>1
    <3>3. wal[n].tx < wal[i].tx
      <4>1. log[i].tx \in Nat /\ log[n].tx \in Nat
        <5>1. log[i] \in Message /\ log[n] \in Message
          BY <1>1, <2>1, <3>2, TypeFacts
        <5> QED BY <5>1 DEF Message
      <4> QED BY <2>1, <2>2, <3>1, <3>2, <4>1
    <3>4. n - i <= d
      BY <2>1, <2>2, <3>2, <3>3 DEF LateBy
    <3> HIDE DEF n
    <3> QED BY <2>1, <3>1, <3>2, <3>4 DEF n
  <2> QED BY <2>4, <2>5
<1>2. TypeInv /\ Ahead /\ IsSentPrefix /\ HeldWithinGap => HeldWithin(d)
  BY <1>1
<1> QED
  BY <1>2, TypeInvariant, AheadInvariant, SentInvariant, ContextsHeldWithinGap, PTL

-----------------------------------------------------------------------------
(***************************************************************************)
(* The first change of a transaction gets the context of its transaction.  *)
(* What Accounted says of changes holds of the contexts that they wait     *)
(* for: until the change has a row, the context is held, in the fetch, due *)
(* again ahead of what the fetch has, or still to come.  It must hold of a *)
(* context before its change is published, and a change that is published  *)
(* before its context must not have been saved meanwhile.                  *)
(***************************************************************************)
\* Two things that the source wrote have two positions.
PositionsAreDistinct ==
    \A h \in Histories : \A i, j \in DOMAIN h : h[i].pos = h[j].pos => i = j

\* Messages at one position are one message, sent once or several times.
OnePerPosition ==
    \A s, t \in 1..Len(log) : log[s].pos = log[t].pos => log[s] = log[t]

RowsFromStream == \A p \in Positions : \E s \in 1..Len(log) : log[s].pos = p

Reads ==
    /\ \A s \in pending \cup batch : Matches(s)
    /\ \A r \in fetchedRecordBuffer : MakesRecord(r)

ToSave(s) == \E r \in keptFetchedRecords : r.seq = s

HeldBack(j) == \E r \in fetchedRecordBuffer : r.seq = j

AtHand(j) == HeldBack(j) \/ InFetch(j) \/ StillDue(j) \/ j > delivered

Unsettled(j) == j > ackFloor /\ j > acking

Safe(j) == Unsettled(j) /\ (pc # "down" => AtHand(j))

\* The context at j may still be the one that leads a change.
Open(j) ==
    /\ IsContextMessage(log[j])
    /\ \A k \in 1..Len(log) : log[k].tx = log[j].tx => ~IsChange(log[k])
    /\ Len(log) - j <= OrphanGap

\* The change at s may still be followed by its context.
Last(s) ==
    /\ IsChange(log[s]) /\ Owed(log[s])
    /\ Highest(s)
    /\ \A k \in (s + 1)..Len(log) : ~MakesRecord(log[k])

\* The change at s has no row yet, and the context at j is for it.
Awaited(s, j) == Partner(s, j) /\ log[s].pos \notin Positions

OpenAccounted == \A j \in 1..Len(log) : Open(j) => Safe(j)

AwaitedAccounted ==
    \A s, j \in 1..Len(log) : Awaited(s, j) => Safe(j) \/ (Unsettled(j) /\ ToSave(s))

LastUnsaved ==
    \A s \in 1..Len(log) : Last(s) =>
        /\ log[s].pos \notin Positions
        /\ \A r \in keptFetchedRecords : r.pos # log[s].pos

KeptArePaired ==
    \A r \in keptFetchedRecords : \A s, j \in 1..Len(log) :
        r.pos = log[s].pos /\ Awaited(s, j) => r.ctx # NoContext

Waiting == OpenAccounted /\ AwaitedAccounted

Pairing == LastUnsaved /\ KeptArePaired /\ FirstChangePaired

PairInv == RowsFromStream /\ Reads /\ Waiting /\ Pairing

(***************************************************************************)
(* Facts about the stream.                                                 *)
(***************************************************************************)
LEMMA PositionsTellApart ==
    ASSUME PositionsAreDistinct, TypeInv, AllPaired
    PROVE  OnePerPosition
<1> SUFFICES ASSUME NEW s \in 1..Len(log), NEW t \in 1..Len(log),
                    log[s].pos = log[t].pos
             PROVE  log[s] = log[t]
  BY DEF OnePerPosition
<1>1. PICK i \in DOMAIN wal : log[s] = wal[i]
  BY DEF AllPaired
<1>2. PICK j \in DOMAIN wal : log[t] = wal[j]
  BY DEF AllPaired
<1>3. wal \in Histories
  BY DEF TypeInv, TypeOK, SrcTypeOK
<1> QED
  BY <1>1, <1>2, <1>3 DEF PositionsAreDistinct

\* No message before it is a copy of a change that has a partner, or that may
\* still be followed by one.
LEMMA FirstOfItsCopies ==
    ASSUME TypeInv, NEW s \in 1..Len(log), NEW k \in 1..Len(log), log[k] = log[s],
           IsChange(log[s]), (\E j \in 1..Len(log) : Leads(j, s)) \/ Highest(s)
    PROVE  s <= k
<1> SUFFICES ASSUME k < s PROVE FALSE
  OBVIOUS
<1>1. k \in 1..(s - 1)
  BY TypeFacts
<1>2. CASE \E j \in 1..Len(log) : Leads(j, s)
  BY <1>1, <1>2 DEF Leads
<1>3. CASE Highest(s)
  <2>1. MakesRecord(log[k])
    BY DEF MakesRecord, IsChange
  <2>2. log[k].tx < log[s].tx
    BY <1>1, <1>3, <2>1 DEF Highest
  <2>3. log[s] \in Message
    BY TypeFacts
  <2> QED BY <2>2, <2>3 DEF Message
<1> QED
  BY <1>2, <1>3

\* A partner is told by the stream up to the later of the two.
LEMMA PartnerIsOld ==
    ASSUME TypeInv, \A i \in 1..Len(log) : log'[i] = log[i],
           NEW s \in 1..Len(log), NEW j \in 1..Len(log)
    PROVE  Partner(s, j)' <=> Partner(s, j)
<1>0. Len(log) \in Nat
  BY TypeFacts
<1>1. /\ \A k \in 1..(s - 1) : k \in 1..Len(log)
      /\ \A k \in (s + 1)..(j - 1) : k \in 1..Len(log)
  BY <1>0
<1>2. Leads(j, s)' <=> Leads(j, s)
  BY <1>1 DEF Leads
<1>3. Highest(s)' <=> Highest(s)
  BY <1>1 DEF Highest
<1>4. Trails(j, s)' <=> Trails(j, s)
  BY <1>1, <1>3 DEF Trails
<1> QED
  BY <1>2, <1>4 DEF Partner

(***************************************************************************)
(* The records of a turn.                                                  *)
(***************************************************************************)
\* What a batch has of the consumer's subject becomes a record.
LEMMA FetchedAreRecords ==
    ASSUME NEW s \in batch, ~IsIgnored(log[s])
    PROVE  \E q \in Recs : q.seq = s
<1>1. FromNatsMessage(log[s], s, Subject) \in FetchedRecords
  BY DEF FetchedRecords
<1>2. FromNatsMessage(log[s], s, Subject).seq = s
  BY DEF FromNatsMessage
<1> QED
  BY <1>1, <1>2 DEF Recs

\* The records of a turn are of messages that parsing keeps.
LEMMA RecsAreRead ==
    ASSUME TypeInv, Reads
    PROVE  \A q \in Recs : MakesRecord(q) /\ MakesRecord(log[q.seq])
<1>1. \A q \in FetchedRecords : MakesRecord(q)
  <2> TAKE q \in FetchedRecords
  <2>1. PICK s \in batch : q = FromNatsMessage(log[s], s, Subject) /\ ~IsIgnored(log[s])
    BY DEF FetchedRecords
  <2>2. q.kind = log[s].kind /\ log[s].kind # "idle"
    BY <2>1 DEF FromNatsMessage, Reads, Matches
  <2> QED BY <2>1, <2>2 DEF MakesRecord, IsIgnored
<1>2. \A q \in Recs : MakesRecord(q)
  BY <1>1 DEF Reads, Recs
<1> QED
  BY <1>2, RecsFacts DEF MakesRecord

\* A context at hand that is not among the records comes after all of them.
LEMMA ContextIsAhead ==
    ASSUME TypeInv, Ahead, pc = "fetching", NEW j \in 1..Len(log),
           IsContextMessage(log[j]), AtHand(j), \A q \in Recs : q.seq # j
    PROVE  (StillDue(j) \/ j > delivered) /\ Newest < j
<1>1. ~HeldBack(j)
  BY DEF HeldBack, Recs
<1>2. ~InFetch(j)
  <2>1. ~IsIgnored(log[j])
    BY DEF IsContextMessage, IsIgnored
  <2> QED BY <2>1, FetchedAreRecords DEF InFetch
<1>3. StillDue(j) \/ j > delivered
  BY <1>1, <1>2 DEF AtHand
<1>4. Newest \in batch \cup {lastStreamSequence}
  BY NewestBounds
<1>5. CASE StillDue(j)
  BY <1>4, <1>5, TypeFacts DEF StillDue
<1>6. CASE j > delivered
  BY <1>4, <1>6, TypeFacts
<1> QED
  BY <1>3, <1>5, <1>6

\* A change without a row that is not among the records comes after them.
LEMMA ChangeIsAhead ==
    ASSUME TypeInv, Ahead, Durable, pc = "fetching", NEW s \in 1..Len(log),
           Owed(log[s]), log[s].pos \notin Positions, \A q \in Recs : q.seq # s
    PROVE  Newest < s
<1>1. /\ delivered \in Nat /\ Newest \in Nat /\ ackFloor \in Nat
      /\ Newest \in batch \cup {lastStreamSequence}
      /\ batch \subseteq 1..delivered /\ lastStreamSequence \in 0..delivered
  BY TypeFacts, NewestBounds
<1>2. CASE s > delivered
  BY <1>1, <1>2
<1>3. CASE s <= delivered
  <2>1. s > ackFloor
    BY <1>1 DEF Durable, AckedIsDurable
  <2>2. s \in pending
    BY <1>1, <1>3, <2>1, OwedIsKept DEF Durable, Tracked
  <2>3. InMemory(s) \/ InFetch(s) \/ StillDue(s)
    BY <2>2 DEF Durable, Accounted
  <2>4. ~InMemory(s)
    BY DEF InMemory, Recs, TypeInv, Idle
  <2>5. ~InFetch(s)
    BY OwedIsKept, FetchedAreRecords DEF InFetch
  <2> QED BY <1>1, <2>3, <2>4, <2>5 DEF StillDue
<1> QED
  BY <1>1, <1>2, <1>3

\* A context is held while no change of its transaction is among the records
\* and all of them are within the gap.
LEMMA ContextStays ==
    ASSUME UseBuffer, TypeInv, NEW q \in Recs, IsContextMessage(q),
           \A p \in Recs : p.tx = q.tx => ~IsChange(p),
           \A p \in Recs : p.seq - q.seq <= OrphanGap
    PROVE  q \in Held(Recs, Order(Recs))
<1>1. ~ChangeArrived(Recs, q)
  BY DEF ChangeArrived, SameTransaction
<1> DEFINE top == LastOf(Recs, Subject).seq
<1>2. top \in Nat /\ top - q.seq <= OrphanGap /\ q.seq \in Nat
  BY LastIsHighest, RecsFacts
<1>3. MaxSequence(Recs, Visited(Order(Recs), q.subject)) = top
  BY <1>2, GapIsFromLast, MaxOfOne, RecsFacts
<1> HIDE DEF top
<1>4. ~Orphaned(Recs, Order(Recs), q)
  BY <1>2, <1>3, StitchingAssumption DEF Orphaned
<1> QED
  BY <1>1, <1>4 DEF Held, HeldContext

\* A change is held that no record follows and none before it exceeds by its
\* transaction id.
LEMMA ChangeWaits ==
    ASSUME UseBuffer, TypeInv, Reads, NEW q \in Recs, IsChange(q), Highest(q.seq),
           \A p \in Recs : p.seq <= q.seq
    PROVE  HeldChange(Recs, q)
<1>1. \A p \in Recs : p = q \/ p.tx < q.tx
  <2> TAKE p \in Recs
  <2>1. /\ p.seq \in 1..Len(log) /\ q.seq \in 1..Len(log) /\ MakesRecord(log[p.seq])
        /\ p.tx = log[p.seq].tx /\ q.tx = log[q.seq].tx
    BY RecsFacts, RecsAreRead
  <2>2. CASE p.seq = q.seq
    BY <2>2, RecsFacts DEF WellFormed, DistinctSequences
  <2>3. CASE p.seq < q.seq
    <3>1. p.seq \in 1..(q.seq - 1)
      BY <2>1, <2>3, TypeFacts
    <3> QED BY <2>1, <3>1 DEF Highest
  <2> QED BY <2>1, <2>2, <2>3, TypeFacts
<1>2. q = LastOf(Recs, Subject) /\ q.subject = Subject
  <2>1. \A p \in Recs : p.tx <= q.tx
    BY <1>1, RecsFacts
  <2> QED BY <2>1, HighestIsLast, RecsFacts
<1>3. SameTransaction(Recs, q) = {q}
  <2>1. \A p \in Recs : p.tx = q.tx => p = q
    BY <1>1, RecsFacts
  <2> QED BY <2>1 DEF SameTransaction
<1> QED
  BY <1>2, <1>3 DEF HeldChange

(***************************************************************************)
(* Stitching.                                                              *)
(***************************************************************************)
LEMMA StitchFacts ==
    ASSUME TypeInv, Stitch
    PROVE  /\ pc = "fetching" /\ pc' = "persisting" /\ keptFetchedRecords = {}
           /\ fetchedRecordBuffer' = Held(Recs, Order(Recs))
           /\ lastStreamSequence' = Newest
           /\ keptFetchedRecords' = {r \in Stitched(Recs) : ~IsEmptyChange(r)}
           /\ UNCHANGED <<log, firstSeq, delivered, pending, expired, ackFloor, wal,
                          batch, acking, changes, Positions>>
<1>1. UNCHANGED <<jsVars, srcVars, batch, acking, changes>>
  BY DEF Stitch
<1>2. Positions' = Positions
  BY <1>1 DEF Positions
<1> QED
  BY <1>1, <1>2
     DEF Stitch, StitchFetchedRecords, Recs, Newest, jsVars, srcVars, TypeInv, Idle

\* A context that is at hand stays so: it is held, or still to come.
LEMMA StitchKeepsContext ==
    ASSUME TypeInv, Ahead, Stitch, NEW j \in 1..Len(log), IsContextMessage(log[j]),
           Safe(j), (\E q \in Recs : q.seq = j) => HeldBack(j)'
    PROVE  Safe(j)'
<1>1. AtHand(j) /\ Unsettled(j)
  BY StitchFacts DEF Safe
<1>2. AtHand(j)'
  <2>1. CASE \E q \in Recs : q.seq = j
    BY <2>1 DEF AtHand
  <2>2. CASE \A q \in Recs : q.seq # j
    <3>1. (StillDue(j) \/ j > delivered) /\ Newest < j
      BY <1>1, <2>2, StitchFacts, ContextIsAhead
    <3>2. \A b \in batch : b < j
      BY <3>1, StitchFacts, NewestBounds, TypeFacts
    <3>3. (StillDue(j) \/ j > delivered)'
      BY <3>1, <3>2, StitchFacts DEF StillDue
    <3> QED BY <3>3 DEF AtHand
  <2> QED BY <2>1, <2>2
<1> QED
  BY <1>1, <1>2, StitchFacts DEF Safe, Unsettled

LEMMA StitchWaits ==
    ASSUME UseBuffer, TypeInv, Ahead, Durable, PairInv, Stitch
    PROVE  Waiting'
<1>1. OpenAccounted /\ AwaitedAccounted /\ Reads /\ pc = "fetching"
  BY StitchFacts DEF PairInv, Waiting
<1>2. OpenAccounted'
  <2> SUFFICES ASSUME NEW j \in 1..Len(log), Open(j) PROVE Safe(j)'
    BY StitchFacts DEF OpenAccounted, Open
  <2>1. Safe(j) /\ IsContextMessage(log[j])
    BY <1>1 DEF OpenAccounted, Open
  <2>2. ASSUME NEW q \in Recs, q.seq = j PROVE HeldBack(j)'
    <3>1. IsContextMessage(q) /\ q.tx = log[j].tx
      BY <2>1, <2>2, RecsFacts DEF IsContextMessage
    <3>2. \A p \in Recs : p.tx = q.tx => ~IsChange(p)
      BY <3>1, RecsFacts DEF Open, IsChange
    <3>3. \A p \in Recs : p.seq - q.seq <= OrphanGap
      BY <2>2, RecsFacts, TypeFacts, StitchingAssumption DEF Open
    <3>4. q \in Held(Recs, Order(Recs))
      BY <3>1, <3>2, <3>3, ContextStays
    <3> QED BY <2>2, <3>4, StitchFacts DEF HeldBack
  <2> QED BY <2>1, <2>2, StitchKeepsContext
<1>3. AwaitedAccounted'
  <2> SUFFICES ASSUME NEW s \in 1..Len(log), NEW j \in 1..Len(log), Awaited(s, j)
               PROVE  Safe(j)' \/ (Unsettled(j)' /\ ToSave(s)')
    BY StitchFacts
       DEF AwaitedAccounted, Awaited, Partner, Leads, Trails, Highest
  <2>1. /\ IsChange(log[s]) /\ Owed(log[s]) /\ log[s].pos \notin Positions
        /\ IsContextMessage(log[j]) /\ log[j].tx = log[s].tx
        /\ Leads(j, s) \/ Trails(j, s)
    BY DEF Awaited, Partner
  <2>2. Safe(j) /\ Unsettled(j)
    BY <1>1, StitchFacts DEF AwaitedAccounted, ToSave, Safe
  <2>3. CASE \A q \in Recs : q.seq # j
    BY <2>1, <2>2, <2>3, StitchKeepsContext
  <2>4. CASE \E q \in Recs : q.seq = j
    <3>1. PICK q \in Recs : q.seq = j
      BY <2>4
    <3>2. IsContextMessage(q) /\ q.tx = log[s].tx /\ q.subject = Subject
      BY <2>1, <3>1, RecsFacts DEF IsContextMessage
    <3>3. CASE \A p \in Recs : p.seq # s
      <4>1. Newest < s
        BY <1>1, <2>1, <3>3, ChangeIsAhead
      <4>2. \A p \in Recs : p.seq \in Nat /\ p.seq < s
        BY <1>1, <4>1, NewestBounds, RecsFacts, TypeFacts
      <4>3. Leads(j, s)
        BY <2>1, <3>1, <4>2, TypeFacts DEF Trails
      <4>4. \A p \in Recs : p.tx = q.tx => ~IsChange(p)
        <5> SUFFICES ASSUME NEW p \in Recs, p.tx = q.tx, IsChange(p) PROVE FALSE
          OBVIOUS
        <5>1. /\ p.seq \in 1..Len(log) /\ log[p.seq].tx = log[s].tx
              /\ IsChange(log[p.seq])
          BY <3>2, RecsFacts DEF IsChange
        <5>2. p.seq \in 1..(s - 1)
          BY <4>2, <5>1, TypeFacts
        <5> QED BY <4>3, <5>1, <5>2 DEF Leads
      <4>5. \A p \in Recs : p.seq - q.seq <= OrphanGap
        BY <3>1, <4>2, <4>3, TypeFacts, StitchingAssumption DEF Leads
      <4>6. q \in Held(Recs, Order(Recs))
        BY <3>2, <4>4, <4>5, ContextStays
      <4>7. HeldBack(j)'
        BY <3>1, <4>6, StitchFacts DEF HeldBack
      <4> QED BY <2>1, <2>2, <4>7, StitchKeepsContext
    <3>4. CASE \E p \in Recs : p.seq = s
      <4>1. PICK p \in Recs : p.seq = s
        BY <3>4
      <4>2. /\ p \in RecordOf({Subject}) /\ Recs \in SUBSET RecordOf({Subject})
            /\ p.tx = log[s].tx /\ p.kind = log[s].kind /\ p.subject = Subject
        BY <4>1, RecsFacts
      <4>3. ~HeldChange(Recs, p)
        <5>1. q \in SameTransaction(Recs, p)
          BY <3>2, <4>2 DEF SameTransaction
        <5>2. q # p
          BY <2>1, <3>2, <4>2 DEF IsChange, IsContextMessage
        <5> QED BY <5>1, <5>2 DEF HeldChange
      <4>4. p \in Savable(Recs)
        BY <4>1, <4>2, <4>3, <2>1, OwedIsKept DEF Savable
      <4>5. WithContext(Recs, p).seq = s /\ WithContext(Recs, p).kind = log[s].kind
        BY <4>1, <4>2, WithContextType
      <4>6. WithContext(Recs, p) \in keptFetchedRecords'
        BY <2>1, <4>4, <4>5, StitchFacts, OwedIsKept DEF Stitched
      <4> QED BY <2>2, <4>5, <4>6, StitchFacts DEF ToSave, Unsettled
    <3> QED BY <3>3, <3>4
  <2> QED BY <2>3, <2>4
<1> QED
  BY <1>2, <1>3 DEF Waiting

\* A record that is kept at the position of a change that is the last, or has
\* a partner, comes no earlier than the change.
LEMMA KeptIsCopy ==
    ASSUME OnePerPosition, TypeInv, Stitch, NEW r \in keptFetchedRecords'
    PROVE  \E q \in Savable(Recs) :
               /\ q \in Recs /\ r = WithContext(Recs, q) /\ r.pos = q.pos
               /\ q.seq \in 1..Len(log)
               /\ \A s \in 1..Len(log) : r.pos = log[s].pos => log[q.seq] = log[s]
<1>1. PICK q \in Savable(Recs) : r = WithContext(Recs, q)
  BY StitchFacts DEF Stitched
<1>2. q \in Recs
  BY DEF Savable
<1>3. q.seq \in 1..Len(log) /\ q.pos = log[q.seq].pos
  BY <1>2, RecsFacts
<1>4. r.pos = q.pos
  <2>1. Recs \in SUBSET RecordOf({Subject})
    BY RecsFacts
  <2> QED BY <1>1, <1>2, <2>1, WithContextType
<1> QED
  BY <1>1, <1>2, <1>3, <1>4 DEF OnePerPosition

LEMMA StitchPairsFirst ==
    ASSUME UseBuffer, OnePerPosition, TypeInv, Ahead, Durable, PairInv, Stitch
    PROVE  Pairing'
<1>1. /\ LastUnsaved /\ FirstChangePaired /\ AwaitedAccounted /\ Reads
      /\ pc = "fetching"
  BY StitchFacts DEF PairInv, Waiting, Pairing
<1>2. LastUnsaved'
  <2> SUFFICES ASSUME NEW s \in 1..Len(log), Last(s), NEW r \in keptFetchedRecords',
                      r.pos = log[s].pos
               PROVE  FALSE
    BY <1>1, StitchFacts DEF LastUnsaved, Last, Highest
  <2>1. PICK q \in Savable(Recs) : /\ q \in Recs /\ q.seq \in 1..Len(log)
                                   /\ log[q.seq] = log[s]
    BY KeptIsCopy
  <2>2. IsChange(log[s]) /\ Highest(s)
    BY DEF Last
  <2>3. \A p \in Recs : p.seq \in 1..Len(log) /\ p.seq <= s
    <3> TAKE p \in Recs
    <3>1. p.seq \in 1..Len(log) /\ MakesRecord(log[p.seq])
      BY <1>1, RecsFacts, RecsAreRead
    <3>2. p.seq \notin (s + 1)..Len(log)
      BY <3>1 DEF Last
    <3> QED BY <3>1, <3>2, TypeFacts
  <2>4. q.seq = s
    <3>1. s <= q.seq
      BY <2>1, <2>2, FirstOfItsCopies
    <3> QED BY <2>1, <2>3, <3>1, TypeFacts
  <2>5. IsChange(q)
    BY <2>1, <2>2, <2>4, RecsFacts DEF IsChange
  <2>6. HeldChange(Recs, q)
    BY <1>1, <2>1, <2>2, <2>3, <2>4, <2>5, ChangeWaits
  <2> QED BY <2>6 DEF Savable
<1>3. KeptArePaired'
  <2> SUFFICES ASSUME NEW r \in keptFetchedRecords', NEW s \in 1..Len(log),
                      NEW j \in 1..Len(log), r.pos = log[s].pos, Awaited(s, j)
               PROVE  r.ctx # NoContext
    BY StitchFacts DEF KeptArePaired, Awaited, Partner, Leads, Trails, Highest
  <2>1. /\ IsChange(log[s]) /\ Owed(log[s]) /\ log[s].pos \notin Positions
        /\ IsContextMessage(log[j]) /\ log[j].tx = log[s].tx
        /\ Leads(j, s) \/ Trails(j, s)
    BY DEF Awaited, Partner
  <2>2. PICK q \in Savable(Recs) :
            /\ q \in Recs /\ r = WithContext(Recs, q) /\ q.seq \in 1..Len(log)
            /\ log[q.seq] = log[s]
    BY KeptIsCopy
  <2>3. s <= q.seq
    BY <2>1, <2>2, FirstOfItsCopies DEF Trails
  <2>4. \A p \in Recs : p.seq \in 1..Len(log) /\ p.seq <= Newest
    BY <1>1, RecsFacts, NewestBounds
  <2>5. \E p \in Recs : p.seq = s
    <3> SUFFICES ASSUME \A p \in Recs : p.seq # s PROVE FALSE
      OBVIOUS
    <3>1. Newest < s
      BY <1>1, <2>1, ChangeIsAhead
    <3> QED BY <1>1, <2>2, <2>3, <2>4, <3>1, NewestBounds, TypeFacts
  <2>6. \E p \in Recs : p.seq = j
    <3> SUFFICES ASSUME \A p \in Recs : p.seq # j PROVE FALSE
      OBVIOUS
    <3>1. AtHand(j)
      BY <1>1, StitchFacts DEF AwaitedAccounted, ToSave, Safe
    <3>2. Newest < j
      BY <1>1, <2>1, <3>1, ContextIsAhead
    <3>3. \A p \in Recs : p.seq < j
      BY <1>1, <2>4, <3>2, NewestBounds, TypeFacts
    <3>4. Trails(j, s)
      BY <2>1, <2>5, <3>3, TypeFacts DEF Leads
    <3>5. \A p \in Recs : p.seq <= s
      <4> TAKE p \in Recs
      <4>1. MakesRecord(log[p.seq])
        BY <1>1, RecsAreRead
      <4>2. p.seq \notin (s + 1)..(j - 1)
        BY <3>4, <4>1 DEF Trails
      <4> QED BY <2>4, <3>3, <4>2, TypeFacts
    <3>6. q.seq = s
      BY <2>2, <2>3, <3>5, TypeFacts
    <3>7. IsChange(q)
      BY <2>1, <2>2, <3>6, RecsFacts DEF IsChange
    <3>8. HeldChange(Recs, q)
      BY <1>1, <2>2, <3>4, <3>5, <3>6, <3>7, ChangeWaits DEF Trails
    <3> QED BY <3>8 DEF Savable
  <2>7. PICK p \in Recs : p.seq = j
    BY <2>6
  <2>8. p \in ContextsOf(Recs, q)
    <3>1. /\ p.subject = Subject /\ q.subject = Subject /\ p.kind = log[j].kind
          /\ p.tx = log[j].tx /\ q.tx = log[s].tx
      BY <2>2, <2>7, RecsFacts
    <3> QED BY <2>1, <3>1 DEF ContextsOf, SameTransaction, IsContextMessage
  <2>9. PICK c \in ContextsOf(Recs, q) : WithContext(Recs, q).ctx = c.ctx
    <3>1. Recs \in SUBSET RecordOf({Subject})
      BY RecsFacts
    <3> QED BY <2>2, <2>8, <3>1, WithContextNamed
  <2>10. c \in Recs /\ c.kind = "context"
    BY DEF ContextsOf, SameTransaction, IsContextMessage
  <2>11. c.ctx \in Nat \ {0}
    <3>1. /\ c = FromNatsMessage(log[c.seq], c.seq, Subject)
          /\ c \in RecordOf({Subject}) /\ log[c.seq].kind = "context"
      BY <2>10, RecsFacts
    <3>2. c.pos \in Nat \ {0} /\ c.pos = log[c.seq].pos
      BY <2>10, <3>1, RecsFacts DEF RecordOf
    <3>3. c.ctx = log[c.seq].pos
      BY <3>1 DEF FromNatsMessage
    <3> QED BY <3>2, <3>3
  <2> QED BY <2>2, <2>9, <2>11 DEF NoContext
<1>4. FirstChangePaired'
  BY <1>1, StitchFacts DEF FirstChangePaired, Partner, Leads, Trails, Highest
<1> QED
  BY <1>2, <1>3, <1>4 DEF Pairing

(***************************************************************************)
(* The other steps.                                                        *)
(***************************************************************************)
\* Only the acknowledgement of a turn can reach a context that no other has.
LEMMA UnsettledStep ==
    ASSUME TypeInv, [Next]_vars, ~Ack, NEW j \in Nat, Unsettled(j)
    PROVE  Unsettled(j)'
<1>1. acking \in Nat /\ ackFloor \in Nat
  BY TypeFacts
<1>2. acking' \in {0, acking} /\ ackFloor' \in {ackFloor, acking}
  BY DEF Next, Publish, Flush, Replay, Expire, Start, Crash, ReceiveNew,
         ReceiveRedelivered, LoseDelivery, Stitch, ParseFails, Die, Persist,
         AckArrives, LoseAck, ReadFloor, NothingToRelease, Release, ReleaseFails,
         EndTurn, Accumulate, JSPublish, JSExpire, JSDeliverNew, JSRedeliver,
         JSAckAll, JSPurge, jsVars, loopVars, vars
<1> QED
  BY <1>1, <1>2 DEF Unsettled

\* A delivery comes to the fetch before any context that is still to come.
LEMMA ReceiveKeepsContext ==
    ASSUME TypeInv, ReceiveNew \/ ReceiveRedelivered,
           NEW j \in 1..Len(log), IsContextMessage(log[j]), AtHand(j)
    PROVE  AtHand(j)'
<1>1. PICK s \in Nat \ {0} : /\ pc = "fetching" /\ Accumulate(s)
                             /\ JSDeliverNew(s) \/ JSRedeliver(s)
  BY TypeFacts DEF ReceiveNew, ReceiveRedelivered, CanReceive, JSDeliverNew, IsNext
<1>2. /\ pc' = pc /\ UNCHANGED <<log, lastStreamSequence, fetchedRecordBuffer>>
      /\ batch' = IF IsNew(s) THEN batch \cup {s} ELSE batch
  BY <1>1 DEF Accumulate, JSDeliverNew, JSRedeliver
<1>3. CASE HeldBack(j) \/ InFetch(j)
  BY <1>2, <1>3 DEF AtHand, HeldBack, InFetch
<1>4. CASE j = s /\ (StillDue(j) \/ j > delivered)
  <2>1. lastStreamSequence < s
    BY <1>4, TypeFacts DEF StillDue
  <2> QED BY <1>1, <1>2, <1>4, <2>1 DEF AtHand, InFetch, IsNew
<1>5. CASE StillDue(j) /\ j # s
  <2>1. j \in expired /\ j > lastStreamSequence /\ \A b \in batch : b < j
    BY <1>5 DEF StillDue
  <2>2. JSRedeliver(s)
    BY <1>1, <2>1 DEF JSDeliverNew
  <2>3. s < j /\ expired' = expired \ {s}
    BY <1>1, <1>5, <2>1, <2>2 DEF JSRedeliver
  <2> QED BY <1>2, <1>5, <2>1, <2>3 DEF AtHand, StillDue
<1>6. CASE j > delivered /\ j # s
  <2>1. CASE JSRedeliver(s)
    BY <1>6, <2>1 DEF JSRedeliver, AtHand
  <2>2. CASE JSDeliverNew(s)
    <3>1. /\ s \in (delivered + 1)..Len(log) /\ delivered' = s
          /\ \A t \in (delivered + 1)..(s - 1) : ~Matches(t)
      BY <2>2 DEF JSDeliverNew, IsNext
    <3>2. j \notin (delivered + 1)..(s - 1)
      BY <3>1 DEF Matches, IsContextMessage
    <3> QED BY <1>6, <3>1, <3>2, TypeFacts DEF AtHand
  <2> QED BY <1>1, <2>1, <2>2
<1> QED
  BY <1>3, <1>4, <1>5, <1>6 DEF AtHand

\* A context that is safe stays so, whatever happens before its turn is stitched.
LEMMA SafeStep ==
    ASSUME ~PromptRestart, ~LossyDelivery, TypeInv, Unacked, Durable, [Next]_vars,
           ~Stitch, NEW j \in 1..Len(log), IsContextMessage(log[j]), Safe(j)
    PROVE  Safe(j)'
<1>1. CASE Ack
  <2>1. /\ pc = "persisting" /\ pc' = "releasing"
        /\ UNCHANGED <<jsVars, lastStreamSequence, fetchedRecordBuffer, batch>>
        /\ acking' \in {acking, ackStreamSequence}
        /\ acking' = ackStreamSequence => ackStreamSequence \in batch
                                          \/ acking' = acking
    BY <1>1 DEF Ack, AllPersisted, Acks
  <2>2. AtHand(j) /\ Unsettled(j) /\ ~InFetch(j)
    BY <2>1 DEF Safe, InFetch
  <2>3. AtHand(j)'
    BY <2>1, <2>2 DEF AtHand, HeldBack, StillDue, jsVars
  <2>4. acking' < j
    <3>1. CASE acking' = acking
      BY <2>2, <3>1 DEF Unsettled
    <3>2. CASE acking' = ackStreamSequence /\ ackStreamSequence \in batch
      <4>1. CASE HeldBack(j)
        BY <2>1, <3>2, <4>1 DEF HeldBack, Unacked
      <4>2. CASE StillDue(j)
        BY <3>2, <4>2 DEF StillDue
      <4>3. CASE j > delivered
        BY <3>2, <4>3, TypeFacts
      <4> QED BY <2>2, <4>1, <4>2, <4>3 DEF AtHand
    <3> QED BY <2>1, <3>1, <3>2
  <2> QED BY <2>1, <2>2, <2>3, <2>4 DEF Safe, Unsettled, jsVars
<1> SUFFICES ASSUME ~Ack, pc' # "down" PROVE AtHand(j)'
  BY <1>1, UnsettledStep DEF Safe
<1>2. CASE Start
  <2>1. /\ pending \subseteq expired /\ lastStreamSequence = 0 /\ batch = {}
        /\ UNCHANGED <<jsVars, loopVars>>
    BY <1>2 DEF Start, TypeInv, Idle
  <2>2. CASE j <= delivered
    <3>1. j \in (ackFloor + 1)..delivered
      BY <2>2, TypeFacts DEF Safe, Unsettled
    <3>2. j \in expired
      BY <2>1, <3>1 DEF Durable, Tracked, Matches, IsContextMessage
    <3> QED BY <2>1, <3>2, TypeFacts DEF AtHand, StillDue, jsVars, loopVars
  <2>3. CASE j > delivered
    BY <2>1, <2>3 DEF AtHand, jsVars
  <2> QED BY <2>2, <2>3, TypeFacts
<1>3. pc # "down" \/ Start
  BY DEF Next, Publish, Flush, Replay, Expire, Crash, ReceiveNew, ReceiveRedelivered,
         CanReceive, LoseDelivery, ParseFails, Die, Persist, AckArrives, LoseAck,
         ReadFloor, NothingToRelease, Release, ReleaseFails, vars
<1> SUFFICES ASSUME ~Start PROVE AtHand(j)'
  BY <1>2
<1>4. AtHand(j)
  BY <1>3 DEF Safe
<1>5. CASE ReceiveNew \/ ReceiveRedelivered
  BY <1>4, <1>5, ReceiveKeepsContext
<1>6. CASE AckArrives
  <2>1. /\ acking \in 1..delivered /\ JSAckAll(acking)
        /\ UNCHANGED <<pc, lastStreamSequence, fetchedRecordBuffer, batch>>
    BY <1>6, TypeFacts DEF AckArrives
  <2>2. delivered' = delivered /\ expired' = {t \in expired : t > acking}
    BY <2>1 DEF JSAckAll
  <2>3. j > acking
    BY DEF Safe, Unsettled
  <2> QED BY <1>4, <2>1, <2>2, <2>3 DEF AtHand, HeldBack, InFetch, StillDue
<1>7. CASE NothingToRelease \/ Release \/ ReleaseFails
  <2>1. /\ pc # "fetching" /\ batch' = {}
        /\ UNCHANGED <<delivered, expired, lastStreamSequence, fetchedRecordBuffer>>
    BY <1>7 DEF NothingToRelease, Release, ReleaseFails, EndTurn, JSPurge, jsVars
  <2> QED BY <1>4, <2>1 DEF AtHand, HeldBack, InFetch, StillDue
<1>8. CASE \/ Publish \/ Flush \/ Replay \/ Expire \/ Persist \/ LoseAck \/ ReadFloor
           \/ UNCHANGED vars
  <2>1. /\ expired \subseteq expired' /\ delivered' = delivered
        /\ pc' = pc \/ pc # "fetching"
        /\ UNCHANGED <<lastStreamSequence, fetchedRecordBuffer, batch>>
    BY <1>8 DEF Publish, JSPublish, Flush, Replay, Expire, JSExpire, Persist, LoseAck,
                ReadFloor, jsVars, loopVars, vars
  <2> QED BY <1>4, <2>1 DEF AtHand, HeldBack, InFetch, StillDue
<1>9. CASE Crash \/ ParseFails
  BY <1>9 DEF Crash, ParseFails, Die
<1>10. CASE LoseDelivery
  BY <1>10 DEF LoseDelivery
<1> QED
  BY <1>5, <1>6, <1>7, <1>8, <1>9, <1>10 DEF Next

\* A change that is about to be saved is so until it has its row.
LEMMA ToSaveStep ==
    ASSUME TypeInv, [Next]_vars, NEW s \in 1..Len(log), ToSave(s),
           log[s].pos \notin Positions'
    PROVE  ~Ack /\ (ToSave(s)' \/ pc' = "down")
<1>1. PICK r \in keptFetchedRecords : r.seq = s
  BY DEF ToSave
<1>2. pc = "persisting" /\ keptFetchedRecords # {}
  BY <1>1 DEF TypeInv, Idle
<1>3. CASE Persist
  <2>1. /\ Chunk \subseteq keptFetchedRecords
        /\ changes' = changes \cup Inserted(Chunk)
        /\ keptFetchedRecords' = keptFetchedRecords \ Chunk
    BY <1>3 DEF Persist, Chunk
  <2>2. r \notin Chunk
    <3> SUFFICES ASSUME r \in Chunk PROVE FALSE
      OBVIOUS
    <3>1. r.pos = log[s].pos
      BY <1>1 DEF TypeInv, FromStream
    <3> DEFINE c == [pos |-> r.pos, ctx |-> FirstAt(Chunk, r.pos).ctx]
    <3>2. r.pos \in Positions \/ c \in Inserted(Chunk)
      BY DEF Inserted
    <3>3. c.pos = r.pos
      OBVIOUS
    <3> HIDE DEF c
    <3> QED BY <2>1, <3>1, <3>2, <3>3 DEF Positions
  <2> QED BY <1>1, <1>2, <1>3, <2>1, <2>2 DEF ToSave, Ack, AllPersisted
<1>4. CASE Crash \/ ParseFails
  BY <1>2, <1>4 DEF Crash, ParseFails, Die, Ack, AllPersisted
<1>5. CASE ~Persist /\ ~Crash /\ ~ParseFails
  <2>1. ~Ack /\ keptFetchedRecords' = keptFetchedRecords
    BY <1>2, <1>5
       DEF Next, Publish, Flush, Replay, Expire, Start, ReceiveNew, ReceiveRedelivered,
           CanReceive, LoseDelivery, Stitch, Ack, AllPersisted, AckArrives, LoseAck,
           ReadFloor, NothingToRelease, Release, ReleaseFails, EndTurn, loopVars, vars
  <2> QED BY <1>1, <2>1 DEF ToSave
<1> QED
  BY <1>3, <1>4, <1>5

\* A publish adds one message and leaves the rest to the others.
LEMMA PublishFacts ==
    ASSUME TypeInv, Publish
    PROVE  /\ Len(log') = Len(log) + 1 /\ Len(log) \in Nat
           /\ \A i \in 1..Len(log) : log'[i] = log[i]
           /\ 1..Len(log') = 1..Len(log) \cup {Len(log) + 1}
           /\ UNCHANGED <<pc, keptFetchedRecords, fetchedRecordBuffer, batch,
                          delivered, pending, ackFloor, acking, changes, Positions>>
<1>1. /\ log \in Seq(Message) /\ Len(log) \in Nat
      /\ log' = Append(log, wal[sent + 1])
      /\ UNCHANGED <<pc, loopVars, delivered, pending, ackFloor, changes>>
  BY TypeFacts DEF Publish, JSPublish
<1>2. Len(log') = Len(log) + 1 /\ \A i \in 1..Len(log) : log'[i] = log[i]
  BY <1>1
<1>3. Positions' = Positions
  BY <1>1 DEF Positions
<1>4. UNCHANGED <<keptFetchedRecords, fetchedRecordBuffer, batch, acking>>
  BY <1>1 DEF loopVars
<1> QED
  BY <1>1, <1>2, <1>3, <1>4

\* What waited before the step and still does is accounted for.
LEMMA WaitsOn ==
    ASSUME ~PromptRestart, ~LossyDelivery, TypeInv, Unacked, Durable, [Next]_vars,
           ~Stitch, Waiting, NEW s \in 1..Len(log), NEW j \in 1..Len(log),
           Awaited(s, j), log[s].pos \notin Positions'
    PROVE  Safe(j)' \/ (Unsettled(j)' /\ ToSave(s)')
<1>1. IsContextMessage(log[j]) /\ j \in Nat
  BY DEF Awaited, Partner
<1>2. CASE Safe(j)
  BY <1>1, <1>2, SafeStep
<1>3. CASE Unsettled(j) /\ ToSave(s)
  <2>1. ~Ack /\ (ToSave(s)' \/ pc' = "down")
    BY <1>3, ToSaveStep
  <2>2. Unsettled(j)'
    BY <1>1, <1>3, <2>1, UnsettledStep
  <2> QED BY <2>1, <2>2 DEF Safe
<1> QED
  BY <1>2, <1>3 DEF Waiting, AwaitedAccounted

LEMMA WaitStep ==
    ASSUME UseBuffer, ~PromptRestart, ~LossyDelivery, TypeInv, TypeInv', Ahead, Unacked,
           Durable, OnePerPosition', PairInv, [Next]_vars
    PROVE  Waiting'
<1>1. CASE Stitch
  BY <1>1, StitchWaits
<1>2. CASE Publish
  <2>0. PICK n \in Nat : n = Len(log) + 1
    BY TypeFacts
  <2>1. /\ Len(log') = n /\ \A i \in 1..Len(log) : log'[i] = log[i]
        /\ 1..Len(log') = 1..Len(log) \cup {n} /\ ~Stitch
        /\ delivered' = delivered /\ ackFloor' = ackFloor /\ acking' = acking
        /\ Positions' = Positions
    BY <1>2, <2>0, PublishFacts DEF Publish, Stitch, jsVars, JSPublish
  <2>2. n > delivered /\ n > ackFloor /\ n > acking
    BY <2>0, TypeFacts
  <2>3. Safe(n)'
    BY <2>1, <2>2 DEF Safe, Unsettled, AtHand
  <2>4. ASSUME NEW j \in 1..Len(log), Open(j) PROVE Safe(j)'
    BY <2>1, <2>4, SafeStep DEF PairInv, Waiting, OpenAccounted, Open
  <2>5. OpenAccounted'
    <3> SUFFICES ASSUME NEW j \in 1..Len(log'), Open(j)' PROVE Safe(j)'
      BY DEF OpenAccounted
    <3>1. CASE j \in 1..Len(log)
      <4>1. /\ \A i \in 1..Len(log) : i \in 1..Len(log')
            /\ Len(log) <= Len(log')
        <5>1. Len(log) \in Nat
          BY TypeFacts
        <5> QED BY <2>0, <2>1, <5>1
      <4>2. Len(log) - j <= OrphanGap
        <5>1. Len(log') - j <= OrphanGap
          BY DEF Open
        <5>2. Len(log) \in Nat /\ Len(log') \in Nat /\ OrphanGap \in Nat
          BY <2>0, <2>1, TypeFacts, StitchingAssumption
        <5> QED BY <3>1, <4>1, <5>1, <5>2
      <4>3. Open(j)
        BY <2>1, <3>1, <4>1, <4>2 DEF Open
      <4> QED BY <2>4, <3>1, <4>3
    <3> QED BY <2>1, <2>3, <3>1
  <2>6. AwaitedAccounted'
    <3> SUFFICES ASSUME NEW s \in 1..Len(log'), NEW j \in 1..Len(log'), Awaited(s, j)'
                 PROVE  Safe(j)' \/ (Unsettled(j)' /\ ToSave(s)')
      BY DEF AwaitedAccounted
    <3>1. CASE j = n
      BY <2>3, <3>1
    <3>2. CASE s = n /\ j \in 1..Len(log)
      <4>1. Leads(j, s)' /\ IsContextMessage(log[j]) /\ log[j].tx = log'[s].tx
        BY <2>0, <2>1, <3>2, TypeFacts DEF Awaited, Partner, Trails
      <4>2. Len(log) - j <= OrphanGap
        BY <2>0, <3>2, <4>1, TypeFacts, StitchingAssumption DEF Leads
      <4>3. \A k \in 1..Len(log) : log[k].tx = log[j].tx => ~IsChange(log[k])
        <5> TAKE k \in 1..Len(log)
        <5>1. k \in 1..(s - 1) /\ log'[k] = log[k]
          BY <2>0, <2>1, <3>2, TypeFacts
        <5> QED BY <4>1, <5>1 DEF Leads
      <4>4. Open(j)
        BY <4>1, <4>2, <4>3 DEF Open
      <4> QED BY <2>4, <3>2, <4>4
    <3>3. CASE s \in 1..Len(log) /\ j \in 1..Len(log)
      <4>1. Partner(s, j)
        BY <2>1, <3>3, PartnerIsOld DEF Awaited
      <4>2. Awaited(s, j) /\ log[s].pos \notin Positions'
        BY <2>1, <3>3, <4>1 DEF Awaited
      <4> QED BY <2>1, <3>3, <4>2, WaitsOn DEF PairInv
    <3> QED BY <2>1, <3>1, <3>2, <3>3
  <2> QED BY <2>5, <2>6 DEF Waiting
<1>3. CASE ~Stitch /\ ~Publish
  <2>1. log' = log
    BY <1>3 DEF Next, Flush, Replay, Expire, Start, Crash, ReceiveNew,
                ReceiveRedelivered, LoseDelivery, ParseFails, Die, Persist, Ack,
                AckArrives, LoseAck, ReadFloor, NothingToRelease, Release,
                ReleaseFails, EndTurn, JSExpire, JSDeliverNew, JSRedeliver, JSAckAll,
                JSPurge, jsVars, vars
  <2>2. Positions \subseteq Positions'
    <3>1. changes \subseteq changes'
      BY <1>3 DEF Next, Flush, Replay, Expire, Start, Crash, ReceiveNew,
                  ReceiveRedelivered, LoseDelivery, ParseFails, Die, Persist, Ack,
                  AckArrives, LoseAck, ReadFloor, NothingToRelease, Release,
                  ReleaseFails, EndTurn, Accumulate, vars
    <3> QED BY <3>1 DEF Positions
  <2>3. OpenAccounted'
    <3> SUFFICES ASSUME NEW j \in 1..Len(log), Open(j) PROVE Safe(j)'
      BY <2>1 DEF OpenAccounted, Open
    <3> QED BY <1>3, SafeStep DEF PairInv, Waiting, OpenAccounted, Open
  <2>4. AwaitedAccounted'
    <3> SUFFICES ASSUME NEW s \in 1..Len(log), NEW j \in 1..Len(log), Partner(s, j),
                        log[s].pos \notin Positions'
                 PROVE  Safe(j)' \/ (Unsettled(j)' /\ ToSave(s)')
      BY <2>1 DEF AwaitedAccounted, Awaited, Partner, Leads, Trails, Highest
    <3> QED BY <1>3, <2>2, WaitsOn DEF PairInv, Awaited
  <2> QED BY <2>3, <2>4 DEF Waiting
<1> QED
  BY <1>1, <1>2, <1>3

\* A message that is published is a copy of none before it if it is a change
\* that is led by a context or has the highest transaction id.
LEMMA NewIsNoCopy ==
    ASSUME TypeInv, TypeInv', OnePerPosition', Publish, NEW n, n = Len(log) + 1,
           IsChange(log'[n]), (\E j \in 1..n : Leads(j, n)') \/ Highest(n)'
    PROVE  /\ \A k \in 1..Len(log) : log[k].pos # log'[n].pos
           /\ RowsFromStream => log'[n].pos \notin Positions
           /\ \A r \in keptFetchedRecords : r.pos # log'[n].pos
<1>1. /\ Len(log') = n /\ \A i \in 1..Len(log) : log'[i] = log[i]
      /\ 1..Len(log') = 1..Len(log) \cup {n} /\ Len(log) \in Nat
  BY PublishFacts
<1>2. ASSUME NEW k \in 1..Len(log), log[k].pos = log'[n].pos PROVE FALSE
  <2>1. log'[k] = log'[n] /\ k \in 1..(n - 1)
    BY <1>1, <1>2 DEF OnePerPosition
  <2>2. CASE \E j \in 1..n : Leads(j, n)'
    BY <2>1, <2>2 DEF Leads
  <2>3. CASE Highest(n)'
    <3>1. log'[k].tx < log'[n].tx
      BY <2>1, <2>3 DEF Highest, MakesRecord, IsChange
    <3>2. log'[n] \in Message
      <4>1. log' \in Seq(Message)
        BY DEF TypeInv, TypeOK, JSTypeOK
      <4> QED BY <1>1, <4>1
    <3> QED BY <2>1, <3>1, <3>2 DEF Message
  <2> QED BY <2>2, <2>3
<1>3. \A r \in keptFetchedRecords : r.pos # log'[n].pos
  <2> SUFFICES ASSUME NEW r \in keptFetchedRecords, r.pos = log'[n].pos PROVE FALSE
    OBVIOUS
  <2>1. r.seq \in 1..Len(log) /\ r.pos = log[r.seq].pos
    BY TypeFacts DEF TypeInv, FromStream
  <2> QED BY <1>2, <2>1
<1> QED
  BY <1>2, <1>3 DEF RowsFromStream

LEMMA PublishPairs ==
    ASSUME TypeInv, TypeInv', OnePerPosition', PairInv, Publish
    PROVE  Pairing'
<1> DEFINE n == Len(log) + 1
<1>1. /\ Len(log') = n /\ \A i \in 1..Len(log) : log'[i] = log[i]
      /\ 1..Len(log') = 1..Len(log) \cup {n} /\ Len(log) \in Nat
      /\ UNCHANGED <<keptFetchedRecords, changes, Positions>>
  BY PublishFacts
<1>2. LastUnsaved /\ KeptArePaired /\ FirstChangePaired /\ RowsFromStream
  BY DEF PairInv, Pairing
<1>3. LastUnsaved'
  <2> SUFFICES ASSUME NEW s \in 1..Len(log'), Last(s)'
               PROVE  /\ log'[s].pos \notin Positions
                      /\ \A r \in keptFetchedRecords : r.pos # log'[s].pos
    BY <1>1 DEF LastUnsaved
  <2>1. CASE s = n
    BY <1>2, <2>1, NewIsNoCopy DEF Last
  <2>2. CASE s \in 1..Len(log)
    <3>1. Highest(s)
      <4>1. \A k \in 1..(s - 1) : k \in 1..Len(log)
        BY <1>1, <2>2
      <4> QED BY <1>1, <2>2, <4>1 DEF Last, Highest
    <3>2. \A k \in (s + 1)..Len(log) : ~MakesRecord(log[k])
      <4> TAKE k \in (s + 1)..Len(log)
      <4>1. k \in (s + 1)..Len(log') /\ k \in 1..Len(log)
        BY <1>1, <2>2
      <4> QED BY <1>1, <4>1 DEF Last
    <3>3. Last(s)
      BY <1>1, <2>2, <3>1, <3>2 DEF Last
    <3> QED BY <1>1, <1>2, <2>2, <3>3 DEF LastUnsaved
  <2> QED BY <1>1, <2>1, <2>2
<1>4. ASSUME NEW s \in 1..Len(log'), NEW j \in 1..Len(log'), Partner(s, j)'
      PROVE  \/ /\ s \in 1..Len(log) /\ j \in 1..Len(log) /\ Partner(s, j)
             \/ /\ log'[s].pos \notin Positions
                /\ \A r \in keptFetchedRecords : r.pos # log'[s].pos
  <2>1. CASE s \in 1..Len(log) /\ j \in 1..Len(log)
    BY <1>1, <1>4, <2>1, PartnerIsOld
  <2>2. CASE s = n
    <3>1. IsChange(log'[s]) /\ (Leads(j, s) \/ Highest(s))'
      BY <1>4 DEF Partner, Trails
    <3> QED BY <1>1, <1>2, <2>2, <3>1, NewIsNoCopy
  <2>3. CASE s \in 1..Len(log) /\ j = n
    <3>1. Trails(j, s)' /\ IsChange(log[s]) /\ Owed(log[s])
      BY <1>1, <1>4, <2>3 DEF Partner, Leads
    <3>2. Highest(s)
      <4>1. \A k \in 1..(s - 1) : k \in 1..Len(log)
        BY <1>1, <2>3
      <4> QED BY <1>1, <2>3, <3>1, <4>1 DEF Trails, Highest
    <3>3. \A k \in (s + 1)..Len(log) : ~MakesRecord(log[k])
      <4> TAKE k \in (s + 1)..Len(log)
      <4>1. k \in (s + 1)..(j - 1) /\ k \in 1..Len(log)
        BY <1>1, <2>3
      <4> QED BY <1>1, <3>1, <4>1 DEF Trails
    <3>4. Last(s)
      BY <3>1, <3>2, <3>3 DEF Last
    <3> QED BY <1>1, <1>2, <2>3, <3>4 DEF LastUnsaved
  <2> QED BY <1>1, <2>1, <2>2, <2>3
<1>5. KeptArePaired'
  <2> SUFFICES ASSUME NEW r \in keptFetchedRecords, NEW s \in 1..Len(log'),
                      NEW j \in 1..Len(log'), r.pos = log'[s].pos, Partner(s, j)',
                      log'[s].pos \notin Positions
               PROVE  r.ctx # NoContext
    BY <1>1 DEF KeptArePaired, Awaited
  <2> QED BY <1>1, <1>2, <1>4 DEF KeptArePaired, Awaited
<1>6. FirstChangePaired'
  <2> SUFFICES ASSUME NEW c \in changes, NEW s \in 1..Len(log'),
                      NEW j \in 1..Len(log'), log'[s].pos = c.pos, Partner(s, j)'
               PROVE  c.ctx # NoContext
    BY <1>1 DEF FirstChangePaired
  <2> QED BY <1>1, <1>2, <1>4 DEF FirstChangePaired, Positions
<1> QED
  BY <1>3, <1>5, <1>6 DEF Pairing

\* The rows that an INSERT adds have their contexts.
LEMMA PersistPairs ==
    ASSUME TypeInv, PairInv, Persist
    PROVE  Pairing'
<1>1. /\ Chunk \subseteq keptFetchedRecords /\ log' = log
      /\ changes' = changes \cup Inserted(Chunk)
      /\ keptFetchedRecords' = keptFetchedRecords \ Chunk
  BY DEF Persist, Chunk, jsVars
<1>2. LastUnsaved /\ KeptArePaired /\ FirstChangePaired
  BY DEF PairInv, Pairing
<1>3. Chunk \in SUBSET Record /\ DistinctSequences(Chunk)
  BY <1>1 DEF TypeInv, TypeOK, FromStream, DistinctSequences
<1>4. \A c \in Inserted(Chunk) : /\ c.pos \notin Positions
                                 /\ \E r \in keptFetchedRecords :
                                        r.pos = c.pos /\ c.ctx = r.ctx
  <2> TAKE c \in Inserted(Chunk)
  <2>1. PICK p \in {r.pos : r \in Chunk} \ Positions :
            c = [pos |-> p, ctx |-> FirstAt(Chunk, p).ctx]
    BY DEF Inserted
  <2>2. FirstAt(Chunk, p) \in Chunk /\ FirstAt(Chunk, p).pos = p
    BY <1>3, <2>1, FirstAtExists
  <2> QED BY <1>1, <2>1, <2>2
<1>5. \A p \in Positions' : p \in Positions \/ \E r \in keptFetchedRecords : r.pos = p
  BY <1>1, <1>4 DEF Positions
<1>6. Positions \subseteq Positions'
  BY <1>1 DEF Positions
<1>7. LastUnsaved'
  BY <1>1, <1>2, <1>5 DEF LastUnsaved, Last, Highest
<1>8. KeptArePaired'
  BY <1>1, <1>2, <1>6 DEF KeptArePaired, Awaited, Partner, Leads, Trails, Highest
<1>9. FirstChangePaired'
  <2> SUFFICES ASSUME NEW c \in changes', NEW s \in 1..Len(log), NEW j \in 1..Len(log),
                      log[s].pos = c.pos, Partner(s, j)
               PROVE  c.ctx # NoContext
    BY <1>1 DEF FirstChangePaired, Partner, Leads, Trails, Highest
  <2>1. CASE c \in changes
    BY <1>2, <2>1 DEF FirstChangePaired
  <2>2. CASE c \in Inserted(Chunk)
    BY <1>2, <1>4, <2>2 DEF KeptArePaired, Awaited
  <2> QED BY <1>1, <2>1, <2>2
<1> QED
  BY <1>7, <1>8, <1>9 DEF Pairing

\* What is read and saved comes from the stream and passed the filter.
LEMMA ReadStep ==
    ASSUME TypeInv, PairInv, [Next]_vars
    PROVE  RowsFromStream' /\ Reads'
<1>1. RowsFromStream /\ Reads
  BY DEF PairInv
<1>2. CASE Publish
  <2>1. RowsFromStream'
    BY <1>1, <1>2, PublishFacts DEF RowsFromStream
  <2>2. Reads'
    <3>1. pending \cup batch \subseteq 1..Len(log)
      BY TypeFacts
    <3> QED BY <1>1, <1>2, <3>1, PublishFacts DEF Reads, Matches
  <2> QED BY <2>1, <2>2
<1>3. CASE Stitch
  <2>1. Held(Recs, Order(Recs)) \subseteq Recs
    BY DEF Held
  <2> QED BY <1>1, <1>3, <2>1, StitchFacts, RecsAreRead DEF RowsFromStream, Reads, Matches
<1>4. CASE Persist
  <2>1. /\ Chunk \subseteq keptFetchedRecords
        /\ changes' = changes \cup Inserted(Chunk)
        /\ UNCHANGED <<log, pending, batch, fetchedRecordBuffer>>
    BY <1>4 DEF Persist, Chunk, jsVars
  <2>2. \A c \in Inserted(Chunk) : \E r \in keptFetchedRecords : r.pos = c.pos
    BY <2>1 DEF Inserted
  <2>3. \A r \in keptFetchedRecords : \E s \in 1..Len(log) : log[s].pos = r.pos
    BY TypeFacts DEF TypeInv, FromStream
  <2>4. RowsFromStream'
    <3> SUFFICES ASSUME NEW c \in changes'
                 PROVE  \E s \in 1..Len(log) : log[s].pos = c.pos
      BY <2>1 DEF RowsFromStream, Positions
    <3>1. CASE c \in changes
      BY <1>1, <3>1 DEF RowsFromStream, Positions
    <3>2. CASE c \in Inserted(Chunk)
      BY <2>2, <2>3, <3>2
    <3> QED BY <2>1, <3>1, <3>2
  <2> QED BY <1>1, <2>1, <2>4 DEF Reads, Matches
<1>5. CASE ReceiveNew \/ ReceiveRedelivered
  <2>1. PICK s \in Nat \ {0} : /\ Accumulate(s) /\ Matches(s) /\ log' = log
                               /\ pending' \subseteq pending \cup {s}
    BY <1>1, <1>5, TypeFacts
       DEF ReceiveNew, ReceiveRedelivered, JSDeliverNew, JSRedeliver, IsNext, Reads
  <2>2. /\ batch' \subseteq batch \cup {s}
        /\ UNCHANGED <<fetchedRecordBuffer, changes>>
    BY <2>1 DEF Accumulate
  <2> QED BY <1>1, <2>1, <2>2 DEF RowsFromStream, Positions, Reads, Matches
<1>6. CASE LoseDelivery
  <2>1. /\ log' = log
        /\ \A t \in pending' : t \in pending \/ Matches(t)
        /\ UNCHANGED loopVars /\ changes' = changes
    BY <1>6 DEF LoseDelivery, JSDeliverNew, JSRedeliver, IsNext
  <2> QED BY <1>1, <2>1 DEF RowsFromStream, Positions, Reads, Matches, loopVars
<1>7. CASE /\ ~Publish /\ ~Stitch /\ ~Persist
           /\ ~ReceiveNew /\ ~ReceiveRedelivered /\ ~LoseDelivery
  <2>1. /\ log' = log /\ changes' = changes /\ pending' \subseteq pending
        /\ batch' \subseteq batch /\ fetchedRecordBuffer' \subseteq fetchedRecordBuffer
    BY <1>7 DEF Next, Flush, Replay, Expire, Start, Crash, ParseFails, Die, Ack,
                AckArrives, LoseAck, ReadFloor, NothingToRelease, Release,
                ReleaseFails, EndTurn, JSExpire, JSAckAll, JSPurge, jsVars,
                loopVars, vars
  <2> QED BY <1>1, <2>1 DEF RowsFromStream, Positions, Reads, Matches
<1> QED
  BY <1>2, <1>3, <1>4, <1>5, <1>6, <1>7

\* Every step preserves the invariant.
LEMMA PairStep ==
    ASSUME UseBuffer, ~PromptRestart, ~LossyDelivery, TypeInv, TypeInv', Ahead, Unacked,
           Durable, OnePerPosition, OnePerPosition', PairInv, [Next]_vars
    PROVE  PairInv'
<1>1. Pairing'
  <2>1. CASE Stitch
    BY <2>1, StitchPairsFirst
  <2>2. CASE Publish
    BY <2>2, PublishPairs
  <2>3. CASE Persist
    BY <2>3, PersistPairs
  <2>4. CASE ~Stitch /\ ~Publish /\ ~Persist
    <3>1. /\ log' = log /\ changes' = changes
          /\ keptFetchedRecords' \subseteq keptFetchedRecords
      BY <2>4 DEF Next, Flush, Replay, Expire, Start, Crash, ReceiveNew,
                  ReceiveRedelivered, LoseDelivery, ParseFails, Die, Ack, AckArrives,
                  LoseAck, ReadFloor, NothingToRelease, Release, ReleaseFails, EndTurn,
                  Accumulate, JSExpire, JSDeliverNew, JSRedeliver, JSAckAll, JSPurge,
                  jsVars, loopVars, vars
    <3>2. Positions' = Positions
      BY <3>1 DEF Positions
    <3>3. /\ \A s \in 1..Len(log) : Last(s)' <=> Last(s)
          /\ \A s, j \in 1..Len(log) : Partner(s, j)' <=> Partner(s, j)
      BY <3>1 DEF Last, Partner, Leads, Trails, Highest
    <3>4. LastUnsaved'
      BY <3>1, <3>2, <3>3 DEF PairInv, Pairing, LastUnsaved
    <3>5. KeptArePaired'
      BY <3>1, <3>2, <3>3 DEF PairInv, Pairing, KeptArePaired, Awaited
    <3>6. FirstChangePaired'
      BY <3>1, <3>3 DEF PairInv, Pairing, FirstChangePaired
    <3> QED BY <3>4, <3>5, <3>6 DEF Pairing
  <2> QED BY <2>1, <2>2, <2>3, <2>4
<1> QED
  BY <1>1, ReadStep, WaitStep DEF PairInv

\* The first change of a transaction is stored with a context, if the stream
\* has one of its transaction within the gap before it or as the next record
\* after it, wherever the fetches cut the transaction and the process died,
\* and whatever Debezium sent again (README.md:108-110, stitching.ts:55-80).
THEOREM FirstChangesArePaired ==
    ASSUME UseBuffer, ~PromptRestart, ~LossyDelivery, PositionsAreDistinct
    PROVE  Spec => []FirstChangePaired
<1>1. Init => PairInv /\ AllPaired
  <2>1. ASSUME Init PROVE PairInv /\ AllPaired
    <3>1. /\ log = <<>> /\ Len(log) = 0 /\ changes = {} /\ keptFetchedRecords = {}
          /\ pending = {} /\ batch = {} /\ fetchedRecordBuffer = {}
      BY <2>1 DEF Init, JSInit
    <3>2. Positions = {} /\ 1..Len(log) = {}
      BY <3>1 DEF Positions
    <3> QED BY <3>1, <3>2
            DEF PairInv, RowsFromStream, Reads, Waiting, OpenAccounted,
                AwaitedAccounted, Pairing, LastUnsaved, KeptArePaired,
                FirstChangePaired, AllPaired
  <2> QED BY <2>1
<1>2. TypeInv /\ AllPaired /\ [Next]_vars => AllPaired'
  BY AllPairedStep
<1>3. TypeInv /\ AllPaired => OnePerPosition
  BY PositionsTellApart
<1>4. OnePerPosition /\ OnePerPosition' /\ TypeInv /\ TypeInv' /\ Ahead /\ Unacked
          /\ Durable /\ PairInv /\ [Next]_vars
      => PairInv'
  BY PairStep
<1>5. PairInv => FirstChangePaired
  BY DEF PairInv, Pairing
<1>6. Spec => []AllPaired
  BY <1>1, <1>2, TypeInvariant, PTL DEF Spec
<1>7. Spec => []OnePerPosition
  BY <1>3, <1>6, TypeInvariant, PTL
<1> QED
  BY <1>1, <1>4, <1>5, <1>7, TypeInvariant, AheadInvariant, UnackedInvariant,
     DurableInvariant, PTL DEF Spec
=============================================================================
