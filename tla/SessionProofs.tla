---------------------------- MODULE SessionProofs ----------------------------
(***************************************************************************)
(* A session acknowledges only what it has returned for saving, for every  *)
(* set of subjects and any number of records: neither the walk over the    *)
(* subjects' maxima nor the order of transactions can make it go too far.  *)
(***************************************************************************)
EXTENDS StitchSession, StitchingProofs

-----------------------------------------------------------------------------
SessionTypes ==
    /\ received \in Seq(RecordOf(Subjects))
    /\ order \in Seq(Subjects)
    /\ acked \in 0..Len(received)

\* A record has the sequence of its place in the stream.
Numbered ==
    /\ \A s \in DOMAIN received : received[s].seq = s
    /\ \A r \in buffer : r.seq \in DOMAIN received /\ r = received[r.seq]

\* A change that was received was saved, or is still held.
NothingDropped ==
    \A s \in DOMAIN received :
        IsChange(received[s]) => s \in SavedSequences \/ received[s] \in buffer

SessionInv == SessionTypes /\ Numbered /\ NothingDropped /\ AckedIsSaved

\* The buffer of a session is well-formed.
LEMMA BufferWellFormed ==
    ASSUME SessionTypes, Numbered
    PROVE  WellFormed(buffer, Subjects)
<1>1. Len(received) \in Nat /\ DOMAIN received = 1..Len(received)
  BY DEF SessionTypes
<1>2. buffer \subseteq RecordOf(Subjects)
  BY <1>1 DEF SessionTypes, Numbered
<1>3. DistinctSequences(buffer)
  BY DEF Numbered, DistinctSequences
<1>4. IsFiniteSet(buffer)
  BY <1>1, <1>3, DistinctFinite DEF Numbered
<1> QED
  BY <1>2, <1>3, <1>4 DEF WellFormed

\* Stitching acknowledges nothing beyond the records it was given.
LEMMA AckIsSeen ==
    ASSUME NEW us, NEW recs, WellFormed(recs, us), NEW ord \in Seq(us),
           NEW n \in Nat, \A r \in recs : r.seq <= n
    PROVE  StitchFetchedRecords(recs, ord).ack <= n
<1> DEFINE held == Held(recs, ord)
           ack == Candidate(recs, ord)
<1>1. recs \subseteq RecordOf(us)
  BY DEF WellFormed
<1>2. \A r \in recs : r.seq \in Nat
  BY <1>1 DEF RecordOf
<1>3. ack \in Nat /\ ack <= n
  <2>1. recs # {} => {r.subject : r \in recs} # {}
    OBVIOUS
  <2>2. recs # {} => MaxSequence(recs, {r.subject : r \in recs}) \in {r.seq : r \in recs}
    BY <2>1, MaxSequenceType
  <2>3. AckSequence(recs, ord) \in {0} \cup {r.seq : r \in recs}
    BY AckSequenceType
  <2> QED BY <1>2, <2>2, <2>3 DEF Candidate
<1>4. held \subseteq recs
  BY DEF Held
<1>5. Clamp(ack, held) <= n
  <2>1. CASE \E r \in held : ack >= r.seq
    <3> DEFINE S == {r.seq : r \in held}
    <3>1. S \in SUBSET Nat /\ S # {} /\ \A k \in S : k <= n
      BY <1>2, <1>4, <2>1
    <3> HIDE DEF S
    <3>2. Min(S) \in S
      BY <3>1, MinIsLeast
    <3>3. Min(S) \in Nat /\ Min(S) <= n
      BY <3>1, <3>2
    <3> QED BY <2>1, <3>3 DEF Clamp, S
  <2>2. CASE ~ \E r \in held : ack >= r.seq
    BY <1>3, <2>2 DEF Clamp
  <2> QED BY <2>1, <2>2
<1> QED
  BY <1>5 DEF StitchFetchedRecords

\* A record that arrives is beyond everything that was acknowledged.
LEMMA ArriveKeeps == SessionInv /\ Arrive => SessionInv'
<1> SUFFICES ASSUME SessionInv, Arrive PROVE SessionInv'
  OBVIOUS
<1> DEFINE s == Len(received) + 1
<1>1. PICK u \in Subjects, t \in Transactions, k \in ArrivingKinds :
          AddFetchedRecord([kind |-> k, tx |-> t, pos |-> s], u)
  BY DEF Arrive
<1> DEFINE r == FromNatsMessage([kind |-> k, tx |-> t, pos |-> s], s, u)
<1>2. Len(received) \in Nat /\ DOMAIN received = 1..Len(received)
  BY DEF SessionInv, SessionTypes
<1>3. r \in RecordOf(Subjects) /\ r.seq = s
  BY <1>2, SessionAssumption DEF FromNatsMessage, RecordOf, NoContext
<1>4. /\ received' = Append(received, r)
      /\ buffer' = buffer \cup {r}
      /\ order' = InsertionOrder(order, u)
      /\ saved' = saved /\ acked' = acked
  BY <1>1 DEF AddFetchedRecord
<1> HIDE DEF r
<1>5. /\ Len(received') = s
      /\ DOMAIN received' = 1..s
      /\ received' \in Seq(RecordOf(Subjects))
      /\ received'[s] = r
      /\ \A i \in 1..Len(received) : received'[i] = received[i]
  BY <1>2, <1>3, <1>4 DEF SessionInv, SessionTypes
<1>6. SessionTypes'
  BY <1>2, <1>4, <1>5 DEF SessionInv, SessionTypes, InsertionOrder
<1>7. Numbered'
  BY <1>2, <1>3, <1>4, <1>5 DEF SessionInv, Numbered
<1>8. NothingDropped'
  BY <1>2, <1>4, <1>5 DEF SessionInv, NothingDropped, SavedSequences
<1>9. AckedIsSaved'
  BY <1>2, <1>3, <1>4, <1>5
     DEF SessionInv, SessionTypes, AckedIsSaved, SavedSequences
<1> QED
  BY <1>6, <1>7, <1>8, <1>9 DEF SessionInv

\* A call saves or holds every change it was given, and acknowledges below
\* what it holds.
LEMMA CallKeeps == SessionInv /\ Call => SessionInv'
<1> SUFFICES ASSUME SessionInv, Call PROVE SessionInv'
  OBVIOUS
<1> DEFINE result == StitchFetchedRecords(buffer, order)
<1>1. Len(received) \in Nat /\ DOMAIN received = 1..Len(received)
  BY DEF SessionInv, SessionTypes
<1>2. WellFormed(buffer, Subjects) /\ order \in Seq(Subjects)
  BY BufferWellFormed DEF SessionInv, SessionTypes
<1>3. /\ result.buffer \subseteq buffer
      /\ result.ack \in Nat
      /\ \A r \in result.buffer : result.ack < r.seq
  BY <1>2, StitchingResult
<1>4. result.ack <= Len(received)
  BY <1>1, <1>2, AckIsSeen DEF SessionInv, Numbered
<1>5. \A r \in buffer : IsChange(r) =>
          r \in result.buffer \/ \E q \in result.stitched : q.seq = r.seq
  <2> SUFFICES ASSUME NEW r \in buffer, IsChange(r)
               PROVE  r \in result.buffer \/ \E q \in result.stitched : q.seq = r.seq
    OBVIOUS
  <2>1. ~IsHeartbeatMessage(r) /\ ~IsContextMessage(r)
    BY DEF IsChange, IsHeartbeatMessage, IsContextMessage
  <2>2. buffer \in SUBSET RecordOf(Subjects)
    BY <1>2 DEF WellFormed
  <2> QED BY <2>1, <2>2, SavedOrHeld
<1>6. /\ received' = received
      /\ buffer' = result.buffer
      /\ saved' = saved \cup result.stitched
      /\ acked' = Max({acked, result.ack})
      /\ \E at \in Remaining(result.buffer) : order' = [n \in DOMAIN at |-> order[at[n]]]
  BY DEF Call
<1> HIDE DEF result
<1>7. /\ acked' \in {acked, result.ack}
      /\ acked \in Nat
  <2>1. acked \in Nat
    BY <1>1 DEF SessionInv, SessionTypes
  <2>2. IsFiniteSet({acked, result.ack})
    <3>1. IsFiniteSet({acked}) /\ IsFiniteSet({result.ack})
      BY FS_Singleton
    <3> QED BY <3>1, FS_Union, {acked, result.ack} = {acked} \cup {result.ack}
  <2> QED BY <1>3, <1>6, <2>1, <2>2, MaxIsGreatest
<1>8. order' \in Seq(Subjects)
  <2> DEFINE kept == {i \in DOMAIN order : OfSubject(result.buffer, order[i]) # {}}
  <2>1. kept \subseteq 1..Len(order) /\ Len(order) \in Nat
    BY <1>2
  <2>2. IsFiniteSet(kept)
    BY <2>1, FS_Interval, FS_Subset
  <2>3. Cardinality(kept) \in Nat
    BY <2>2, FS_CardinalityType
  <2>4. PICK at \in [1..Cardinality(kept) -> kept] :
            order' = [n \in DOMAIN at |-> order[at[n]]]
    BY <1>6 DEF Remaining
  <2>5. \A i \in kept : order[i] \in Subjects
    BY <1>2
  <2>6. order' \in [1..Cardinality(kept) -> Subjects]
    BY <2>4, <2>5
  <2> HIDE DEF kept
  <2> QED BY <2>3, <2>6
<1>9. SessionTypes'
  <2>1. acked' \in 0..Len(received)
    BY <1>1, <1>3, <1>4, <1>7 DEF SessionInv, SessionTypes
  <2>2. received' = received
    BY <1>6
  <2> QED BY <1>8, <2>1, <2>2 DEF SessionInv, SessionTypes
<1>10. Numbered'
  BY <1>3, <1>6 DEF SessionInv, Numbered
<1>11. SavedSequences' = SavedSequences \cup {q.seq : q \in result.stitched}
  BY <1>6 DEF SavedSequences
<1>12. NothingDropped'
  <2> SUFFICES ASSUME NEW s \in DOMAIN received, IsChange(received[s]),
                      s \notin SavedSequences'
               PROVE  received[s] \in buffer'
    BY <1>6 DEF NothingDropped
  <2>1. received[s] \in buffer /\ received[s].seq = s
    BY <1>11 DEF SessionInv, NothingDropped, Numbered
  <2> QED BY <1>5, <1>6, <1>11, <2>1
<1>13. \A r \in buffer' : r.seq > acked'
  BY <1>1, <1>3, <1>6, <1>7 DEF SessionInv, AckedIsSaved, Numbered
<1>14. AckedIsSaved'
  <2>1. \A s \in 1..acked' : s \in DOMAIN received
    BY <1>1, <1>9, <1>6 DEF SessionTypes
  <2>2. \A s \in 1..acked' : received[s] \notin buffer'
    <3>1. acked' \in Nat
      BY <1>3, <1>7
    <3>2. \A s \in 1..acked' : received[s].seq = s
      BY <2>1 DEF SessionInv, Numbered
    <3> QED BY <1>13, <3>1, <3>2
  <2> QED BY <1>6, <1>12, <1>13, <2>1, <2>2 DEF AckedIsSaved, NothingDropped
<1> QED
  BY <1>9, <1>10, <1>12, <1>14 DEF SessionInv

\* Whatever is acknowledged was saved, and what is held was not acknowledged,
\* on any number of subjects (stitching.ts:101-142).
THEOREM SessionsAckWhatTheySaved == SessionSpec => []AckedIsSaved
<1>1. SessionInit => SessionInv
  BY DEF SessionInit, SessionInv, SessionTypes, Numbered, NothingDropped, AckedIsSaved
<1>2. SessionInv /\ [SessionNext]_sessionVars => SessionInv'
  <2>1. ASSUME SessionInv, UNCHANGED sessionVars PROVE SessionInv'
    BY <2>1 DEF sessionVars, SessionInv, SessionTypes, Numbered, NothingDropped,
                AckedIsSaved, SavedSequences
  <2> QED BY <2>1, ArriveKeeps, CallKeeps DEF SessionNext
<1>3. SessionInv => AckedIsSaved
  BY DEF SessionInv
<1> QED
  BY <1>1, <1>2, <1>3, PTL DEF SessionSpec

-----------------------------------------------------------------------------
(***************************************************************************)
(* A context waits for its change.  The subjects of the order are those of *)
(* the buffer, so maxSequence is the sequence of a record, and a context   *)
(* within the gap of the last record is not an orphan.  Once its change    *)
(* arrives the two are stitched in the next call: the change does not wait *)
(* for another, since it is not alone.                                     *)
(***************************************************************************)
OrderFits ==
    \A u : (\E i \in DOMAIN order : order[i] = u) <=> OfSubject(buffer, u) # {}

ContextsNamed ==
    \A s \in DOMAIN received :
        IsContextMessage(received[s]) => received[s].ctx # NoContext

Together(q, r) == q.subject = r.subject /\ q.tx = r.tx

Unanswered(s) ==
    \A t \in DOMAIN received :
        Together(received[t], received[s]) => ~IsChange(received[t])

ContextsWait ==
    \A s \in DOMAIN received :
        /\ IsContextMessage(received[s]) /\ Unanswered(s)
        /\ Len(received) - s <= OrphanGap
        => received[s] \in buffer

\* The change is the first of its transaction, and a context of it is near.
Owed(d) ==
    /\ IsChange(d)
    /\ \A q \in EarlierInTransaction(d) : ~IsChange(q)
    /\ \E q \in EarlierInTransaction(d) :
          IsContextMessage(q) /\ d.seq - 1 - q.seq <= OrphanGap

OwedArePaired == \A r \in buffer : Owed(r) => ContextsOf(buffer, r) # {}

Origins ==
    \A d \in saved :
        /\ d.seq \in DOMAIN received
        /\ d.kind = received[d.seq].kind /\ Together(d, received[d.seq])

PairInv ==
    /\ SessionInv /\ OrderFits /\ ContextsNamed /\ ContextsWait
    /\ OwedArePaired /\ Origins /\ PairedWithinGap

\* What came before a record is settled by the records up to it.
LEMMA EarlierFacts ==
    ASSUME SessionInv, NEW d, NEW q
    PROVE  q \in EarlierInTransaction(d)
               <=> \E s \in DOMAIN received :
                       q = received[s] /\ s < d.seq /\ Together(q, d)
  BY DEF SessionInv, Numbered, EarlierInTransaction, SameTransaction, Together

\* Of a change only its context may be new when it is saved.
LEMMA WithContextOrigin ==
    ASSUME NEW recs \in SUBSET RecordOf(Subjects), NEW r \in recs
    PROVE  /\ WithContext(recs, r).seq = r.seq
           /\ WithContext(recs, r).kind = r.kind
           /\ Together(WithContext(recs, r), r)
<1> DEFINE first == CHOOSE q \in ContextsOf(recs, r) :
                        \A p \in ContextsOf(recs, r) : q.seq <= p.seq
<1>1. \A c : /\ SetContext(r, c).seq = r.seq /\ SetContext(r, c).kind = r.kind
             /\ Together(SetContext(r, c), r)
  BY DEF SetContext, RecordOf, Together
<1>2. WithContext(recs, r) = r \/ WithContext(recs, r) = SetContext(r, first.ctx)
  BY DEF WithContext
<1> HIDE DEF first
<1> QED
  BY <1>1, <1>2 DEF Together

LEMMA ArrivePairs == PairInv /\ Arrive => PairInv'
<1> SUFFICES ASSUME PairInv, Arrive PROVE PairInv'
  OBVIOUS
<1>0. SessionInv /\ SessionInv'
  BY ArriveKeeps DEF PairInv
<1> DEFINE n == Len(received)
<1>1. PICK u \in Subjects, t \in Transactions, k \in ArrivingKinds :
          AddFetchedRecord([kind |-> k, tx |-> t, pos |-> n + 1], u)
  BY DEF Arrive
<1> DEFINE r == FromNatsMessage([kind |-> k, tx |-> t, pos |-> n + 1], n + 1, u)
<1>2. n \in Nat /\ DOMAIN received = 1..n
  BY <1>0 DEF SessionInv, SessionTypes
<1>3. /\ r \in RecordOf(Subjects) /\ r.seq = n + 1 /\ r.subject = u
      /\ IsContextMessage(r) => r.ctx # NoContext
  BY <1>2, SessionAssumption DEF FromNatsMessage, RecordOf, NoContext, IsContextMessage
<1>4. /\ received' = Append(received, r) /\ buffer' = buffer \cup {r}
      /\ order' = InsertionOrder(order, u) /\ saved' = saved
  BY <1>1 DEF AddFetchedRecord
<1> HIDE DEF r
<1>5. /\ Len(received') = n + 1 /\ DOMAIN received' = 1..(n + 1)
      /\ received'[n + 1] = r
      /\ \A s \in 1..n : received'[s] = received[s]
  BY <1>0, <1>2, <1>3, <1>4 DEF SessionInv, SessionTypes
<1> HIDE DEF n
<1>6. ASSUME NEW d, d.seq \in 1..n, NEW q
      PROVE  q \in EarlierInTransaction(d)' <=> q \in EarlierInTransaction(d)
  <2>1. \A s \in DOMAIN received' : received'[s].seq = s
    BY <1>0 DEF SessionInv, Numbered
  <2>2. q \in EarlierInTransaction(d)'
            <=> \E s \in DOMAIN received' :
                    q = received'[s] /\ s < d.seq /\ Together(q, d)
    BY <2>1 DEF EarlierInTransaction, SameTransaction, Together
  <2>3. q \in EarlierInTransaction(d)
            <=> \E s \in DOMAIN received :
                    q = received[s] /\ s < d.seq /\ Together(q, d)
    BY <1>0, EarlierFacts
  <2>4. \A s : s \in DOMAIN received' /\ s < d.seq <=> s \in DOMAIN received /\ s < d.seq
    BY <1>2, <1>5, <1>6
  <2> QED
    BY <1>2, <1>5, <1>6, <2>2, <2>3, <2>4
<1>7. \A d : d.seq \in 1..n => (Owed(d)' <=> Owed(d))
  BY <1>6 DEF Owed
<1>8. OrderFits'
  <2>1. order \in Seq(Subjects)
    BY <1>0 DEF SessionInv, SessionTypes
  <2>2. \A v : (\E i \in DOMAIN order' : order'[i] = v)
                   <=> v = u \/ \E i \in DOMAIN order : order[i] = v
    <3>1. CASE \E i \in DOMAIN order : order[i] = u
      BY <1>4, <3>1 DEF InsertionOrder
    <3>2. CASE ~ \E i \in DOMAIN order : order[i] = u
      <4>1. order' = Append(order, u)
        BY <1>4, <3>2 DEF InsertionOrder
      <4>2. /\ DOMAIN order = 1..Len(order) /\ Len(order) \in Nat
            /\ DOMAIN order' = 1..(Len(order) + 1)
            /\ order'[Len(order) + 1] = u
            /\ \A i \in 1..Len(order) : order'[i] = order[i]
        BY <2>1, <4>1
      <4> QED
        BY <4>2
    <3> QED
      BY <3>1, <3>2
  <2>3. \A v : OfSubject(buffer', v) # {} <=> v = u \/ OfSubject(buffer, v) # {}
    BY <1>3, <1>4 DEF OfSubject
  <2> QED
    BY <2>2, <2>3 DEF PairInv, OrderFits
<1>9. ContextsNamed'
  BY <1>2, <1>3, <1>5 DEF PairInv, ContextsNamed
<1>10. ASSUME NEW s \in DOMAIN received', IsContextMessage(received'[s]),
              (n + 1) - s <= OrphanGap, Unanswered(s)'
       PROVE  received'[s] \in buffer'
  <2>1. CASE s = n + 1
    BY <1>4, <1>5, <2>1
  <2>2. CASE s \in 1..n
    <3>1. n - s <= OrphanGap
      BY <1>2, <1>10, <2>2, StitchingAssumption
    <3>2. Unanswered(s)
      BY <1>2, <1>5, <1>10, <2>2 DEF Unanswered, Together, IsChange
    <3> QED
      BY <1>2, <1>4, <1>5, <1>10, <2>2, <3>1, <3>2 DEF PairInv, ContextsWait, n
  <2> QED
    BY <1>2, <1>5, <2>1, <2>2
<1>11. OwedArePaired'
  <2> SUFFICES ASSUME NEW d \in buffer', Owed(d)'
               PROVE  ContextsOf(buffer', d) # {}
    BY DEF OwedArePaired
  <2>1. CASE d \in buffer
    <3>1. d.seq \in 1..n
      BY <1>0, <1>2, <2>1 DEF SessionInv, Numbered
    <3>2. ContextsOf(buffer, d) # {}
      BY <1>7, <2>1, <3>1 DEF PairInv, OwedArePaired
    <3> QED
      BY <1>4, <3>2 DEF ContextsOf, SameTransaction
  <2>2. CASE d = r
    <3>0. d.seq = n + 1
      BY <1>3, <2>2
    <3>1. \A q : q \in EarlierInTransaction(d)'
              <=> \E s \in 1..n : q = received[s] /\ Together(q, d)
      <4>1. \A s \in DOMAIN received' : received'[s].seq = s
        BY <1>0 DEF SessionInv, Numbered
      <4>2. \A q : q \in EarlierInTransaction(d)'
                <=> \E s \in DOMAIN received' :
                        q = received'[s] /\ s < n + 1 /\ Together(q, d)
        BY <3>0, <4>1 DEF EarlierInTransaction, SameTransaction, Together
      <4>3. \A s : s \in DOMAIN received' /\ s < n + 1 <=> s \in 1..n
        BY <1>2, <1>5
      <4>4. \A s \in 1..n : received'[s] = received[s]
        BY <1>5
      <4> QED
        BY <4>2, <4>3, <4>4
    <3>2. PICK s \in 1..n : /\ IsContextMessage(received[s]) /\ Together(received[s], d)
                            /\ d.seq - 1 - received[s].seq <= OrphanGap
      BY <3>1 DEF Owed, IsContextMessage
    <3>3. received[s].seq = s
      BY <1>0, <1>2 DEF SessionInv, Numbered
    <3>4. n - s <= OrphanGap
      BY <1>2, <3>0, <3>2, <3>3
    <3>5. Unanswered(s)
      <4> SUFFICES ASSUME NEW p \in DOMAIN received, Together(received[p], received[s])
                   PROVE  ~IsChange(received[p])
        BY DEF Unanswered
      <4>1. Together(received[p], d)
        BY <3>2 DEF Together
      <4>2. received[p] \in EarlierInTransaction(d)'
        BY <1>2, <3>1, <4>1
      <4> QED
        BY <4>2 DEF Owed, IsChange
    <3>6. received[s] \in buffer
      BY <1>2, <3>2, <3>4, <3>5 DEF PairInv, ContextsWait, n
    <3> QED
      BY <1>4, <2>2, <3>2, <3>6 DEF ContextsOf, SameTransaction, Together
  <2> QED
    BY <1>4, <2>1, <2>2
<1>12. Origins'
  BY <1>2, <1>4, <1>5 DEF PairInv, Origins
<1>13. PairedWithinGap'
  <2>1. \A d \in saved : Owed(d) => d.ctx # NoContext
    BY DEF PairInv, PairedWithinGap, Owed
  <2>2. \A d \in saved : d.seq \in 1..n
    BY <1>2 DEF PairInv, Origins
  <2>3. \A d \in saved' : Owed(d)' => d.ctx # NoContext
    BY <1>4, <1>7, <2>1, <2>2
  <2> QED
    BY <2>3 DEF PairedWithinGap, Owed
<1>14. ContextsWait'
  <2>1. Len(received)' = n + 1
    BY <1>5
  <2> QED
    BY <1>10, <2>1 DEF ContextsWait, IsContextMessage
<1> QED
  BY <1>0, <1>8, <1>9, <1>14, <1>11, <1>12, <1>13 DEF PairInv

\* The subjects of the new order are those that still have records: as many
\* places are picked as there are, so none is left out.
LEMMA RemainingSubjects ==
    ASSUME NEW recs, order \in Seq(Subjects), NEW at \in Remaining(recs), NEW u
    PROVE  (\E m \in DOMAIN at : order[at[m]] = u)
               <=> OfSubject(recs, u) # {} /\ \E i \in DOMAIN order : order[i] = u
<1> DEFINE kept == {i \in DOMAIN order : OfSubject(recs, order[i]) # {}}
           size == Cardinality(kept)
<1>1. /\ at \in [1..size -> kept]
      /\ \A i, j \in DOMAIN at : i < j => at[i] < at[j]
  BY DEF Remaining
<1>2. kept \subseteq 1..Len(order) /\ Len(order) \in Int /\ kept \subseteq Nat
  OBVIOUS
<1>3. IsFiniteSet(kept)
  <2>1. IsFiniteSet(1..Len(order))
    BY <1>2, FS_Interval
  <2> QED
    BY <1>2, <2>1, FS_Subset
<1>4. size \in Nat
  BY <1>3, FS_CardinalityType
<1> HIDE DEF kept, size
<1>5. at \in Injection(1..size, kept)
  <2> SUFFICES ASSUME NEW i \in 1..size, NEW j \in 1..size, at[i] = at[j]
               PROVE  i = j
    BY <1>1 DEF Injection, IsInjective
  <2>1. i \in Nat /\ j \in Nat
    BY <1>4
  <2>2. at[i] \in Nat /\ i \in DOMAIN at /\ j \in DOMAIN at
    <3>1. at[i] \in kept
      BY <1>1
    <3> QED
      BY <1>1, <1>2, <3>1
  <2>3. ~(i < j) /\ ~(j < i)
    BY <1>1, <2>2
  <2> QED
    BY <2>1, <2>3
<1>6. Cardinality(1..size) = size
  <2>1. 1 \in Int /\ size \in Int
    BY <1>4
  <2>2. Cardinality(1..size) = IF 1 > size THEN 0 ELSE size - 1 + 1
    BY <2>1, FS_Interval
  <2> QED
    BY <1>4, <2>2
<1>7. at \in Surjection(1..size, kept)
  BY <1>3, <1>5, <1>6, FS_Injection DEF size
<1>8. \A i \in kept : \E m \in 1..size : at[m] = i
  BY <1>7 DEF Surjection
<1>9. \A i : i \in kept <=> i \in DOMAIN order /\ OfSubject(recs, order[i]) # {}
  BY DEF kept
<1> QED
  BY <1>1, <1>8, <1>9

\* A context that waits is held by a call: no change answers it, and it is no
\* orphan.
LEMMA ContextIsHeld ==
    ASSUME UseBuffer, PairInv, NEW s \in DOMAIN received, received[s] \in buffer,
           IsContextMessage(received[s]), Unanswered(s),
           Len(received) - s <= OrphanGap
    PROVE  received[s] \in Held(buffer, order)
<1> DEFINE c == received[s]
           visited == Visited(order, c.subject)
           max == MaxSequence(buffer, visited)
<1>1. /\ WellFormed(buffer, Subjects) /\ order \in Seq(Subjects)
      /\ Len(received) \in Nat /\ DOMAIN received = 1..Len(received)
      /\ c.seq = s
  BY BufferWellFormed DEF PairInv, SessionInv, SessionTypes, Numbered
<1>2. visited # {} /\ visited \subseteq {r.subject : r \in buffer}
  <2>1. \A i \in DOMAIN order : order[i] \in {r.subject : r \in buffer}
    BY DEF PairInv, OrderFits, OfSubject
  <2>2. PICK i \in DOMAIN order : order[i] = c.subject
    BY DEF PairInv, OrderFits, OfSubject
  <2>3. i <= i
    BY <1>1
  <2> QED
    BY <2>1, <2>2, <2>3 DEF Visited
<1>3. max \in {r.seq : r \in buffer}
  BY <1>1, <1>2, MaxSequenceType
<1>4. \A r \in buffer : r.seq \in 1..Len(received)
  BY <1>1 DEF PairInv, SessionInv, Numbered
<1> HIDE DEF max
<1>5. max - s <= OrphanGap
  BY <1>1, <1>3, <1>4, StitchingAssumption
<1>6. ~Orphaned(buffer, order, c)
  <2>1. max \in Nat /\ s \in Nat /\ OrphanGap \in Nat
    BY <1>1, <1>3, <1>4, StitchingAssumption
  <2> QED
    BY <1>1, <1>5, <2>1 DEF Orphaned, max
<1>7. ~ChangeArrived(buffer, c)
  <2>1. \A q \in buffer : q.seq \in DOMAIN received /\ q = received[q.seq]
    BY DEF PairInv, SessionInv, Numbered
  <2> QED
    BY <2>1 DEF Unanswered, Together, ChangeArrived, SameTransaction
<1> QED
  BY <1>6, <1>7 DEF Held, HeldContext

LEMMA CallPairs ==
    ASSUME UseBuffer, PairInv, Call
    PROVE  PairInv'
<1> DEFINE result == StitchFetchedRecords(buffer, order)
<1>1. SessionInv /\ SessionInv'
  BY CallKeeps DEF PairInv
<1>2. /\ received' = received /\ buffer' = Held(buffer, order)
      /\ saved' = saved \cup Stitched(buffer)
      /\ \E at \in Remaining(Held(buffer, order)) :
             order' = [m \in DOMAIN at |-> order[at[m]]]
  BY DEF Call, StitchFetchedRecords
<1>3. buffer \subseteq RecordOf(Subjects) /\ buffer' \subseteq buffer
  BY <1>1, <1>2, BufferWellFormed DEF WellFormed, SessionInv, Held
<1>4. /\ \A d, q : q \in EarlierInTransaction(d)' <=> q \in EarlierInTransaction(d)
      /\ \A s : Unanswered(s)' <=> Unanswered(s)
  BY <1>2 DEF EarlierInTransaction, SameTransaction, Unanswered
<1>5. \A d : Owed(d)' <=> Owed(d)
  BY <1>4 DEF Owed
<1>6. OrderFits'
  <2>1. order \in Seq(Subjects)
    BY <1>1 DEF SessionInv, SessionTypes
  <2>2. PICK at \in Remaining(buffer') : order' = [m \in DOMAIN at |-> order[at[m]]]
    BY <1>2
  <2>3. \A u : (\E m \in DOMAIN at : order[at[m]] = u)
                   <=> /\ OfSubject(buffer', u) # {}
                       /\ \E i \in DOMAIN order : order[i] = u
    BY <2>1, RemainingSubjects
  <2>4. \A u : OfSubject(buffer', u) # {} => OfSubject(buffer, u) # {}
    BY <1>3 DEF OfSubject
  <2>5. \A u : (\E m \in DOMAIN order' : order'[m] = u) <=> OfSubject(buffer', u) # {}
    BY <2>2, <2>3, <2>4 DEF PairInv, OrderFits
  <2> QED
    BY <2>5 DEF OrderFits, OfSubject
<1>7. ContextsNamed'
  BY <1>2 DEF PairInv, ContextsNamed, IsContextMessage
<1>8. ContextsWait'
  <2>1. ASSUME NEW s \in DOMAIN received, IsContextMessage(received[s]),
               Unanswered(s), Len(received) - s <= OrphanGap
        PROVE  received[s] \in buffer'
    <3>1. received[s] \in buffer
      BY <2>1 DEF PairInv, ContextsWait
    <3> QED
      BY <1>2, <2>1, <3>1, ContextIsHeld
  <2> QED
    BY <1>2, <1>4, <2>1 DEF ContextsWait, IsContextMessage
<1>9. \A d \in buffer : Owed(d) => d \in Savable(buffer) /\ d \notin buffer'
  <2> SUFFICES ASSUME NEW d \in buffer, Owed(d)
               PROVE  d \in Savable(buffer) /\ d \notin buffer'
    OBVIOUS
  <2>1. IsChange(d) /\ ~IsHeartbeatMessage(d) /\ ~IsContextMessage(d)
    BY DEF Owed, IsChange, IsHeartbeatMessage, IsContextMessage
  <2>2. ContextsOf(buffer, d) # {}
    BY DEF PairInv, OwedArePaired
  <2>3. SameTransaction(buffer, d) # {d}
    BY <2>1, <2>2 DEF ContextsOf
  <2> QED
    BY <1>2, <2>1, <2>3 DEF Savable, Held, HeldChange, HeldContext
<1>10. OwedArePaired'
  BY <1>3, <1>5, <1>9 DEF OwedArePaired
<1>11. \A q \in Savable(buffer) :
          /\ q \in buffer /\ q.seq \in DOMAIN received /\ q = received[q.seq]
          /\ WithContext(buffer, q).seq = q.seq /\ WithContext(buffer, q).kind = q.kind
          /\ Together(WithContext(buffer, q), q)
  <2>1. \A q \in Savable(buffer) : q \in buffer
    BY DEF Savable
  <2> QED
    BY <1>1, <1>3, <2>1, WithContextOrigin DEF SessionInv, Numbered
<1>12. Origins'
  <2>1. \A d \in Stitched(buffer) :
            /\ d.seq \in DOMAIN received
            /\ d.kind = received[d.seq].kind /\ Together(d, received[d.seq])
    BY <1>11 DEF Stitched
  <2> QED
    BY <1>2, <2>1 DEF PairInv, Origins, Together
<1>13. \A d \in Stitched(buffer) : Owed(d) => d.ctx # NoContext
  <2> SUFFICES ASSUME NEW q \in Savable(buffer), Owed(WithContext(buffer, q))
               PROVE  WithContext(buffer, q).ctx # NoContext
    BY DEF Stitched
  <2> DEFINE d == WithContext(buffer, q)
  <2>1. q \in buffer /\ d.seq = q.seq /\ d.kind = q.kind /\ Together(d, q)
    BY <1>11
  <2> HIDE DEF d
  <2>2. Owed(q)
    <3>1. \A p : p \in EarlierInTransaction(q) <=> p \in EarlierInTransaction(d)
      BY <2>1 DEF EarlierInTransaction, SameTransaction, Together
    <3>2. Owed(d)
      BY DEF d
    <3> QED
      BY <2>1, <3>1, <3>2 DEF Owed, IsChange
  <2>3. ContextsOf(buffer, q) # {}
    BY <2>1, <2>2 DEF PairInv, OwedArePaired
  <2>4. PICK p \in ContextsOf(buffer, q) : d.ctx = p.ctx
    BY <1>3, <2>1, <2>3, WithContextNamed DEF d
  <2>5. /\ p \in buffer /\ IsContextMessage(p)
        /\ p.seq \in DOMAIN received /\ p = received[p.seq]
    BY <1>1 DEF ContextsOf, SameTransaction, SessionInv, Numbered
  <2> QED
    BY <2>4, <2>5 DEF PairInv, ContextsNamed, d
<1>14. PairedWithinGap'
  <2>1. \A d \in saved : Owed(d) => d.ctx # NoContext
    BY DEF PairInv, PairedWithinGap, Owed
  <2>2. \A d \in saved' : Owed(d)' => d.ctx # NoContext
    BY <1>2, <1>5, <1>13, <2>1
  <2> QED
    BY <2>2 DEF PairedWithinGap, Owed
<1> QED
  BY <1>1, <1>6, <1>7, <1>8, <1>10, <1>12, <1>14 DEF PairInv

\* With a buffer, the first change of a transaction is saved with a context
\* if one came within the gap before it, however the calls fell between them
\* and whatever arrived on other subjects (stitching.ts:7-10, 62-81).
THEOREM ContextsWaitForTheirChange ==
    ASSUME UseBuffer
    PROVE  SessionSpec => []PairedWithinGap
<1>1. SessionInit => PairInv
  BY DEF SessionInit, PairInv, SessionInv, SessionTypes, Numbered, NothingDropped,
         AckedIsSaved, OrderFits, OfSubject, ContextsNamed, ContextsWait,
         OwedArePaired, Origins, PairedWithinGap
<1>2. PairInv /\ [SessionNext]_sessionVars => PairInv'
  <2>1. ASSUME PairInv, UNCHANGED sessionVars PROVE PairInv'
    <3>1. SessionInv'
      BY <2>1 DEF sessionVars, PairInv, SessionInv, SessionTypes, Numbered,
                  NothingDropped, AckedIsSaved, SavedSequences
    <3>2. OrderFits' /\ ContextsNamed' /\ ContextsWait' /\ Origins'
      BY <2>1 DEF sessionVars, PairInv, OrderFits, ContextsNamed, ContextsWait,
                  Unanswered, Origins
    <3>3. OwedArePaired' /\ PairedWithinGap'
      BY <2>1 DEF sessionVars, PairInv, OwedArePaired, Owed, PairedWithinGap,
                  EarlierInTransaction
    <3> QED
      BY <3>1, <3>2, <3>3 DEF PairInv
  <2> QED
    BY <2>1, ArrivePairs, CallPairs DEF SessionNext
<1>3. PairInv => PairedWithinGap
  BY DEF PairInv
<1> QED
  BY <1>1, <1>2, <1>3, PTL DEF SessionSpec
=============================================================================
