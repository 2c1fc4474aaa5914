--------------------------- MODULE StitchingProofs ---------------------------
(***************************************************************************)
(* Lemmas about the operators of Stitching: the choices they make exist,   *)
(* the acknowledgement they return is a sequence number, and it stays      *)
(* below every record that is held back.                                   *)
(***************************************************************************)
EXTENDS Stitching, TLAPS, FiniteSetTheorems, WellFoundedInduction

-----------------------------------------------------------------------------
(***************************************************************************)
(* Least and greatest elements of sets of natural numbers.                 *)
(***************************************************************************)
\* Every nonempty set of natural numbers has a least element.
LEMMA NatHasLeast ==
    ASSUME NEW S \in SUBSET Nat, S # {}
    PROVE  \E m \in S : \A k \in S : m <= k
<1> DEFINE R == OpToRel(<, Nat)
<1>1. \E m \in S : \A k \in S : <<k, m>> \notin R
  BY NatLessThanWellFounded, WFMin, Zenon
<1>2. PICK m \in S : \A k \in S : <<k, m>> \notin R
  BY <1>1
<1>3. \A k \in S : ~(k < m)
  BY <1>2, Zenon DEF OpToRel
<1> QED
  BY <1>3

HasGreatest(S) == \E m \in S : \A k \in S : k <= m

\* Every finite nonempty set of natural numbers has a greatest element: a
\* smallest one without it would lose an element and still have none.
LEMMA FiniteHasGreatest ==
    ASSUME NEW S \in SUBSET Nat, IsFiniteSet(S), S # {}
    PROVE  HasGreatest(S)
<1>1. SUFFICES ASSUME ~HasGreatest(S) PROVE FALSE
  OBVIOUS
<1> DEFINE Bad == {T \in SUBSET S : T # {} /\ ~HasGreatest(T)}
           Sizes == {Cardinality(T) : T \in Bad}
<1>2. \A T \in SUBSET S : IsFiniteSet(T) /\ Cardinality(T) \in Nat
  BY FS_Subset, FS_CardinalityType
<1>3. S \in Bad
  BY <1>1
<1>4. Sizes \in SUBSET Nat /\ Sizes # {}
  BY <1>2, <1>3
<1>5. PICK T \in Bad : \A U \in Bad : Cardinality(T) <= Cardinality(U)
  <2>1. PICK n \in Sizes : \A k \in Sizes : n <= k
    <3> HIDE DEF Sizes
    <3> QED BY <1>4, NatHasLeast
  <2> QED BY <2>1
<1>6. PICK x \in T : TRUE
  OBVIOUS
<1> DEFINE U == T \ {x}
<1>7. Cardinality(U) = Cardinality(T) - 1
  BY <1>2, FS_RemoveElement
<1>8. U \notin Bad
  BY <1>2, <1>5, <1>7
<1>9. CASE U = {}
  <2>1. T = {x}
    BY <1>9
  <2> QED BY <2>1 DEF HasGreatest
<1>10. CASE HasGreatest(U)
  <2>1. PICK m \in U : \A k \in U : k <= m
    BY <1>10 DEF HasGreatest
  <2>2. m \in Nat /\ x \in Nat /\ \A k \in T : k \in U \/ k = x
    OBVIOUS
  <2>3. CASE x <= m
    BY <2>1, <2>2, <2>3 DEF HasGreatest
  <2>4. CASE m <= x
    BY <2>1, <2>2, <2>4 DEF HasGreatest
  <2> QED BY <2>2, <2>3, <2>4
<1> QED
  BY <1>8, <1>9, <1>10

\* Max of a finite nonempty set of natural numbers is its greatest element.
LEMMA MaxIsGreatest ==
    ASSUME NEW S \in SUBSET Nat, IsFiniteSet(S), S # {}
    PROVE  Max(S) \in S /\ \A k \in S : k <= Max(S)
<1>1. \E m \in S : \A k \in S : m >= k
  BY FiniteHasGreatest DEF HasGreatest
<1> QED
  BY <1>1 DEF Max

\* Min of a nonempty set of natural numbers is its least element.
LEMMA MinIsLeast ==
    ASSUME NEW S \in SUBSET Nat, S # {}
    PROVE  Min(S) \in S /\ \A k \in S : Min(S) <= k
  BY NatHasLeast DEF Min

-----------------------------------------------------------------------------
(***************************************************************************)
(* The records of a buffer: finitely many, no two with one sequence.       *)
(***************************************************************************)
DistinctSequences(recs) == \A q, r \in recs : q.seq = r.seq => q = r

WellFormed(recs, us) ==
    /\ IsFiniteSet(recs)
    /\ recs \subseteq RecordOf(us)
    /\ DistinctSequences(recs)

\* The values that a finite set of records has at one field are finite.
LEMMA FiniteFields ==
    ASSUME NEW us, NEW recs \in SUBSET RecordOf(us), IsFiniteSet(recs)
    PROVE  IsFiniteSet({r.seq : r \in recs}) /\ IsFiniteSet({r.tx : r \in recs})
<1> DEFINE seqOf == [r \in recs |-> r.seq]
           txOf == [r \in recs |-> r.tx]
           Seqs == {r.seq : r \in recs}
           Txs == {r.tx : r \in recs}
<1>1. seqOf \in Surjection(recs, Seqs)
  BY DEF Surjection
<1>2. txOf \in Surjection(recs, Txs)
  BY DEF Surjection
<1> HIDE DEF seqOf, txOf
<1> QED
  BY <1>1, <1>2, FS_Surjection, Zenon

\* Records with distinct sequences are no more than the sequences there are.
LEMMA DistinctFinite ==
    ASSUME NEW recs, DistinctSequences(recs), NEW n \in Nat,
           \A r \in recs : r.seq \in 1..n
    PROVE  IsFiniteSet(recs)
<1> DEFINE seqOf == [r \in recs |-> r.seq]
<1>1. seqOf \in Injection(recs, 1..n)
  BY DEF Injection, IsInjective, DistinctSequences
<1>2. IsFiniteSet(1..n)
  BY FS_Interval
<1> HIDE DEF seqOf
<1> QED
  BY <1>1, <1>2, FS_Injection, Zenon

\* A subject that has records has a last one.
LEMMA LastOfExists ==
    ASSUME NEW us, NEW recs, WellFormed(recs, us),
           NEW u, OfSubject(recs, u) # {}
    PROVE  /\ LastOf(recs, u) \in OfSubject(recs, u)
           /\ \A q \in OfSubject(recs, u) :
                  q = LastOf(recs, u) \/ Precedes(q, LastOf(recs, u))
<1> DEFINE mine == OfSubject(recs, u)
           Txs == {r.tx : r \in mine}
           maxTx == Max(Txs)
           latest == {r \in mine : r.tx = maxTx}
           Seqs == {r.seq : r \in latest}
           maxSeq == Max(Seqs)
<1>1. mine \in SUBSET RecordOf(us) /\ IsFiniteSet(mine) /\ DistinctSequences(mine)
  BY FS_Subset DEF WellFormed, OfSubject, DistinctSequences
<1>2. \A r \in mine : r.tx \in Nat /\ r.seq \in Nat
  BY <1>1 DEF RecordOf
<1>3. maxTx \in Txs /\ \A t \in Txs : t <= maxTx
  <2>1. Txs \in SUBSET Nat /\ Txs # {} /\ IsFiniteSet(Txs)
    BY <1>1, <1>2, FiniteFields
  <2> QED BY <2>1, MaxIsGreatest
<1>4. latest \in SUBSET RecordOf(us) /\ latest # {} /\ IsFiniteSet(latest)
  BY <1>1, <1>3, FS_Subset
<1>5. maxSeq \in Seqs /\ \A s \in Seqs : s <= maxSeq
  <2>1. Seqs \in SUBSET Nat /\ Seqs # {} /\ IsFiniteSet(Seqs)
    BY <1>2, <1>4, FiniteFields
  <2> QED BY <2>1, MaxIsGreatest
<1>6. PICK l \in latest : l.seq = maxSeq
  BY <1>5
<1>7. \A q \in mine : q = l \/ Precedes(q, l)
  <2> TAKE q \in mine
  <2>1. q.tx \in Nat /\ q.seq \in Nat /\ l \in mine /\ l.tx = maxTx
        /\ maxTx \in Nat /\ l.seq \in Nat /\ q.tx <= maxTx
    BY <1>2, <1>3
  <2>2. CASE q.tx < maxTx
    BY <2>1, <2>2 DEF Precedes
  <2>3. CASE q.tx = maxTx
    <3>1. q.seq <= l.seq
      BY <1>5, <1>6, <2>3
    <3>2. q.seq = l.seq => q = l
      BY <1>1, <2>1 DEF DistinctSequences
    <3> QED BY <2>1, <2>3, <3>1, <3>2 DEF Precedes
  <2> QED BY <2>1, <2>2, <2>3
<1>8. \E r \in mine : \A q \in mine : q = r \/ Precedes(q, r)
  BY <1>6, <1>7
<1> QED
  BY <1>8, Zenon DEF LastOf

-----------------------------------------------------------------------------
(***************************************************************************)
(* The acknowledgement.                                                    *)
(***************************************************************************)
\* The sequences of any of the records are a finite set of natural numbers.
LEMMA SequencesFinite ==
    ASSUME NEW us, NEW recs, WellFormed(recs, us),
           NEW S, S \subseteq {r.seq : r \in recs}
    PROVE  S \in SUBSET Nat /\ IsFiniteSet(S)
<1>1. {r.seq : r \in recs} \in SUBSET Nat
  BY DEF WellFormed, RecordOf
<1> QED
  BY <1>1, FiniteFields, FS_Subset DEF WellFormed

\* maxSequence is the sequence of a record, once a subject with one is visited.
LEMMA MaxSequenceType ==
    ASSUME NEW us, NEW recs, WellFormed(recs, us),
           NEW vs, vs # {}, vs \subseteq {r.subject : r \in recs}
    PROVE  MaxSequence(recs, vs) \in {r.seq : r \in recs}
<1> DEFINE S == {LastOf(recs, u).seq : u \in vs}
<1>1. \A u \in vs : LastOf(recs, u) \in recs
  BY LastOfExists DEF OfSubject
<1>2. S # {} /\ S \subseteq {r.seq : r \in recs}
  BY <1>1
<1>3. Max(S) \in S
  BY <1>2, SequencesFinite, MaxIsGreatest
<1> QED
  BY <1>2, <1>3 DEF MaxSequence

\* The walk over the maxima of the subjects ends at one of them.
LEMMA AckSequenceType ==
    ASSUME NEW us, NEW recs, WellFormed(recs, us), NEW order \in Seq(us)
    PROVE  AckSequence(recs, order) \in {0} \cup {r.seq : r \in recs}
<1> DEFINE keys   == {i \in DOMAIN order : Settled(recs, order[i]) # {}}
           top(i) == Max(Settled(recs, order[i]))
           highs  == {i \in keys : \A j \in keys : j < i => top(j) < top(i)}
           stops  == {i \in highs : OfSubject(Held(recs, order), order[i]) # {}}
<1>1. keys \in SUBSET Nat /\ IsFiniteSet(keys)
  <2>1. DOMAIN order = 1..Len(order) /\ Len(order) \in Nat
    OBVIOUS
  <2>2. IsFiniteSet(1..Len(order))
    BY <2>1, FS_Interval
  <2>3. keys \in SUBSET (1..Len(order))
    BY <2>1
  <2> HIDE DEF keys
  <2>4. IsFiniteSet(keys)
    BY <2>2, <2>3, FS_Subset, Zenon
  <2> QED BY <2>1, <2>3, <2>4
<1>2. \A i \in keys : top(i) \in {r.seq : r \in recs}
  <2> TAKE i \in keys
  <2>1. Settled(recs, order[i]) \subseteq {r.seq : r \in recs}
    BY DEF Settled, OfSubject
  <2> QED BY <2>1, SequencesFinite, MaxIsGreatest
<1>3. CASE keys = {}
  BY <1>3 DEF AckSequence
<1>4. CASE keys # {}
  <2>1. PICK i \in keys : \A j \in keys : i <= j
    BY <1>1, <1>4, NatHasLeast
  <2>2. i \in highs
    BY <1>1, <2>1
  <2>3. highs \in SUBSET Nat /\ IsFiniteSet(highs) /\ stops \in SUBSET Nat
    BY <1>1, FS_Subset
  <2>4. Max(highs) \in keys
    BY <2>2, <2>3, MaxIsGreatest
  <2>5. stops # {} => Min(stops) \in keys
    BY <2>3, MinIsLeast
  <2>6. AckSequence(recs, order) =
            IF stops # {} THEN top(Min(stops)) ELSE top(Max(highs))
    BY <1>4 DEF AckSequence
  <2> QED BY <1>2, <2>4, <2>5, <2>6
<1> QED
  BY <1>3, <1>4

\* What stitching would acknowledge is a sequence of its records, or nothing.
LEMMA CandidateType ==
    ASSUME NEW us, NEW recs, WellFormed(recs, us), NEW order \in Seq(us)
    PROVE  Candidate(recs, order) \in Nat
<1>1. {r.seq : r \in recs} \subseteq Nat
  BY DEF WellFormed, RecordOf
<1>2. recs # {} => MaxSequence(recs, {r.subject : r \in recs}) \in Nat
  <2>1. recs # {} => {r.subject : r \in recs} # {}
    OBVIOUS
  <2> QED BY <1>1, <2>1, MaxSequenceType
<1>3. AckSequence(recs, order) \in Nat
  BY <1>1, AckSequenceType
<1> QED
  BY <1>2, <1>3 DEF Candidate

\* Clamping leaves a sequence number, one below every record that is held.
LEMMA ClampBelowHeld ==
    ASSUME NEW us, NEW held \in SUBSET RecordOf(us), NEW ack \in Nat
    PROVE  /\ Clamp(ack, held) \in Nat
           /\ \A r \in held : Clamp(ack, held) < r.seq
<1> DEFINE S == {r.seq : r \in held}
<1>1. \A r \in held : r.seq \in Nat \ {0}
  BY DEF RecordOf
<1>2. CASE \E r \in held : ack >= r.seq
  <2>1. S \in SUBSET Nat /\ S # {}
    BY <1>1, <1>2
  <2>2. Min(S) \in S /\ \A k \in S : Min(S) <= k
    BY <2>1, MinIsLeast
  <2>3. Clamp(ack, held) = Min(S) - 1
    BY <1>2 DEF Clamp
  <2>4. Min(S) \in Nat \ {0} /\ \A r \in held : Min(S) <= r.seq
    BY <1>1, <2>2
  <2> HIDE DEF S
  <2> QED BY <1>1, <2>3, <2>4
<1>3. CASE ~ \E r \in held : ack >= r.seq
  BY <1>1, <1>3 DEF Clamp
<1> QED
  BY <1>2, <1>3

-----------------------------------------------------------------------------
(***************************************************************************)
(* The records that stitching returns.                                     *)
(***************************************************************************)
\* A context adds nothing but a "ctx" field to a record.
LEMMA WithContextType ==
    ASSUME NEW us, NEW recs \in SUBSET RecordOf(us), NEW r \in recs
    PROVE  /\ WithContext(recs, r) \in RecordOf(us)
           /\ WithContext(recs, r).seq = r.seq
           /\ WithContext(recs, r).tx = r.tx
           /\ WithContext(recs, r).pos = r.pos
           /\ WithContext(recs, r).kind = r.kind
<1> DEFINE first == CHOOSE q \in ContextsOf(recs, r) :
                        \A p \in ContextsOf(recs, r) : q.seq <= p.seq
           S == {q.seq : q \in ContextsOf(recs, r)}
<1>1. CASE ContextsOf(recs, r) = {}
  BY <1>1 DEF WithContext
<1>2. CASE ContextsOf(recs, r) # {}
  <2>1. ContextsOf(recs, r) \subseteq RecordOf(us)
    BY DEF ContextsOf, SameTransaction
  <2>2. S \in SUBSET Nat /\ S # {}
    BY <1>2, <2>1 DEF RecordOf
  <2>3. \E q \in ContextsOf(recs, r) : \A p \in ContextsOf(recs, r) : q.seq <= p.seq
    <3>1. PICK m \in S : \A k \in S : m <= k
      BY <2>2, NatHasLeast
    <3> QED BY <3>1
  <2>4. first \in RecordOf(us)
    BY <2>1, <2>3
  <2>5. WithContext(recs, r) = [r EXCEPT !.ctx = first.ctx]
    BY <1>2 DEF WithContext, SetContext
  <2>6. first.ctx \in Nat /\ r \in RecordOf(us)
    BY <2>4 DEF RecordOf
  <2> HIDE DEF first
  <2> QED BY <2>5, <2>6 DEF RecordOf
<1> QED
  BY <1>1, <1>2

\* What a saved record carries is its own context, or that of a context
\* message of its transaction.
LEMMA ContextOfTransaction ==
    ASSUME NEW us, NEW recs \in SUBSET RecordOf(us), NEW r \in Stitched(recs)
    PROVE  \E q \in Savable(recs) :
               /\ r.pos = q.pos
               /\ \/ r.ctx = q.ctx
                  \/ \E c \in recs : /\ IsContextMessage(c)
                                     /\ c.tx = q.tx
                                     /\ r.ctx = c.ctx
<1>1. PICK q \in Savable(recs) : r = WithContext(recs, q)
  BY DEF Stitched
<1>2. q \in RecordOf(us) /\ r.pos = q.pos
  BY <1>1, WithContextType DEF Savable
<1> DEFINE first == CHOOSE c \in ContextsOf(recs, q) :
                        \A p \in ContextsOf(recs, q) : c.seq <= p.seq
           S == {c.seq : c \in ContextsOf(recs, q)}
<1>3. CASE ContextsOf(recs, q) = {}
  BY <1>1, <1>2, <1>3 DEF WithContext
<1>4. CASE ContextsOf(recs, q) # {}
  <2>1. S \in SUBSET Nat /\ S # {}
    BY <1>4 DEF ContextsOf, SameTransaction, RecordOf
  <2>2. \E c \in ContextsOf(recs, q) : \A p \in ContextsOf(recs, q) : c.seq <= p.seq
    <3>1. PICK m \in S : \A k \in S : m <= k
      BY <2>1, NatHasLeast
    <3> QED BY <3>1
  <2>3. first \in ContextsOf(recs, q)
    BY <2>2
  <2>4. r = [q EXCEPT !.ctx = first.ctx]
    BY <1>1, <1>4 DEF WithContext, SetContext
  <2> HIDE DEF first
  <2>5. r.ctx = first.ctx
    BY <1>2, <2>4 DEF RecordOf
  <2>6. first \in recs /\ IsContextMessage(first) /\ first.tx = q.tx
    BY <2>3 DEF ContextsOf, SameTransaction
  <2> QED BY <1>2, <2>5, <2>6
<1> QED
  BY <1>3, <1>4

\* A change gets the context of a record if there is any to get.
LEMMA WithContextNamed ==
    ASSUME NEW us, NEW recs \in SUBSET RecordOf(us), NEW r \in recs,
           ContextsOf(recs, r) # {}
    PROVE  \E q \in ContextsOf(recs, r) : WithContext(recs, r).ctx = q.ctx
<1> DEFINE contexts == ContextsOf(recs, r)
           Seqs == {q.seq : q \in contexts}
<1>1. contexts \subseteq recs /\ \A q \in contexts : q.seq \in Nat
  BY DEF ContextsOf, SameTransaction, RecordOf
<1>2. PICK m \in Seqs : \A k \in Seqs : m <= k
  <2>1. Seqs \in SUBSET Nat /\ Seqs # {}
    BY <1>1
  <2> HIDE DEF Seqs
  <2> QED
    BY <2>1, NatHasLeast
<1>3. PICK q \in contexts : \A p \in contexts : q.seq <= p.seq
  BY <1>2
<1> DEFINE first == CHOOSE c \in contexts : \A p \in contexts : c.seq <= p.seq
<1>4. first \in contexts
  BY <1>3
<1>5. WithContext(recs, r) = SetContext(r, first.ctx)
  BY DEF WithContext
<1>6. \A c : SetContext(r, c).ctx = c
  BY DEF SetContext, RecordOf
<1> HIDE DEF first
<1> QED
  BY <1>4, <1>5, <1>6

\* Stitching returns well-formed records: those it saves and those it holds
\* are among the ones it was given, and what it acknowledges is below what it
\* holds.
LEMMA StitchingResult ==
    ASSUME NEW us, NEW recs, WellFormed(recs, us), NEW order \in Seq(us)
    PROVE  LET result == StitchFetchedRecords(recs, order)
           IN  /\ result.buffer \subseteq recs
               /\ result.stitched \subseteq RecordOf(us)
               /\ DistinctSequences(result.stitched)
               /\ \A r \in result.stitched : \E q \in recs :
                      r.seq = q.seq /\ r.tx = q.tx /\ r.pos = q.pos /\ r.kind = q.kind
               /\ result.ack \in Nat
               /\ \A r \in result.buffer : result.ack < r.seq
<1>1. Held(recs, order) \subseteq recs /\ Savable(recs) \subseteq recs
  BY DEF Held, Savable
<1>2. recs \subseteq RecordOf(us)
  BY DEF WellFormed
<1>3. \A q \in Savable(recs) :
          /\ WithContext(recs, q) \in RecordOf(us)
          /\ WithContext(recs, q).seq = q.seq
          /\ WithContext(recs, q).tx = q.tx
          /\ WithContext(recs, q).pos = q.pos
          /\ WithContext(recs, q).kind = q.kind
  BY <1>1, <1>2, WithContextType, Zenon
<1>4. DistinctSequences(Stitched(recs))
  BY <1>1, <1>3 DEF Stitched, DistinctSequences, WellFormed
<1>5. \A r \in Stitched(recs) :
          /\ r \in RecordOf(us)
          /\ \E q \in recs : r.seq = q.seq /\ r.tx = q.tx /\ r.pos = q.pos /\ r.kind = q.kind
  BY <1>1, <1>3 DEF Stitched
<1>6. Candidate(recs, order) \in Nat
  BY CandidateType
<1>7. Held(recs, order) \in SUBSET RecordOf(us)
  BY <1>1, <1>2
<1> QED
  BY <1>1, <1>4, <1>5, <1>6, <1>7, ClampBelowHeld DEF StitchFetchedRecords

\* Nothing but heartbeats and contexts falls between the two: every other
\* record is saved or held.
LEMMA SavedOrHeld ==
    ASSUME NEW us, NEW recs \in SUBSET RecordOf(us), NEW order, NEW r \in recs,
           ~IsHeartbeatMessage(r), ~IsContextMessage(r)
    PROVE  LET result == StitchFetchedRecords(recs, order)
           IN  \/ r \in result.buffer
               \/ \E q \in result.stitched :
                      q.seq = r.seq /\ q.pos = r.pos /\ q.kind = r.kind
<1>1. CASE HeldChange(recs, r)
  BY <1>1 DEF StitchFetchedRecords, Held
<1>2. CASE ~HeldChange(recs, r)
  <2>1. r \in Savable(recs)
    BY <1>2 DEF Savable
  <2>2. WithContext(recs, r) \in Stitched(recs)
    BY <2>1 DEF Stitched
  <2> QED BY <2>2, WithContextType DEF StitchFetchedRecords
<1> QED
  BY <1>1, <1>2
=============================================================================
