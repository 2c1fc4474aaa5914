------------------------------ MODULE LoopProofs ------------------------------
(***************************************************************************)
(* The passes of stitchFetchedRecords compute what Stitching states, for   *)
(* every buffer: any number of subjects, transactions and records.         *)
(*                                                                         *)
(* The folds of StitchingLoop are recursive functions.  That they satisfy  *)
(* their equations, and what they accumulate, is proved by induction in    *)
(* the form of FromZeroOn, which speaks of a set instead of a predicate.   *)
(***************************************************************************)
EXTENDS StitchingLoop, SessionProofs

-----------------------------------------------------------------------------
(***************************************************************************)
(* Induction, and folds over an interval.                                  *)
(***************************************************************************)
\* A set that has 0 and with each number the next has every natural number.
LEMMA FromZeroOn ==
    ASSUME NEW S, 0 \in S, \A n \in Nat : n \in S => n + 1 \in S
    PROVE  \A n \in Nat : n \in S
<1> SUFFICES ASSUME NEW n \in Nat \ S PROVE FALSE
  OBVIOUS
<1>1. Nat \ S \in SUBSET Nat /\ Nat \ S # {}
  OBVIOUS
<1>2. PICK m \in Nat \ S : \A k \in Nat \ S : m <= k
  BY <1>1, NatHasLeast
<1>3. m - 1 \in Nat /\ m - 1 \in S
  BY <1>2
<1> QED
  BY <1>2, <1>3

\* The same up to a bound.
LEMMA UpTo ==
    ASSUME NEW n \in Nat, NEW S, 0 \in S,
           \A k \in 1..n : k - 1 \in S => k \in S
    PROVE  \A k \in 0..n : k \in S
<1> DEFINE T == {k \in Nat : k <= n => k \in S}
<1>1. 0 \in T /\ \A k \in Nat : k \in T => k + 1 \in T
  OBVIOUS
<1> HIDE DEF T
<1>2. \A k \in Nat : k \in T
  BY <1>1, FromZeroOn
<1> QED
  BY <1>2 DEF T

\* An interval from 1 without its greatest element is the one before it.
LEMMA LastOfInterval ==
    ASSUME NEW k \in Nat \ {0}
    PROVE  Max(1..k) = k /\ (1..k) \ {k} = 1..(k - 1)
<1>1. 1..k \in SUBSET Nat /\ k \in 1..k
  OBVIOUS
<1>0. IsFiniteSet(1..k)
  <2>1. 1 \in Int /\ k \in Int
    OBVIOUS
  <2> QED BY <2>1, FS_Interval
<1>2. Max(1..k) \in 1..k /\ \A j \in 1..k : j <= Max(1..k)
  BY <1>0, <1>1, MaxIsGreatest
<1> QED
  BY <1>1, <1>2

\* The sets of at most m of the elements.
SmallSets(n, m) == {T \in SUBSET (1..n) : Cardinality(T) <= m}

\* Those of at most m + 1 are, without their greatest, those of at most m.
LEMMA SmallSetsGrow ==
    ASSUME NEW n \in Nat, NEW m \in Nat
    PROVE  /\ SmallSets(n, 0) = {{}}
           /\ SmallSets(n, n) = SUBSET (1..n)
           /\ SmallSets(n, m) \subseteq SmallSets(n, m + 1)
           /\ \A T \in SmallSets(n, m + 1) : T # {} =>
                  Max(T) \in 1..n /\ T \ {Max(T)} \in SmallSets(n, m)
           /\ \A T \in SUBSET (1..n) : T # {} => Max(T) \in 1..n
<1>1. IsFiniteSet(1..n) /\ Cardinality(1..n) = n
  <2>1. 1 \in Int /\ n \in Int
    OBVIOUS
  <2> QED BY <2>1, FS_Interval
<1>2. ASSUME NEW T \in SUBSET (1..n)
      PROVE  IsFiniteSet(T) /\ Cardinality(T) \in Nat /\ Cardinality(T) <= n
  BY <1>1, FS_Subset, FS_CardinalityType
<1>3. Cardinality({}) = 0 /\ \A T \in SUBSET (1..n) : Cardinality(T) = 0 => T = {}
  BY <1>2, FS_EmptySet
<1>4. ASSUME NEW T \in SUBSET (1..n), T # {}
      PROVE  Max(T) \in T /\ Cardinality(T \ {Max(T)}) = Cardinality(T) - 1
  <2>1. T \in SUBSET Nat /\ IsFiniteSet(T)
    BY <1>2
  <2>2. Max(T) \in T
    BY <1>4, <2>1, MaxIsGreatest
  <2> QED BY <2>1, <2>2, FS_RemoveElement
<1>5. \A T \in SUBSET (1..n) : Cardinality(T) <= 0 <=> T = {}
  <2> TAKE T \in SUBSET (1..n)
  <2>1. Cardinality(T) \in Nat
    BY <1>2
  <2>2. ASSUME Cardinality(T) <= 0 PROVE T = {}
    <3>1. Cardinality(T) = 0
      BY <2>1, <2>2
    <3> QED BY <1>3, <3>1
  <2>3. T = {} => Cardinality(T) <= 0
    BY <1>3
  <2> QED BY <2>2, <2>3
<1>6. \A T \in SUBSET (1..n) : Cardinality(T) <= m => Cardinality(T) <= m + 1
  <2> TAKE T \in SUBSET (1..n)
  <2>1. Cardinality(T) \in Nat
    BY <1>2
  <2> QED BY <2>1
<1>7. \A T \in SUBSET (1..n) : T # {} /\ Cardinality(T) <= m + 1 =>
          Max(T) \in T /\ Cardinality(T \ {Max(T)}) <= m
  <2> TAKE T \in SUBSET (1..n)
  <2>1. Cardinality(T) \in Nat
    BY <1>2
  <2> QED BY <1>4, <2>1
<1>8. SmallSets(n, 0) = {{}} /\ SmallSets(n, n) = SUBSET (1..n)
  BY <1>2, <1>5 DEF SmallSets
<1> QED
  BY <1>4, <1>6, <1>7, <1>8 DEF SmallSets

\* What the elements of a set accumulate, by the greatest and the rest.
Accumulated(g, T, base, step) ==
    IF T = {} THEN base ELSE step[<<g[T \ {Max(T)}], Max(T)>>]

Steps(A, n, step) == \A a \in A, i \in 1..n : step[<<a, i>>] \in A

HasFold(A, n, base, step) ==
    \E g \in [SUBSET (1..n) -> A] :
        \A T \in SUBSET (1..n) : g[T] = Accumulated(g, T, base, step)

\* A fold over an interval exists: one for the sets of at most m elements
\* gives one for those of m + 1.
LEMMA FoldExists ==
    ASSUME NEW n \in Nat, NEW A, NEW base \in A, NEW step, Steps(A, n, step)
    PROVE  HasFold(A, n, base, step)
<1> DEFINE Fold(g, m) ==
               /\ g \in [SmallSets(n, m) -> A]
               /\ \A T \in SmallSets(n, m) : g[T] = Accumulated(g, T, base, step)
           Sizes == {m \in Nat : \E g : Fold(g, m)}
<1>1. 0 \in Sizes
  <2> DEFINE g == [T \in SmallSets(n, 0) |-> base]
  <2>1. Fold(g, 0)
    BY SmallSetsGrow DEF Accumulated
  <2> QED BY <2>1
<1>2. \A m \in Nat : m \in Sizes => m + 1 \in Sizes
  <2> SUFFICES ASSUME NEW m \in Nat, NEW g, Fold(g, m)
               PROVE  \E h : Fold(h, m + 1)
    <3> HIDE DEF Fold
    <3> QED BY DEF Sizes
  <2> DEFINE h == [T \in SmallSets(n, m + 1) |-> Accumulated(g, T, base, step)]
  <2>1. \A T \in SmallSets(n, m + 1) : T # {} =>
            Max(T) \in 1..n /\ T \ {Max(T)} \in SmallSets(n, m)
    BY SmallSetsGrow
  <2>2. \A T \in SmallSets(n, m) : T \in SmallSets(n, m + 1)
    BY SmallSetsGrow
  <2>3. \A T \in SmallSets(n, m) : h[T] = g[T]
    BY <2>2
  <2>4. h \in [SmallSets(n, m + 1) -> A]
    BY <2>1 DEF Accumulated, Steps
  <2>5. \A T \in SmallSets(n, m + 1) : h[T] = Accumulated(h, T, base, step)
    BY <2>1, <2>3 DEF Accumulated
  <2>6. Fold(h, m + 1)
    BY <2>4, <2>5
  <2> QED BY <2>6
<1>3. n \in Sizes
  <2> HIDE DEF Sizes
  <2> QED BY <1>1, <1>2, FromZeroOn
<1>4. PICK g : Fold(g, n)
  BY <1>3
<1>5. SmallSets(n, n) = SUBSET (1..n)
  BY SmallSetsGrow
<1> QED
  BY <1>4, <1>5 DEF HasFold
-----------------------------------------------------------------------------
(***************************************************************************)
(* The records of a subject, in the order of forEach.                      *)
(***************************************************************************)
\* q lists the records S, each once, in transaction order.
Lists(q, S) ==
    /\ q \in SetToSeqs(S)
    /\ \A i, j \in DOMAIN q : i < j => Precedes(q[i], q[j])

\* Of two records one precedes the other, and the order is transitive.
LEMMA PrecedesOrders ==
    ASSUME NEW us, NEW a \in RecordOf(us), NEW b \in RecordOf(us), NEW c \in RecordOf(us)
    PROVE  /\ a.seq # b.seq => Precedes(a, b) \/ Precedes(b, a)
           /\ Precedes(a, b) => ~Precedes(b, a)
           /\ Precedes(a, b) /\ Precedes(b, c) => Precedes(a, c)
  BY DEF Precedes, RecordOf

\* The records of a subject can be listed: those before the last one are, and
\* the last one goes to the end.
LEMMA ListExists ==
    ASSUME NEW us, NEW recs, WellFormed(recs, us), NEW u,
           \A r \in recs : r.subject = u
    PROVE  \E q : Lists(q, recs)
<1> DEFINE Bad == {T \in SUBSET recs : \A q : ~Lists(q, T)}
           Sizes == {Cardinality(T) : T \in Bad}
<1> SUFFICES ASSUME recs \in Bad PROVE FALSE
  OBVIOUS
<1>1. \A T \in SUBSET recs : IsFiniteSet(T) /\ Cardinality(T) \in Nat
  BY FS_Subset, FS_CardinalityType DEF WellFormed
<1>2. PICK T \in Bad : \A U \in Bad : Cardinality(T) <= Cardinality(U)
  <2>1. Sizes \in SUBSET Nat /\ Sizes # {}
    BY <1>1
  <2>2. PICK n \in Sizes : \A k \in Sizes : n <= k
    <3> HIDE DEF Sizes
    <3> QED BY <2>1, NatHasLeast
  <2> QED BY <2>2
<1>3. T \in SUBSET recs /\ IsFiniteSet(T)
  BY <1>1
<1>4. T # {}
  <2> SUFFICES ASSUME T = {} PROVE Lists(<<>>, T)
    OBVIOUS
  <2>1. Cardinality(T) = 0
    BY FS_EmptySet
  <2> QED BY <2>1 DEF Lists, SetToSeqs
<1> DEFINE last == LastOf(T, u)
           U == T \ {last}
<1>5. WellFormed(T, us) /\ OfSubject(T, u) = T
  BY <1>3 DEF WellFormed, DistinctSequences, OfSubject
<1>6. last \in T /\ \A q \in U : Precedes(q, last)
  BY <1>4, <1>5, LastOfExists
<1> HIDE DEF last
<1>7. Cardinality(U) = Cardinality(T) - 1
  BY <1>3, <1>6, FS_RemoveElement
<1>8. U \notin Bad /\ U \in SUBSET recs
  BY <1>1, <1>2, <1>3, <1>7
<1>9. PICK q : Lists(q, U)
  BY <1>8
<1> DEFINE n == Cardinality(U)
           p == [i \in 1..(n + 1) |-> IF i <= n THEN q[i] ELSE last]
<1>10. n \in Nat /\ Cardinality(T) = n + 1
  BY <1>1, <1>3, <1>7, <1>8
<1>11. q \in [1..n -> U] /\ \A i, j \in 1..n : i # j => q[i] # q[j]
  BY <1>9 DEF Lists, SetToSeqs
<1> HIDE DEF n
<1>12. p \in SetToSeqs(T)
  <2>1. p \in [1..(n + 1) -> T]
    BY <1>6, <1>10, <1>11
  <2>2. \A i, j \in 1..(n + 1) : i # j => p[i] # p[j]
    BY <1>10, <1>11
  <2> QED BY <1>10, <2>1, <2>2 DEF SetToSeqs
<1>13. \A i, j \in DOMAIN p : i < j => Precedes(p[i], p[j])
  <2>1. \A i, j \in 1..n : i < j => Precedes(q[i], q[j])
    BY <1>9, <1>11 DEF Lists
  <2> QED BY <1>6, <1>10, <1>11, <2>1
<1>14. Lists(p, T)
  BY <1>12, <1>13 DEF Lists
<1> QED
  BY <1>2, <1>14

\* Sorted lists the records of a subject, and the last is the subject's last.
LEMMA SortedLists ==
    ASSUME NEW recs, WellFormed(recs, Subjects), NEW u, OfSubject(recs, u) # {}
    PROVE  LET q == Sorted(recs, u)
           IN  /\ q \in Seq(recs) /\ Len(q) # 0
               /\ {q[i] : i \in 1..Len(q)} = OfSubject(recs, u)
               /\ Last(q) = LastOf(recs, u)
<1> DEFINE mine == OfSubject(recs, u)
           q == Sorted(recs, u)
           n == Cardinality(mine)
           last == LastOf(recs, u)
<1>1. WellFormed(mine, Subjects) /\ mine \subseteq recs /\ \A r \in mine : r.subject = u
  BY FS_Subset DEF WellFormed, DistinctSequences, OfSubject
<1>2. Lists(q, mine)
  <2>1. PICK listed : Lists(listed, mine)
    BY <1>1, ListExists
  <2>2. \E p \in SetToSeqs(mine) : \A i, j \in DOMAIN p : i < j => Precedes(p[i], p[j])
    BY <2>1 DEF Lists
  <2> QED BY <2>2, Zenon DEF Sorted, Lists
<1>3. last \in mine /\ \A r \in mine : r = last \/ Precedes(r, last)
  BY LastOfExists
<1>4. IsFiniteSet(mine)
  BY <1>1 DEF WellFormed
<1>5. n \in Nat /\ n # 0
  BY <1>4, FS_CardinalityType, FS_EmptySet
<1>6. q \in [1..n -> mine] /\ \A i, j \in 1..n : i # j => q[i] # q[j]
  BY <1>2 DEF Lists, SetToSeqs
<1>7. \A i, j \in 1..n : i < j => Precedes(q[i], q[j])
  BY <1>2, <1>6 DEF Lists
<1> HIDE DEF q, n, last
<1>8. q \in Injection(1..n, mine)
  BY <1>6 DEF Injection, IsInjective
<1>9. Cardinality(1..n) = n
  <2>1. 1 \in Int /\ n \in Int
    BY <1>5
  <2>2. Cardinality(1..n) = IF 1 > n THEN 0 ELSE n - 1 + 1
    BY <2>1, FS_Interval
  <2> QED BY <1>5, <2>2
<1>10. q \in Surjection(1..n, mine)
  BY <1>4, <1>8, <1>9, FS_Injection DEF n
<1>11. {q[i] : i \in 1..n} = mine
  BY <1>6, <1>10 DEF Surjection
<1>12. q \in Seq(recs) /\ Len(q) = n
  BY <1>1, <1>5, <1>6
<1>13. q[n] = last
  <2>1. PICK i \in 1..n : q[i] = last
    BY <1>3, <1>11
  <2>2. n \in 1..n /\ q[n] \in mine
    BY <1>5, <1>6
  <2>3. mine \subseteq RecordOf(Subjects)
    BY <1>1 DEF WellFormed
  <2>4. CASE i = n
    BY <2>1, <2>4
  <2>5. CASE i < n
    <3>1. Precedes(last, q[n])
      BY <1>7, <2>1, <2>2, <2>5
    <3>2. q[n] = last \/ Precedes(q[n], last)
      BY <1>3, <2>2
    <3>3. ~Precedes(q[n], last)
      BY <1>3, <2>2, <2>3, <3>1, PrecedesOrders
    <3> QED BY <3>2, <3>3
  <2> QED BY <1>5, <2>4, <2>5
<1> QED
  BY <1>5, <1>11, <1>12, <1>13 DEF q, last, Last

-----------------------------------------------------------------------------
(***************************************************************************)
(* One record.                                                             *)
(***************************************************************************)
Accumulators ==
    [maxSequence : Nat,
     stitched : SUBSET RecordOf(Subjects), held : SUBSET RecordOf(Subjects),
     keys : Seq(Subjects), max : [Subjects -> Nat]]

\* The context r is held when maxSequence is m.
WaitsAt(recs, r, m) ==
    /\ UseBuffer
    /\ IsContextMessage(r)
    /\ ~ChangeArrived(recs, r)
    /\ ~(m - r.seq > OrphanGap)

\* The context that `find` returns is the first of the transaction.
LEMMA SaveIsWithContext ==
    ASSUME NEW recs, WellFormed(recs, Subjects), NEW r \in recs
    PROVE  LET contexts == {q \in SameTransaction(recs, r) : IsContextMessage(q)}
               first == Min({q.seq : q \in contexts})
               context == (CHOOSE q \in contexts : q.seq = first).ctx
           IN  (IF contexts # {} THEN SetContext(r, context) ELSE r)
                   = WithContext(recs, r)
<1> DEFINE contexts == {q \in SameTransaction(recs, r) : IsContextMessage(q)}
           Seqs == {q.seq : q \in contexts}
           a == CHOOSE q \in contexts : q.seq = Min(Seqs)
           b == CHOOSE q \in contexts : \A p \in contexts : q.seq <= p.seq
<1>1. contexts = ContextsOf(recs, r)
  BY DEF ContextsOf
<1>2. contexts \subseteq recs /\ \A q \in contexts : q.seq \in Nat
  BY DEF SameTransaction, WellFormed, RecordOf
<1>3. CASE contexts = {}
  BY <1>1, <1>3 DEF WithContext
<1>4. CASE contexts # {}
  <2>1. Seqs \in SUBSET Nat /\ Seqs # {}
    BY <1>2, <1>4
  <2>2. Min(Seqs) \in Seqs /\ \A k \in Seqs : Min(Seqs) <= k
    <3> HIDE DEF Seqs
    <3> QED BY <2>1, MinIsLeast
  <2>3. PICK q \in contexts : q.seq = Min(Seqs) /\ \A p \in contexts : q.seq <= p.seq
    BY <2>2
  <2>4. a \in contexts /\ a.seq = Min(Seqs)
    BY <2>3
  <2>5. b \in contexts /\ \A p \in contexts : b.seq <= p.seq
    BY <2>3
  <2>6. a.seq = b.seq
    <3> HIDE DEF contexts, a, b, Seqs
    <3>1. b.seq <= q.seq /\ q.seq <= b.seq
      BY <2>3, <2>5
    <3> QED BY <1>2, <2>3, <2>4, <2>5, <3>1
  <2>7. a = b
    <3> HIDE DEF contexts, a, b, Seqs
    <3> QED BY <1>2, <2>4, <2>5, <2>6 DEF WellFormed, DistinctSequences
  <2>8. WithContext(recs, r) = SetContext(r, b.ctx)
    BY <1>1, <1>4 DEF WithContext
  <2> QED BY <1>4, <2>7, <2>8
<1> QED
  BY <1>3, <1>4

\* Which of its ends a visit comes to depends on the record, its transaction
\* and the running maximum.
LEMMA VisitCases ==
    ASSUME NEW recs, WellFormed(recs, Subjects), NEW r \in recs,
           NEW acc \in Accumulators, NEW sorted,
           Last(sorted) = LastOf(recs, r.subject)
    PROVE  VisitRecord(recs, sorted, acc, r) =
               IF IsHeartbeatMessage(r) THEN Raise(acc, r.subject, r.seq)
               ELSE IF HeldChange(recs, r) \/ WaitsAt(recs, r, acc.maxSequence)
               THEN [acc EXCEPT !.held = @ \cup {r}]
               ELSE IF IsContextMessage(r) THEN acc
               ELSE [Raise(acc, r.subject, r.seq)
                        EXCEPT !.stitched = @ \cup {WithContext(recs, r)}]
<1> DEFINE same == SameTransaction(recs, r)
           contexts == {q \in same : IsContextMessage(q)}
           first == Min({q.seq : q \in contexts})
           context == (CHOOSE q \in contexts : q.seq = first).ctx
           given == IF contexts # {} THEN SetContext(r, context) ELSE r
           alone == /\ UseBuffer /\ IsChange(r)
                    /\ Cardinality(same) = 1 /\ r = Last(sorted)
           hold == [acc EXCEPT !.held = @ \cup {r}]
           save == [Raise(acc, r.subject, r.seq) EXCEPT !.stitched = @ \cup {given}]
           waits == /\ UseBuffer /\ ~(\E q \in same : IsChange(q))
                    /\ ~(acc.maxSequence - r.seq > OrphanGap)
<1>1. VisitRecord(recs, sorted, acc, r) =
          CASE IsHeartbeatMessage(r) -> Raise(acc, r.subject, r.seq)
            [] alone -> hold
            [] IsContextMessage(r) -> IF waits THEN hold ELSE acc
            [] OTHER -> save
  BY DEF VisitRecord
<1>2. given = WithContext(recs, r)
  BY SaveIsWithContext
<1>3. Cardinality(same) = 1 <=> same = {r}
  <2>1. r \in same /\ IsFiniteSet(same)
    <3>1. r \in same /\ same \subseteq recs
      BY DEF SameTransaction
    <3> QED BY <3>1, FS_Subset DEF WellFormed
  <2>2. Cardinality({r}) = 1
    BY FS_Singleton
  <2>3. Cardinality(same) = 1 => same = {r}
    <3> HIDE DEF same
    <3>1. ASSUME Cardinality(same) = 1 PROVE \E x : same = {x}
      BY <2>1, <3>1, FS_Singleton
    <3> QED BY <2>1, <3>1
  <2> QED BY <2>2, <2>3
<1>4. alone <=> HeldChange(recs, r)
  BY <1>3 DEF HeldChange
<1>5. IsContextMessage(r) => (waits <=> WaitsAt(recs, r, acc.maxSequence))
  BY DEF WaitsAt, ChangeArrived
<1>6. /\ WaitsAt(recs, r, acc.maxSequence) => IsContextMessage(r)
      /\ alone => ~IsHeartbeatMessage(r) /\ ~IsContextMessage(r)
      /\ ~(IsHeartbeatMessage(r) /\ IsContextMessage(r))
  BY DEF WaitsAt, IsChange, IsHeartbeatMessage, IsContextMessage
<1> HIDE DEF alone, hold, given, waits, same
<1>7. CASE IsHeartbeatMessage(r)
  BY <1>1, <1>6, <1>7
<1>8. CASE alone
  BY <1>1, <1>4, <1>6, <1>8 DEF hold
<1>9. CASE IsContextMessage(r)
  BY <1>1, <1>4, <1>5, <1>6, <1>9 DEF hold
<1>10. CASE ~IsHeartbeatMessage(r) /\ ~alone /\ ~IsContextMessage(r)
  BY <1>1, <1>2, <1>4, <1>6, <1>10
<1> QED
  BY <1>7, <1>8, <1>9, <1>10

-----------------------------------------------------------------------------
(***************************************************************************)
(* The records of one subject.                                             *)
(***************************************************************************)
\* x is the greatest of the sequences, and 0 if there are none.
IsTop(x, seqs) == IF seqs = {} THEN x = 0 ELSE x \in seqs /\ \A s \in seqs : s <= x

Raises(recs, r) == IsHeartbeatMessage(r) \/ r \in Savable(recs)

\* What the visits of the records P of subject u make of the accumulator with
\* which the subject was begun.
VisitsMake(recs, u, P, begun, acc) ==
    LET raising == {r.seq : r \in {q \in P : Raises(recs, q)}}
    IN  /\ acc \in Accumulators
        /\ acc.maxSequence = begun.maxSequence
        /\ acc.stitched = begun.stitched
               \cup {WithContext(recs, r) : r \in {q \in P : q \in Savable(recs)}}
        /\ acc.held = begun.held
               \cup {r \in P : \/ HeldChange(recs, r)
                               \/ WaitsAt(recs, r, begun.maxSequence)}
        /\ \A v \in Subjects \ {u} : acc.max[v] = begun.max[v]
        /\ IsTop(acc.max[u], raising)
        /\ acc.keys = IF raising = {} THEN begun.keys ELSE Append(begun.keys, u)

\* The accumulator changes only at u: its maximum is the greatest of seqs, and
\* u is at the end of the keys.
RaisedTo(next, acc, u, seqs, keys) ==
    /\ next \in Accumulators
    /\ next.maxSequence = acc.maxSequence
    /\ next.stitched = acc.stitched /\ next.held = acc.held
    /\ \A v \in Subjects \ {u} : next.max[v] = acc.max[v]
    /\ IsTop(next.max[u], seqs)
    /\ next.keys = Append(keys, u)

\* A subject is raised to the greatest of its sequences, and inserted once.
LEMMA RaiseKeepsTop ==
    ASSUME NEW acc \in Accumulators, NEW u \in Subjects, NEW s \in Nat \ {0},
           NEW seqs \in SUBSET Nat, IsTop(acc.max[u], seqs),
           NEW keys \in Seq(Subjects), \A i \in DOMAIN keys : keys[i] # u,
           acc.keys = IF seqs = {} THEN keys ELSE Append(keys, u)
    PROVE  RaisedTo(Raise(acc, u, s), acc, u, seqs \cup {s}, keys)
<1>1. CASE acc.max[u] >= s
  <2>1. Raise(acc, u, s) = acc
    BY <1>1 DEF Raise
  <2>2. acc.max[u] \in Nat
    BY DEF Accumulators
  <2>3. seqs # {}
    BY <1>1, <2>2 DEF IsTop
  <2>4. IsTop(acc.max[u], seqs \cup {s})
    BY <1>1, <2>3 DEF IsTop
  <2>5. acc.keys = Append(keys, u)
    BY <2>3, Zenon
  <2> QED BY <2>1, <2>4, <2>5 DEF RaisedTo
<1>2. CASE ~(acc.max[u] >= s)
  <2> DEFINE raised == Raise(acc, u, s)
  <2>1. raised = [acc EXCEPT !.max[u] = s, !.keys = InsertionOrder(acc.keys, u)]
    BY <1>2 DEF Raise
  <2>2. InsertionOrder(acc.keys, u) = Append(keys, u)
    <3>1. CASE seqs = {}
      BY <3>1 DEF InsertionOrder
    <3>2. CASE seqs # {}
      <4>1. acc.keys = Append(keys, u)
        BY <3>2, Zenon
      <4>2. Len(keys) + 1 \in DOMAIN Append(keys, u) /\ Append(keys, u)[Len(keys) + 1] = u
        <5>1. Len(keys) \in Nat
          OBVIOUS
        <5> QED BY <5>1
      <4> QED BY <4>1, <4>2 DEF InsertionOrder
    <3> QED BY <3>1, <3>2
  <2>3. /\ acc.max \in [Subjects -> Nat] /\ acc.keys \in Seq(Subjects)
        /\ acc.maxSequence \in Nat
        /\ acc.stitched \subseteq RecordOf(Subjects) /\ acc.held \subseteq RecordOf(Subjects)
    BY DEF Accumulators
  <2>4. /\ raised.max = [acc.max EXCEPT ![u] = s]
        /\ raised.keys = Append(keys, u)
        /\ raised.maxSequence = acc.maxSequence
        /\ raised.stitched = acc.stitched /\ raised.held = acc.held
    BY <2>1, <2>2 DEF Accumulators
  <2>5. raised \in Accumulators
    <3> DEFINE max == [acc.max EXCEPT ![u] = s]
               longer == Append(keys, u)
    <3>1. max \in [Subjects -> Nat] /\ longer \in Seq(Subjects)
      BY <2>3
    <3>2. raised = [acc EXCEPT !.max = max, !.keys = longer]
      BY <2>1, <2>2
    <3> HIDE DEF max, longer, raised
    <3> QED BY <3>1, <3>2 DEF Accumulators
  <2>6. IsTop(s, seqs \cup {s})
    BY <1>2, <2>3 DEF IsTop
  <2> HIDE DEF raised
  <2>7. RaisedTo(raised, acc, u, seqs \cup {s}, keys)
    BY <2>3, <2>4, <2>5, <2>6 DEF RaisedTo
  <2> QED BY <2>7 DEF raised
<1> QED
  BY <1>1, <1>2

\* One more record: it raises its subject, or is held, or is dropped.
LEMMA VisitMakes ==
    ASSUME NEW recs, WellFormed(recs, Subjects), NEW u, NEW P \in SUBSET recs,
           NEW begun \in Accumulators, \A i \in DOMAIN begun.keys : begun.keys[i] # u,
           NEW acc, VisitsMake(recs, u, P, begun, acc),
           NEW r \in recs, r.subject = u,
           NEW sorted, Last(sorted) = LastOf(recs, u)
    PROVE  VisitsMake(recs, u, P \cup {r}, begun, VisitRecord(recs, sorted, acc, r))
<1> DEFINE raising(Q) == {q.seq : q \in {p \in Q : Raises(recs, p)}}
           saving(Q) == {WithContext(recs, q) : q \in {p \in Q : p \in Savable(recs)}}
           holding(Q) == {q \in Q : \/ HeldChange(recs, q)
                                    \/ WaitsAt(recs, q, begun.maxSequence)}
           next == VisitRecord(recs, sorted, acc, r)
           raised == Raise(acc, u, r.seq)
           given == WithContext(recs, r)
<1>1. /\ acc \in Accumulators
      /\ acc.maxSequence = begun.maxSequence
      /\ acc.stitched = begun.stitched \cup saving(P)
      /\ acc.held = begun.held \cup holding(P)
      /\ \A v \in Subjects \ {u} : acc.max[v] = begun.max[v]
      /\ IsTop(acc.max[u], raising(P))
      /\ acc.keys = IF raising(P) = {} THEN begun.keys ELSE Append(begun.keys, u)
  BY DEF VisitsMake
<1>2. r \in RecordOf(Subjects) /\ u \in Subjects /\ r.seq \in Nat \ {0}
  BY DEF WellFormed, RecordOf
<1>3. raising(P) \in SUBSET Nat
  BY DEF WellFormed, RecordOf
<1>4. begun.keys \in Seq(Subjects)
  BY DEF Accumulators
<1>5. next = IF IsHeartbeatMessage(r) THEN raised
             ELSE IF HeldChange(recs, r) \/ WaitsAt(recs, r, begun.maxSequence)
             THEN [acc EXCEPT !.held = @ \cup {r}]
             ELSE IF IsContextMessage(r) THEN acc
             ELSE [raised EXCEPT !.stitched = @ \cup {given}]
  BY <1>1, VisitCases
<1>6. /\ raising(P \cup {r}) = IF Raises(recs, r) THEN raising(P) \cup {r.seq} ELSE raising(P)
      /\ saving(P \cup {r}) = IF r \in Savable(recs) THEN saving(P) \cup {given} ELSE saving(P)
      /\ holding(P \cup {r}) = IF HeldChange(recs, r) \/ WaitsAt(recs, r, begun.maxSequence)
                               THEN holding(P) \cup {r} ELSE holding(P)
  OBVIOUS
<1>7. /\ raised \in Accumulators
      /\ raised.maxSequence = acc.maxSequence
      /\ raised.stitched = acc.stitched /\ raised.held = acc.held
      /\ \A v \in Subjects \ {u} : raised.max[v] = acc.max[v]
      /\ IsTop(raised.max[u], raising(P) \cup {r.seq})
      /\ raised.keys = Append(begun.keys, u)
  <2> DEFINE seqs == raising(P)
  <2>1. /\ seqs \in SUBSET Nat /\ IsTop(acc.max[u], seqs)
        /\ acc.keys = IF seqs = {} THEN begun.keys ELSE Append(begun.keys, u)
    BY <1>1, <1>3
  <2> HIDE DEF raising, seqs
  <2>2. RaisedTo(Raise(acc, u, r.seq), acc, u, seqs \cup {r.seq}, begun.keys)
    BY <1>1, <1>2, <1>4, <2>1, RaiseKeepsTop
  <2> QED BY <2>2 DEF RaisedTo, seqs
<1>8. given \in RecordOf(Subjects)
  BY WithContextType DEF WellFormed
<1>9. /\ r \in Savable(recs) <=> /\ ~IsHeartbeatMessage(r) /\ ~IsContextMessage(r)
                                 /\ ~HeldChange(recs, r)
      /\ IsHeartbeatMessage(r) =>
             ~HeldChange(recs, r) /\ ~WaitsAt(recs, r, begun.maxSequence)
      /\ HeldChange(recs, r) \/ WaitsAt(recs, r, begun.maxSequence) \/ IsContextMessage(r)
             => ~Raises(recs, r) /\ r \notin Savable(recs)
      /\ WaitsAt(recs, r, begun.maxSequence) => IsContextMessage(r)
  BY DEF Savable, HeldChange, WaitsAt, Raises, IsHeartbeatMessage, IsContextMessage, IsChange
<1>10. SUFFICES
       /\ next \in Accumulators
       /\ next.maxSequence = begun.maxSequence
       /\ next.stitched = begun.stitched \cup saving(P \cup {r})
       /\ next.held = begun.held \cup holding(P \cup {r})
       /\ \A v \in Subjects \ {u} : next.max[v] = begun.max[v]
       /\ IsTop(next.max[u], raising(P \cup {r}))
       /\ next.keys = IF raising(P \cup {r}) = {} THEN begun.keys
                      ELSE Append(begun.keys, u)
  BY DEF VisitsMake
<1> HIDE DEF raising, saving, holding, next, raised, given
<1>11. raising(P) \cup {r.seq} # {}
  OBVIOUS
<1>12. CASE IsHeartbeatMessage(r)
  <2>1. Raises(recs, r) /\ r \notin Savable(recs)
    BY <1>9, <1>12 DEF Raises
  <2>2. next = raised
    BY <1>5, <1>12
  <2> QED BY <1>1, <1>6, <1>7, <1>9, <1>11, <1>12, <2>1, <2>2
<1>13. CASE HeldChange(recs, r) \/ WaitsAt(recs, r, begun.maxSequence)
  <2>1. next = [acc EXCEPT !.held = @ \cup {r}]
    BY <1>5, <1>9, <1>13
  <2>2. /\ next \in Accumulators
        /\ next.maxSequence = acc.maxSequence /\ next.stitched = acc.stitched
        /\ next.held = acc.held \cup {r}
        /\ next.max = acc.max /\ next.keys = acc.keys
    BY <1>1, <1>2, <2>1 DEF Accumulators
  <2> QED BY <1>1, <1>6, <1>9, <1>13, <2>2
<1>14. CASE IsContextMessage(r) /\ ~WaitsAt(recs, r, begun.maxSequence)
  <2>1. ~HeldChange(recs, r) /\ ~IsHeartbeatMessage(r)
    BY <1>14 DEF HeldChange, IsChange, IsContextMessage, IsHeartbeatMessage
  <2>2. next = acc
    BY <1>5, <1>14, <2>1
  <2> QED BY <1>1, <1>6, <1>9, <1>14, <2>1, <2>2
<1>15. CASE r \in Savable(recs)
  <2>1. Raises(recs, r) /\ ~HeldChange(recs, r) /\ ~WaitsAt(recs, r, begun.maxSequence)
    BY <1>9, <1>15 DEF Raises
  <2>2. next = [raised EXCEPT !.stitched = @ \cup {given}]
    BY <1>5, <1>9, <1>15, <2>1
  <2>3. /\ next \in Accumulators
        /\ next.maxSequence = raised.maxSequence
        /\ next.stitched = raised.stitched \cup {given}
        /\ next.held = raised.held
        /\ next.max = raised.max /\ next.keys = raised.keys
    BY <1>7, <1>8, <2>2 DEF Accumulators
  <2> QED BY <1>1, <1>6, <1>7, <1>11, <1>15, <2>1, <2>3
<1> QED
  BY <1>9, <1>12, <1>13, <1>14, <1>15

\* A visit takes accumulators to accumulators.
LEMMA VisitType ==
    ASSUME NEW recs, WellFormed(recs, Subjects), NEW r \in recs,
           NEW acc \in Accumulators, NEW sorted,
           Last(sorted) = LastOf(recs, r.subject)
    PROVE  VisitRecord(recs, sorted, acc, r) \in Accumulators
<1> DEFINE raised == Raise(acc, r.subject, r.seq)
<1>1. r \in RecordOf(Subjects) /\ r.subject \in Subjects /\ r.seq \in Nat
  BY DEF WellFormed, RecordOf
<1>2. raised \in Accumulators
  <2> DEFINE max == [acc.max EXCEPT ![r.subject] = r.seq]
             longer == InsertionOrder(acc.keys, r.subject)
  <2>1. max \in [Subjects -> Nat] /\ longer \in Seq(Subjects)
    BY <1>1 DEF Accumulators, InsertionOrder
  <2>2. raised = acc \/ raised = [acc EXCEPT !.max = max, !.keys = longer]
    BY DEF Raise
  <2> HIDE DEF max, longer, raised
  <2> QED BY <2>1, <2>2 DEF Accumulators
<1>3. WithContext(recs, r) \in RecordOf(Subjects)
  BY WithContextType DEF WellFormed
<1> HIDE DEF raised
<1>4. /\ [acc EXCEPT !.held = @ \cup {r}] \in Accumulators
      /\ [raised EXCEPT !.stitched = @ \cup {WithContext(recs, r)}] \in Accumulators
  BY <1>1, <1>2, <1>3 DEF Accumulators
<1>5. VisitRecord(recs, sorted, acc, r) \in
          {raised, acc, [acc EXCEPT !.held = @ \cup {r}],
           [raised EXCEPT !.stitched = @ \cup {WithContext(recs, r)}]}
  BY VisitCases DEF raised
<1> QED
  BY <1>2, <1>4, <1>5

\* The accumulator with which the visits of subject u begin.
Begun(recs, acc, u) ==
    [acc EXCEPT !.maxSequence =
        IF LastOf(recs, u).seq > @ THEN LastOf(recs, u).seq ELSE @]

\* To begin a subject touches maxSequence alone.
LEMMA BegunType ==
    ASSUME NEW recs, WellFormed(recs, Subjects),
           NEW u, OfSubject(recs, u) # {}, NEW acc \in Accumulators
    PROVE  /\ Begun(recs, acc, u) \in Accumulators
           /\ Begun(recs, acc, u).max = acc.max
           /\ Begun(recs, acc, u).keys = acc.keys
           /\ Begun(recs, acc, u).stitched = acc.stitched
           /\ Begun(recs, acc, u).held = acc.held
           /\ Begun(recs, acc, u).maxSequence =
                  IF LastOf(recs, u).seq > acc.maxSequence
                  THEN LastOf(recs, u).seq ELSE acc.maxSequence
<1>1. LastOf(recs, u) \in OfSubject(recs, u)
  BY LastOfExists
<1>2. LastOf(recs, u).seq \in Nat
  BY <1>1 DEF OfSubject, WellFormed, RecordOf
<1> QED
  BY <1>2 DEF Begun, Accumulators

\* The pass over a subject visits each of its records, in their order.
LEMMA SubjectVisits ==
    ASSUME NEW recs, WellFormed(recs, Subjects),
           NEW u, OfSubject(recs, u) # {}, NEW acc \in Accumulators
    PROVE  LET sorted == Sorted(recs, u)
               n == Len(sorted)
           IN  \E f : /\ f[0] = Begun(recs, acc, u)
                      /\ \A k \in 1..n :
                            f[k] = VisitRecord(recs, sorted, f[k - 1], sorted[k])
                      /\ VisitSubject(recs, acc, u) = f[n]
<1> DEFINE sorted == Sorted(recs, u)
           n == Len(sorted)
           begun == Begun(recs, acc, u)
<1>1. /\ sorted \in Seq(recs)
      /\ {sorted[i] : i \in 1..n} = OfSubject(recs, u)
      /\ Last(sorted) = LastOf(recs, u)
  BY SortedLists
<1>3. begun \in Accumulators
  BY BegunType
<1>4. VisitSubject(recs, acc, u) =
          FoldLeft(LAMBDA a, r : VisitRecord(recs, sorted, a, r), begun, sorted)
  BY <1>1 DEF VisitSubject, Begun
<1> HIDE DEF sorted, begun
<1>5. n \in Nat /\ DOMAIN sorted = 1..n /\ \A i \in 1..n : sorted[i] \in recs
  BY <1>1
<1>6. \A i \in 1..n : sorted[i].subject = u
  BY <1>1 DEF OfSubject
<1> HIDE DEF n
<1> DEFINE Fold(g) == g = [T \in SUBSET (1..n) |->
                             IF T = {} THEN begun
                             ELSE VisitRecord(recs, sorted, g[T \ {Max(T)}], sorted[Max(T)])]
           g == CHOOSE g : Fold(g)
<1>7. VisitSubject(recs, acc, u) = g[1..n]
  <2>1. FoldLeft(LAMBDA a, r : VisitRecord(recs, sorted, a, r), begun, sorted)
            = LET iter == CHOOSE f : f = [T \in SUBSET DOMAIN sorted |->
                              IF T = {} THEN begun
                              ELSE VisitRecord(recs, sorted, f[T \ {Max(T)}], sorted[Max(T)])]
              IN  iter[DOMAIN sorted]
    BY Zenon DEF FoldLeft, MapThenFoldSet
  <2> QED BY <1>4, <1>5, <2>1, Zenon
<1>8. Fold(g)
  <2> DEFINE step == [p \in Accumulators \X (1..n) |->
                         VisitRecord(recs, sorted, p[1], sorted[p[2]])]
  <2>1. \A a \in Accumulators, i \in 1..n :
            /\ step[<<a, i>>] = VisitRecord(recs, sorted, a, sorted[i])
            /\ step[<<a, i>>] \in Accumulators
    BY <1>1, <1>5, <1>6, VisitType
  <2> HIDE DEF step
  <2>2. Steps(Accumulators, n, step)
    BY <2>1 DEF Steps
  <2>3. HasFold(Accumulators, n, begun, step)
    BY <1>3, <1>5, <2>2, FoldExists
  <2>4. PICK h \in [SUBSET (1..n) -> Accumulators] :
            \A T \in SUBSET (1..n) : h[T] = Accumulated(h, T, begun, step)
    BY <2>3 DEF HasFold
  <2>5. ASSUME NEW T \in SUBSET (1..n), T # {}
        PROVE  h[T] = VisitRecord(recs, sorted, h[T \ {Max(T)}], sorted[Max(T)])
    <3>1. Max(T) \in 1..n
      BY <1>5, <2>5, SmallSetsGrow
    <3> QED BY <2>1, <2>4, <2>5, <3>1 DEF Accumulated
  <2>6. Fold(h)
    BY <2>4, <2>5 DEF Accumulated
  <2> QED BY <2>6, Zenon
<1> HIDE DEF g
<1>9. /\ g[{}] = begun
      /\ \A k \in 1..n : g[1..k] = VisitRecord(recs, sorted, g[1..(k - 1)], sorted[k])
  <2>1. g[{}] = begun
    BY <1>8
  <2>2. ASSUME NEW k \in 1..n
        PROVE  g[1..k] = VisitRecord(recs, sorted, g[1..(k - 1)], sorted[k])
    <3>1. Max(1..k) = k /\ (1..k) \ {k} = 1..(k - 1)
      BY <1>5, LastOfInterval
    <3>2. 1..k \in SUBSET (1..n) /\ k \in 1..k
      BY <1>5
    <3>3. 1..k # {}
      BY <3>2
    <3> QED BY <1>8, <3>1, <3>2, <3>3
  <2> QED BY <2>1, <2>2
<1> DEFINE f == [k \in 0..n |-> g[1..k]]
<1>10. f[0] = begun
  <2>1. 1..0 = {} /\ 0 \in 0..n
    BY <1>5
  <2> QED BY <1>9, <2>1
<1>11. \A k \in 1..n : f[k] = VisitRecord(recs, sorted, f[k - 1], sorted[k])
  BY <1>5, <1>9
<1>12. VisitSubject(recs, acc, u) = f[n]
  BY <1>5, <1>7
<1> QED
  BY <1>10, <1>11, <1>12 DEF begun, n, sorted

\* The pass over a subject leaves an accumulator.
LEMMA SubjectType ==
    ASSUME NEW recs, WellFormed(recs, Subjects),
           NEW u, OfSubject(recs, u) # {}, NEW acc \in Accumulators
    PROVE  VisitSubject(recs, acc, u) \in Accumulators
<1> DEFINE sorted == Sorted(recs, u)
           n == Len(sorted)
<1>1. /\ sorted \in Seq(recs)
      /\ {sorted[i] : i \in 1..n} = OfSubject(recs, u)
      /\ Last(sorted) = LastOf(recs, u)
  BY SortedLists
<1>2. PICK f : /\ f[0] = Begun(recs, acc, u)
               /\ \A k \in 1..n : f[k] = VisitRecord(recs, sorted, f[k - 1], sorted[k])
               /\ VisitSubject(recs, acc, u) = f[n]
  BY SubjectVisits
<1> HIDE DEF sorted
<1>3. n \in Nat /\ \A i \in 1..n : sorted[i] \in recs /\ sorted[i].subject = u
  BY <1>1 DEF OfSubject
<1> HIDE DEF n
<1> DEFINE Done == {k \in 0..n : f[k] \in Accumulators}
<1>4. 0 \in Done
  BY <1>2, <1>3, BegunType
<1>5. ASSUME NEW k \in 1..n, k - 1 \in Done PROVE k \in Done
  <2>1. f[k - 1] \in Accumulators /\ sorted[k] \in recs /\ sorted[k].subject = u /\ k \in 0..n
    BY <1>3, <1>5
  <2>2. VisitRecord(recs, sorted, f[k - 1], sorted[k]) \in Accumulators
    BY <1>1, <2>1, VisitType
  <2> QED BY <1>2, <2>1, <2>2
<1>6. n \in Done
  <2> HIDE DEF Done
  <2> QED BY <1>3, <1>4, <1>5, UpTo
<1> QED
  BY <1>2, <1>6

\* What the pass over a subject accumulates.
LEMMA SubjectMakes ==
    ASSUME NEW recs, WellFormed(recs, Subjects),
           NEW u, OfSubject(recs, u) # {},
           NEW acc \in Accumulators, acc.max[u] = 0,
           \A i \in DOMAIN acc.keys : acc.keys[i] # u
    PROVE  VisitsMake(recs, u, OfSubject(recs, u), Begun(recs, acc, u),
                      VisitSubject(recs, acc, u))
<1> DEFINE sorted == Sorted(recs, u)
           n == Len(sorted)
           begun == Begun(recs, acc, u)
<1>1. /\ sorted \in Seq(recs)
      /\ {sorted[i] : i \in 1..n} = OfSubject(recs, u)
      /\ Last(sorted) = LastOf(recs, u)
  BY SortedLists
<1>2. PICK f : /\ f[0] = begun
               /\ \A k \in 1..n : f[k] = VisitRecord(recs, sorted, f[k - 1], sorted[k])
               /\ VisitSubject(recs, acc, u) = f[n]
  BY SubjectVisits
<1> HIDE DEF sorted
<1>3. begun \in Accumulators /\ begun.max = acc.max /\ begun.keys = acc.keys
  BY BegunType
<1> HIDE DEF begun
<1>4. n \in Nat /\ \A i \in 1..n : sorted[i] \in recs /\ sorted[i].subject = u
  BY <1>1 DEF OfSubject
<1> HIDE DEF n
<1> DEFINE Prefix(k) == {sorted[i] : i \in 1..k}
           Done == {k \in 0..n : VisitsMake(recs, u, Prefix(k), begun, f[k])}
<1>5. 0 \in Done
  <2>1. Prefix(0) = {}
    OBVIOUS
  <2>2. VisitsMake(recs, u, {}, begun, begun)
    BY <1>3 DEF VisitsMake, IsTop
  <2> HIDE DEF Prefix
  <2> QED BY <1>2, <1>4, <2>1, <2>2
<1>6. ASSUME NEW k \in 1..n, k - 1 \in Done PROVE k \in Done
  <2>1. /\ VisitsMake(recs, u, Prefix(k - 1), begun, f[k - 1])
        /\ Prefix(k - 1) \in SUBSET recs
        /\ Prefix(k) = Prefix(k - 1) \cup {sorted[k]}
        /\ sorted[k] \in recs /\ sorted[k].subject = u /\ k \in 0..n
    BY <1>4, <1>6
  <2> HIDE DEF Prefix
  <2>2. \A i \in DOMAIN begun.keys : begun.keys[i] # u
    BY <1>3
  <2>3. VisitsMake(recs, u, Prefix(k), begun, f[k])
    BY <1>1, <1>2, <1>3, <2>1, <2>2, VisitMakes
  <2> QED BY <2>1, <2>3
<1>7. n \in Done
  <2> HIDE DEF Done
  <2> QED BY <1>4, <1>5, <1>6, UpTo
<1> QED
  BY <1>1, <1>2, <1>7 DEF begun

-----------------------------------------------------------------------------
(***************************************************************************)
(* The subjects, in the order of the store.                                *)
(***************************************************************************)
\* The order has the subjects of the buffer, each once.
Fits(recs, ord) ==
    /\ ord \in Seq(Subjects)
    /\ \A i, j \in DOMAIN ord : i # j => ord[i] # ord[j]
    /\ \A u : (\E i \in DOMAIN ord : ord[i] = u) <=> OfSubject(recs, u) # {}

\* The keys are the subjects with settled records at the first k places.
KeyedAt(recs, ord, k, keys, n) ==
    \E at \in [1..n -> 1..k] :
        /\ \A i, j \in 1..n : i < j => at[i] < at[j]
        /\ \A j \in 1..n : keys[j] = ord[at[j]]
        /\ \A i \in 1..k : Settled(recs, ord[i]) # {} <=> \E j \in 1..n : at[j] = i

Keyed(recs, ord, k, keys) == KeyedAt(recs, ord, k, keys, Len(keys))

\* What the passes over the first k subjects make.
PassesMake(recs, ord, k, acc) ==
    LET us == {ord[i] : i \in 1..k}
    IN  /\ acc \in Accumulators
        /\ acc.maxSequence = IF k = 0 THEN 0 ELSE MaxSequence(recs, us)
        /\ acc.stitched = {WithContext(recs, r) :
                               r \in {q \in Savable(recs) : q.subject \in us}}
        /\ acc.held = {r \in Held(recs, ord) : r.subject \in us}
        /\ \A v \in Subjects :
               IsTop(acc.max[v], IF v \in us THEN Settled(recs, v) ELSE {})
        /\ Keyed(recs, ord, k, acc.keys)

\* One more subject moves maxSequence to its last record if that is further on.
LEMMA MaxSequenceGrows ==
    ASSUME NEW recs, WellFormed(recs, Subjects),
           NEW us, us \subseteq {r.subject : r \in recs}, IsFiniteSet(us),
           NEW u, OfSubject(recs, u) # {}
    PROVE  LET s == LastOf(recs, u).seq
           IN  /\ s \in Nat \ {0}
               /\ MaxSequence(recs, us \cup {u}) =
                      IF us = {} \/ s > MaxSequence(recs, us)
                      THEN s ELSE MaxSequence(recs, us)
<1> DEFINE s == LastOf(recs, u).seq
           Seqs(vs) == {LastOf(recs, v).seq : v \in vs}
           more == us \cup {u}
<1>1. \A v \in more : LastOf(recs, v) \in recs
  <2>1. \A v \in more : OfSubject(recs, v) # {}
    BY DEF OfSubject
  <2>2. \A v \in more : LastOf(recs, v) \in OfSubject(recs, v)
    BY <2>1, LastOfExists
  <2> QED BY <2>2 DEF OfSubject
<1>2. \A r \in recs : r.seq \in Nat \ {0}
  BY DEF WellFormed, RecordOf
<1>3. \A vs \in SUBSET more : /\ Seqs(vs) \subseteq {r.seq : r \in recs}
                              /\ vs # {} => Seqs(vs) # {}
  BY <1>1
<1>4. \A vs \in SUBSET more : Seqs(vs) \in SUBSET Nat /\ IsFiniteSet(Seqs(vs))
  BY <1>3, SequencesFinite
<1>5. \A vs \in SUBSET more : vs # {} =>
          /\ MaxSequence(recs, vs) \in Seqs(vs)
          /\ \A x \in Seqs(vs) : x <= MaxSequence(recs, vs)
  BY <1>3, <1>4, MaxIsGreatest DEF MaxSequence
<1>6. s \in Nat \ {0} /\ Seqs(more) = Seqs(us) \cup {s}
  BY <1>1, <1>2
<1>7. /\ us \in SUBSET more /\ more \in SUBSET more /\ more # {}
      /\ us = {} => Seqs(us) = {}
  OBVIOUS
<1> HIDE DEF Seqs, s, more
<1> DEFINE x == MaxSequence(recs, more)
           y == MaxSequence(recs, us)
<1>8. x \in Nat /\ x \in Seqs(us) \cup {s} /\ \A z \in Seqs(us) \cup {s} : z <= x
  BY <1>4, <1>5, <1>6, <1>7
<1>9. us # {} => y \in Nat /\ y \in Seqs(us) /\ \A z \in Seqs(us) : z <= y
  BY <1>4, <1>5, <1>7
<1> HIDE DEF x, y
<1>10. x = IF us = {} \/ s > y THEN s ELSE y
  <2>1. CASE us = {}
    BY <1>7, <1>8, <2>1
  <2>2. CASE us # {}
    <3>1. y <= x /\ s <= x /\ (x = s \/ x <= y) /\ y \in Nat /\ x \in Nat /\ s \in Nat
      BY <1>6, <1>8, <1>9, <2>2
    <3> QED BY <2>2, <3>1
  <2> QED BY <2>1, <2>2
<1> QED
  BY <1>6, <1>10 DEF x, y, s, more

\* A subject with settled records becomes the last key.
LEMMA KeyedGrows ==
    ASSUME NEW recs, NEW ord \in Seq(Subjects), NEW k \in 1..Len(ord),
           NEW keys \in Seq(Subjects), Keyed(recs, ord, k - 1, keys)
    PROVE  Keyed(recs, ord, k, IF Settled(recs, ord[k]) = {} THEN keys
                               ELSE Append(keys, ord[k]))
<1> DEFINE n == Len(keys)
<1>1. PICK at \in [1..n -> 1..(k - 1)] :
          /\ \A i, j \in 1..n : i < j => at[i] < at[j]
          /\ \A j \in 1..n : keys[j] = ord[at[j]]
          /\ \A i \in 1..(k - 1) : Settled(recs, ord[i]) # {} <=> \E j \in 1..n : at[j] = i
  BY DEF Keyed, KeyedAt
<1>2. n \in Nat /\ k \in Nat /\ \A i \in 1..k : i \in 1..(k - 1) \/ i = k
  OBVIOUS
<1>3. \A j \in 1..n : at[j] \in 1..(k - 1) /\ at[j] \in 1..k /\ at[j] < k
  BY <1>1, <1>2
<1>4. CASE Settled(recs, ord[k]) = {}
  <2>1. at \in [1..n -> 1..k]
    BY <1>1, <1>3
  <2>2. \A i \in 1..k : Settled(recs, ord[i]) # {} <=> \E j \in 1..n : at[j] = i
    BY <1>1, <1>2, <1>3, <1>4
  <2>3. Keyed(recs, ord, k, keys)
    BY <1>1, <2>1, <2>2 DEF Keyed, KeyedAt
  <2> QED BY <1>4, <2>3
<1>5. CASE Settled(recs, ord[k]) # {}
  <2> DEFINE longer == Append(keys, ord[k])
             to == [j \in 1..(n + 1) |-> IF j <= n THEN at[j] ELSE k]
  <2>1. /\ Len(longer) = n + 1
        /\ \A j \in 1..n : longer[j] = keys[j]
        /\ longer[n + 1] = ord[k]
    OBVIOUS
  <2> HIDE DEF longer, n
  <2>2. \A j \in 1..(n + 1) : j \in 1..n \/ j = n + 1
    BY <1>2
  <2>3. to \in [1..(n + 1) -> 1..k]
    BY <1>2, <1>3
  <2>4. (\A j \in 1..n : to[j] = at[j]) /\ to[n + 1] = k
    BY <1>2
  <2> HIDE DEF to
  <2>5. \A i, j \in 1..(n + 1) : i < j => to[i] < to[j]
    <3> SUFFICES ASSUME NEW i \in 1..(n + 1), NEW j \in 1..(n + 1), i < j
                 PROVE  to[i] < to[j]
      OBVIOUS
    <3>1. i \in 1..n /\ to[i] = at[i]
      BY <1>2, <2>2, <2>4
    <3>2. CASE j \in 1..n
      BY <1>1, <2>4, <3>1, <3>2
    <3>3. CASE j = n + 1
      BY <1>3, <2>4, <3>1, <3>3
    <3> QED BY <2>2, <3>2, <3>3
  <2>6. \A j \in 1..(n + 1) : longer[j] = ord[to[j]]
    BY <1>1, <2>1, <2>2, <2>4
  <2>7. \A i \in 1..k : Settled(recs, ord[i]) # {} <=> \E j \in 1..(n + 1) : to[j] = i
    <3>1. ASSUME NEW i \in 1..(k - 1)
          PROVE  Settled(recs, ord[i]) # {} <=> \E j \in 1..(n + 1) : to[j] = i
      <4>1. i # k /\ (\A j \in 1..n : j \in 1..(n + 1))
        BY <1>2
      <4> QED BY <1>1, <2>2, <2>4, <4>1
    <3>2. n + 1 \in 1..(n + 1)
      BY <1>2
    <3> QED BY <1>2, <1>5, <2>4, <3>1, <3>2
  <2>8. Keyed(recs, ord, k, longer)
    <3>1. KeyedAt(recs, ord, k, longer, n + 1)
      BY <2>3, <2>5, <2>6, <2>7, Zenon DEF KeyedAt
    <3> QED BY <2>1, <3>1 DEF Keyed
  <2> QED BY <1>5, <2>8 DEF longer
<1> QED
  BY <1>4, <1>5

\* The pass over the next subject.
LEMMA PassMakes ==
    ASSUME NEW recs, WellFormed(recs, Subjects), NEW ord, Fits(recs, ord),
           NEW k \in 1..Len(ord), NEW acc, PassesMake(recs, ord, k - 1, acc)
    PROVE  PassesMake(recs, ord, k, VisitSubject(recs, acc, ord[k]))
<1> DEFINE u == ord[k]
           us(j) == {ord[i] : i \in 1..j}
           mine == OfSubject(recs, u)
           begun == Begun(recs, acc, u)
           next == VisitSubject(recs, acc, u)
<1>1. /\ ord \in Seq(Subjects) /\ Len(ord) \in Nat /\ DOMAIN ord = 1..Len(ord)
      /\ k \in DOMAIN ord /\ u \in Subjects /\ mine # {}
      /\ \A i \in 1..k : i \in DOMAIN ord
  BY DEF Fits
<1>2. /\ us(k) = us(k - 1) \cup {u}
      /\ u \notin us(k - 1)
      /\ \A v \in us(k - 1) : v \in {r.subject : r \in recs}
      /\ IsFiniteSet(us(k - 1))
      /\ us(k - 1) = {} <=> k = 1
  <2>1. us(k) = us(k - 1) \cup {u}
    <3>1. 1..k = (1..(k - 1)) \cup {k}
      BY <1>1
    <3> QED BY <3>1
  <2>2. u \notin us(k - 1)
    <3>1. \A i \in 1..(k - 1) : i \in DOMAIN ord /\ i # k
      BY <1>1
    <3> QED BY <1>1, <3>1 DEF Fits
  <2>3. \A v \in us(k - 1) : v \in {r.subject : r \in recs}
    <3>1. \A i \in 1..(k - 1) : i \in DOMAIN ord
      BY <1>1
    <3>2. \A i \in 1..(k - 1) : OfSubject(recs, ord[i]) # {}
      BY <3>1 DEF Fits
    <3> QED BY <3>2 DEF OfSubject
  <2>4. IsFiniteSet(us(k - 1))
    <3>1. {r.subject : r \in recs} \in SUBSET {r.subject : r \in recs}
      OBVIOUS
    <3>2. IsFiniteSet(1..(k - 1))
      <4>1. 1 \in Int /\ k - 1 \in Int
        OBVIOUS
      <4> QED BY <4>1, FS_Interval
    <3> DEFINE h == [i \in 1..(k - 1) |-> ord[i]]
    <3>3. h \in Surjection(1..(k - 1), us(k - 1))
      BY DEF Surjection
    <3> HIDE DEF h
    <3> QED BY <3>2, <3>3, FS_Surjection, Zenon
  <2>5. us(k - 1) = {} <=> k = 1
    <3>1. CASE k = 1
      <4>1. 1..(k - 1) = {}
        BY <3>1
      <4> QED BY <3>1, <4>1
    <3>2. CASE k # 1
      <4>1. 1 \in 1..(k - 1)
        BY <3>2
      <4> QED BY <3>2, <4>1
    <3> QED BY <3>1, <3>2
  <2> QED BY <2>1, <2>2, <2>3, <2>4, <2>5
<1>3. /\ acc \in Accumulators
      /\ acc.maxSequence = IF k = 1 THEN 0 ELSE MaxSequence(recs, us(k - 1))
      /\ acc.stitched = {WithContext(recs, r) :
                             r \in {q \in Savable(recs) : q.subject \in us(k - 1)}}
      /\ acc.held = {r \in Held(recs, ord) : r.subject \in us(k - 1)}
      /\ \A v \in Subjects :
             IsTop(acc.max[v], IF v \in us(k - 1) THEN Settled(recs, v) ELSE {})
      /\ Keyed(recs, ord, k - 1, acc.keys)
  BY DEF PassesMake
<1> HIDE DEF us
<1>4. acc.max[u] = 0 /\ \A i \in DOMAIN acc.keys : acc.keys[i] # u
  <2>1. acc.max[u] = 0
    BY <1>1, <1>2, <1>3 DEF IsTop
  <2>2. PICK at \in [1..Len(acc.keys) -> 1..(k - 1)] :
            \A j \in 1..Len(acc.keys) : acc.keys[j] = ord[at[j]]
    BY <1>3 DEF Keyed, KeyedAt
  <2>3. DOMAIN acc.keys = 1..Len(acc.keys)
    BY <1>3 DEF Accumulators
  <2>4. \A j \in 1..Len(acc.keys) : ord[at[j]] \in us(k - 1)
    BY <2>2 DEF us
  <2> QED BY <1>2, <2>1, <2>2, <2>3, <2>4
<1>5. /\ begun \in Accumulators
      /\ begun.max = acc.max /\ begun.keys = acc.keys
      /\ begun.stitched = acc.stitched /\ begun.held = acc.held
      /\ begun.maxSequence = IF LastOf(recs, u).seq > acc.maxSequence
                             THEN LastOf(recs, u).seq ELSE acc.maxSequence
  BY <1>1, <1>3, BegunType
<1>6. VisitsMake(recs, u, mine, begun, next)
  BY <1>1, <1>3, <1>4, SubjectMakes
<1> HIDE DEF begun, next, mine, u
<1>7. begun.maxSequence = MaxSequence(recs, us(k))
  <2>1. /\ LastOf(recs, u).seq \in Nat \ {0}
        /\ MaxSequence(recs, us(k - 1) \cup {u}) =
               IF us(k - 1) = {} \/ LastOf(recs, u).seq > MaxSequence(recs, us(k - 1))
               THEN LastOf(recs, u).seq ELSE MaxSequence(recs, us(k - 1))
    BY <1>1, <1>2, MaxSequenceGrows DEF mine
  <2> QED BY <1>2, <1>3, <1>5, <2>1
<1>8. Visited(ord, u) = us(k)
  <2>1. \A i \in DOMAIN ord : ord[i] = u <=> i = k
    BY <1>1 DEF Fits, u
  <2>2. \A j \in DOMAIN ord : (\E i \in DOMAIN ord : j <= i /\ ord[i] = u) <=> j <= k
    BY <1>1, <2>1
  <2>3. \A j : j \in DOMAIN ord /\ j <= k <=> j \in 1..k
    BY <1>1
  <2> QED BY <2>2, <2>3 DEF Visited, us
<1>9. \A r \in mine : HeldContext(recs, ord, r) <=> WaitsAt(recs, r, begun.maxSequence)
  BY <1>7, <1>8 DEF mine, OfSubject, HeldContext, WaitsAt, Orphaned
<1>10. Settled(recs, u) = {r.seq : r \in {q \in mine : Raises(recs, q)}}
  BY DEF Settled, Raises, mine
<1>11. /\ next \in Accumulators
       /\ next.maxSequence = begun.maxSequence
       /\ next.stitched = begun.stitched
              \cup {WithContext(recs, r) : r \in {q \in mine : q \in Savable(recs)}}
       /\ next.held = begun.held
              \cup {r \in mine : \/ HeldChange(recs, r)
                                 \/ WaitsAt(recs, r, begun.maxSequence)}
       /\ \A v \in Subjects \ {u} : next.max[v] = begun.max[v]
       /\ IsTop(next.max[u], Settled(recs, u))
       /\ next.keys = IF Settled(recs, u) = {} THEN begun.keys ELSE Append(begun.keys, u)
  BY <1>6, <1>10 DEF VisitsMake
<1>12. next.stitched = {WithContext(recs, r) :
                            r \in {q \in Savable(recs) : q.subject \in us(k)}}
  <2>1. \A q \in Savable(recs) : q \in mine <=> q.subject = u
    BY DEF mine, OfSubject, Savable
  <2>2. \A q : q \in mine => q \in recs
    BY DEF mine, OfSubject
  <2> QED BY <1>2, <1>3, <1>5, <1>11, <2>1, <2>2
<1>13. next.held = {r \in Held(recs, ord) : r.subject \in us(k)}
  <2>1. \A r : r \in mine <=> r \in recs /\ r.subject = u
    BY DEF mine, OfSubject
  <2>2. {r \in mine : \/ HeldChange(recs, r)
                      \/ WaitsAt(recs, r, begun.maxSequence)}
            = {r \in Held(recs, ord) : r.subject = u}
    BY <1>9, <2>1 DEF Held
  <2> QED BY <1>2, <1>3, <1>5, <1>11, <2>2
<1>14. \A v \in Subjects :
           IsTop(next.max[v], IF v \in us(k) THEN Settled(recs, v) ELSE {})
  <2> TAKE v \in Subjects
  <2>1. CASE v = u
    BY <1>2, <1>11, <2>1
  <2>2. CASE v # u
    <3>1. next.max[v] = acc.max[v] /\ (v \in us(k) <=> v \in us(k - 1))
      BY <1>2, <1>5, <1>11, <2>2
    <3> QED BY <1>3, <3>1
  <2> QED BY <2>1, <2>2
<1>15. Keyed(recs, ord, k, next.keys)
  <2>1. acc.keys \in Seq(Subjects)
    BY <1>3 DEF Accumulators
  <2> QED BY <1>1, <1>3, <1>5, <1>11, <2>1, KeyedGrows DEF u
<1>16. next.maxSequence = IF k = 0 THEN 0 ELSE MaxSequence(recs, us(k))
  BY <1>7, <1>11
<1>17. PassesMake(recs, ord, k, next)
  BY <1>11, <1>12, <1>13, <1>14, <1>15, <1>16 DEF PassesMake, us
<1> QED
  BY <1>17 DEF next, u

\* The passes visit the subjects one by one.
LEMMA AllPasses ==
    ASSUME NEW recs, WellFormed(recs, Subjects), NEW ord, Fits(recs, ord)
    PROVE  PassesMake(recs, ord, Len(ord), VisitSubjects(recs, ord))
<1> DEFINE n == Len(ord)
           base == NothingVisited
           Fold(g) == g = [T \in SUBSET (1..n) |->
                             IF T = {} THEN base
                             ELSE VisitSubject(recs, g[T \ {Max(T)}], ord[Max(T)])]
           g == CHOOSE g : Fold(g)
<1>1. /\ n \in Nat /\ DOMAIN ord = 1..n
      /\ \A i \in 1..n : ord[i] \in Subjects /\ OfSubject(recs, ord[i]) # {}
  BY DEF Fits
<1>2. VisitSubjects(recs, ord) = g[1..n]
  <2>1. VisitSubjects(recs, ord)
            = LET iter == CHOOSE f : f = [T \in SUBSET DOMAIN ord |->
                              IF T = {} THEN base
                              ELSE VisitSubject(recs, f[T \ {Max(T)}], ord[Max(T)])]
              IN  iter[DOMAIN ord]
    BY Zenon DEF VisitSubjects, FoldLeft, MapThenFoldSet
  <2> QED BY <1>1, <2>1, Zenon
<1>3. base \in Accumulators
  <2>1. <<>> \in Seq(Subjects) /\ [u \in Subjects |-> 0] \in [Subjects -> Nat]
    OBVIOUS
  <2> QED BY <2>1 DEF NothingVisited, Accumulators
<1> HIDE DEF n, base
<1>4. Fold(g)
  <2> DEFINE step == [p \in Accumulators \X (1..n) |-> VisitSubject(recs, p[1], ord[p[2]])]
  <2>1. \A a \in Accumulators, i \in 1..n :
            /\ step[<<a, i>>] = VisitSubject(recs, a, ord[i])
            /\ step[<<a, i>>] \in Accumulators
    BY <1>1, SubjectType
  <2> HIDE DEF step
  <2>2. Steps(Accumulators, n, step)
    BY <2>1 DEF Steps
  <2>3. HasFold(Accumulators, n, base, step)
    BY <1>1, <1>3, <2>2, FoldExists
  <2>4. PICK h \in [SUBSET (1..n) -> Accumulators] :
            \A T \in SUBSET (1..n) : h[T] = Accumulated(h, T, base, step)
    BY <2>3 DEF HasFold
  <2>5. ASSUME NEW T \in SUBSET (1..n), T # {}
        PROVE  h[T] = VisitSubject(recs, h[T \ {Max(T)}], ord[Max(T)])
    <3>1. Max(T) \in 1..n
      BY <1>1, <2>5, SmallSetsGrow
    <3> QED BY <2>1, <2>4, <2>5, <3>1 DEF Accumulated
  <2>6. Fold(h)
    BY <2>4, <2>5 DEF Accumulated
  <2> QED BY <2>6, Zenon
<1> HIDE DEF g
<1>5. g[{}] = base
  BY <1>4
<1>6. ASSUME NEW k \in 1..n
      PROVE  g[1..k] = VisitSubject(recs, g[1..(k - 1)], ord[k])
  <2>1. Max(1..k) = k /\ (1..k) \ {k} = 1..(k - 1)
    BY <1>1, LastOfInterval
  <2>2. 1..k \in SUBSET (1..n) /\ k \in 1..k
    BY <1>1
  <2>3. 1..k # {}
    BY <2>2
  <2> QED BY <1>4, <2>1, <2>2, <2>3
<1> DEFINE Done == {k \in 0..n : PassesMake(recs, ord, k, g[1..k])}
<1>7. 0 \in Done
  <2>1. 1..0 = {} /\ {ord[i] : i \in 1..0} = {}
    OBVIOUS
  <2>2. Keyed(recs, ord, 0, <<>>)
    <3> DEFINE at == [j \in 1..0 |-> 1]
    <3>1. Len(<<>>) = 0 /\ at \in [1..0 -> 1..0] /\ \A j \in 1..0 : FALSE
      OBVIOUS
    <3>2. KeyedAt(recs, ord, 0, <<>>, 0)
      <4> HIDE DEF at
      <4> QED BY <3>1, Zenon DEF KeyedAt
    <3> QED BY <3>1, <3>2 DEF Keyed
  <2>3. /\ base.maxSequence = 0 /\ base.stitched = {} /\ base.held = {}
        /\ base.keys = <<>> /\ \A v \in Subjects : base.max[v] = 0
    BY DEF base, NothingVisited
  <2>4. PassesMake(recs, ord, 0, base)
    BY <1>3, <2>1, <2>2, <2>3 DEF PassesMake, IsTop
  <2> QED BY <1>1, <1>5, <2>1, <2>4
<1>8. ASSUME NEW k \in 1..n, k - 1 \in Done PROVE k \in Done
  <2>1. PassesMake(recs, ord, k - 1, g[1..(k - 1)]) /\ k \in 0..n
    BY <1>1, <1>8
  <2>2. PassesMake(recs, ord, k, VisitSubject(recs, g[1..(k - 1)], ord[k]))
    BY <2>1, PassMakes DEF n
  <2> QED BY <1>6, <2>1, <2>2
<1>9. n \in Done
  <2> HIDE DEF Done
  <2> QED BY <1>1, <1>7, <1>8, UpTo
<1> QED
  BY <1>2, <1>9 DEF n, base

-----------------------------------------------------------------------------
(***************************************************************************)
(* The walk over maxSequenceBySubject.                                     *)
(***************************************************************************)
\* The walk looks at each key, and moves on to it or stays.
LEMMA WalkSteps ==
    ASSUME NEW acc \in Accumulators, acc.keys # <<>>
    PROVE  \E f : /\ f[0] = acc.keys[1]
                  /\ \A k \in 1..Len(acc.keys) :
                        f[k] = IF /\ acc.max[acc.keys[k]] > acc.max[f[k - 1]]
                                  /\ OfSubject(acc.held, f[k - 1]) = {}
                               THEN acc.keys[k] ELSE f[k - 1]
                  /\ SubjectWithMaxSequence(acc) = f[Len(acc.keys)]
<1> DEFINE keys == acc.keys
           n == Len(keys)
           Move(best, u) == IF acc.max[u] > acc.max[best] /\ OfSubject(acc.held, best) = {}
                            THEN u ELSE best
           base == Head(keys)
           Fold(g) == g = [T \in SUBSET (1..n) |->
                             IF T = {} THEN base
                             ELSE Move(g[T \ {Max(T)}], keys[Max(T)])]
           g == CHOOSE g : Fold(g)
<1>1. /\ keys \in Seq(Subjects) /\ n \in Nat /\ DOMAIN keys = 1..n
      /\ base = keys[1] /\ base \in Subjects
      /\ \A i \in 1..n : keys[i] \in Subjects
  BY DEF Accumulators
<1>2. SubjectWithMaxSequence(acc) = g[1..n]
  <2>1. SubjectWithMaxSequence(acc)
            = LET iter == CHOOSE f : f = [T \in SUBSET DOMAIN keys |->
                              IF T = {} THEN base
                              ELSE Move(f[T \ {Max(T)}], keys[Max(T)])]
              IN  iter[DOMAIN keys]
    BY Zenon DEF SubjectWithMaxSequence, FoldLeft, MapThenFoldSet
  <2> QED BY <1>1, <2>1, Zenon
<1>3. \A best, u \in Subjects : Move(best, u) \in Subjects
  OBVIOUS
<1> HIDE DEF keys, n, base, Move
<1>4. Fold(g)
  <2> DEFINE step == [p \in Subjects \X (1..n) |-> Move(p[1], keys[p[2]])]
  <2>1. \A a \in Subjects, i \in 1..n :
            /\ step[<<a, i>>] = Move(a, keys[i])
            /\ step[<<a, i>>] \in Subjects
    BY <1>1, <1>3
  <2> HIDE DEF step
  <2>2. Steps(Subjects, n, step)
    BY <2>1 DEF Steps
  <2>3. HasFold(Subjects, n, base, step)
    BY <1>1, <2>2, FoldExists
  <2>4. PICK h \in [SUBSET (1..n) -> Subjects] :
            \A T \in SUBSET (1..n) : h[T] = Accumulated(h, T, base, step)
    BY <2>3 DEF HasFold
  <2>5. ASSUME NEW T \in SUBSET (1..n), T # {}
        PROVE  h[T] = Move(h[T \ {Max(T)}], keys[Max(T)])
    <3>1. Max(T) \in 1..n
      BY <1>1, <2>5, SmallSetsGrow
    <3> QED BY <2>1, <2>4, <2>5, <3>1 DEF Accumulated
  <2>6. Fold(h)
    BY <2>4, <2>5 DEF Accumulated
  <2> QED BY <2>6, Zenon
<1> HIDE DEF g
<1>5. g[{}] = base
  BY <1>4
<1>6. ASSUME NEW k \in 1..n
      PROVE  g[1..k] = Move(g[1..(k - 1)], keys[k])
  <2>1. Max(1..k) = k /\ (1..k) \ {k} = 1..(k - 1)
    BY <1>1, LastOfInterval
  <2>2. 1..k \in SUBSET (1..n) /\ k \in 1..k
    BY <1>1
  <2>3. 1..k # {}
    BY <2>2
  <2> QED BY <1>4, <2>1, <2>2, <2>3
<1> DEFINE f == [k \in 0..n |-> g[1..k]]
<1>7. f[0] = keys[1]
  <2>1. 1..0 = {} /\ 0 \in 0..n
    BY <1>1
  <2> QED BY <1>1, <1>5, <2>1
<1>8. \A k \in 1..n : f[k] = Move(f[k - 1], keys[k])
  BY <1>1, <1>6
<1>9. SubjectWithMaxSequence(acc) = f[n]
  BY <1>1, <1>2
<1> HIDE DEF f
<1> QED
  BY <1>7, <1>8, <1>9 DEF keys, n, Move

\* Where the walk stands after the first j keys: at a key above all before it,
\* past no such key that stops it, and below a later one only if stopped.
HighAt(key, top, i) == \A m \in 1..(i - 1) : top[key[m]] < top[key[i]]

StandsAt(key, top, stops, j, p) ==
    /\ p <= j \/ p = 1
    /\ HighAt(key, top, p)
    /\ \A i \in 1..(p - 1) : HighAt(key, top, i) => key[i] \notin stops
    /\ key[p] \in stops \/ \A i \in 1..j : top[key[i]] <= top[key[p]]

\* A walk of n steps ends at such a key: a step leaves the key where it stands
\* only for one above all that it has seen.
LEMMA WalkStands ==
    ASSUME NEW n \in Nat \ {0}, NEW X, NEW key \in [1..n -> X],
           NEW top \in [X -> Nat], NEW stops, NEW f, f[0] = key[1],
           \A k \in 1..n : f[k] = IF top[key[k]] > top[f[k - 1]] /\ f[k - 1] \notin stops
                                  THEN key[k] ELSE f[k - 1]
    PROVE  \E p \in 1..n : f[n] = key[p] /\ StandsAt(key, top, stops, n, p)
<1> DEFINE Done == {j \in 0..n : \E p \in 1..n :
                        f[j] = key[p] /\ StandsAt(key, top, stops, j, p)}
<1>1. \A i \in 1..n : key[i] \in X /\ top[key[i]] \in Nat
  OBVIOUS
<1>2. 0 \in Done
  <2>1. 1 \in 1..n /\ 1..0 = {} /\ 1..(1 - 1) = {}
    OBVIOUS
  <2>2. StandsAt(key, top, stops, 0, 1)
    BY <2>1 DEF StandsAt, HighAt
  <2> QED BY <2>1, <2>2
<1>3. ASSUME NEW j \in 1..n, j - 1 \in Done PROVE j \in Done
  <2>1. PICK p \in 1..n : f[j - 1] = key[p] /\ StandsAt(key, top, stops, j - 1, p)
    BY <1>3
  <2>2. \A i \in 1..j : i \in 1..n /\ \A m \in 1..(i - 1) : m \in 1..n
    OBVIOUS
  <2>3. CASE top[key[j]] > top[key[p]] /\ key[p] \notin stops
    <3>1. f[j] = key[j]
      BY <2>1, <2>3
    <3>2. \A i \in 1..(j - 1) : top[key[i]] <= top[key[p]]
      BY <2>1, <2>3 DEF StandsAt
    <3>3. HighAt(key, top, j)
      BY <1>1, <2>2, <2>3, <3>2 DEF HighAt
    <3>4. p < j
      BY <2>1, <2>3, <1>1 DEF StandsAt
    <3>5. ASSUME NEW i \in 1..(j - 1), HighAt(key, top, i) PROVE key[i] \notin stops
      <4>1. CASE i < p
        BY <2>1, <3>5, <4>1 DEF StandsAt
      <4>2. CASE i = p
        BY <2>3, <4>2
      <4>3. CASE p < i
        <5>1. top[key[p]] < top[key[i]]
          BY <3>5, <4>3 DEF HighAt
        <5> QED BY <1>1, <2>2, <3>2, <5>1
      <4> QED BY <4>1, <4>2, <4>3
    <3>6. \A i \in 1..j : top[key[i]] <= top[key[j]]
      <4> TAKE i \in 1..j
      <4>1. CASE i = j
        BY <1>1, <4>1
      <4>2. CASE i # j
        <5>1. i \in 1..(j - 1)
          BY <4>2
        <5>2. top[key[i]] < top[key[j]]
          BY <3>3, <5>1 DEF HighAt
        <5> QED BY <1>1, <5>2
      <4> QED BY <4>1, <4>2
    <3>7. StandsAt(key, top, stops, j, j)
      BY <3>3, <3>5, <3>6 DEF StandsAt
    <3> QED BY <3>1, <3>7
  <2>4. CASE ~(top[key[j]] > top[key[p]] /\ key[p] \notin stops)
    <3>1. f[j] = key[p]
      BY <2>1, <2>4
    <3>2. key[p] \in stops \/ \A i \in 1..j : top[key[i]] <= top[key[p]]
      <4>1. CASE key[p] \in stops
        BY <4>1
      <4>2. CASE key[p] \notin stops
        <5>1. top[key[j]] <= top[key[p]]
          BY <1>1, <2>4, <4>2
        <5>2. \A i \in 1..(j - 1) : top[key[i]] <= top[key[p]]
          BY <2>1, <4>2 DEF StandsAt
        <5>3. \A i \in 1..j : i = j \/ i \in 1..(j - 1)
          OBVIOUS
        <5> QED BY <5>1, <5>2, <5>3
      <4> QED BY <4>1, <4>2
    <3>3. StandsAt(key, top, stops, j, p)
      BY <2>1, <3>2 DEF StandsAt
    <3> QED BY <3>1, <3>3
  <2> QED BY <2>3, <2>4
<1>4. n \in Done
  <2> HIDE DEF Done
  <2>1. n \in Nat /\ n \in 0..n
    OBVIOUS
  <2>2. \A k \in 0..n : k \in Done
    BY <1>2, <1>3, <2>1, UpTo
  <2> QED BY <2>1, <2>2
<1> QED
  BY <1>4

\* What the passes over all subjects make.
LEMMA PassedAll ==
    ASSUME NEW recs, WellFormed(recs, Subjects), NEW ord, Fits(recs, ord),
           NEW acc, PassesMake(recs, ord, Len(ord), acc)
    PROVE  /\ acc \in Accumulators
           /\ acc.maxSequence = IF recs = {} THEN 0
                                ELSE MaxSequence(recs, {r.subject : r \in recs})
           /\ acc.stitched = Stitched(recs)
           /\ acc.held = Held(recs, ord)
           /\ \A i \in DOMAIN ord : IsTop(acc.max[ord[i]], Settled(recs, ord[i]))
           /\ Keyed(recs, ord, Len(ord), acc.keys)
<1> DEFINE us == {ord[i] : i \in 1..Len(ord)}
<1>1. Len(ord) \in Nat /\ DOMAIN ord = 1..Len(ord) /\ \A i \in DOMAIN ord : ord[i] \in Subjects
  BY DEF Fits
<1>2. us = {r.subject : r \in recs}
  <2>1. \A u : u \in us <=> OfSubject(recs, u) # {}
    BY <1>1 DEF Fits
  <2>2. \A u : OfSubject(recs, u) # {} <=> \E r \in recs : r.subject = u
    BY DEF OfSubject
  <2> HIDE DEF us
  <2> QED BY <2>1, <2>2
<1>3. Len(ord) = 0 <=> recs = {}
  <2>1. Len(ord) = 0 => us = {}
    OBVIOUS
  <2>2. Len(ord) # 0 => ord[1] \in us
    BY <1>1
  <2> HIDE DEF us
  <2> QED BY <1>2, <2>1, <2>2
<1>4. /\ acc \in Accumulators
      /\ acc.maxSequence = IF Len(ord) = 0 THEN 0 ELSE MaxSequence(recs, us)
      /\ acc.stitched = {WithContext(recs, r) :
                             r \in {q \in Savable(recs) : q.subject \in us}}
      /\ acc.held = {r \in Held(recs, ord) : r.subject \in us}
      /\ \A v \in Subjects :
             IsTop(acc.max[v], IF v \in us THEN Settled(recs, v) ELSE {})
      /\ Keyed(recs, ord, Len(ord), acc.keys)
  BY DEF PassesMake
<1>5. /\ \A r \in Savable(recs) : r \in recs
      /\ \A r \in Held(recs, ord) : r \in recs
  BY DEF Savable, Held
<1>6. \A i \in DOMAIN ord : ord[i] \in us
  BY <1>1
<1> HIDE DEF us
<1>7. {q \in Savable(recs) : q.subject \in us} = Savable(recs)
  BY <1>2, <1>5
<1>8. {r \in Held(recs, ord) : r.subject \in us} = Held(recs, ord)
  BY <1>2, <1>5
<1>9. \A i \in DOMAIN ord : IsTop(acc.max[ord[i]], Settled(recs, ord[i]))
  BY <1>1, <1>4, <1>6
<1>10. acc.stitched = Stitched(recs)
  BY <1>4, <1>7 DEF Stitched
<1> QED
  BY <1>2, <1>3, <1>4, <1>8, <1>9, <1>10

\* The greatest of the sequences is Max of them.
LEMMA TopIsMax ==
    ASSUME NEW recs, WellFormed(recs, Subjects), NEW u, Settled(recs, u) # {},
           NEW x, IsTop(x, Settled(recs, u))
    PROVE  x = Max(Settled(recs, u)) /\ x \in Nat
<1>1. Settled(recs, u) \in SUBSET Nat /\ IsFiniteSet(Settled(recs, u))
  <2>1. Settled(recs, u) \subseteq {r.seq : r \in recs}
    BY DEF Settled, OfSubject
  <2> QED BY <2>1, SequencesFinite
<1>2. /\ Max(Settled(recs, u)) \in Settled(recs, u)
      /\ \A k \in Settled(recs, u) : k <= Max(Settled(recs, u))
  BY <1>1, MaxIsGreatest
<1>3. x \in Settled(recs, u) /\ \A k \in Settled(recs, u) : k <= x
  BY DEF IsTop
<1>4. Max(Settled(recs, u)) \in Nat /\ x \in Nat
  BY <1>1, <1>2, <1>3
<1>5. Max(Settled(recs, u)) <= x /\ x <= Max(Settled(recs, u))
  BY <1>2, <1>3
<1> QED
  BY <1>4, <1>5

\* There is a key if and only if some subject has settled records.
LEMMA NoKeys ==
    ASSUME NEW ord, NEW recs, NEW keys \in Seq(Subjects), Len(ord) \in Nat,
           DOMAIN ord = 1..Len(ord), Keyed(recs, ord, Len(ord), keys)
    PROVE  keys = <<>> <=> {i \in DOMAIN ord : Settled(recs, ord[i]) # {}} = {}
<1>1. PICK at \in [1..Len(keys) -> 1..Len(ord)] :
          /\ \A i, j \in 1..Len(keys) : i < j => at[i] < at[j]
          /\ \A i \in 1..Len(ord) :
                Settled(recs, ord[i]) # {} <=> \E j \in 1..Len(keys) : at[j] = i
  BY DEF Keyed, KeyedAt
<1>2. Len(keys) \in Nat /\ (keys = <<>> <=> Len(keys) = 0)
  OBVIOUS
<1>3. ASSUME Len(keys) = 0
      PROVE  {i \in DOMAIN ord : Settled(recs, ord[i]) # {}} = {}
  BY <1>1, <1>3
<1>4. ASSUME Len(keys) # 0
      PROVE  {i \in DOMAIN ord : Settled(recs, ord[i]) # {}} # {}
  <2>1. 1 \in 1..Len(keys) /\ at[1] \in 1..Len(ord)
    BY <1>1, <1>2, <1>4
  <2> QED BY <1>1, <2>1
<1> QED
  BY <1>2, <1>3, <1>4

\* The walk ends at the subject that AckSequence states.
LEMMA WalkEnds ==
    ASSUME NEW recs, WellFormed(recs, Subjects), NEW ord, Fits(recs, ord),
           NEW acc, PassesMake(recs, ord, Len(ord), acc), acc.keys # <<>>
    PROVE  acc.max[SubjectWithMaxSequence(acc)] = AckSequence(recs, ord)
<1> DEFINE n == Len(acc.keys)
           keys   == {i \in DOMAIN ord : Settled(recs, ord[i]) # {}}
           top(i) == Max(Settled(recs, ord[i]))
           highs  == {i \in keys : \A j \in keys : j < i => top(j) < top(i)}
           stops  == {i \in highs : OfSubject(Held(recs, ord), ord[i]) # {}}
           stopping == {u \in Subjects : OfSubject(acc.held, u) # {}}
<1>1. /\ Len(ord) \in Nat /\ DOMAIN ord = 1..Len(ord)
      /\ \A i \in DOMAIN ord : ord[i] \in Subjects
  BY DEF Fits
<1>2. /\ acc \in Accumulators
      /\ acc.held = Held(recs, ord)
      /\ \A i \in DOMAIN ord : IsTop(acc.max[ord[i]], Settled(recs, ord[i]))
      /\ Keyed(recs, ord, Len(ord), acc.keys)
  BY PassedAll
<1>3. acc.keys \in Seq(Subjects) /\ acc.max \in [Subjects -> Nat]
  BY <1>2 DEF Accumulators
<1>4. n \in Nat \ {0} /\ acc.keys \in [1..n -> Subjects]
  BY <1>3
<1>5. PICK f : /\ f[0] = acc.keys[1]
               /\ \A k \in 1..n :
                     f[k] = IF /\ acc.max[acc.keys[k]] > acc.max[f[k - 1]]
                               /\ OfSubject(acc.held, f[k - 1]) = {}
                            THEN acc.keys[k] ELSE f[k - 1]
               /\ SubjectWithMaxSequence(acc) = f[n]
  BY <1>2, WalkSteps
<1>6. \A k \in 0..n : k \in {j \in 0..n : f[j] \in Subjects}
  <2> DEFINE S == {j \in 0..n : f[j] \in Subjects}
  <2>1. 0 \in S /\ n \in Nat
    BY <1>4, <1>5
  <2>2. \A k \in 1..n : k - 1 \in S => k \in S
    BY <1>4, <1>5
  <2> HIDE DEF S
  <2>3. \A k \in 0..n : k \in S
    BY <2>1, <2>2, UpTo
  <2> QED BY <2>3 DEF S
<1>7. \A k \in 1..n : f[k] = IF acc.max[acc.keys[k]] > acc.max[f[k - 1]] /\ f[k - 1] \notin stopping
                             THEN acc.keys[k] ELSE f[k - 1]
  <2> TAKE k \in 1..n
  <2>1. k - 1 \in 0..n
    BY <1>4
  <2>2. f[k - 1] \in Subjects
    BY <1>6, <2>1
  <2> QED BY <1>5, <2>2
<1>8. PICK p \in 1..n : f[n] = acc.keys[p] /\ StandsAt(acc.keys, acc.max, stopping, n, p)
  <2> HIDE DEF n, stopping
  <2> QED BY <1>3, <1>4, <1>5, <1>7, WalkStands
<1>9. PICK at \in [1..n -> 1..Len(ord)] :
          /\ \A i, j \in 1..n : i < j => at[i] < at[j]
          /\ \A j \in 1..n : acc.keys[j] = ord[at[j]]
          /\ \A i \in 1..Len(ord) :
                Settled(recs, ord[i]) # {} <=> \E j \in 1..n : at[j] = i
  BY <1>2 DEF Keyed, KeyedAt
<1> HIDE DEF n
<1>10. /\ \A i : i \in keys <=> \E j \in 1..n : at[j] = i
       /\ \A j \in 1..n : at[j] \in keys /\ at[j] \in Nat
  BY <1>1, <1>9
<1>11. \A i, j \in 1..n : i < j <=> at[i] < at[j]
  <2> TAKE i, j \in 1..n
  <2>1. at[i] \in Nat /\ at[j] \in Nat /\ i \in Nat /\ j \in Nat
    BY <1>4, <1>10
  <2>2. (i < j => at[i] < at[j]) /\ (j < i => at[j] < at[i]) /\ (i = j => at[i] = at[j])
    BY <1>9
  <2> QED BY <2>1, <2>2
<1>12. \A j \in 1..n : acc.max[acc.keys[j]] = top(at[j]) /\ top(at[j]) \in Nat
  <2> TAKE j \in 1..n
  <2>1. at[j] \in DOMAIN ord /\ Settled(recs, ord[at[j]]) # {}
    BY <1>10
  <2>2. IsTop(acc.max[ord[at[j]]], Settled(recs, ord[at[j]]))
    BY <1>2, <2>1
  <2>3. /\ acc.max[ord[at[j]]] = Max(Settled(recs, ord[at[j]]))
        /\ acc.max[ord[at[j]]] \in Nat
    BY <2>1, <2>2, TopIsMax
  <2> QED BY <1>9, <2>3
<1>13. \A j \in 1..n : acc.keys[j] \in stopping <=> OfSubject(Held(recs, ord), ord[at[j]]) # {}
  BY <1>1, <1>2, <1>9, <1>10
<1>14. \A i : i \in keys => i \in Nat
  BY <1>1
<1> HIDE DEF keys, top, stopping
<1>15. \A j \in 1..n : at[j] \in highs <=> HighAt(acc.keys, acc.max, j)
  <2> TAKE j \in 1..n
  <2>1. \A m : m \in 1..(j - 1) <=> m \in 1..n /\ m < j
    BY <1>4
  <2>2. HighAt(acc.keys, acc.max, j) <=>
            \A m \in 1..n : m < j => top(at[m]) < top(at[j])
    BY <1>12, <2>1 DEF HighAt
  <2>3. at[j] \in highs <=> \A m \in 1..n : at[m] < at[j] => top(at[m]) < top(at[j])
    BY <1>10
  <2> QED BY <1>11, <2>2, <2>3
<1>16. \A j \in 1..n : at[j] \in stops <=>
           HighAt(acc.keys, acc.max, j) /\ acc.keys[j] \in stopping
  BY <1>13, <1>15
<1>17. /\ highs \in SUBSET Nat /\ IsFiniteSet(highs) /\ stops \in SUBSET Nat
       /\ \A i : i \in highs => i \in keys
       /\ \A i : i \in stops => i \in highs
  <2>1. \A i : i \in highs => i \in DOMAIN ord
    BY DEF keys
  <2>2. IsFiniteSet(1..Len(ord))
    <3>1. 1 \in Int /\ Len(ord) \in Int
      BY <1>1
    <3> QED BY <3>1, FS_Interval
  <2>3. highs \in SUBSET (1..Len(ord))
    BY <1>1, <2>1
  <2>4. IsFiniteSet(highs)
    BY <2>2, <2>3, FS_Subset, Zenon
  <2> QED BY <1>14, <2>4
<1>18. AckSequence(recs, ord) = IF keys = {} THEN 0
                                ELSE IF stops # {} THEN top(Min(stops))
                                ELSE top(Max(highs))
  BY DEF AckSequence, keys, top
<1> HIDE DEF highs, stops
<1>19. /\ HighAt(acc.keys, acc.max, p)
       /\ \A i \in 1..(p - 1) : HighAt(acc.keys, acc.max, i) => acc.keys[i] \notin stopping
       /\ acc.keys[p] \in stopping
             \/ \A i \in 1..n : acc.max[acc.keys[i]] <= acc.max[acc.keys[p]]
  BY <1>8 DEF StandsAt
<1>20. keys # {} /\ at[p] \in highs
  BY <1>10, <1>15, <1>19
<1>21. \A i \in 1..(p - 1) : at[i] \notin stops
  <2>1. \A i \in 1..(p - 1) : i \in 1..n
    BY <1>4
  <2> QED BY <1>16, <1>19, <2>1
<1>22. CASE acc.keys[p] \in stopping
  <2>1. at[p] \in stops
    BY <1>16, <1>19, <1>22
  <2>2. Min(stops) \in stops /\ Min(stops) <= at[p]
    BY <1>17, <2>1, MinIsLeast
  <2>3. PICK j \in 1..n : at[j] = Min(stops)
    BY <1>10, <1>17, <2>2
  <2>4. j = p
    <3>1. ~(at[p] < at[j])
      BY <1>10, <2>2, <2>3
    <3>2. ~(p < j)
      BY <1>11, <3>1
    <3>3. j \notin 1..(p - 1)
      BY <1>21, <2>2, <2>3
    <3> QED BY <1>4, <3>2, <3>3
  <2>5. AckSequence(recs, ord) = top(at[p])
    BY <1>18, <1>20, <2>1, <2>3, <2>4
  <2> QED BY <1>5, <1>8, <1>12, <2>5
<1>23. CASE acc.keys[p] \notin stopping
  <2>1. \A i \in 1..n : acc.max[acc.keys[i]] <= acc.max[acc.keys[p]]
    BY <1>19, <1>23
  <2>2. ASSUME NEW j \in 1..n, p < j PROVE at[j] \notin highs
    <3>1. p \in 1..(j - 1)
      BY <1>4, <2>2
    <3>2. ASSUME HighAt(acc.keys, acc.max, j) PROVE FALSE
      <4>1. acc.max[acc.keys[p]] < acc.max[acc.keys[j]]
        BY <3>1, <3>2 DEF HighAt
      <4>2. acc.max[acc.keys[p]] \in Nat /\ acc.max[acc.keys[j]] \in Nat
        BY <1>12
      <4> QED BY <2>1, <4>1, <4>2
    <3> QED BY <1>15, <3>2
  <2>3. stops = {}
    <3> SUFFICES ASSUME NEW i \in stops PROVE FALSE
      OBVIOUS
    <3>1. PICK j \in 1..n : at[j] = i
      BY <1>10, <1>17
    <3>2. j \notin 1..(p - 1) /\ j # p /\ ~(p < j)
      BY <1>16, <1>17, <1>21, <1>23, <2>2, <3>1
    <3> QED BY <1>4, <3>2
  <2>4. Max(highs) \in highs /\ at[p] <= Max(highs)
    BY <1>17, <1>20, MaxIsGreatest
  <2>5. PICK j \in 1..n : at[j] = Max(highs)
    BY <1>10, <1>17, <2>4
  <2>6. j = p
    <3>1. ~(at[j] < at[p])
      BY <1>10, <2>4, <2>5
    <3>2. ~(j < p) /\ ~(p < j)
      BY <1>11, <2>2, <2>4, <2>5, <3>1
    <3> QED BY <1>4, <3>2
  <2>7. AckSequence(recs, ord) = top(at[p])
    BY <1>18, <1>20, <2>3, <2>5, <2>6
  <2> QED BY <1>5, <1>8, <1>12, <2>7
<1> QED
  BY <1>22, <1>23

\* The loop's comparison with the least held sequence is the clamp.
LEMMA ClampIsMin ==
    ASSUME NEW recs, WellFormed(recs, Subjects), NEW held \in SUBSET recs,
           NEW ack \in Nat
    PROVE  LET min == Min({r.seq : r \in held})
           IN  (IF held # {} /\ ack >= min THEN min - 1 ELSE ack) = Clamp(ack, held)
<1> DEFINE S == {r.seq : r \in held}
<1>1. S \in SUBSET Nat /\ (S = {} <=> held = {})
  BY DEF WellFormed, RecordOf
<1>2. CASE held = {}
  BY <1>2 DEF Clamp
<1>3. CASE held # {}
  <2>1. Min(S) \in S /\ \A k \in S : Min(S) <= k
    <3> HIDE DEF S
    <3> QED BY <1>1, <1>3, MinIsLeast
  <2>2. Min(S) \in Nat
    BY <1>1, <2>1
  <2>3. \A r \in held : r.seq \in S
    OBVIOUS
  <2>4. \A k \in S : \E r \in held : k = r.seq
    OBVIOUS
  <2> HIDE DEF S
  <2>5. (\E r \in held : ack >= r.seq) <=> ack >= Min(S)
    <3>1. ASSUME NEW r \in held, ack >= r.seq PROVE ack >= Min(S)
      <4>1. r.seq \in Nat /\ Min(S) <= r.seq
        BY <1>1, <2>1, <2>3
      <4> QED BY <2>2, <3>1, <4>1
    <3>2. PICK r \in held : Min(S) = r.seq
      BY <2>1, <2>4
    <3> QED BY <3>1, <3>2
  <2> QED BY <1>3, <2>5 DEF Clamp, S
<1> QED
  BY <1>2, <1>3

-----------------------------------------------------------------------------
\* On any buffer with finitely many records, no two at one sequence, and in any
\* order that has its subjects once each, the passes give what is stated.
THEOREM LoopIsStatement ==
    ASSUME NEW recs, WellFormed(recs, Subjects), NEW ord, Fits(recs, ord)
    PROVE  LoopResult(recs, ord) = StitchFetchedRecords(recs, ord)
<1> DEFINE acc == VisitSubjects(recs, ord)
           ack == IF acc.held = {} THEN acc.maxSequence
                  ELSE IF acc.keys = <<>> THEN 0
                  ELSE acc.max[SubjectWithMaxSequence(acc)]
           held == Held(recs, ord)
<1>1. LoopResult(recs, ord) =
          LET min == Min({r.seq : r \in acc.held})
          IN  [stitched |-> acc.stitched,
               buffer   |-> acc.held,
               ack      |-> IF acc.held # {} /\ ack >= min THEN min - 1 ELSE ack]
  BY Zenon DEF LoopResult
<1>2. PassesMake(recs, ord, Len(ord), acc)
  BY AllPasses
<1> HIDE DEF acc
<1>3. /\ acc \in Accumulators
      /\ acc.maxSequence = IF recs = {} THEN 0
                           ELSE MaxSequence(recs, {r.subject : r \in recs})
      /\ acc.stitched = Stitched(recs)
      /\ acc.held = held
      /\ Keyed(recs, ord, Len(ord), acc.keys)
  BY <1>2, PassedAll
<1>4. held \in SUBSET recs /\ (recs = {} => held = {})
  BY DEF Held
<1>5. acc.keys = <<>> => AckSequence(recs, ord) = 0
  <2>1. acc.keys \in Seq(Subjects) /\ Len(ord) \in Nat /\ DOMAIN ord = 1..Len(ord)
    BY <1>3 DEF Accumulators, Fits
  <2>2. acc.keys = <<>> => {i \in DOMAIN ord : Settled(recs, ord[i]) # {}} = {}
    BY <1>3, <2>1, NoKeys
  <2> QED BY <2>2 DEF AckSequence
<1>6. acc.keys # <<>> => acc.max[SubjectWithMaxSequence(acc)] = AckSequence(recs, ord)
  BY <1>2, WalkEnds
<1>7. ack = Candidate(recs, ord)
  BY <1>3, <1>4, <1>5, <1>6 DEF Candidate
<1>8. Candidate(recs, ord) \in Nat
  <2>1. ord \in Seq(Subjects)
    BY DEF Fits
  <2> QED BY <2>1, CandidateType
<1> HIDE DEF ack, held
<1>9. LET min == Min({r.seq : r \in held})
      IN  (IF held # {} /\ ack >= min THEN min - 1 ELSE ack) = Clamp(ack, held)
  BY <1>4, <1>7, <1>8, ClampIsMin
<1> QED
  BY <1>1, <1>3, <1>7, <1>9 DEF StitchFetchedRecords, held

-----------------------------------------------------------------------------
(***************************************************************************)
(* The buffers that a session brings about.                                *)
(***************************************************************************)
LoopInv == SessionInv /\ Fits(buffer, order)

\* A record on a new subject appends the subject to the order.
LEMMA ArriveFits ==
    ASSUME LoopInv, Arrive
    PROVE  Fits(buffer, order)'
<1>1. PICK u \in Subjects, t \in Transactions, k \in ArrivingKinds :
          AddFetchedRecord([kind |-> k, tx |-> t, pos |-> Len(received) + 1], u)
  BY DEF Arrive
<1> DEFINE r == FromNatsMessage([kind |-> k, tx |-> t, pos |-> Len(received) + 1],
                                Len(received) + 1, u)
<1>2. buffer' = buffer \cup {r} /\ order' = InsertionOrder(order, u) /\ r.subject = u
  BY <1>1 DEF AddFetchedRecord, FromNatsMessage
<1> HIDE DEF r
<1>3. \A v : OfSubject(buffer', v) # {} <=> v = u \/ OfSubject(buffer, v) # {}
  BY <1>2 DEF OfSubject
<1>4. /\ order \in Seq(Subjects)
      /\ \A i, j \in DOMAIN order : i # j => order[i] # order[j]
      /\ \A v : (\E i \in DOMAIN order : order[i] = v) <=> OfSubject(buffer, v) # {}
  BY DEF LoopInv, Fits
<1>5. CASE \E i \in DOMAIN order : order[i] = u
  <2>1. order' = order
    BY <1>2, <1>5 DEF InsertionOrder
  <2>2. \A v : OfSubject(buffer', v) # {} <=> OfSubject(buffer, v) # {}
    BY <1>3, <1>4, <1>5
  <2> QED BY <1>4, <2>1, <2>2 DEF Fits, OfSubject
<1>6. CASE ~ \E i \in DOMAIN order : order[i] = u
  <2> DEFINE n == Len(order)
  <2>1. order' = Append(order, u)
    BY <1>2, <1>6 DEF InsertionOrder
  <2>2. /\ n \in Nat /\ DOMAIN order = 1..n /\ DOMAIN order' = 1..(n + 1)
        /\ order' \in Seq(Subjects)
        /\ order'[n + 1] = u /\ \A i \in 1..n : order'[i] = order[i]
    BY <1>4, <2>1
  <2> HIDE DEF n
  <2>3. \A i \in 1..(n + 1) : i \in 1..n \/ i = n + 1
    BY <2>2
  <2>4. \A i, j \in DOMAIN order' : i # j => order'[i] # order'[j]
    BY <1>4, <1>6, <2>2, <2>3
  <2>5. \A v : (\E i \in DOMAIN order' : order'[i] = v)
                   <=> v = u \/ \E i \in DOMAIN order : order[i] = v
    <3>1. \A i \in 1..n : i \in 1..(n + 1)
      BY <2>2
    <3>2. n + 1 \in 1..(n + 1)
      BY <2>2
    <3> QED BY <2>2, <2>3, <3>1, <3>2
  <2>6. \A v : (\E i \in DOMAIN order' : order'[i] = v) <=> OfSubject(buffer', v) # {}
    BY <1>3, <1>4, <2>5
  <2> QED BY <2>2, <2>4, <2>6 DEF Fits, OfSubject
<1> QED
  BY <1>5, <1>6

\* A call leaves the subjects that hold records, in the order they had.
LEMMA CallFits ==
    ASSUME LoopInv, Call
    PROVE  Fits(buffer, order)'
<1>1. PICK at \in Remaining(Held(buffer, order)) :
          order' = [m \in DOMAIN at |-> order[at[m]]]
  BY DEF Call, StitchFetchedRecords
<1>2. buffer' = Held(buffer, order)
  BY DEF Call, StitchFetchedRecords
<1>3. SessionInv'
  BY CallKeeps DEF LoopInv
<1>4. /\ order \in Seq(Subjects)
      /\ \A i, j \in DOMAIN order : i # j => order[i] # order[j]
      /\ \A v : (\E i \in DOMAIN order : order[i] = v) <=> OfSubject(buffer, v) # {}
  BY DEF LoopInv, Fits
<1>5. order' \in Seq(Subjects)
  BY <1>3 DEF SessionInv, SessionTypes
<1>6. \A i, j \in DOMAIN order' : i # j => order'[i] # order'[j]
  <2> SUFFICES ASSUME NEW i \in DOMAIN at, NEW j \in DOMAIN at, i # j
               PROVE  order[at[i]] # order[at[j]]
    BY <1>1
  <2>1. /\ \A m \in DOMAIN at : at[m] \in DOMAIN order
        /\ \A m, l \in DOMAIN at : m < l => at[m] < at[l]
    BY DEF Remaining
  <2>2. at[i] \in Nat /\ at[j] \in Nat
    BY <1>4, <2>1
  <2>3. i \in Nat /\ j \in Nat
    <3>1. DOMAIN at = DOMAIN order'
      BY <1>1
    <3> QED BY <1>5, <3>1
  <2>4. at[i] # at[j]
    BY <2>1, <2>2, <2>3
  <2> QED BY <1>4, <2>1, <2>4
<1>7. \A u : (\E m \in DOMAIN order' : order'[m] = u) <=> OfSubject(buffer', u) # {}
  <2> TAKE u
  <2>1. (\E m \in DOMAIN at : order[at[m]] = u)
            <=> OfSubject(buffer', u) # {} /\ \E i \in DOMAIN order : order[i] = u
    BY <1>2, <1>4, RemainingSubjects
  <2>2. OfSubject(buffer', u) # {} => OfSubject(buffer, u) # {}
    BY <1>2 DEF OfSubject, Held
  <2> QED BY <1>1, <1>4, <2>1, <2>2
<1> QED
  BY <1>5, <1>6, <1>7 DEF Fits, OfSubject

\* Whatever arrived, and however the calls fell, the passes of the code give
\* the records, the buffer and the acknowledgement that are stated record by
\* record (stitching.ts:12-155).
THEOREM LoopsAgree == SessionSpec => []LoopAgrees
<1>1. SessionInit => LoopInv
  <2> SUFFICES ASSUME SessionInit PROVE LoopInv
    OBVIOUS
  <2>1. SessionInv
    BY DEF SessionInit, SessionInv, SessionTypes, Numbered, NothingDropped, AckedIsSaved
  <2>2. Fits(buffer, order)
    BY DEF SessionInit, Fits, OfSubject
  <2> QED BY <2>1, <2>2 DEF LoopInv
<1>2. LoopInv /\ [SessionNext]_sessionVars => LoopInv'
  <2>1. ASSUME LoopInv, Arrive PROVE LoopInv'
    BY <2>1, ArriveKeeps, ArriveFits DEF LoopInv
  <2>2. ASSUME LoopInv, Call PROVE LoopInv'
    BY <2>2, CallKeeps, CallFits DEF LoopInv
  <2>3. ASSUME LoopInv, UNCHANGED sessionVars PROVE LoopInv'
    <3>1. SessionInv'
      BY <2>3 DEF LoopInv, sessionVars, SessionInv, SessionTypes, Numbered,
                  NothingDropped, AckedIsSaved, SavedSequences
    <3>2. Fits(buffer, order)'
      BY <2>3 DEF LoopInv, sessionVars
    <3> QED BY <3>1, <3>2 DEF LoopInv
  <2> QED
    BY <2>1, <2>2, <2>3 DEF SessionNext
<1>3. LoopInv => LoopAgrees
  BY BufferWellFormed, LoopIsStatement DEF LoopInv, LoopAgrees, SessionInv
<1> QED
  BY <1>1, <1>2, <1>3, PTL DEF SessionSpec
=============================================================================
