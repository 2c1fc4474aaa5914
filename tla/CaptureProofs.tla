---------------------------- MODULE CaptureProofs ----------------------------
(***************************************************************************)
(* Theorems about Capture: what the rows of the audit table say about the  *)
(* tracked table, and about who changed it.                                *)
(*                                                                         *)
(* The invariant follows a message from the transaction that sends it over *)
(* the log to the row that is stored for it.  Its parts are that ids and   *)
(* positions tell transactions and messages apart, that a row is written   *)
(* by one transaction at a time, that the changes of a row begin where the *)
(* one before them ended, and that a transaction's first context is the    *)
(* one it was given.                                                       *)
(***************************************************************************)
EXTENDS Capture, StitchingProofs

USE CaptureAssumption, FilterAssumption

RowOrNone == Row \union {NoImage}

ChangeMessages ==
    {m \in [kind : {"change"}, tx : Nat \ {0}, pos : Nat \ {0},
            operation : {"CREATE", "UPDATE", "DELETE"},
            id : Ids, old : RowOrNone, new : RowOrNone, fields : {{}}] :
        m.operation = "UPDATE" => m.old \in Row /\ m.new \in Row}

ContextMessages ==
    [kind : {"context"}, tx : Nat \ {0}, pos : Nat \ {0}, operation : {"MESSAGE"},
     id : {0}, old : {NoImage}, new : {NoImage}, fields : (SUBSET Fields) \ {{}}]

Messages == ChangeMessages \union ContextMessages

-----------------------------------------------------------------------------
(***************************************************************************)
(* Images.                                                                 *)
(***************************************************************************)
\* A row that is restricted twice is restricted to what both leave.
LEMMA SubstanceOfCaptured ==
    ASSUME NEW row \in RowOrNone
    PROVE  Substance(Captured(row)) = Substance(row)
  BY DEF Substance, Captured, Restrict, RowOrNone, Row, NoImage

\* Rows have the same substance iff no column tells them apart that is neither
\* ignored nor excluded.
LEMMA SubstanceEqual ==
    ASSUME NEW old \in Row, NEW new \in Row
    PROVE  Substance(old) = Substance(new)
               <=> \A c \in Columns \ (IgnoreFields \union Excluded) : old[c] = new[c]
<1> DEFINE D == Columns \ (IgnoreFields \union Excluded)
<1>1. /\ Substance(old) = [c \in D |-> old[c]]
      /\ Substance(new) = [c \in D |-> new[c]]
  BY DEF Substance, Restrict, Row
<1> HIDE DEF D
<1>2. [c \in D |-> old[c]] = [c \in D |-> new[c]] <=> \A c \in D : old[c] = new[c]
  OBVIOUS
<1> QED
  BY <1>1, <1>2 DEF D

BeforeStored(m) == Repaired(Before(m), After(m))

AfterStored(m) == Repaired(After(m), Before(m))

\* Beside a full before-image nothing is missing from either image.
LEMMA FullImages ==
    ASSUME NEW m \in ChangeMessages, identity = "FULL"
    PROVE  BeforeStored(m) = Captured(m.old) /\ AfterStored(m) = Captured(m.new)
<1>1. m.old \in RowOrNone /\ m.new \in RowOrNone
  BY DEF ChangeMessages
<1>2. /\ DOMAIN Captured(m.old) \subseteq Columns
      /\ \A c \in DOMAIN Captured(m.old) :
             Captured(m.old)[c] \in Values /\ Captured(m.old)[c] = m.old[c]
  BY <1>1 DEF Captured, Restrict, RowOrNone, Row, NoImage
<1>3. /\ Captured(m.new) = [c \in DOMAIN Captured(m.new) |-> m.new[c]]
      /\ Captured(m.old) = [c \in DOMAIN Captured(m.old) |-> m.old[c]]
      /\ \A c \in DOMAIN Captured(m.new) : m.new[c] \in Values
  BY <1>1 DEF Captured, Restrict, RowOrNone, Row, NoImage
<1>4. Before(m) = Captured(m.old)
  BY DEF Before
<1>5. BeforeStored(m) = Captured(m.old)
  BY <1>2, <1>3, <1>4 DEF BeforeStored, Repaired
<1>6. /\ DOMAIN After(m) = DOMAIN Captured(m.new)
      /\ \A c \in DOMAIN Captured(m.new) :
             After(m)[c] = IF LeftOutOfLine(m, c) THEN Unavailable ELSE m.new[c]
  BY DEF After
<1>7. \A c \in DOMAIN Captured(m.new) : LeftOutOfLine(m, c) =>
          c \in DOMAIN Captured(m.old) /\ m.old[c] = m.new[c]
  <2>1. m.operation = "UPDATE" => DOMAIN Captured(m.old) = DOMAIN Captured(m.new)
    BY DEF ChangeMessages, Captured, Restrict, Row
  <2> QED
    BY <2>1 DEF LeftOutOfLine
<1>8. \A c \in DOMAIN Captured(m.new) :
          (IF c \in DOMAIN Before(m) /\ After(m)[c] = Unavailable
           THEN Before(m)[c] ELSE After(m)[c]) = m.new[c]
  BY <1>2, <1>3, <1>4, <1>6, <1>7
<1>9. AfterStored(m) = [c \in DOMAIN Captured(m.new) |-> m.new[c]]
  BY <1>6, <1>8 DEF AfterStored, Repaired
<1> QED
  BY <1>3, <1>5, <1>9

\* Whatever the replica identity, what is stored are images of the table.
LEMMA StoredImages ==
    ASSUME NEW m \in ChangeMessages
    PROVE  BeforeStored(m) \in Images /\ AfterStored(m) \in Images
<1> DEFINE Known == Values \union {Unavailable}
<1>1. m.old \in RowOrNone /\ m.new \in RowOrNone
  BY DEF ChangeMessages
<1>2. /\ DOMAIN Before(m) \subseteq Columns
      /\ \A c \in DOMAIN Before(m) : Before(m)[c] \in Known
  BY <1>1 DEF Before, Captured, Restrict, RowOrNone, Row, NoImage
<1>3. /\ DOMAIN After(m) \subseteq Columns
      /\ \A c \in DOMAIN After(m) : After(m)[c] \in Known
  BY <1>1 DEF After, Captured, Restrict, RowOrNone, Row, NoImage
<1>4. BeforeStored(m) \in [DOMAIN Before(m) -> Known]
  BY <1>2, <1>3 DEF BeforeStored, Repaired
<1>5. AfterStored(m) \in [DOMAIN After(m) -> Known]
  BY <1>2, <1>3 DEF AfterStored, Repaired
<1> QED
  BY <1>2, <1>3, <1>4, <1>5 DEF Images

\* An update of nothing but ignored and excluded columns, that shows.
Noise(m) == DidNothing(m) /\ identity = "FULL" /\ IgnoreFields # {}

\* The filter drops exactly these, whatever context the record has got.
LEMMA NoiseIsEmpty ==
    ASSUME NEW m \in ChangeMessages, NEW r, r.operation = m.operation,
           r.before = BeforeStored(m), r.after = AfterStored(m),
           identity \in {"FULL", "DEFAULT"}
    PROVE  IsEmptyChange(r) <=> Noise(m)
<1>1. CASE identity = "DEFAULT"
  <2>1. DOMAIN Before(m) = {}
    BY <1>1 DEF Before, NoImage
  <2>2. BeforeStored(m) = NoImage
    BY <2>1 DEF BeforeStored, Repaired, NoImage
  <2> QED
    BY <1>1, <2>2 DEF IsEmptyChange, Noise
<1>2. CASE identity = "FULL" /\ m.operation # "UPDATE"
  BY <1>2 DEF IsEmptyChange, Noise, DidNothing
<1>3. CASE identity = "FULL" /\ m.operation = "UPDATE"
  <2>1. m.old \in Row /\ m.new \in Row
    BY <1>3 DEF ChangeMessages
  <2>2. r.before = Captured(m.old) /\ r.after = Captured(m.new)
    BY <1>3, FullImages
  <2>3. /\ DOMAIN r.before = Columns \ Excluded /\ DOMAIN r.after = Columns \ Excluded
        /\ \A c \in Columns \ Excluded : r.before[c] = m.old[c] /\ r.after[c] = m.new[c]
    BY <2>1, <2>2 DEF Captured, Restrict, Row
  <2>4. r.before # NoImage
    BY <2>3 DEF NoImage
  <2>5. (\A c \in Compared(r) : ValueAt(r.before, c) = ValueAt(r.after, c))
            <=> \A c \in Columns \ (IgnoreFields \union Excluded) : m.old[c] = m.new[c]
    BY <2>3 DEF Compared, ValueAt
  <2> QED
    BY <1>3, <2>1, <2>4, <2>5, SubstanceEqual DEF IsEmptyChange, Noise, DidNothing
<1> QED
  BY <1>1, <1>2, <1>3

-----------------------------------------------------------------------------
(***************************************************************************)
(* Sequences of messages.                                                  *)
(***************************************************************************)
ChangesOf(q, i) == {s \in DOMAIN q : q[s].kind = "change" /\ q[s].id = i}

\* What row i is after place s of the sequence, and before place t, if it is
\* `from` at the start and `to` at the end.
Leaves(q, from, s) == IF s = 0 THEN from ELSE q[s].new

Finds(q, to, t) == IF t = Len(q) + 1 THEN to ELSE q[t].old

\* From one change of row i to any other, with none in between that did
\* something, the row has kept its substance.
Linked(q, i, from, to) ==
    \A s \in {0} \union ChangesOf(q, i), t \in ChangesOf(q, i) \union {Len(q) + 1} :
        /\ s < t
        /\ \A k \in ChangesOf(q, i) : s < k /\ k < t => DidNothing(q[k])
        => Substance(Leaves(q, from, s)) = Substance(Finds(q, to, t))

LEMMA LinkedUnchanged ==
    ASSUME NEW q, NEW i, NEW image, ChangesOf(q, i) = {}
    PROVE  Linked(q, i, image, image)
  BY DEF Linked, Leaves, Finds

LEMMA AppendFacts ==
    ASSUME NEW q \in Seq(Messages), NEW m \in Messages
    PROVE  /\ Append(q, m) \in Seq(Messages)
           /\ Len(q) \in Nat /\ Len(Append(q, m)) = Len(q) + 1
           /\ DOMAIN q = 1..Len(q)
           /\ DOMAIN Append(q, m) = 1..(Len(q) + 1)
           /\ \A s \in 1..Len(q) : Append(q, m)[s] = q[s]
           /\ Append(q, m)[Len(q) + 1] = m
  OBVIOUS

LEMMA LinkedAppendOther ==
    ASSUME NEW q \in Seq(Messages), NEW m \in Messages, NEW i, NEW from, NEW to,
           ~(m.kind = "change" /\ m.id = i), Linked(q, i, from, to)
    PROVE  Linked(Append(q, m), i, from, to)
<1> DEFINE p == Append(q, m)
<1>1. /\ Len(q) \in Nat /\ Len(p) = Len(q) + 1
      /\ DOMAIN q = 1..Len(q) /\ DOMAIN p = 1..(Len(q) + 1)
      /\ \A s \in 1..Len(q) : p[s] = q[s]
      /\ p[Len(q) + 1] = m
  BY AppendFacts
<1> HIDE DEF p
<1>2. ChangesOf(p, i) = ChangesOf(q, i) /\ ChangesOf(q, i) \subseteq 1..Len(q)
  BY <1>1 DEF ChangesOf
<1> SUFFICES ASSUME NEW s \in {0} \union ChangesOf(q, i),
                    NEW t \in ChangesOf(q, i) \union {Len(p) + 1}, s < t,
                    \A k \in ChangesOf(q, i) : s < k /\ k < t => DidNothing(p[k])
             PROVE  Substance(Leaves(p, from, s)) = Substance(Finds(p, to, t))
  BY <1>2 DEF Linked, p
<1>3. Leaves(p, from, s) = Leaves(q, from, s)
  BY <1>1, <1>2 DEF Leaves
<1>4. \A k \in ChangesOf(q, i) : p[k] = q[k]
  BY <1>1, <1>2
<1>5. CASE t = Len(p) + 1
  <2>1. Finds(p, to, t) = Finds(q, to, Len(q) + 1)
    BY <1>5 DEF Finds
  <2>2. s < Len(q) + 1 /\ \A k \in ChangesOf(q, i) : s < k => DidNothing(q[k])
    BY <1>1, <1>2, <1>4, <1>5
  <2> QED
    BY <1>3, <2>1, <2>2 DEF Linked
<1>6. CASE t \in ChangesOf(q, i)
  <2>1. Finds(p, to, t) = Finds(q, to, t)
    BY <1>1, <1>2, <1>6 DEF Finds
  <2> QED
    BY <1>3, <1>4, <1>6, <2>1 DEF Linked
<1> QED
  BY <1>5, <1>6

\* A change that finds what the sequence left leads on to what it leaves.
LEMMA LinkedAppend ==
    ASSUME NEW q \in Seq(Messages), NEW m \in ChangeMessages, NEW from,
           Linked(q, m.id, from, m.old)
    PROVE  Linked(Append(q, m), m.id, from, m.new)
<1> DEFINE p == Append(q, m)
           i == m.id
           n == Len(q)
<1>1. /\ n \in Nat /\ Len(p) = n + 1
      /\ DOMAIN q = 1..n /\ DOMAIN p = 1..(n + 1)
      /\ \A s \in 1..n : p[s] = q[s]
      /\ p[n + 1] = m /\ m.kind = "change"
  BY AppendFacts DEF Messages, ChangeMessages
<1> HIDE DEF p, n
<1>2. ChangesOf(p, i) = ChangesOf(q, i) \union {n + 1} /\ ChangesOf(q, i) \subseteq 1..n
  BY <1>1 DEF ChangesOf
<1> SUFFICES ASSUME NEW s \in {0} \union ChangesOf(p, i),
                    NEW t \in ChangesOf(p, i) \union {Len(p) + 1}, s < t,
                    \A k \in ChangesOf(p, i) : s < k /\ k < t => DidNothing(p[k])
             PROVE  Substance(Leaves(p, from, s)) = Substance(Finds(p, m.new, t))
  BY DEF Linked, p
<1>3. s \in {0} \union ChangesOf(q, i) => Leaves(p, from, s) = Leaves(q, from, s)
  BY <1>1, <1>2 DEF Leaves
<1>4. \A k \in ChangesOf(q, i) : p[k] = q[k]
  BY <1>1, <1>2
<1>5. CASE t \in ChangesOf(q, i)
  <2>1. Finds(p, m.new, t) = Finds(q, m.old, t)
    BY <1>1, <1>2, <1>5 DEF Finds, n
  <2>2. s \in {0} \union ChangesOf(q, i)
    BY <1>1, <1>2, <1>5
  <2> QED
    BY <1>2, <1>3, <1>4, <1>5, <2>1, <2>2 DEF Linked
<1>6. ASSUME s \in {0} \union ChangesOf(q, i),
             \A k \in ChangesOf(q, i) : s < k => DidNothing(p[k])
      PROVE  Substance(Leaves(p, from, s)) = Substance(m.old)
  <2>1. Finds(q, m.old, n + 1) = m.old /\ s < n + 1
    BY <1>1, <1>2, <1>6 DEF Finds, n
  <2> QED
    BY <1>3, <1>4, <1>6, <2>1 DEF Linked, n
<1>7. CASE t = n + 1
  <2>1. Finds(p, m.new, t) = m.old
    BY <1>1, <1>7 DEF Finds
  <2> QED
    BY <1>1, <1>2, <1>6, <1>7, <2>1
<1>8. CASE t = n + 2
  <2>1. Finds(p, m.new, t) = m.new
    BY <1>1, <1>8 DEF Finds
  <2>2. CASE s = n + 1
    BY <1>1, <2>1, <2>2 DEF Leaves
  <2>3. CASE s # n + 1
    <3>1. DidNothing(m)
      BY <1>1, <1>2, <1>8, <2>3
    <3> QED
      BY <1>1, <1>2, <1>6, <1>8, <2>1, <2>3, <3>1 DEF DidNothing
  <2> QED
    BY <2>2, <2>3
<1> QED
  BY <1>1, <1>2, <1>5, <1>7, <1>8

LEMMA ConcatFacts ==
    ASSUME NEW q \in Seq(Messages), NEW r \in Seq(Messages)
    PROVE  /\ q \o r \in Seq(Messages)
           /\ Len(q) \in Nat /\ Len(r) \in Nat /\ Len(q \o r) = Len(q) + Len(r)
           /\ DOMAIN q = 1..Len(q) /\ DOMAIN r = 1..Len(r)
           /\ DOMAIN (q \o r) = 1..(Len(q) + Len(r))
           /\ \A s \in 1..Len(q) : (q \o r)[s] = q[s]
           /\ \A s \in 1..Len(r) : (q \o r)[Len(q) + s] = r[s]
           /\ \A s \in DOMAIN (q \o r) : s \notin 1..Len(q) =>
                  s - Len(q) \in 1..Len(r) /\ (q \o r)[s] = r[s - Len(q)]
  OBVIOUS

LEMMA LinkedConcat ==
    ASSUME NEW q \in Seq(Messages), NEW r \in Seq(Messages), NEW i,
           NEW from, NEW mid, NEW to, Linked(q, i, from, mid), Linked(r, i, mid, to)
    PROVE  Linked(q \o r, i, from, to)
<1> DEFINE p == q \o r
           n == Len(q)
           l == Len(r)
<1>1. /\ n \in Nat /\ l \in Nat /\ Len(p) = n + l
      /\ DOMAIN q = 1..n /\ DOMAIN r = 1..l /\ DOMAIN p = 1..(n + l)
      /\ \A s \in 1..n : p[s] = q[s]
      /\ \A s \in 1..l : p[n + s] = r[s]
      /\ \A s \in DOMAIN p : s \notin 1..n => s - n \in 1..l /\ p[s] = r[s - n]
  BY ConcatFacts
<1> HIDE DEF p, n, l
<1>2. /\ ChangesOf(q, i) \subseteq 1..n /\ ChangesOf(r, i) \subseteq 1..l
      /\ ChangesOf(q, i) \subseteq ChangesOf(p, i)
      /\ \A k \in ChangesOf(r, i) : n + k \in ChangesOf(p, i)
      /\ \A k \in ChangesOf(p, i) : k \in ChangesOf(q, i) \/ k - n \in ChangesOf(r, i)
      /\ ChangesOf(p, i) \subseteq 1..(n + l)
  BY <1>1 DEF ChangesOf
<1> SUFFICES ASSUME NEW s \in {0} \union ChangesOf(p, i),
                    NEW t \in ChangesOf(p, i) \union {Len(p) + 1}, s < t,
                    \A k \in ChangesOf(p, i) : s < k /\ k < t => DidNothing(p[k])
             PROVE  Substance(Leaves(p, from, s)) = Substance(Finds(p, to, t))
  BY DEF Linked, p
<1>3. s \in Nat /\ t \in Nat
  BY <1>1, <1>2
\* The part of the way in q, up to its end; and the part in r, from its start.
<1>4. ASSUME s \in {0} \union ChangesOf(q, i), t > n
      PROVE  Substance(Leaves(p, from, s)) = Substance(mid)
  <2>1. Leaves(p, from, s) = Leaves(q, from, s)
    BY <1>1, <1>2, <1>4 DEF Leaves
  <2>2. Finds(q, mid, n + 1) = mid /\ s < n + 1
    BY <1>1, <1>2, <1>4 DEF Finds, n
  <2>3. \A k \in ChangesOf(q, i) : s < k => DidNothing(q[k])
    BY <1>1, <1>2, <1>3, <1>4
  <2> QED
    BY <1>4, <2>1, <2>2, <2>3 DEF Linked, n
<1>5. t > n => /\ t - n \in ChangesOf(r, i) \union {l + 1}
               /\ Finds(p, to, t) = Finds(r, to, t - n)
  <2>1. CASE t = Len(p) + 1
    BY <1>1, <2>1 DEF Finds, l
  <2>2. CASE t \in ChangesOf(p, i) /\ t > n
    <3>1. t - n \in ChangesOf(r, i) /\ p[t] = r[t - n]
      BY <1>1, <1>2, <2>2
    <3> QED
      BY <1>1, <1>2, <2>2, <3>1 DEF Finds, l
  <2> QED
    BY <2>1, <2>2
<1>6. ASSUME NEW u \in {0} \union ChangesOf(r, i), u < t - n, s <= n + u, t > n
      PROVE  Substance(Leaves(r, mid, u)) = Substance(Finds(p, to, t))
  <2>1. \A k \in ChangesOf(r, i) : u < k /\ k < t - n => DidNothing(r[k])
    BY <1>1, <1>2, <1>3, <1>6
  <2> QED
    BY <1>5, <1>6, <2>1 DEF Linked, l
<1>7. CASE t <= n
  <2>1. /\ s \in {0} \union ChangesOf(q, i) /\ t \in ChangesOf(q, i)
        /\ t # n + 1 /\ t # Len(p) + 1
    BY <1>1, <1>2, <1>3, <1>7
  <2>2. Leaves(p, from, s) = Leaves(q, from, s) /\ Finds(p, to, t) = Finds(q, mid, t)
    BY <1>1, <1>2, <2>1 DEF Leaves, Finds, n
  <2>3. \A k \in ChangesOf(q, i) : s < k /\ k < t => DidNothing(q[k])
    BY <1>1, <1>2
  <2> QED
    BY <2>1, <2>2, <2>3 DEF Linked
<1>8. CASE t > n /\ s <= n
  <2>1. s \in {0} \union ChangesOf(q, i)
    BY <1>1, <1>2, <1>8
  <2>2. Substance(mid) = Substance(Finds(p, to, t))
    <3>1. Leaves(r, mid, 0) = mid
      BY DEF Leaves
    <3> QED
      BY <1>1, <1>3, <1>6, <1>8, <3>1
  <2> QED
    BY <1>4, <1>8, <2>1, <2>2
<1>9. CASE t > n /\ s > n
  <2>1. s - n \in ChangesOf(r, i) /\ p[s] = r[s - n] /\ s - n < t - n /\ s # 0 /\ s - n # 0
    BY <1>1, <1>2, <1>3, <1>9
  <2>2. Leaves(p, from, s) = Leaves(r, mid, s - n)
    BY <2>1 DEF Leaves
  <2> QED
    BY <1>1, <1>3, <1>6, <1>9, <2>1, <2>2
<1> QED
  BY <1>1, <1>3, <1>7, <1>8, <1>9

\* The first context of transaction x in the sequence has these fields; there
\* is none if they are none.
IsContextOf(m, x) == m.kind = "context" /\ m.tx = x

FirstAt(q, x, s) ==
    IsContextOf(q[s], x) /\ \A t \in DOMAIN q : IsContextOf(q[t], x) => s <= t

FirstContext(q, x, fields) ==
    IF fields = {} THEN \A s \in DOMAIN q : ~IsContextOf(q[s], x)
    ELSE \E s \in DOMAIN q : FirstAt(q, x, s) /\ q[s].fields = fields

LEMMA FirstContextAppend ==
    ASSUME NEW q \in Seq(Messages), NEW m \in Messages, NEW x, NEW fields,
           FirstContext(q, x, fields)
    PROVE  /\ ~IsContextOf(m, x) => FirstContext(Append(q, m), x, fields)
           /\ IsContextOf(m, x) =>
                  FirstContext(Append(q, m), x,
                               IF fields = {} THEN m.fields ELSE fields)
<1> DEFINE p == Append(q, m)
<1>1. /\ Len(q) \in Nat /\ DOMAIN q = 1..Len(q) /\ DOMAIN p = 1..(Len(q) + 1)
      /\ \A s \in 1..Len(q) : p[s] = q[s]
      /\ p[Len(q) + 1] = m
  BY AppendFacts
<1> HIDE DEF p
<1>2. CASE fields = {}
  <2>1. \A s \in DOMAIN q : ~IsContextOf(p[s], x)
    BY <1>1, <1>2 DEF FirstContext
  <2>2. CASE ~IsContextOf(m, x)
    BY <1>1, <1>2, <2>1, <2>2 DEF FirstContext, p
  <2>3. CASE IsContextOf(m, x)
    <3>1. m.fields # {}
      <4>1. m \in ContextMessages
        BY <2>3 DEF IsContextOf, Messages, ChangeMessages
      <4>2. m.fields \in (SUBSET Fields) \ {{}}
        BY <4>1 DEF ContextMessages
      <4> QED
        BY <4>2
    <3>2. FirstAt(p, x, Len(q) + 1)
      BY <1>1, <2>1, <2>3 DEF FirstAt
    <3> QED
      BY <1>1, <1>2, <2>3, <3>1, <3>2 DEF FirstContext, p
  <2> QED
    BY <2>2, <2>3
<1>3. CASE fields # {}
  <2>1. PICK s \in DOMAIN q : FirstAt(q, x, s) /\ q[s].fields = fields
    BY <1>3 DEF FirstContext
  <2>2. FirstAt(p, x, s) /\ p[s].fields = fields
    BY <1>1, <2>1 DEF FirstAt
  <2> QED
    BY <1>1, <1>3, <2>2 DEF FirstContext, p
<1> QED
  BY <1>2, <1>3

\* What is put before or after the messages of x, and has none of them itself,
\* does not change which of its contexts is the first.
LEMMA FirstContextConcat ==
    ASSUME NEW q \in Seq(Messages), NEW r \in Seq(Messages), NEW x, NEW fields
    PROVE  /\ FirstContext(q, x, fields) /\ (\A s \in DOMAIN r : r[s].tx # x)
                  => FirstContext(q \o r, x, fields)
           /\ FirstContext(r, x, fields) /\ (\A s \in DOMAIN q : q[s].tx # x)
                  => FirstContext(q \o r, x, fields)
<1> DEFINE p == q \o r
           n == Len(q)
           l == Len(r)
<1>1. /\ n \in Nat /\ l \in Nat
      /\ DOMAIN q = 1..n /\ DOMAIN r = 1..l /\ DOMAIN p = 1..(n + l)
      /\ \A s \in 1..n : p[s] = q[s]
      /\ \A s \in 1..l : p[n + s] = r[s]
      /\ \A s \in DOMAIN p : s \notin 1..n => s - n \in 1..l /\ p[s] = r[s - n]
  BY ConcatFacts
<1> HIDE DEF p, n, l
<1>2. ASSUME FirstContext(q, x, fields), \A s \in DOMAIN r : r[s].tx # x
      PROVE  FirstContext(p, x, fields)
  <2>1. \A s \in DOMAIN p : IsContextOf(p[s], x) => s \in DOMAIN q /\ IsContextOf(q[s], x)
    BY <1>1, <1>2 DEF IsContextOf
  <2>2. CASE fields = {}
    BY <1>2, <2>1, <2>2 DEF FirstContext
  <2>3. CASE fields # {}
    <3>1. PICK s \in DOMAIN q : FirstAt(q, x, s) /\ q[s].fields = fields
      BY <1>2, <2>3 DEF FirstContext
    <3>2. s \in DOMAIN p /\ FirstAt(p, x, s) /\ p[s].fields = fields
      BY <1>1, <2>1, <3>1 DEF FirstAt
    <3> QED
      BY <2>3, <3>2 DEF FirstContext
  <2> QED
    BY <2>2, <2>3
<1>3. ASSUME FirstContext(r, x, fields), \A s \in DOMAIN q : q[s].tx # x
      PROVE  FirstContext(p, x, fields)
  <2>1. \A s \in DOMAIN p : IsContextOf(p[s], x) =>
            s - n \in DOMAIN r /\ IsContextOf(r[s - n], x)
    BY <1>1, <1>3 DEF IsContextOf
  <2>2. CASE fields = {}
    BY <1>3, <2>1, <2>2 DEF FirstContext
  <2>3. CASE fields # {}
    <3>1. PICK s \in DOMAIN r : FirstAt(r, x, s) /\ r[s].fields = fields
      BY <1>3, <2>3 DEF FirstContext
    <3>2. /\ n + s \in DOMAIN p /\ p[n + s].fields = fields
          /\ IsContextOf(p[n + s], x)
      BY <1>1, <3>1 DEF FirstAt
    <3>3. \A t \in DOMAIN p : IsContextOf(p[t], x) => n + s <= t
      BY <1>1, <2>1, <3>1 DEF FirstAt
    <3>4. FirstAt(p, x, n + s)
      BY <3>2, <3>3 DEF FirstAt
    <3> QED
      BY <2>3, <3>2, <3>4 DEF FirstContext
  <2> QED
    BY <2>2, <2>3
<1> QED
  BY <1>2, <1>3 DEF p

-----------------------------------------------------------------------------
(***************************************************************************)
(* The invariant.                                                          *)
(***************************************************************************)
Session ==
    [xid : Nat, rows : UNION {[S -> RowOrNone] : S \in SUBSET Ids},
     sent : Seq(Messages), given : SUBSET Fields]

Typed ==
    /\ identity \in {"FULL", "DEFAULT"}
    /\ initial \in [Ids -> RowOrNone] /\ table \in [Ids -> RowOrNone]
    /\ session \in [Sessions -> Session]
    /\ log \in Seq(Messages)
    /\ fetched \in 0..Len(log)
    /\ \A x \in DOMAIN given : given[x] \subseteq Fields
    /\ writes \in Nat /\ emits \in Nat /\ xids \in Nat

\* A transaction has an id of its own once it has a message; its messages
\* enter the log together, and are fetched together.
Transactions ==
    /\ \A a \in Sessions :
        /\ session[a].xid <= xids
        /\ session[a].xid = 0 => session[a].sent = <<>>
        /\ \A j \in DOMAIN session[a].sent : session[a].sent[j].tx = session[a].xid
        /\ \A b \in Sessions \ {a} :
               session[a].xid # 0 => session[b].xid # session[a].xid
        /\ session[a].xid \notin DOMAIN given
        /\ \A s \in DOMAIN log : log[s].tx # session[a].xid
    /\ \A x \in DOMAIN given : x \in 1..xids
    /\ \A s \in DOMAIN log :
        /\ log[s].tx <= xids
        /\ log[s].kind = "change" => log[s].tx \in DOMAIN given
        /\ \A t \in DOMAIN log : s <= fetched /\ fetched < t => log[s].tx # log[t].tx

\* No two messages share a position.
Positions ==
    /\ \A s \in DOMAIN log :
        /\ log[s].pos < Position
        /\ \A t \in DOMAIN log : log[s].pos = log[t].pos => s = t
    /\ \A a \in Sessions : \A j \in DOMAIN session[a].sent :
        /\ session[a].sent[j].pos < Position
        /\ \A s \in DOMAIN log : log[s].pos # session[a].sent[j].pos
        /\ \A b \in Sessions : \A k \in DOMAIN session[b].sent :
               session[a].sent[j].pos = session[b].sent[k].pos => a = b /\ j = k

\* A row is written by one transaction at a time, so its changes are in the
\* order of their positions.
SameRow(m, n) == m.kind = "change" /\ n.kind = "change" /\ m.id = n.id

InOrder(q) ==
    \A s, t \in DOMAIN q : s < t /\ SameRow(q[s], q[t]) => q[s].pos < q[t].pos

Ordered ==
    /\ \A a \in Sessions : 
        /\ \A b \in Sessions \ {a} :
               DOMAIN session[a].rows \cap DOMAIN session[b].rows = {}
        /\ \A j \in DOMAIN session[a].sent : session[a].sent[j].kind = "change" =>
               session[a].sent[j].id \in DOMAIN session[a].rows
        /\ InOrder(session[a].sent)
        /\ \A s \in DOMAIN log, j \in DOMAIN session[a].sent :
               SameRow(log[s], session[a].sent[j])
                   => log[s].pos < session[a].sent[j].pos
    /\ InOrder(log)

\* What a change finds is what the change before it left.
Chained ==
    /\ \A i \in Ids : Linked(log, i, initial[i], table[i])
    /\ \A a \in Sessions, i \in Ids :
           Linked(session[a].sent, i, table[i], Current(a, i))

Attributed ==
    /\ \A a \in Sessions :
           FirstContext(session[a].sent, session[a].xid, session[a].given)
    /\ \A x \in DOMAIN given : FirstContext(log, x, given[x])

\* A row is stored for a fetched change, and for each that is not noise.
Tells(row, m) ==
    /\ row.position = m.pos /\ row.transactionId = m.tx /\ row.primaryKey = m.id
    /\ row.operation = m.operation
    /\ row.before = BeforeStored(m) /\ row.after = AfterStored(m)
    /\ row.context = given[m.tx]

Due(s) == log[s].kind = "change" /\ ~Noise(log[s])

Recorded ==
    /\ \A row \in changes : \E s \in 1..fetched : Due(s) /\ Tells(row, log[s])
    /\ \A s \in 1..fetched : Due(s) => \E row \in changes : Tells(row, log[s])

CaptureInv ==
    /\ Typed /\ Transactions /\ Positions /\ Ordered /\ Chained /\ Attributed
    /\ Recorded

-----------------------------------------------------------------------------
\* What is recorded is settled by the fetched messages.
LEMMA RecordedStays ==
    ASSUME Recorded, UNCHANGED <<identity, fetched, changes>>,
           \A s \in 1..fetched : log'[s] = log[s],
           \A s \in 1..fetched : log[s].kind = "change" =>
               given'[log[s].tx] = given[log[s].tx]
    PROVE  Recorded'
<1>1. \A s \in 1..fetched : Due(s)' <=> Due(s)
  BY DEF Due, Noise
<1>2. \A s \in 1..fetched : /\ BeforeStored(log[s])' = BeforeStored(log[s])
                           /\ AfterStored(log[s])' = AfterStored(log[s])
  BY DEF BeforeStored, AfterStored, Before, After, LeftOutOfLine
<1>3. \A s \in 1..fetched : \A row :
          Due(s) => (Tells(row, log[s])' <=> Tells(row, log[s]))
  BY <1>2 DEF Tells, Due
<1> QED
  BY <1>1, <1>3 DEF Recorded

LEMMA IdleIsSession == Idle \in Session
<1> DEFINE none == [i \in {} |-> NoImage]
           nothing == Ids \ Ids
<1>1. none \in [nothing -> RowOrNone] /\ nothing \in SUBSET Ids
  OBVIOUS
<1> HIDE DEF none, nothing
<1>2. none \in UNION {[S -> RowOrNone] : S \in SUBSET Ids}
  BY <1>1
<1>3. <<>> \in Seq(Messages) /\ {} \in SUBSET Fields /\ 0 \in Nat
  OBVIOUS
<1>4. Idle = [xid |-> 0, rows |-> none, sent |-> <<>>, given |-> {}]
  BY DEF Idle, none
<1> QED
  BY <1>2, <1>3, <1>4 DEF Session

LEMMA CaptureInit == Init => CaptureInv
<1> SUFFICES ASSUME Init PROVE CaptureInv
  OBVIOUS
<1> USE DEF Init
<1>1. {[c \in Columns |-> v] : v \in Values} \subseteq Row
  BY DEF Row
<1>2. initial \in [Ids -> RowOrNone] /\ table \in [Ids -> RowOrNone]
  BY <1>1 DEF RowOrNone
<1>3. Idle \in Session
  BY IdleIsSession
<1>4. Typed
  BY <1>2, <1>3 DEF Typed
<1>5. /\ log = <<>> /\ DOMAIN log = {} /\ DOMAIN given = {} /\ fetched = 0
      /\ \A a \in Sessions :
             /\ session[a].xid = 0 /\ session[a].sent = <<>> /\ session[a].given = {}
             /\ DOMAIN session[a].rows = {} /\ DOMAIN session[a].sent = {}
  BY DEF Idle
<1>6. Transactions /\ Positions /\ Ordered /\ Attributed
  BY <1>5 DEF Transactions, Positions, Ordered, InOrder, Attributed, FirstContext
<1>7. Chained
  BY <1>5, LinkedUnchanged DEF Chained, Current, ChangesOf
<1>8. Recorded
  BY DEF Recorded
<1> QED
  BY <1>4, <1>6, <1>7, <1>8 DEF CaptureInv

-----------------------------------------------------------------------------
(***************************************************************************)
(* A transaction writes a row or is given a context.                       *)
(***************************************************************************)
\* What both have in common: the session's next message is m.
Sends(a, m) ==
    /\ m \in Messages /\ m.tx = Xid(a) /\ m.pos = Position
    /\ session' \in [Sessions -> Session]
    /\ session'[a].xid = Xid(a)
    /\ session'[a].sent = Append(session[a].sent, m)
    /\ \A b \in Sessions \ {a} : session'[b] = session[b]
    /\ writes' \in Nat /\ emits' \in Nat /\ Position' = Position + 1
    /\ xids' = (IF session[a].xid = 0 THEN xids + 1 ELSE xids)
    /\ UNCHANGED <<identity, initial, table, log, fetched, changes, given>>

LEMMA SentFacts ==
    ASSUME Typed, NEW a \in Sessions, NEW m, Sends(a, m)
    PROVE  /\ DOMAIN session[a].sent = 1..Len(session[a].sent)
           /\ Len(session[a].sent) \in Nat
           /\ \A b \in Sessions : \A j \in DOMAIN session'[b].sent :
                  \/ /\ b = a /\ j = Len(session[a].sent) + 1
                     /\ session'[b].sent[j] = m
                  \/ /\ j \in DOMAIN session[b].sent
                     /\ session'[b].sent[j] = session[b].sent[j]
<1>1. session[a].sent \in Seq(Messages) /\ m \in Messages
  BY DEF Typed, Session, Sends
<1>2. session'[a].sent = Append(session[a].sent, m)
  BY DEF Sends
<1>3. /\ Len(session[a].sent) \in Nat
      /\ DOMAIN session[a].sent = 1..Len(session[a].sent)
      /\ DOMAIN session'[a].sent = 1..(Len(session[a].sent) + 1)
      /\ \A j \in 1..Len(session[a].sent) : session'[a].sent[j] = session[a].sent[j]
      /\ session'[a].sent[Len(session[a].sent) + 1] = m
  <2> DEFINE q == session[a].sent
  <2>1. q \in Seq(Messages) /\ session'[a].sent = Append(q, m)
    BY <1>1, <1>2
  <2> HIDE DEF q
  <2>2. /\ Len(q) \in Nat /\ DOMAIN q = 1..Len(q)
        /\ DOMAIN session'[a].sent = 1..(Len(q) + 1)
        /\ \A j \in 1..Len(q) : session'[a].sent[j] = q[j]
        /\ session'[a].sent[Len(q) + 1] = m
    BY <1>1, <2>1, AppendFacts
  <2> QED
    BY <2>2 DEF q
<1>4. \A b \in Sessions \ {a} : session'[b] = session[b]
  BY DEF Sends
<1>5. \A j \in DOMAIN session'[a].sent :
          j = Len(session[a].sent) + 1 \/ j \in 1..Len(session[a].sent)
  BY <1>3
<1> QED
  BY <1>3, <1>4, <1>5, Zenon

LEMMA SendsKeeps ==
    ASSUME CaptureInv, NEW a \in Sessions, NEW m, Sends(a, m)
    PROVE  Typed' /\ Transactions' /\ Positions' /\ Recorded'
<1>0. /\ UNCHANGED <<identity, initial, table, log, fetched, changes, given>>
      /\ xids' = (IF session[a].xid = 0 THEN xids + 1 ELSE xids)
      /\ session'[a].xid = Xid(a) /\ m.tx = Xid(a) /\ m.pos = Position
      /\ Position' = Position + 1
      /\ \A b \in Sessions \ {a} : session'[b] = session[b]
  BY DEF Sends
<1>1. Typed'
  BY DEF Sends, CaptureInv, Typed, Xid
<1>2. /\ xids \in Nat /\ xids' \in Nat /\ Position \in Nat
      /\ \A b \in Sessions : session[b].xid \in Nat /\ session[b].sent \in Seq(Messages)
      /\ \A s \in DOMAIN log : log[s].tx \in Nat /\ log[s].pos \in Nat
  <2>1. \A n \in Messages : n.tx \in Nat /\ n.pos \in Nat
    BY DEF Messages, ChangeMessages, ContextMessages
  <2>2. \A s \in DOMAIN log : log[s] \in Messages
    BY DEF CaptureInv, Typed
  <2> QED
    BY <1>0, <2>1, <2>2 DEF CaptureInv, Typed, Session, Position
<1>4. /\ DOMAIN session[a].sent = 1..Len(session[a].sent)
      /\ Len(session[a].sent) \in Nat
      /\ \A b \in Sessions : \A j \in DOMAIN session'[b].sent :
             \/ b = a /\ j = Len(session[a].sent) + 1 /\ session'[b].sent[j] = m
             \/ j \in DOMAIN session[b].sent /\ session'[b].sent[j] = session[b].sent[j]
  BY SentFacts DEF CaptureInv
<1>5. \A b \in Sessions : \A j \in DOMAIN session[b].sent : session[b].sent[j].pos \in Nat
  <2>1. \A n \in Messages : n.pos \in Nat
    BY DEF Messages, ChangeMessages, ContextMessages
  <2> QED
    BY <1>2, <2>1
<1> USE DEF CaptureInv
<1>6. Positions'
  <2>1. \A s \in DOMAIN log : log[s].pos < Position'
    BY <1>0, <1>2 DEF Positions
  <2>2. \A b \in Sessions : \A j \in DOMAIN session'[b].sent :
            /\ session'[b].sent[j].pos < Position'
            /\ \A s \in DOMAIN log : log[s].pos # session'[b].sent[j].pos
    <3> SUFFICES ASSUME NEW b \in Sessions, NEW j \in DOMAIN session'[b].sent
                 PROVE  /\ session'[b].sent[j].pos < Position'
                        /\ \A s \in DOMAIN log : log[s].pos # session'[b].sent[j].pos
      OBVIOUS
    <3>1. CASE session'[b].sent[j] = m
      BY <1>0, <1>2, <3>1 DEF Positions
    <3>2. CASE /\ j \in DOMAIN session[b].sent
               /\ session'[b].sent[j] = session[b].sent[j]
      BY <1>0, <1>2, <1>5, <3>2 DEF Positions
    <3> QED
      BY <1>4, <3>1, <3>2
  <2>3. ASSUME NEW b \in Sessions, NEW j \in DOMAIN session'[b].sent,
               NEW c \in Sessions, NEW k \in DOMAIN session'[c].sent,
               session'[b].sent[j].pos = session'[c].sent[k].pos
        PROVE  b = c /\ j = k
    <3>1. \A d \in Sessions : \A l \in DOMAIN session[d].sent :
              session[d].sent[l].pos # m.pos
      BY <1>0, <1>2, <1>5 DEF Positions
    <3>2. CASE session'[b].sent[j] = m \/ session'[c].sent[k] = m
      BY <1>0, <1>4, <2>3, <3>1, <3>2
    <3>3. CASE session'[b].sent[j] # m /\ session'[c].sent[k] # m
      BY <1>4, <2>3, <3>3 DEF Positions
    <3> QED
      BY <3>2, <3>3
  <2> QED
    BY <1>0, <2>1, <2>2, <2>3 DEF Positions
<1>7. Transactions'
  <2>1. xids <= xids' /\ \A b \in Sessions : session[b].xid <= xids
    BY <1>0, <1>2 DEF Transactions
  <2>2. /\ session'[a].xid \in Nat \ {0} /\ session'[a].xid <= xids'
        /\ session[a].xid # 0 => session'[a].xid = session[a].xid
        /\ session[a].xid = 0 => session'[a].xid = xids + 1
    BY <1>0, <1>2, <2>1 DEF Xid
  <2>3. /\ session'[a].xid \notin DOMAIN given
        /\ \A s \in DOMAIN log : log[s].tx # session'[a].xid
        /\ \A b \in Sessions \ {a} : session[b].xid # session'[a].xid
    BY <1>0, <1>2, <2>1, <2>2 DEF Transactions
  <2>4. \A b \in Sessions : \A j \in DOMAIN session'[b].sent :
            session'[b].sent[j].tx = session'[b].xid
    <3>1. \A j \in DOMAIN session[a].sent : session[a].xid # 0
      BY <1>0, <1>2 DEF Transactions
    <3> SUFFICES ASSUME NEW b \in Sessions, NEW j \in DOMAIN session'[b].sent
                 PROVE  session'[b].sent[j].tx = session'[b].xid
      OBVIOUS
    <3>2. CASE b = a /\ session'[b].sent[j] = m
      BY <1>0, <3>2
    <3>3. CASE /\ j \in DOMAIN session[b].sent
               /\ session'[b].sent[j] = session[b].sent[j]
      BY <1>0, <2>2, <3>1, <3>3 DEF Transactions
    <3> QED
      BY <1>4, <3>2, <3>3
  <2>5. /\ \A x \in DOMAIN given : x \in 1..xids'
        /\ \A s \in DOMAIN log : log[s].tx <= xids'
    BY <1>0, <1>2, <2>1 DEF Transactions
  <2>6. ASSUME NEW b \in Sessions
        PROVE  /\ session'[b].xid <= xids'
               /\ session'[b].xid = 0 => session'[b].sent = <<>>
               /\ session'[b].xid \notin DOMAIN given
               /\ \A s \in DOMAIN log : log[s].tx # session'[b].xid
    <3>1. CASE b = a
      BY <2>2, <2>3, <3>1
    <3>2. CASE b # a
      <4>1. session'[b] = session[b]
        BY <1>0, <3>2
      <4>2. session[b].xid <= xids'
        BY <1>0, <1>2, <2>1
      <4> QED BY <4>1, <4>2 DEF Transactions
    <3> QED BY <3>1, <3>2
  <2>7. ASSUME NEW b \in Sessions, NEW c \in Sessions \ {b}, session'[b].xid # 0
        PROVE  session'[c].xid # session'[b].xid
    <3>1. \A d \in Sessions \ {a} : session'[d] = session[d]
      BY <1>0
    <3>2. CASE b = a \/ c = a
      BY <2>3, <3>1, <3>2
    <3>3. CASE b # a /\ c # a
      BY <2>7, <3>1, <3>3 DEF Transactions
    <3> QED BY <3>2, <3>3
  <2> QED
    BY <1>0, <1>2, <2>4, <2>5, <2>6, <2>7 DEF Transactions
<1>8. Recorded'
  <2>1. \A s \in 1..fetched : log[s].kind = "change" => log[s].tx \in DOMAIN given
    BY DEF Transactions, Typed
  <2> QED
    BY <1>0, <2>1, RecordedStays
<1> QED
  BY <1>1, <1>6, <1>7, <1>8

LEMMA RowsAre ==
    ASSUME Typed, NEW a \in Sessions
    PROVE  \E S \in SUBSET Ids : session[a].rows \in [S -> RowOrNone]
<1> DEFINE all == UNION {[S -> RowOrNone] : S \in SUBSET Ids}
<1>1. session[a] \in [xid : Nat, rows : all, sent : Seq(Messages), given : SUBSET Fields]
  BY DEF Typed, Session
<1> HIDE DEF all
<1>2. session[a].rows \in all
  BY <1>1
<1> QED
  BY <1>2, Zenon DEF all

LEMMA CurrentIsRow ==
    ASSUME Typed, NEW a \in Sessions, NEW i \in Ids
    PROVE  Current(a, i) \in RowOrNone
<1>1. PICK S \in SUBSET Ids : session[a].rows \in [S -> RowOrNone]
  BY RowsAre
<1>2. i \in DOMAIN session[a].rows => session[a].rows[i] \in RowOrNone
  BY <1>1
<1>3. table[i] \in RowOrNone
  BY DEF Typed
<1> QED
  BY <1>2, <1>3 DEF Current

\* What a write does to its session, apart from the message.
LEMMA WriteFacts ==
    ASSUME Typed, NEW a \in Sessions, NEW i \in Ids, NEW new \in RowOrNone,
           NEW op \in {"CREATE", "UPDATE", "DELETE"}, Write(a, op, i, new),
           op = "UPDATE" => Current(a, i) \in Row /\ new \in Row
    PROVE  /\ Change(a, op, i, Current(a, i), new) \in ChangeMessages
           /\ Sends(a, Change(a, op, i, Current(a, i), new))
           /\ session'[a].rows = [j \in DOMAIN session[a].rows \union {i} |->
                                     IF j = i THEN new ELSE session[a].rows[j]]
           /\ session'[a].given = session[a].given
           /\ \A b \in Sessions \ {a} : i \notin DOMAIN session[b].rows
<1> DEFINE m == Change(a, op, i, Current(a, i), new)
           rows == [j \in DOMAIN session[a].rows \union {i} |->
                       IF j = i THEN new ELSE session[a].rows[j]]
           after == [xid |-> Xid(a), rows |-> rows, sent |-> Append(session[a].sent, m),
                     given |-> session[a].given]
<1>1. /\ writes \in Nat /\ emits \in Nat /\ xids \in Nat
      /\ session \in [Sessions -> Session]
      /\ session[a].xid \in Nat /\ session[a].sent \in Seq(Messages)
      /\ session[a].given \subseteq Fields
  BY DEF Typed, Session
<1>2. Xid(a) \in Nat \ {0} /\ Position \in Nat \ {0}
  BY <1>1 DEF Xid, Position
<1>3. m \in ChangeMessages
  BY <1>2, CurrentIsRow DEF Change, ChangeMessages
<1>4. session' = [session EXCEPT
          ![a].xid = Xid(a), ![a].rows = rows, ![a].sent = Append(session[a].sent, m)]
  BY <1>1 DEF Write
<1>5. rows \in UNION {[S -> RowOrNone] : S \in SUBSET Ids}
  <2>1. PICK S \in SUBSET Ids : session[a].rows \in [S -> RowOrNone]
    BY RowsAre
  <2> DEFINE T == S \union {i}
  <2>2. rows \in [T -> RowOrNone] /\ T \in SUBSET Ids
    BY <2>1
  <2> HIDE DEF rows, T
  <2> QED
    BY <2>2
<1>6. Append(session[a].sent, m) \in Seq(Messages)
  BY <1>1, <1>3, AppendFacts DEF Messages
<1> HIDE DEF m, rows
<1>7. after \in Session
  BY <1>1, <1>2, <1>5, <1>6 DEF Session
<1>8. session[a] = [xid |-> session[a].xid, rows |-> session[a].rows,
                    sent |-> session[a].sent, given |-> session[a].given]
  BY <1>1 DEF Session
<1>9. session' = [session EXCEPT ![a] = after]
  BY <1>1, <1>4, <1>8
<1>10. /\ session' \in [Sessions -> Session] /\ session'[a] = after
       /\ \A b \in Sessions \ {a} : session'[b] = session[b]
  BY <1>1, <1>7, <1>9
<1>11. /\ writes' = writes + 1 /\ emits' = emits
       /\ xids' = (IF session[a].xid = 0 THEN xids + 1 ELSE xids)
       /\ UNCHANGED <<identity, initial, table, log, fetched, changes, given>>
       /\ \A b \in Sessions \ {a} : i \notin DOMAIN session[b].rows
  BY DEF Write, Unlocked
<1>12. Position' = Position + 1
  BY <1>1, <1>11 DEF Position
<1>13. m.tx = Xid(a) /\ m.pos = Position
  BY DEF m, Change
<1>14. Sends(a, m)
  BY <1>1, <1>3, <1>10, <1>11, <1>12, <1>13 DEF Sends, Messages
<1> QED
  BY <1>3, <1>10, <1>11, <1>14 DEF m, rows

\* A new position is above all others, and only the writer has the row.
LEMMA SendsOrdered ==
    ASSUME CaptureInv, NEW a \in Sessions, NEW m, Sends(a, m),
           DOMAIN session[a].rows \subseteq DOMAIN session'[a].rows,
           \A b \in Sessions \ {a} :
               DOMAIN session[b].rows \cap DOMAIN session'[a].rows = {},
           m.kind = "change" => m.id \in DOMAIN session'[a].rows
    PROVE  Ordered'
<1>1. /\ \A b \in Sessions \ {a} : session'[b] = session[b]
      /\ UNCHANGED log /\ m.pos = Position
  BY DEF Sends
<1>2. /\ DOMAIN session[a].sent = 1..Len(session[a].sent)
      /\ Len(session[a].sent) \in Nat
      /\ \A b \in Sessions : \A j \in DOMAIN session'[b].sent :
             \/ b = a /\ j = Len(session[a].sent) + 1 /\ session'[b].sent[j] = m
             \/ j \in DOMAIN session[b].sent /\ session'[b].sent[j] = session[b].sent[j]
  BY SentFacts DEF CaptureInv
<1>3. \A j \in DOMAIN session'[a].sent :
          \/ j = Len(session[a].sent) + 1 /\ session'[a].sent[j] = m
          \/ j \in DOMAIN session[a].sent /\ session'[a].sent[j] = session[a].sent[j]
  BY <1>2
<1>4. \A j \in DOMAIN session[a].sent : session[a].sent[j].pos < m.pos
  BY <1>1 DEF CaptureInv, Positions
<1>5. \A s \in DOMAIN log : log[s].pos < m.pos
  BY <1>1 DEF CaptureInv, Positions
<1>6. \A b \in Sessions : \A c \in Sessions \ {b} :
          DOMAIN session'[b].rows \cap DOMAIN session'[c].rows = {}
  BY <1>1 DEF CaptureInv, Ordered
<1>7. \A b \in Sessions : \A j \in DOMAIN session'[b].sent :
          session'[b].sent[j].kind = "change" =>
              session'[b].sent[j].id \in DOMAIN session'[b].rows
  <2>1. \A j \in DOMAIN session'[a].sent : session'[a].sent[j].kind = "change" =>
            session'[a].sent[j].id \in DOMAIN session'[a].rows
    BY <1>3 DEF CaptureInv, Ordered
  <2> QED
    BY <1>1, <2>1 DEF CaptureInv, Ordered
<1>8. InOrder(session'[a].sent)
  <2> SUFFICES ASSUME NEW j \in DOMAIN session'[a].sent,
                      NEW k \in DOMAIN session'[a].sent, j < k,
                      SameRow(session'[a].sent[j], session'[a].sent[k])
               PROVE  session'[a].sent[j].pos < session'[a].sent[k].pos
    BY DEF InOrder
  <2>1. j \in DOMAIN session[a].sent /\ session'[a].sent[j] = session[a].sent[j]
    BY <1>2, <1>3
  <2>2. CASE session'[a].sent[k] = m
    BY <1>4, <2>1, <2>2
  <2>3. CASE k \in DOMAIN session[a].sent /\ session'[a].sent[k] = session[a].sent[k]
    BY <2>1, <2>3 DEF CaptureInv, Ordered, InOrder
  <2> QED
    BY <1>3, <2>2, <2>3
<1>9. \A s \in DOMAIN log, j \in DOMAIN session'[a].sent :
          SameRow(log[s], session'[a].sent[j]) => log[s].pos < session'[a].sent[j].pos
  BY <1>3, <1>5 DEF CaptureInv, Ordered
<1>10. \A b \in Sessions \ {a} :
          /\ InOrder(session'[b].sent)
          /\ \A s \in DOMAIN log, j \in DOMAIN session'[b].sent :
                 SameRow(log[s], session'[b].sent[j])
                     => log[s].pos < session'[b].sent[j].pos
  BY <1>1 DEF CaptureInv, Ordered
<1>11. InOrder(log)' /\ \A b \in Sessions : (InOrder(session'[b].sent) <=> InOrder(session[b].sent)')
  BY <1>1 DEF CaptureInv, Ordered, InOrder
<1> QED
  BY <1>1, <1>6, <1>7, <1>8, <1>9, <1>10, <1>11 DEF Ordered, InOrder

LEMMA WriteStep ==
    ASSUME CaptureInv, NEW a \in Sessions, NEW i \in Ids, NEW new \in RowOrNone,
           NEW op \in {"CREATE", "UPDATE", "DELETE"}, Write(a, op, i, new),
           op = "UPDATE" => Current(a, i) \in Row /\ new \in Row
    PROVE  CaptureInv'
<1> DEFINE m == Change(a, op, i, Current(a, i), new)
<1>1. /\ m \in ChangeMessages /\ Sends(a, m)
      /\ session'[a].rows = [j \in DOMAIN session[a].rows \union {i} |->
                                IF j = i THEN new ELSE session[a].rows[j]]
      /\ session'[a].given = session[a].given
      /\ \A b \in Sessions \ {a} : i \notin DOMAIN session[b].rows
  BY WriteFacts DEF CaptureInv
<1>2. /\ m.kind = "change" /\ m.id = i /\ m.old = Current(a, i) /\ m.new = new
      /\ m \in Messages
  BY <1>1 DEF Change, Messages
<1> HIDE DEF m
<1>3. /\ UNCHANGED <<identity, initial, table, log, fetched, changes, given>>
      /\ session'[a].sent = Append(session[a].sent, m) /\ session'[a].xid = Xid(a)
      /\ \A b \in Sessions \ {a} : session'[b] = session[b]
  BY <1>1 DEF Sends
<1>4. \A b \in Sessions : session[b].sent \in Seq(Messages)
  BY DEF CaptureInv, Typed, Session
<1>5. Typed' /\ Transactions' /\ Positions' /\ Recorded'
  BY <1>1, SendsKeeps
<1>6. Ordered'
  <2>1. \A b \in Sessions \ {a} :
            DOMAIN session[b].rows \cap DOMAIN session'[a].rows = {}
    BY <1>1 DEF CaptureInv, Ordered
  <2>2. /\ DOMAIN session[a].rows \subseteq DOMAIN session'[a].rows
        /\ m.id \in DOMAIN session'[a].rows
    BY <1>1, <1>2
  <2> QED
    BY <1>1, <2>1, <2>2, SendsOrdered
<1>7. Chained'
  <2>1. \A b \in Sessions, j \in Ids :
            Current(b, j)' = IF b = a /\ j = i THEN new ELSE Current(b, j)
    BY <1>1, <1>3 DEF Current
  <2>2. \A j \in Ids : Linked(session'[a].sent, j, table[j], Current(a, j)')
    <3> SUFFICES ASSUME NEW j \in Ids
                 PROVE  Linked(session'[a].sent, j, table[j], Current(a, j)')
      OBVIOUS
    <3>1. Linked(session[a].sent, j, table[j], Current(a, j))
      BY DEF CaptureInv, Chained
    <3>2. CASE j = i
      <4>1. Linked(session[a].sent, m.id, table[j], m.old)
        BY <1>2, <3>1, <3>2
      <4>2. Linked(Append(session[a].sent, m), m.id, table[j], m.new)
        BY <1>1, <1>4, <4>1, LinkedAppend
      <4> QED
        BY <1>2, <1>3, <2>1, <3>2, <4>2
    <3>3. CASE j # i
      BY <1>2, <1>3, <1>4, <2>1, <3>1, <3>3, LinkedAppendOther
    <3> QED
      BY <3>2, <3>3
  <2>3. \A b \in Sessions, j \in Ids :
            Linked(session'[b].sent, j, table[j], Current(b, j)')
    BY <1>3, <2>1, <2>2 DEF CaptureInv, Chained
  <2> QED
    BY <1>3, <2>3 DEF CaptureInv, Chained, Linked
<1>8. Attributed'
  <2>1. ~IsContextOf(m, Xid(a))
    BY <1>2 DEF IsContextOf
  <2>2. FirstContext(session[a].sent, Xid(a), session[a].given)
    <3>1. CASE session[a].xid = 0
      <4>1. session[a].sent = <<>> /\ session[a].given = {}
        BY <3>1 DEF CaptureInv, Attributed, Transactions, FirstContext
      <4> QED
        BY <4>1 DEF FirstContext
    <3>2. CASE session[a].xid # 0
      BY <3>2 DEF CaptureInv, Attributed, Xid
    <3> QED
      BY <3>1, <3>2
  <2>3. FirstContext(session'[a].sent, session'[a].xid, session'[a].given)
    BY <1>1, <1>2, <1>3, <1>4, <2>1, <2>2, FirstContextAppend
  <2>4. \A b \in Sessions :
            FirstContext(session'[b].sent, session'[b].xid, session'[b].given)
    BY <1>3, <2>3 DEF CaptureInv, Attributed
  <2>5. \A x \in DOMAIN given' : FirstContext(log', x, given'[x])
    BY <1>3 DEF CaptureInv, Attributed
  <2> QED
    BY <2>4, <2>5 DEF Attributed, FirstContext, FirstAt
<1> QED
  BY <1>5, <1>6, <1>7, <1>8 DEF CaptureInv

\* What is sent for a context that is not refused is all that was given.
LEMMA NothingLeftOut ==
    ASSUME NEW c \in Contexts, ~Rejects(c)
    PROVE  /\ Given(c) = Payload(c)
           /\ Payload(c) \subseteq Fields
           /\ ~Emits(c) => Payload(c) = {}
<1>1. /\ DOMAIN c.fields \subseteq Fields
      /\ \A f \in DOMAIN c.fields :
             c.fields[f] \in {"value", "undefined", "function", "opaque"}
  <2>1. PICK S \in SUBSET Fields :
            c.fields \in [S -> {"value", "undefined", "function", "opaque"}]
    <3> DEFINE all == UNION {[S -> {"value", "undefined", "function", "opaque"}] :
                                 S \in SUBSET Fields}
    <3>1. c \in [object : BOOLEAN, fields : all]
      BY DEF Contexts
    <3> HIDE DEF all
    <3>2. c.fields \in all
      BY <3>1
    <3> QED
      BY <3>2, Zenon DEF all
  <2> QED
    BY <2>1
<1>2. FieldsThatAre(c, "opaque") = {} /\ FieldsThatAre(c, "function") = {}
  BY DEF Rejects, DroppedFields
<1>3. \A f \in DOMAIN c.fields : c.fields[f] \in {"value", "undefined"}
  BY <1>1, <1>2 DEF FieldsThatAre
<1> QED
  BY <1>1, <1>3 DEF Given, Payload, FieldsThatAre, Emits

LEMMA EmitFacts ==
    ASSUME Typed, NEW a \in Sessions, NEW c \in Contexts, Emits(c),
           EmitInTransaction(a, c)
    PROVE  /\ ContextMessage(Xid(a), Payload(c)) \in ContextMessages
           /\ Sends(a, ContextMessage(Xid(a), Payload(c)))
           /\ session'[a].rows = session[a].rows
           /\ session'[a].given = IF session[a].given = {} THEN Payload(c)
                                                           ELSE session[a].given
<1> DEFINE m == ContextMessage(Xid(a), Payload(c))
           now == IF session[a].given = {} THEN Payload(c) ELSE session[a].given
           after == [xid |-> Xid(a), rows |-> session[a].rows,
                     sent |-> Append(session[a].sent, m), given |-> now]
<1>1. /\ writes \in Nat /\ emits \in Nat /\ xids \in Nat
      /\ session \in [Sessions -> Session]
      /\ session[a].xid \in Nat /\ session[a].sent \in Seq(Messages)
      /\ session[a].given \subseteq Fields
  BY DEF Typed, Session
<1>2. Xid(a) \in Nat \ {0} /\ Position \in Nat \ {0}
  BY <1>1 DEF Xid, Position
<1>3. /\ Given(c) = Payload(c) /\ Payload(c) \in (SUBSET Fields) \ {{}}
  BY NothingLeftOut DEF Emits
<1>4. m \in ContextMessages
  BY <1>2, <1>3 DEF ContextMessage, ContextMessages
<1>5. session' = [session EXCEPT
          ![a].xid = Xid(a), ![a].sent = Append(session[a].sent, m), ![a].given = now]
  BY <1>1, <1>3 DEF EmitInTransaction
<1>6. Append(session[a].sent, m) \in Seq(Messages)
  BY <1>1, <1>4, AppendFacts DEF Messages
<1>7. now \subseteq Fields
  BY <1>1, <1>3
<1> HIDE DEF m, now
<1>8. after \in Session
  BY <1>1, <1>2, <1>6, <1>7 DEF Session
<1>9. session[a] = [xid |-> session[a].xid, rows |-> session[a].rows,
                    sent |-> session[a].sent, given |-> session[a].given]
  BY <1>1 DEF Session
<1>10. session' = [session EXCEPT ![a] = after]
  BY <1>1, <1>5, <1>9
<1>11. /\ session' \in [Sessions -> Session] /\ session'[a] = after
       /\ \A b \in Sessions \ {a} : session'[b] = session[b]
  BY <1>1, <1>8, <1>10
<1>12. /\ writes' = writes /\ emits' = emits + 1
       /\ xids' = (IF session[a].xid = 0 THEN xids + 1 ELSE xids)
       /\ UNCHANGED <<identity, initial, table, log, fetched, changes, given>>
  BY DEF EmitInTransaction
<1>13. Position' = Position + 1
  BY <1>1, <1>12 DEF Position
<1>14. m.tx = Xid(a) /\ m.pos = Position
  BY DEF m, ContextMessage
<1>15. Sends(a, m)
  BY <1>1, <1>4, <1>11, <1>12, <1>13, <1>14 DEF Sends, Messages
<1> QED
  BY <1>4, <1>11, <1>15 DEF m, now

\* The invariant depends on no more than these.
LEMMA CaptureStutters ==
    ASSUME CaptureInv,
           UNCHANGED <<identity, initial, table, session, log, fetched, changes,
                       given, writes, emits, xids>>
    PROVE  CaptureInv'
<1>1. Typed' /\ Transactions' /\ Positions'
  BY DEF CaptureInv, Typed, Transactions, Positions, Position
<1>2. Ordered'
  BY DEF CaptureInv, Ordered, InOrder
<1>3. Chained'
  BY DEF CaptureInv, Chained, Linked, Current
<1>4. Attributed'
  BY DEF CaptureInv, Attributed, FirstContext, FirstAt
<1>5. Recorded'
  BY RecordedStays DEF CaptureInv
<1> QED
  BY <1>1, <1>2, <1>3, <1>4, <1>5 DEF CaptureInv

LEMMA EmitStep ==
    ASSUME CaptureInv, NEW a \in Sessions, NEW c \in Contexts, EmitInTransaction(a, c)
    PROVE  CaptureInv'
<1>1. CASE ~Emits(c)
  <2>1. Given(c) = {} /\ session[a] \in Session
    BY <1>1, NothingLeftOut DEF EmitInTransaction, CaptureInv, Typed
  <2>2. session' = session
    <3>1. session \in [Sessions -> Session] /\ session[a].given \subseteq Fields
      BY <2>1 DEF CaptureInv, Typed, Session
    <3>2. session' = [session EXCEPT ![a].xid = session[a].xid,
              ![a].sent = session[a].sent, ![a].given = session[a].given]
      BY <1>1, <2>1, <3>1 DEF EmitInTransaction
    <3>3. session[a] = [xid |-> session[a].xid, rows |-> session[a].rows,
                        sent |-> session[a].sent, given |-> session[a].given]
      BY <2>1 DEF Session
    <3>4. session' = [session EXCEPT ![a] = session[a]]
      BY <3>1, <3>2, <3>3
    <3> QED
      BY <3>1, <3>4
  <2> QED
    BY <1>1, <2>2, CaptureStutters DEF EmitInTransaction
<1>2. CASE Emits(c)
  <2> DEFINE m == ContextMessage(Xid(a), Payload(c))
  <2>1. /\ m \in ContextMessages /\ Sends(a, m)
        /\ session'[a].rows = session[a].rows
        /\ session'[a].given = IF session[a].given = {} THEN Payload(c)
                                                        ELSE session[a].given
    BY <1>2, EmitFacts DEF CaptureInv
  <2>2. /\ m.kind = "context" /\ m.tx = Xid(a) /\ m.fields = Payload(c)
        /\ m \in Messages
    BY <2>1 DEF ContextMessage, Messages
  <2> HIDE DEF m
  <2>3. /\ UNCHANGED <<identity, initial, table, log, fetched, changes, given>>
        /\ session'[a].sent = Append(session[a].sent, m) /\ session'[a].xid = Xid(a)
        /\ \A b \in Sessions \ {a} : session'[b] = session[b]
    BY <2>1 DEF Sends
  <2>4. \A b \in Sessions : session[b].sent \in Seq(Messages)
    BY DEF CaptureInv, Typed, Session
  <2>5. Typed' /\ Transactions' /\ Positions' /\ Recorded'
    BY <2>1, SendsKeeps
  <2>6. Ordered'
    <3>1. \A b \in Sessions \ {a} :
              DOMAIN session[b].rows \cap DOMAIN session'[a].rows = {}
      BY <2>1 DEF CaptureInv, Ordered
    <3> QED
      BY <2>1, <2>2, <3>1, SendsOrdered
  <2>7. Chained'
    <3>1. \A b \in Sessions, i \in Ids : Current(b, i)' = Current(b, i)
      BY <2>1, <2>3 DEF Current
    <3>2. \A i \in Ids : Linked(session'[a].sent, i, table[i], Current(a, i))
      <4> SUFFICES ASSUME NEW i \in Ids
                   PROVE  Linked(session'[a].sent, i, table[i], Current(a, i))
        OBVIOUS
      <4>1. Linked(session[a].sent, i, table[i], Current(a, i))
        BY DEF CaptureInv, Chained
      <4> QED
        BY <2>2, <2>3, <2>4, <4>1, LinkedAppendOther
    <3>3. \A b \in Sessions, i \in Ids :
              Linked(session'[b].sent, i, table[i], Current(b, i)')
      BY <2>3, <3>1, <3>2 DEF CaptureInv, Chained
    <3> QED
      BY <2>3, <3>3 DEF CaptureInv, Chained, Linked
  <2>8. Attributed'
    <3>1. IsContextOf(m, Xid(a))
      BY <2>2 DEF IsContextOf
    <3>2. FirstContext(session[a].sent, Xid(a), session[a].given)
      <4>1. CASE session[a].xid = 0
        <5>1. session[a].sent = <<>> /\ session[a].given = {}
          BY <4>1 DEF CaptureInv, Attributed, Transactions, FirstContext
        <5> QED
          BY <5>1 DEF FirstContext
      <4>2. CASE session[a].xid # 0
        BY <4>2 DEF CaptureInv, Attributed, Xid
      <4> QED
        BY <4>1, <4>2
    <3>3. FirstContext(session'[a].sent, session'[a].xid, session'[a].given)
      BY <2>1, <2>2, <2>3, <2>4, <3>1, <3>2, FirstContextAppend
    <3>4. \A b \in Sessions :
              FirstContext(session'[b].sent, session'[b].xid, session'[b].given)
      BY <2>3, <3>3 DEF CaptureInv, Attributed
    <3>5. \A x \in DOMAIN given' : FirstContext(log', x, given'[x])
      BY <2>3 DEF CaptureInv, Attributed
    <3> QED
      BY <3>4, <3>5 DEF Attributed, FirstContext, FirstAt
  <2> QED
    BY <2>5, <2>6, <2>7, <2>8 DEF CaptureInv
<1> QED
  BY <1>1, <1>2

-----------------------------------------------------------------------------
(***************************************************************************)
(* Messages enter the log: a context of the top-level client, and those of *)
(* a transaction that commits.                                             *)
(***************************************************************************)
LEMMA TopLevelStep ==
    ASSUME CaptureInv, NEW c \in Contexts, EmitOnTopLevelClient(c)
    PROVE  CaptureInv'
<1> DEFINE m == ContextMessage(xids + 1, Payload(c))
           n == Len(log)
<1>1. /\ log' = Append(log, m) /\ xids' = xids + 1 /\ emits' = emits + 1
      /\ UNCHANGED <<identity, initial, table, session, fetched, changes, given, writes>>
  BY DEF EmitOnTopLevelClient
<1>2. /\ xids \in Nat /\ writes \in Nat /\ emits \in Nat /\ log \in Seq(Messages)
      /\ fetched \in 0..n
  BY DEF CaptureInv, Typed
<1>3. Position \in Nat \ {0} /\ Position' = Position + 1
  BY <1>1, <1>2 DEF Position
<1>4. m \in ContextMessages
  <2>1. Payload(c) \in (SUBSET Fields) \ {{}}
    BY NothingLeftOut DEF EmitOnTopLevelClient, Emits
  <2> QED
    BY <1>2, <1>3, <2>1 DEF ContextMessage, ContextMessages
<1>5. /\ m.kind = "context" /\ m.tx = xids + 1 /\ m.pos = Position /\ m \in Messages
  BY <1>4 DEF ContextMessage, Messages
<1> HIDE DEF m
<1>6. /\ log' \in Seq(Messages) /\ n \in Nat /\ Len(log') = n + 1
      /\ DOMAIN log = 1..n /\ DOMAIN log' = 1..(n + 1)
      /\ \A s \in 1..n : log'[s] = log[s]
      /\ log'[n + 1] = m
  BY <1>1, <1>2, <1>5, AppendFacts
<1> HIDE DEF n
<1>7. \A s \in DOMAIN log' :
          \/ s = n + 1 /\ log'[s] = m
          \/ s \in DOMAIN log /\ log'[s] = log[s]
  BY <1>6
<1>8. \A s \in DOMAIN log : log[s].tx \in Nat /\ log[s].pos \in Nat
  <2>1. \A o \in Messages : o.tx \in Nat /\ o.pos \in Nat
    BY DEF Messages, ChangeMessages, ContextMessages
  <2> QED
    BY <1>2, <2>1
<1>9. Typed'
  <2>1. fetched' \in 0..Len(log')
    BY <1>1, <1>2, <1>6
  <2> QED
    BY <1>1, <1>2, <1>6, <2>1 DEF CaptureInv, Typed
<1>10. Transactions'
  <2>1. \A a \in Sessions : session[a].xid \in Nat /\ session[a].xid <= xids
    BY DEF CaptureInv, Typed, Session, Transactions
  <2>2. \A a \in Sessions : \A s \in DOMAIN log' : log'[s].tx # session[a].xid
    BY <1>2, <1>5, <1>7, <2>1 DEF CaptureInv, Transactions
  <2>3. \A s \in DOMAIN log' :
            /\ log'[s].tx <= xids'
            /\ log'[s].kind = "change" => log'[s].tx \in DOMAIN given
    BY <1>1, <1>2, <1>5, <1>7, <1>8 DEF CaptureInv, Transactions
  <2>4. \A s, t \in DOMAIN log' : s <= fetched /\ fetched < t => log'[s].tx # log'[t].tx
    <3> SUFFICES ASSUME NEW s \in DOMAIN log', NEW t \in DOMAIN log',
                        s <= fetched, fetched < t
                 PROVE  log'[s].tx # log'[t].tx
      OBVIOUS
    <3>1. s \in DOMAIN log /\ log'[s] = log[s]
      BY <1>2, <1>6
    <3>2. CASE log'[t] = m
      BY <1>2, <1>5, <1>8, <3>1, <3>2 DEF CaptureInv, Transactions
    <3>3. CASE t \in DOMAIN log /\ log'[t] = log[t]
      BY <3>1, <3>3 DEF CaptureInv, Transactions
    <3> QED
      BY <1>7, <3>2, <3>3
  <2>5. \A x \in DOMAIN given : x \in 1..xids'
    BY <1>1, <1>2 DEF CaptureInv, Transactions
  <2>6. \A a \in Sessions : session[a].xid <= xids'
    BY <1>1, <1>2, <2>1
  <2> QED
    BY <1>1, <2>2, <2>3, <2>4, <2>5, <2>6 DEF CaptureInv, Transactions
<1>11. Positions'
  <2>1. \A a \in Sessions : \A j \in DOMAIN session[a].sent :
            session[a].sent[j].pos \in Nat
    <3>1. \A o \in Messages : o.pos \in Nat
      BY DEF Messages, ChangeMessages, ContextMessages
    <3> QED
      BY <3>1 DEF CaptureInv, Typed, Session
  <2>2. \A s \in DOMAIN log' : log'[s].pos < Position'
    BY <1>3, <1>5, <1>7, <1>8 DEF CaptureInv, Positions
  <2>3. \A s, t \in DOMAIN log' : log'[s].pos = log'[t].pos => s = t
    BY <1>3, <1>5, <1>7, <1>8 DEF CaptureInv, Positions
  <2>4. \A a \in Sessions : \A j \in DOMAIN session[a].sent :
            /\ session[a].sent[j].pos < Position'
            /\ \A s \in DOMAIN log' : log'[s].pos # session[a].sent[j].pos
    BY <1>3, <1>5, <1>7, <2>1 DEF CaptureInv, Positions
  <2> QED
    BY <1>1, <2>2, <2>3, <2>4 DEF CaptureInv, Positions
<1>12. Ordered'
  <2>1. \A s, t \in DOMAIN log' : s < t /\ SameRow(log'[s], log'[t])
                                     => log'[s].pos < log'[t].pos
    BY <1>5, <1>7 DEF CaptureInv, Ordered, InOrder, SameRow
  <2>2. \A a \in Sessions : \A s \in DOMAIN log', j \in DOMAIN session[a].sent :
            SameRow(log'[s], session[a].sent[j]) => log'[s].pos < session[a].sent[j].pos
    BY <1>5, <1>7 DEF CaptureInv, Ordered, SameRow
  <2> QED
    BY <1>1, <2>1, <2>2 DEF CaptureInv, Ordered, InOrder, SameRow
<1>13. Chained'
  <2>1. \A i \in Ids : Linked(log', i, initial[i], table[i])
    BY <1>1, <1>2, <1>5, LinkedAppendOther DEF CaptureInv, Chained
  <2>2. \A a \in Sessions, i \in Ids :
            Linked(session[a].sent, i, table[i], Current(a, i))
    BY DEF CaptureInv, Chained
  <2>3. \A i \in Ids : Linked(log', i, initial'[i], table'[i])
    BY <1>1, <2>1
  <2>4. \A a \in Sessions, i \in Ids :
            Linked(session'[a].sent, i, table'[i], Current(a, i)')
    BY <1>1, <2>2 DEF Current
  <2> QED
    BY <2>3, <2>4 DEF Chained, Linked
<1>14. Attributed'
  <2>1. ASSUME NEW x \in DOMAIN given
        PROVE  FirstContext(log', x, given[x])
    <3>1. ~IsContextOf(m, x)
      BY <1>2, <1>5 DEF IsContextOf, CaptureInv, Transactions
    <3> QED
      BY <1>1, <1>2, <1>5, <3>1, FirstContextAppend DEF CaptureInv, Attributed
  <2> QED
    BY <1>1, <2>1 DEF CaptureInv, Attributed, FirstContext, FirstAt
<1>15. Recorded'
  BY <1>1, <1>2, <1>6, RecordedStays DEF CaptureInv
<1> QED
  BY <1>9, <1>10, <1>11, <1>12, <1>13, <1>14, <1>15 DEF CaptureInv

\* A session that ends, with the rest as it was.
LEMMA RollbackStep ==
    ASSUME CaptureInv, NEW a \in Sessions, Rollback(a)
    PROVE  CaptureInv'
<1>1. /\ session' = [session EXCEPT ![a] = Idle]
      /\ UNCHANGED <<identity, initial, table, log, fetched, changes, given,
                     writes, emits, xids>>
  BY DEF Rollback
<1>2. /\ session \in [Sessions -> Session] /\ session' \in [Sessions -> Session]
      /\ session'[a] = Idle /\ \A b \in Sessions \ {a} : session'[b] = session[b]
  BY <1>1, IdleIsSession DEF CaptureInv, Typed
<1>3. /\ session'[a].xid = 0 /\ session'[a].sent = <<>> /\ session'[a].given = {}
      /\ DOMAIN session'[a].rows = {} /\ DOMAIN session'[a].sent = {}
  BY <1>2 DEF Idle
<1>4. Typed'
  BY <1>1, <1>2 DEF CaptureInv, Typed
<1>5. Transactions'
  <2>1. 0 \notin DOMAIN given /\ \A s \in DOMAIN log : log[s].tx # 0
    <3>1. \A o \in Messages : o.tx # 0
      BY DEF Messages, ChangeMessages, ContextMessages
    <3> QED
      BY <3>1 DEF CaptureInv, Typed, Transactions
  <2>2. 0 <= xids
    BY DEF CaptureInv, Typed
  <2> QED
    BY <1>1, <1>2, <1>3, <2>1, <2>2 DEF CaptureInv, Transactions
<1>6. Positions'
  BY <1>1, <1>2, <1>3 DEF CaptureInv, Positions, Position
<1>7. Ordered'
  BY <1>1, <1>2, <1>3 DEF CaptureInv, Ordered, InOrder
<1>8. Chained'
  <2>1. \A i \in Ids : Linked(log', i, initial'[i], table'[i])
    BY <1>1 DEF CaptureInv, Chained
  <2>2. \A i \in Ids : Linked(session'[a].sent, i, table'[i], Current(a, i)')
    <3> SUFFICES ASSUME NEW i \in Ids
                 PROVE  Linked(session'[a].sent, i, table'[i], Current(a, i)')
      OBVIOUS
    <3>1. ChangesOf(session'[a].sent, i) = {}
      BY <1>3 DEF ChangesOf
    <3>2. Current(a, i)' = table'[i]
      BY <1>3 DEF Current
    <3> QED
      BY <3>1, <3>2, LinkedUnchanged
  <2>3. \A b \in Sessions \ {a}, i \in Ids :
            Linked(session'[b].sent, i, table'[i], Current(b, i)')
    <3>1. \A b \in Sessions \ {a}, i \in Ids : Current(b, i)' = Current(b, i)
      BY <1>1, <1>2 DEF Current
    <3> QED
      BY <1>1, <1>2, <3>1 DEF CaptureInv, Chained
  <2>4. \A b \in Sessions, i \in Ids :
            Linked(session'[b].sent, i, table'[i], Current(b, i)')
    BY <2>2, <2>3
  <2> QED
    BY <2>1, <2>4 DEF Chained, Linked
<1>9. Attributed'
  <2>1. FirstContext(session'[a].sent, session'[a].xid, session'[a].given)
    BY <1>3 DEF FirstContext
  <2>2. \A b \in Sessions :
            FirstContext(session'[b].sent, session'[b].xid, session'[b].given)
    BY <1>2, <2>1 DEF CaptureInv, Attributed
  <2>3. \A x \in DOMAIN given' : FirstContext(log', x, given'[x])
    BY <1>1 DEF CaptureInv, Attributed
  <2> QED
    BY <2>2, <2>3 DEF Attributed, FirstContext, FirstAt
<1>10. Recorded'
  BY <1>1, RecordedStays DEF CaptureInv
<1> QED
  BY <1>4, <1>5, <1>6, <1>7, <1>8, <1>9, <1>10 DEF CaptureInv

LEMMA CommitStep ==
    ASSUME CaptureInv, NEW a \in Sessions, Commit(a)
    PROVE  CaptureInv'
<1> DEFINE x0 == session[a].xid
           q == session[a].sent
           n == Len(log)
           l == Len(q)
<1>1. /\ log' = log \o q /\ x0 # 0
      /\ session' = [session EXCEPT ![a] = Idle]
      /\ table' = [i \in Ids |-> Current(a, i)]
      /\ DOMAIN given' = DOMAIN given \union {x0}
      /\ given'[x0] = session[a].given
      /\ \A x \in DOMAIN given \ {x0} : given'[x] = given[x]
      /\ UNCHANGED <<identity, initial, fetched, changes, writes, emits, xids>>
  BY DEF Commit
<1>2. /\ log \in Seq(Messages) /\ q \in Seq(Messages) /\ xids \in Nat
      /\ session[a] \in Session /\ session[a].given \subseteq Fields
      /\ x0 \in Nat /\ fetched \in 0..n
  BY DEF CaptureInv, Typed, Session
<1>3. /\ session \in [Sessions -> Session] /\ session' \in [Sessions -> Session]
      /\ session'[a] = Idle /\ \A b \in Sessions \ {a} : session'[b] = session[b]
  BY <1>1, IdleIsSession DEF CaptureInv, Typed
<1>4. /\ session'[a].xid = 0 /\ session'[a].sent = <<>> /\ session'[a].given = {}
      /\ DOMAIN session'[a].rows = {} /\ DOMAIN session'[a].sent = {}
  BY <1>3 DEF Idle
<1> HIDE DEF q, x0
<1>5. /\ log' \in Seq(Messages) /\ n \in Nat /\ l \in Nat /\ Len(log') = n + l
      /\ DOMAIN log = 1..n /\ DOMAIN q = 1..l /\ DOMAIN log' = 1..(n + l)
      /\ \A s \in 1..n : log'[s] = log[s]
      /\ \A s \in DOMAIN log' : s \notin 1..n =>
             s - n \in 1..l /\ log'[s] = q[s - n]
  BY <1>1, <1>2, ConcatFacts
<1> HIDE DEF n, l
<1>6. \A s \in DOMAIN log' :
          \/ s \in DOMAIN log /\ log'[s] = log[s]
          \/ s > n /\ s - n \in DOMAIN q /\ log'[s] = q[s - n]
  BY <1>5
<1>7. /\ \A s \in DOMAIN log : log[s].tx \in Nat \ {0} /\ log[s].pos \in Nat
      /\ \A j \in DOMAIN q : q[j].tx = x0 /\ q[j].pos \in Nat
  <2>1. \A o \in Messages : o.tx \in Nat \ {0} /\ o.pos \in Nat
    BY DEF Messages, ChangeMessages, ContextMessages
  <2>2. \A j \in DOMAIN q : q[j].tx = x0
    BY DEF CaptureInv, Transactions, q, x0
  <2> QED
    BY <1>2, <2>1, <2>2
<1>8. x0 \in 1..xids /\ x0 \notin DOMAIN given /\ \A s \in DOMAIN log : log[s].tx # x0
  BY <1>1, <1>2 DEF CaptureInv, Transactions, x0
<1>9. Typed'
  <2>1. table' \in [Ids -> RowOrNone]
    BY <1>1, CurrentIsRow DEF CaptureInv
  <2>2. \A x \in DOMAIN given' : given'[x] \subseteq Fields
    BY <1>1, <1>2 DEF CaptureInv, Typed
  <2>3. fetched' \in 0..Len(log')
    BY <1>1, <1>2, <1>5
  <2> QED
    BY <1>1, <1>3, <1>5, <2>1, <2>2, <2>3 DEF CaptureInv, Typed
<1>10. Transactions'
  <2>1. ASSUME NEW b \in Sessions
        PROVE  /\ session'[b].xid <= xids
               /\ session'[b].xid = 0 => session'[b].sent = <<>>
               /\ \A j \in DOMAIN session'[b].sent :
                      session'[b].sent[j].tx = session'[b].xid
               /\ session'[b].xid \notin DOMAIN given'
               /\ \A s \in DOMAIN log' : log'[s].tx # session'[b].xid
    <3>1. CASE b = a
      <4>1. 0 \notin DOMAIN given'
        BY <1>1, <1>8 DEF CaptureInv, Transactions
      <4>2. \A s \in DOMAIN log' : log'[s].tx # 0
        BY <1>1, <1>6, <1>7
      <4> QED
        BY <1>2, <1>4, <3>1, <4>1, <4>2
    <3>2. CASE b # a
      <4>1. session'[b] = session[b] /\ session[b].xid # x0
        BY <1>1, <1>3, <3>2 DEF CaptureInv, Transactions, x0
      <4>2. \A s \in DOMAIN log' : log'[s].tx # session[b].xid
        BY <1>6, <1>7, <4>1 DEF CaptureInv, Transactions
      <4> QED
        BY <1>1, <4>1, <4>2 DEF CaptureInv, Transactions
    <3> QED
      BY <3>1, <3>2
  <2>2. \A b \in Sessions, c \in Sessions :
            b # c /\ session'[b].xid # 0 => session'[c].xid # session'[b].xid
    BY <1>3, <1>4 DEF CaptureInv, Transactions
  <2>3. \A x \in DOMAIN given' : x \in 1..xids
    BY <1>1, <1>8 DEF CaptureInv, Transactions
  <2>4. \A s \in DOMAIN log' :
            /\ log'[s].tx <= xids
            /\ log'[s].kind = "change" => log'[s].tx \in DOMAIN given'
    BY <1>1, <1>6, <1>7, <1>8 DEF CaptureInv, Transactions
  <2>5. \A s, t \in DOMAIN log' : s <= fetched /\ fetched < t => log'[s].tx # log'[t].tx
    <3> SUFFICES ASSUME NEW s \in DOMAIN log', NEW t \in DOMAIN log',
                        s <= fetched, fetched < t
                 PROVE  log'[s].tx # log'[t].tx
      OBVIOUS
    <3>1. s \in DOMAIN log /\ log'[s] = log[s]
      BY <1>2, <1>5
    <3>2. CASE t \in DOMAIN log /\ log'[t] = log[t]
      BY <3>1, <3>2 DEF CaptureInv, Transactions
    <3>3. CASE t - n \in DOMAIN q /\ log'[t] = q[t - n]
      BY <1>7, <1>8, <3>1, <3>3
    <3> QED
      BY <1>6, <3>2, <3>3
  <2> QED
    BY <1>1, <2>1, <2>2, <2>3, <2>4, <2>5 DEF Transactions
<1>11. Positions'
  <2>1. Position' = Position
    BY <1>1 DEF Position
  <2>2. \A s \in DOMAIN log' : log'[s].pos < Position
    BY <1>6 DEF CaptureInv, Positions, q
  <2>3. \A s, t \in DOMAIN log' : log'[s].pos = log'[t].pos => s = t
    <3> SUFFICES ASSUME NEW s \in DOMAIN log', NEW t \in DOMAIN log',
                        log'[s].pos = log'[t].pos
                 PROVE  s = t
      OBVIOUS
    <3>1. s \in Nat /\ t \in Nat
      BY <1>5
    <3>2. \A r \in DOMAIN log, j \in DOMAIN q : log[r].pos # q[j].pos
      BY DEF CaptureInv, Positions, q
    <3>3. \A j, k \in DOMAIN q : q[j].pos = q[k].pos => j = k
      BY DEF CaptureInv, Positions, q
    <3>4. \A r, u \in DOMAIN log : log[r].pos = log[u].pos => r = u
      BY DEF CaptureInv, Positions
    <3>5. s - n = t - n => s = t
      BY <1>5, <3>1
    <3> QED
      BY <1>6, <3>2, <3>3, <3>4, <3>5
  <2>4. ASSUME NEW b \in Sessions, NEW j \in DOMAIN session'[b].sent
        PROVE  /\ session'[b].sent[j].pos < Position
               /\ \A s \in DOMAIN log' : log'[s].pos # session'[b].sent[j].pos
               /\ \A c \in Sessions : \A k \in DOMAIN session'[c].sent :
                      session'[b].sent[j].pos = session'[c].sent[k].pos
                          => b = c /\ j = k
    <3>1. b # a /\ session'[b] = session[b]
      BY <1>3, <1>4
    <3>2. \A s \in DOMAIN log' : log'[s].pos # session[b].sent[j].pos
      <4>1. \A s \in DOMAIN log : log[s].pos # session[b].sent[j].pos
        BY <3>1 DEF CaptureInv, Positions
      <4>2. \A k \in DOMAIN q : q[k].pos # session[b].sent[j].pos
        BY <3>1 DEF CaptureInv, Positions, q
      <4> QED
        BY <1>6, <4>1, <4>2
    <3>3. \A c \in Sessions : \A k \in DOMAIN session'[c].sent :
              k \in DOMAIN session[c].sent /\ session'[c].sent[k] = session[c].sent[k]
      BY <1>3, <1>4
    <3> QED
      BY <3>1, <3>2, <3>3 DEF CaptureInv, Positions
  <2> QED
    BY <2>1, <2>2, <2>3, <2>4 DEF Positions
<1>12. \A b \in Sessions \ {a}, i \in Ids :
          i \in DOMAIN session[a].rows =>
              i \notin DOMAIN session[b].rows /\ ChangesOf(session[b].sent, i) = {}
  BY DEF CaptureInv, Ordered, ChangesOf
<1>13. Ordered'
  <2>1. InOrder(log')
    <3> SUFFICES ASSUME NEW s \in DOMAIN log', NEW t \in DOMAIN log', s < t,
                        SameRow(log'[s], log'[t])
                 PROVE  log'[s].pos < log'[t].pos
      BY DEF InOrder
    <3>1. CASE s \in DOMAIN log /\ log'[s] = log[s]
      <4>1. CASE t \in DOMAIN log /\ log'[t] = log[t]
        BY <3>1, <4>1 DEF CaptureInv, Ordered, InOrder
      <4>2. CASE t - n \in DOMAIN q /\ log'[t] = q[t - n]
        BY <3>1, <4>2 DEF CaptureInv, Ordered, q
      <4> QED
        BY <1>6, <4>1, <4>2
    <3>2. CASE s > n /\ s - n \in DOMAIN q /\ log'[s] = q[s - n]
      <4>1. t - n \in DOMAIN q /\ log'[t] = q[t - n] /\ s - n < t - n
        BY <1>5, <1>6, <3>2
      <4>2. InOrder(q)
        BY DEF CaptureInv, Ordered, q
      <4> QED
        BY <3>2, <4>1, <4>2 DEF InOrder
    <3> QED
      BY <1>6, <3>1, <3>2
  <2>2. ASSUME NEW b \in Sessions, NEW j \in DOMAIN session'[b].sent
        PROVE  /\ session'[b].sent[j].kind = "change" =>
                      session'[b].sent[j].id \in DOMAIN session'[b].rows
               /\ \A s \in DOMAIN log' : SameRow(log'[s], session'[b].sent[j])
                      => log'[s].pos < session'[b].sent[j].pos
    <3>1. b # a /\ session'[b] = session[b]
      BY <1>3, <1>4
    <3>2. \A s \in DOMAIN log : SameRow(log[s], session[b].sent[j])
                                    => log[s].pos < session[b].sent[j].pos
      BY <3>1 DEF CaptureInv, Ordered
    <3>3. \A k \in DOMAIN q : ~SameRow(q[k], session[b].sent[j])
      BY <3>1 DEF CaptureInv, Ordered, SameRow, q
    <3>4. \A s \in DOMAIN log' : SameRow(log'[s], session[b].sent[j])
                                    => log'[s].pos < session[b].sent[j].pos
      BY <1>6, <3>2, <3>3
    <3> QED
      BY <3>1, <3>4 DEF CaptureInv, Ordered
  <2>3. \A b \in Sessions : \A c \in Sessions \ {b} :
            DOMAIN session'[b].rows \cap DOMAIN session'[c].rows = {}
    BY <1>3, <1>4 DEF CaptureInv, Ordered
  <2>4. \A b \in Sessions : InOrder(session'[b].sent)
    BY <1>3, <1>4 DEF CaptureInv, Ordered, InOrder
  <2> QED
    BY <2>1, <2>2, <2>3, <2>4 DEF Ordered, InOrder
<1>14. Chained'
  <2>1. ASSUME NEW i \in Ids
        PROVE  Linked(log', i, initial'[i], table'[i])
    <3>1. Linked(log, i, initial[i], table[i]) /\ Linked(q, i, table[i], Current(a, i))
      BY DEF CaptureInv, Chained, q
    <3>2. Linked(log \o q, i, initial[i], Current(a, i))
      BY <1>2, <3>1, LinkedConcat
    <3> QED
      BY <1>1, <3>2
  <2>2. ASSUME NEW b \in Sessions, NEW i \in Ids
        PROVE  Linked(session'[b].sent, i, table'[i], Current(b, i)')
    <3>1. CASE b = a
      <4>1. ChangesOf(session'[a].sent, i) = {}
        BY <1>4 DEF ChangesOf
      <4>2. Current(a, i)' = table'[i]
        BY <1>4 DEF Current
      <4> QED
        BY <3>1, <4>1, <4>2, LinkedUnchanged
    <3>2. CASE b # a /\ i \in DOMAIN session[a].rows
      <4>1. session'[b] = session[b] /\ ChangesOf(session'[b].sent, i) = {}
        BY <1>3, <1>12, <3>2
      <4>2. Current(b, i)' = table'[i]
        BY <1>12, <3>2, <4>1 DEF Current
      <4> QED
        BY <4>1, <4>2, LinkedUnchanged
    <3>3. CASE b # a /\ i \notin DOMAIN session[a].rows
      <4>1. session'[b] = session[b] /\ table'[i] = table[i]
        BY <1>1, <1>3, <3>3 DEF Current
      <4>2. Current(b, i)' = Current(b, i)
        BY <4>1 DEF Current
      <4> QED
        BY <4>1, <4>2 DEF CaptureInv, Chained
    <3> QED
      BY <3>1, <3>2, <3>3
  <2> QED
    BY <2>1, <2>2 DEF Chained, Linked
<1>15. Attributed'
  <2>1. \A b \in Sessions :
            FirstContext(session'[b].sent, session'[b].xid, session'[b].given)
    <3>1. FirstContext(session'[a].sent, session'[a].xid, session'[a].given)
      BY <1>4 DEF FirstContext
    <3> QED
      BY <1>3, <3>1 DEF CaptureInv, Attributed
  <2>2. ASSUME NEW x \in DOMAIN given'
        PROVE  FirstContext(log', x, given'[x])
    <3>1. CASE x = x0
      <4>1. FirstContext(q, x, given'[x])
        BY <1>1, <3>1 DEF CaptureInv, Attributed, q, x0
      <4>2. \A s \in DOMAIN log : log[s].tx # x
        BY <1>8, <3>1
      <4> QED
        BY <1>1, <1>2, <4>1, <4>2, FirstContextConcat
    <3>2. CASE x # x0
      <4>1. x \in DOMAIN given /\ given'[x] = given[x]
        BY <1>1, <3>2
      <4>2. FirstContext(log, x, given'[x])
        BY <4>1 DEF CaptureInv, Attributed
      <4>3. \A j \in DOMAIN q : q[j].tx # x
        BY <1>7, <3>2
      <4> QED
        BY <1>1, <1>2, <4>2, <4>3, FirstContextConcat
    <3> QED
      BY <3>1, <3>2
  <2> QED
    BY <2>1, <2>2 DEF Attributed, FirstContext, FirstAt
<1>16. Recorded'
  <2>3. fetched \in 0..n /\ n \in Nat
    BY <1>2, <1>5
  <2>4. ASSUME NEW s \in 1..fetched
        PROVE  s \in 1..n
    BY <2>3
  <2>5. DOMAIN log = 1..n /\ \A s \in 1..n : log'[s] = log[s]
    BY <1>5
  <2>1. \A s \in 1..fetched : s \in DOMAIN log /\ log'[s] = log[s]
    BY <2>4, <2>5
  <2>2. \A s \in 1..fetched : log[s].kind = "change" => given'[log[s].tx] = given[log[s].tx]
    BY <1>1, <1>8, <2>1 DEF CaptureInv, Transactions
  <2> QED
    BY <1>1, <2>1, <2>2, RecordedStays DEF CaptureInv
<1> QED
  BY <1>9, <1>10, <1>11, <1>13, <1>14, <1>15, <1>16 DEF CaptureInv

-----------------------------------------------------------------------------
(***************************************************************************)
(* The worker takes what was committed.                                    *)
(***************************************************************************)
Fetching == (fetched + 1)..Len(log)

NewRecords == {Parsed(s) : s \in Fetching}

LEMMA ParsedFacts ==
    ASSUME NEW s
    PROVE  /\ Parsed(s).seq = s /\ Parsed(s).subject = Subject
           /\ Parsed(s).kind = log[s].kind /\ Parsed(s).tx = log[s].tx
           /\ Parsed(s).pos = log[s].pos /\ Parsed(s).operation = log[s].operation
           /\ Parsed(s).primaryKey = log[s].id /\ Parsed(s).ctx = log[s].fields
           /\ Parsed(s).before = BeforeStored(log[s])
           /\ Parsed(s).after = AfterStored(log[s])
  BY DEF Parsed, BeforeStored, AfterStored

\* Without a buffer every change is saved at once.
LEMMA ChangesAreSavable ==
    ASSUME CaptureInv, NEW r
    PROVE  r \in Savable(NewRecords)
               <=> \E s \in Fetching : log[s].kind = "change" /\ r = Parsed(s)
<1>1. \A s \in Fetching : log[s].kind \in {"change", "context"}
  <2>1. \A o \in Messages : o.kind \in {"change", "context"}
    BY DEF Messages, ChangeMessages, ContextMessages
  <2>2. \A s \in Fetching : s \in DOMAIN log
    BY DEF Fetching, CaptureInv, Typed
  <2> QED
    BY <2>1, <2>2 DEF CaptureInv, Typed
<1>2. \A s \in Fetching : Parsed(s).kind = log[s].kind
  BY ParsedFacts
<1> QED
  BY <1>1, <1>2 DEF Savable, NewRecords, HeldChange, IsHeartbeatMessage, IsContextMessage

\* A transaction is fetched as a whole, so its first context is at hand.
LEMMA WithGivenContext ==
    ASSUME CaptureInv, NEW s \in Fetching, log[s].kind = "change"
    PROVE  WithContext(NewRecords, Parsed(s))
               = [Parsed(s) EXCEPT !.ctx = given[log[s].tx]]
<1> DEFINE x == log[s].tx
           contexts == ContextsOf(NewRecords, Parsed(s))
<1>1. /\ log \in Seq(Messages) /\ fetched \in 0..Len(log) /\ s \in DOMAIN log
      /\ DOMAIN log = 1..Len(log) /\ Len(log) \in Nat
      /\ \A t \in DOMAIN log : t \in Fetching \/ t <= fetched
      /\ \A t \in Fetching : t \in DOMAIN log /\ t \in Nat /\ fetched < t
  BY DEF Fetching, CaptureInv, Typed
<1>2. x \in DOMAIN given /\ FirstContext(log, x, given[x])
  BY <1>1 DEF CaptureInv, Transactions, Attributed
<1>3. log[s].fields = {}
  <2>1. \A o \in Messages : o.kind = "change" => o.fields = {}
    BY DEF Messages, ChangeMessages, ContextMessages
  <2> QED
    BY <1>1, <2>1
<1>4. \A r : r \in contexts <=> \E t \in Fetching : IsContextOf(log[t], x) /\ r = Parsed(t)
  <2>1. \A t : Parsed(t).kind = log[t].kind /\ Parsed(t).tx = log[t].tx
               /\ Parsed(t).subject = Subject
    BY ParsedFacts
  <2> QED
    BY <2>1 DEF ContextsOf, SameTransaction, NewRecords, IsContextMessage, IsContextOf
<1>6. CASE given[x] = {}
  <2>1. contexts = {}
    BY <1>1, <1>2, <1>4, <1>6 DEF FirstContext
  <2>2. WithContext(NewRecords, Parsed(s)) = Parsed(s)
    BY <2>1 DEF WithContext
  <2>3. [Parsed(s) EXCEPT !.ctx = log[s].fields] = Parsed(s)
    BY DEF Parsed
  <2> QED
    BY <1>3, <1>6, <2>2, <2>3
<1>7. CASE given[x] # {}
  <2>1. PICK t \in DOMAIN log : FirstAt(log, x, t) /\ log[t].fields = given[x]
    BY <1>2, <1>7 DEF FirstContext
  <2>2. t \in Fetching
    <3>1. log[t].tx = log[s].tx
      BY <2>1 DEF FirstAt, IsContextOf
    <3>2. ~(t <= fetched)
      BY <1>1, <3>1 DEF CaptureInv, Transactions
    <3> QED
      BY <1>1, <3>2
  <2>3. Parsed(t) \in contexts
    BY <1>4, <2>1, <2>2 DEF FirstAt
  <2>4. \A r \in contexts : t <= r.seq /\ (r.seq = t => r = Parsed(t))
    <3>1. \A u : Parsed(u).seq = u
      BY ParsedFacts
    <3> QED
      BY <1>1, <1>4, <2>1, <3>1 DEF FirstAt
  <2>5. Parsed(t).seq = t /\ \A r \in contexts : r.seq \in Nat
    <3>1. \A u : Parsed(u).seq = u
      BY ParsedFacts
    <3> QED
      BY <1>1, <1>4, <3>1
  <2> HIDE DEF contexts
  <2>6. (CHOOSE r \in contexts : \A p \in contexts : r.seq <= p.seq) = Parsed(t)
    <3>1. \A p \in contexts : Parsed(t).seq <= p.seq
      BY <2>4, <2>5
    <3>2. \A r \in contexts : (\A p \in contexts : r.seq <= p.seq) => r = Parsed(t)
      <4> SUFFICES ASSUME NEW r \in contexts, \A p \in contexts : r.seq <= p.seq
                   PROVE  r = Parsed(t)
        OBVIOUS
      <4>1. r.seq <= t /\ t <= r.seq /\ r.seq \in Nat /\ t \in Nat
        BY <1>1, <2>2, <2>3, <2>4, <2>5
      <4> QED
        BY <2>4, <4>1
    <3> QED
      BY <2>3, <3>1, <3>2
  <2>7. WithContext(NewRecords, Parsed(s)) = SetContext(Parsed(s), Parsed(t).ctx)
    BY <2>3, <2>6 DEF WithContext, contexts
  <2> QED
    BY <2>1, <2>7, ParsedFacts DEF SetContext
<1> QED
  BY <1>6, <1>7

\* What is kept of the new records tells of the changes that are due.
Kept == FilterEmptyChanges(StitchFetchedRecords(NewRecords, <<Subject>>).stitched)

LEMMA KeptAreDue ==
    ASSUME CaptureInv
    PROVE  /\ \A r \in Kept : \E s \in Fetching : Due(s) /\ Tells(RowOf(r), log[s])
           /\ \A s \in Fetching : Due(s) => \E r \in Kept : Tells(RowOf(r), log[s])
<1> DEFINE Saved(s) == WithContext(NewRecords, Parsed(s))
<1>1. \A r : r \in Kept <=> /\ \E s \in Fetching : log[s].kind = "change" /\ r = Saved(s)
                            /\ ~IsEmptyChange(r)
  <2>1. StitchFetchedRecords(NewRecords, <<Subject>>).stitched = Stitched(NewRecords)
    BY DEF StitchFetchedRecords
  <2> QED
    BY <2>1, ChangesAreSavable DEF Kept, FilterEmptyChanges, Stitched
<1>2. ASSUME NEW s \in Fetching, log[s].kind = "change"
      PROVE  (IsEmptyChange(Saved(s)) <=> Noise(log[s])) /\ Tells(RowOf(Saved(s)), log[s])
  <2> DEFINE r == [Parsed(s) EXCEPT !.ctx = given[log[s].tx]]
  <2>1. Saved(s) = r
    BY <1>2, WithGivenContext
  <2>2. /\ r.pos = log[s].pos /\ r.tx = log[s].tx /\ r.operation = log[s].operation
        /\ r.primaryKey = log[s].id /\ r.ctx = given[log[s].tx]
        /\ r.before = BeforeStored(log[s]) /\ r.after = AfterStored(log[s])
    BY DEF Parsed, BeforeStored, AfterStored
  <2> HIDE DEF r, Saved
  <2>3. log[s] \in ChangeMessages /\ identity \in {"FULL", "DEFAULT"}
    <3>1. log[s] \in Messages
      BY DEF Fetching, CaptureInv, Typed
    <3> QED
      BY <1>2, <3>1 DEF Messages, ContextMessages, CaptureInv, Typed
  <2>4. IsEmptyChange(r) <=> Noise(log[s])
    BY <2>2, <2>3, NoiseIsEmpty
  <2>5. Tells(RowOf(r), log[s])
    BY <2>2 DEF Tells, RowOf
  <2> QED
    BY <2>1, <2>4, <2>5
<1> HIDE DEF Saved
<1> QED
  BY <1>1, <1>2 DEF Due

LEMMA IngestStep ==
    ASSUME CaptureInv, Ingest
    PROVE  CaptureInv'
<1>1. /\ changes' = changes \union {RowOf(r) : r \in Kept}
      /\ fetched' = Len(log)
      /\ UNCHANGED <<identity, initial, table, session, log, given, writes, emits, xids>>
  BY DEF Ingest, Kept, NewRecords, Fetching
<1>2. /\ log \in Seq(Messages) /\ Len(log) \in Nat /\ DOMAIN log = 1..Len(log)
      /\ fetched \in 0..Len(log)
      /\ \A s \in 1..Len(log) : s \in 1..fetched \/ s \in Fetching
      /\ Fetching \subseteq 1..Len(log) /\ 1..fetched \subseteq 1..Len(log)
  BY DEF Fetching, CaptureInv, Typed
<1>3. Typed'
  BY <1>1, <1>2 DEF CaptureInv, Typed
<1>4. Transactions'
  <2>1. \A t \in DOMAIN log : ~(Len(log) < t)
    BY <1>2
  <2> QED
    BY <1>1, <2>1 DEF CaptureInv, Transactions
<1>5. Positions' /\ Ordered'
  BY <1>1 DEF CaptureInv, Positions, Position, Ordered, InOrder
<1>6. Chained' /\ Attributed'
  BY <1>1 DEF CaptureInv, Chained, Linked, Current, Attributed, FirstContext, FirstAt
<1>7. Recorded'
  <2>1. \A row \in changes' : \E s \in 1..Len(log) : Due(s) /\ Tells(row, log[s])
    BY <1>1, <1>2, KeptAreDue DEF CaptureInv, Recorded
  <2>2. \A s \in 1..Len(log) : Due(s) => \E row \in changes' : Tells(row, log[s])
    BY <1>1, <1>2, KeptAreDue DEF CaptureInv, Recorded
  <2>3. \A s : Due(s)' <=> Due(s)
    BY <1>1 DEF Due, Noise
  <2>4. \A row, m : Tells(row, m)' <=> Tells(row, m)
    BY <1>1 DEF Tells, BeforeStored, AfterStored, Before, After, LeftOutOfLine
  <2> QED
    BY <1>1, <2>1, <2>2, <2>3, <2>4 DEF Recorded
<1> QED
  BY <1>3, <1>4, <1>5, <1>6, <1>7 DEF CaptureInv

-----------------------------------------------------------------------------
LEMMA CaptureNext == CaptureInv /\ [Next]_vars => CaptureInv'
<1> SUFFICES ASSUME CaptureInv, [Next]_vars PROVE CaptureInv'
  OBVIOUS
<1>1. ASSUME NEW a \in Sessions, NEW i \in Ids, Insert(a, i)
      PROVE  CaptureInv'
  <2>1. PICK v \in Values : Write(a, "CREATE", i, [c \in Columns |-> v])
    BY <1>1 DEF Insert
  <2>2. [c \in Columns |-> v] \in RowOrNone
    BY DEF RowOrNone, Row
  <2> QED
    BY <2>1, <2>2, WriteStep
<1>2. ASSUME NEW a \in Sessions, NEW i \in Ids, Update(a, i)
      PROVE  CaptureInv'
  <2>1. PICK new \in Row : Write(a, "UPDATE", i, new)
    BY <1>2 DEF Update
  <2>2. Current(a, i) \in Row /\ new \in RowOrNone
    BY <1>2, CurrentIsRow DEF Update, CaptureInv, RowOrNone
  <2> QED
    BY <2>1, <2>2, WriteStep
<1>3. ASSUME NEW a \in Sessions, NEW i \in Ids, Delete(a, i)
      PROVE  CaptureInv'
  <2>1. Write(a, "DELETE", i, NoImage) /\ NoImage \in RowOrNone
    BY <1>3 DEF Delete, RowOrNone
  <2> QED
    BY <2>1, WriteStep
<1>4. CASE UNCHANGED vars
  BY <1>4, CaptureStutters DEF vars
<1> QED
  BY <1>1, <1>2, <1>3, <1>4, EmitStep, CommitStep, RollbackStep, TopLevelStep, IngestStep
  DEF Next

LEMMA CaptureInvariant == Spec => []CaptureInv
  BY CaptureInit, CaptureNext, PTL DEF Spec

-----------------------------------------------------------------------------
(***************************************************************************)
(* What follows.                                                           *)
(***************************************************************************)
LEMMA FetchedFacts ==
    ASSUME CaptureInv
    PROVE  /\ log \in Seq(Messages) /\ Len(log) \in Nat /\ DOMAIN log = 1..Len(log)
           /\ fetched \in 0..Len(log) /\ 1..fetched \subseteq DOMAIN log
           /\ \A s \in DOMAIN log : log[s].kind = "change" => log[s] \in ChangeMessages
           /\ \A s \in DOMAIN log : log[s].kind = "context" => log[s] \in ContextMessages
           /\ \A s \in DOMAIN log : log[s].tx \in Nat \ {0} /\ log[s].pos \in Nat \ {0}
           /\ \A s, t \in DOMAIN log : log[s].pos = log[t].pos => s = t
<1>1. \A o \in Messages :
          /\ o.tx \in Nat \ {0} /\ o.pos \in Nat \ {0}
          /\ o.kind = "change" => o \in ChangeMessages
          /\ o.kind = "context" => o \in ContextMessages
  BY DEF Messages, ChangeMessages, ContextMessages
<1> QED
  BY <1>1 DEF CaptureInv, Typed, Positions

\* The variables hold what they should; no context in the WAL is empty, and
\* no two messages of it share a position.
THEOREM CaptureTyped == Spec => []TypeOK
<1>1. CaptureInv => TypeOK
  <2> SUFFICES ASSUME CaptureInv PROVE TypeOK
    OBVIOUS
  <2>1. identity \in {"FULL", "DEFAULT"} /\ table \in [Ids -> {NoImage} \union Row]
    BY DEF CaptureInv, Typed, RowOrNone
  <2>2. ASSUME NEW s \in DOMAIN log
        PROVE  /\ log[s].tx \in 1..xids
               /\ log[s].pos \in 1..(Position - 1)
               /\ log[s].kind = "context" => log[s].fields \in (SUBSET Fields) \ {{}}
               /\ \A t \in DOMAIN log : log[t].pos = log[s].pos => t = s
    <3>1. log[s].tx \in Nat \ {0} /\ log[s].pos \in Nat \ {0} /\ xids \in Nat
          /\ Position \in Nat
      BY FetchedFacts DEF CaptureInv, Typed, Position
    <3>2. log[s].tx <= xids /\ log[s].pos < Position
      BY DEF CaptureInv, Transactions, Positions
    <3>3. log[s].kind = "context" => log[s].fields \in (SUBSET Fields) \ {{}}
      BY FetchedFacts DEF ContextMessages
    <3> QED
      BY <3>1, <3>2, <3>3, FetchedFacts
  <2>3. ASSUME NEW row \in changes
        PROVE  {row.before, row.after} \subseteq Images /\ row.context \subseteq Fields
    <3>1. PICK s \in 1..fetched : Due(s) /\ Tells(row, log[s])
      BY DEF CaptureInv, Recorded
    <3>2. s \in DOMAIN log /\ log[s] \in ChangeMessages
      BY <3>1, FetchedFacts DEF Due
    <3>3. log[s].tx \in DOMAIN given
      BY <3>1, <3>2 DEF Due, CaptureInv, Transactions
    <3> QED
      BY <3>1, <3>2, <3>3, StoredImages DEF Tells, CaptureInv, Typed
  <2> QED
    BY <2>1, <2>2, <2>3, FetchedFacts DEF TypeOK
<1> QED
  BY <1>1, CaptureInvariant, PTL

\* Of what the worker took, the audit table lacks just the updates that changed
\* ignored columns alone and could be seen to (isEmptyChange).
THEOREM OnlyNoiseDropped == Spec => []OnlyNoiseIsDropped
<1>1. CaptureInv => OnlyNoiseIsDropped
  <2> SUFFICES ASSUME CaptureInv, NEW s \in 1..fetched, log[s].kind = "change"
               PROVE  (\E row \in changes : row.position = log[s].pos) <=> ~Noise(log[s])
    BY DEF OnlyNoiseIsDropped, Noise
  <2>1. ASSUME NEW row \in changes, row.position = log[s].pos
        PROVE  ~Noise(log[s])
    <3>1. PICK t \in 1..fetched : Due(t) /\ Tells(row, log[t])
      BY DEF CaptureInv, Recorded
    <3>2. t = s
      BY <2>1, <3>1, FetchedFacts DEF Tells
    <3> QED
      BY <3>1, <3>2 DEF Due
  <2>2. ASSUME ~Noise(log[s])
        PROVE  \E row \in changes : row.position = log[s].pos
    <3>1. Due(s)
      BY <2>2 DEF Due
    <3> QED
      BY <3>1 DEF CaptureInv, Recorded, Tells
  <2> QED
    BY <2>1, <2>2
<1> QED
  BY <1>1, CaptureInvariant, PTL

\* A stored row has the context that its own transaction was first given
\* (WithContext, the tie by transaction id, and the refusals of the emitter).
THEOREM AttributedToItsOwn == Spec => []AttributedAsGiven
<1>1. CaptureInv => AttributedAsGiven
  <2> SUFFICES ASSUME CaptureInv, NEW row \in changes
               PROVE  row.context = given[row.transactionId]
    BY DEF AttributedAsGiven
  <2>1. PICK s \in 1..fetched : Due(s) /\ Tells(row, log[s])
    BY DEF CaptureInv, Recorded
  <2> QED
    BY <2>1 DEF Tells
<1> QED
  BY <1>1, CaptureInvariant, PTL

-----------------------------------------------------------------------------
(***************************************************************************)
(* The history of a row.                                                   *)
(***************************************************************************)
\* The rows that tell of the changes of row i before place t.
AreRowsBefore(rows, i, t) ==
    /\ rows \subseteq changes
    /\ \A row \in changes : row \in rows
           <=> \E s \in ChangesOf(log, i) : s < t /\ Due(s) /\ Tells(row, log[s])

\* The last of them ends where the change at t begins: the changes between
\* the two did nothing, or there would be a row for them.
LEMMA LastBefore ==
    ASSUME CaptureInv, identity = "FULL", NEW i \in Ids, NEW rows,
           NEW t \in ChangesOf(log, i) \union {Len(log) + 1}, t <= fetched + 1,
           AreRowsBefore(rows, i, t)
    PROVE  Substance(LastAfter(rows, i)) = Substance(Finds(log, table[i], t))
<1> DEFINE S == {s \in ChangesOf(log, i) : s < t /\ Due(s)}
<1>1. /\ fetched \in Nat /\ t \in Nat
      /\ \A s \in ChangesOf(log, i) : s \in DOMAIN log /\ s \in Nat \ {0}
      /\ \A s \in S : s \in 1..fetched
  BY FetchedFacts DEF ChangesOf
<1>2. \A k \in ChangesOf(log, i) : k < t /\ k \notin S => DidNothing(log[k])
  BY DEF Due, Noise, ChangesOf
<1>3. Linked(log, i, initial[i], table[i])
  BY DEF CaptureInv, Chained
<1>4. \A s \in S : \E row \in rows : Tells(row, log[s])
  BY <1>1 DEF CaptureInv, Recorded, AreRowsBefore
<1>5. \A row \in rows : \E s \in S : Tells(row, log[s])
  BY DEF AreRowsBefore
<1> HIDE DEF S
<1>6. CASE rows = {}
  <2>1. S = {}
    BY <1>4, <1>6
  <2>2. \A k \in ChangesOf(log, i) : 0 < k /\ k < t => DidNothing(log[k])
    BY <1>2, <2>1
  <2>3. 0 < t
    BY <1>1, FetchedFacts
  <2>4. Substance(Leaves(log, initial[i], 0)) = Substance(Finds(log, table[i], t))
    BY <1>3, <2>2, <2>3 DEF Linked
  <2> QED
    BY <1>6, <2>4 DEF LastAfter, Leaves
<1>7. CASE rows # {}
  <2>1. S # {} /\ S \subseteq 1..fetched /\ S \in SUBSET Nat
    BY <1>1, <1>5, <1>7
  <2>2. IsFiniteSet(S)
    <3>1. 1 \in Int /\ fetched \in Int
      BY <1>1
    <3>2. IsFiniteSet(1..fetched)
      BY <3>1, FS_Interval
    <3> QED
      BY <2>1, <3>2, FS_Subset
  <2>3. PICK s \in S : \A k \in S : k <= s
    BY <2>1, <2>2, FiniteHasGreatest DEF HasGreatest
  <2>4. s \in ChangesOf(log, i) /\ s < t /\ s \in Nat \ {0}
    BY <1>1 DEF S
  <2>5. PICK last \in rows : Tells(last, log[s])
    BY <1>4
  <2>6. \A u \in S : u # s => log[u].pos < log[s].pos
    <3>1. ASSUME NEW u \in S, u # s
          PROVE  log[u].pos < log[s].pos
      <4>1. u < s /\ u \in ChangesOf(log, i)
        BY <1>1, <2>1, <2>3, <2>4, <3>1 DEF S
      <4>2. SameRow(log[u], log[s]) /\ u \in DOMAIN log /\ s \in DOMAIN log
        BY <2>4, <4>1 DEF SameRow, ChangesOf
      <4>3. InOrder(log)
        BY DEF CaptureInv, Ordered
      <4> QED
        BY <4>1, <4>2, <4>3 DEF InOrder
    <3> QED
      BY <3>1
  <2>7. \A u \in S : log[u].pos \in Nat
    BY <1>1, <2>1, FetchedFacts
  <2>8. \A q \in rows : q.position <= last.position
    <3> SUFFICES ASSUME NEW q \in rows PROVE q.position <= last.position
      OBVIOUS
    <3>1. PICK u \in S : Tells(q, log[u])
      BY <1>5
    <3> QED
      BY <2>5, <2>6, <2>7, <3>1 DEF Tells
  <2>9. Latest(rows) \in rows /\ \A q \in rows : q.position <= Latest(rows).position
    BY <2>8 DEF Latest
  <2> DEFINE r == Latest(rows)
  <2>10. r.after = AfterStored(log[s])
    <3>1. PICK u \in S : Tells(r, log[u])
      BY <1>5, <2>9
    <3>2. log[s].pos <= log[u].pos
      BY <2>5, <2>9, <3>1 DEF Tells
    <3>3. u = s
      BY <2>6, <2>7, <3>2
    <3> QED
      BY <3>1, <3>3 DEF Tells
  <2>11. AfterStored(log[s]) = Captured(log[s].new) /\ log[s].new \in RowOrNone
    <3>1. log[s] \in ChangeMessages
      BY <2>4, FetchedFacts DEF ChangesOf
    <3> QED
      BY <3>1, FullImages DEF ChangeMessages
  <2>12. Substance(LastAfter(rows, i)) = Substance(log[s].new)
    BY <1>7, <2>10, <2>11, SubstanceOfCaptured DEF LastAfter
  <2>13. \A k \in ChangesOf(log, i) : s < k /\ k < t => DidNothing(log[k])
    BY <1>1, <1>2, <2>3, <2>4
  <2>14. Substance(Leaves(log, initial[i], s)) = Substance(Finds(log, table[i], t))
    BY <1>3, <2>4, <2>13 DEF Linked
  <2> QED
    BY <2>4, <2>12, <2>14 DEF Leaves
<1> QED
  BY <1>6, <1>7

\* With a full replica identity the rows of a key are a history without a gap
\* (capture-filter.ts, fetched-record.ts): it rests on Chained, which says so
\* of the messages, and on Recorded, which says what is stored of them.
THEOREM HistoryIsWhole == Spec => []HistoryWithoutGaps
<1>1. CaptureInv => HistoryWithoutGaps
  <2> SUFFICES ASSUME CaptureInv, identity = "FULL"
               PROVE  /\ \A row \in changes : Substance(row.before)
                             = Substance(LastAfter(Earlier(row), row.primaryKey))
                      /\ fetched = Len(log) => \A i \in Ids : Substance(table[i])
                             = Substance(LastAfter({r \in changes : r.primaryKey = i}, i))
    BY DEF HistoryWithoutGaps
  <2>1. \A row \in changes : \E s \in 1..fetched : Due(s) /\ Tells(row, log[s])
    BY DEF CaptureInv, Recorded
  <2>2. \A s \in DOMAIN log : log[s].kind = "change" => log[s].id \in Ids
    BY FetchedFacts DEF ChangeMessages
  <2>3. \A s \in 1..fetched : s \in DOMAIN log /\ s \in Nat
    BY FetchedFacts
  <2>4. ASSUME NEW row \in changes
        PROVE  Substance(row.before) = Substance(LastAfter(Earlier(row), row.primaryKey))
    <3>1. PICK t \in 1..fetched : Due(t) /\ Tells(row, log[t])
      BY <2>1
    <3> DEFINE i == log[t].id
    <3>2. /\ i \in Ids /\ t \in ChangesOf(log, i) /\ t <= fetched + 1
          /\ row.primaryKey = i /\ row.position = log[t].pos
      BY <2>2, <2>3, <3>1, FetchedFacts DEF Due, ChangesOf, Tells
    <3>3. \A s \in ChangesOf(log, i) : log[s].pos < log[t].pos <=> s < t
      <4> SUFFICES ASSUME NEW s \in ChangesOf(log, i)
                   PROVE  log[s].pos < log[t].pos <=> s < t
        OBVIOUS
      <4>1. SameRow(log[s], log[t]) /\ SameRow(log[t], log[s])
        BY <3>2 DEF ChangesOf, SameRow
      <4>2. /\ s \in DOMAIN log /\ t \in DOMAIN log /\ s \in Nat /\ t \in Nat
            /\ log[s].pos \in Nat /\ log[t].pos \in Nat
        BY <3>2, FetchedFacts DEF ChangesOf
      <4>3. /\ s < t => log[s].pos < log[t].pos
            /\ t < s => log[t].pos < log[s].pos
        BY <4>1, <4>2 DEF CaptureInv, Ordered, InOrder
      <4>4. s < t \/ t < s \/ s = t
        BY <4>2
      <4> QED
        BY <4>2, <4>3, <4>4
    <3>4. AreRowsBefore(Earlier(row), i, t)
      <4>1. ASSUME NEW r \in changes, r \in Earlier(row)
            PROVE  \E s \in ChangesOf(log, i) : s < t /\ Due(s) /\ Tells(r, log[s])
        <5>1. PICK s \in 1..fetched : Due(s) /\ Tells(r, log[s])
          BY <2>1
        <5>2. s \in ChangesOf(log, i) /\ log[s].pos < log[t].pos
          BY <2>3, <3>2, <4>1, <5>1 DEF Earlier, Tells, Due, ChangesOf
        <5> QED
          BY <3>3, <5>1, <5>2
      <4>2. ASSUME NEW r \in changes, NEW s \in ChangesOf(log, i),
                   s < t, Tells(r, log[s])
            PROVE  r \in Earlier(row)
        BY <3>2, <3>3, <4>2 DEF Earlier, Tells, ChangesOf
      <4> QED
        BY <4>1, <4>2 DEF AreRowsBefore, Earlier
    <3>5. Substance(LastAfter(Earlier(row), i)) = Substance(Finds(log, table[i], t))
      BY <3>2, <3>4, LastBefore
    <3>6. Finds(log, table[i], t) = log[t].old
      BY <3>2, FetchedFacts DEF Finds, ChangesOf
    <3>7. row.before = Captured(log[t].old) /\ log[t].old \in RowOrNone
      <4>1. log[t] \in ChangeMessages
        BY <3>2, FetchedFacts DEF ChangesOf
      <4> QED
        BY <3>1, <4>1, FullImages DEF Tells, ChangeMessages
    <3> QED
      BY <3>2, <3>5, <3>6, <3>7, SubstanceOfCaptured
  <2>5. ASSUME fetched = Len(log), NEW i \in Ids
        PROVE  Substance(table[i])
                   = Substance(LastAfter({r \in changes : r.primaryKey = i}, i))
    <3> DEFINE rows == {r \in changes : r.primaryKey = i}
               t == Len(log) + 1
    <3>1. \A s \in ChangesOf(log, i) : s < t
      BY FetchedFacts DEF ChangesOf
    <3>2. AreRowsBefore(rows, i, t)
      <4>1. ASSUME NEW r \in changes, r.primaryKey = i
            PROVE  \E s \in ChangesOf(log, i) : s < t /\ Due(s) /\ Tells(r, log[s])
        <5>1. PICK s \in 1..fetched : Due(s) /\ Tells(r, log[s])
          BY <2>1
        <5>2. s \in ChangesOf(log, i)
          BY <2>3, <4>1, <5>1 DEF Tells, Due, ChangesOf
        <5> QED
          BY <3>1, <5>1, <5>2
      <4>2. ASSUME NEW r \in changes, NEW s \in ChangesOf(log, i), Tells(r, log[s])
            PROVE  r.primaryKey = i
        BY <4>2 DEF Tells, ChangesOf
      <4> QED
        BY <4>1, <4>2 DEF AreRowsBefore
    <3>3. t <= fetched + 1
      BY <2>5, FetchedFacts
    <3> HIDE DEF rows
    <3>4. Substance(LastAfter(rows, i)) = Substance(Finds(log, table[i], t))
      BY <3>2, <3>3, LastBefore
    <3> QED
      BY <3>4 DEF Finds, rows
  <2> QED
    BY <2>4, <2>5
<1> QED
  BY <1>1, CaptureInvariant, PTL
=============================================================================
