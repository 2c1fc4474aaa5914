----------------------------- MODULE StitchingLoop -----------------------------
(***************************************************************************)
(* stitchFetchedRecords as the code computes it: one pass over the         *)
(* subjects, one over the records of each, and a walk over                 *)
(* maxSequenceBySubject.  Stitching states the same result record by       *)
(* record; LoopAgrees is that the two are equal on every buffer that a     *)
(* session can bring about.                                                *)
(***************************************************************************)
EXTENDS StitchSession, SequencesExt

\* What the passes accumulate.  `keys` and `max` are maxSequenceBySubject, in
\* the order in which its keys were inserted.
NothingVisited ==
    [maxSequence |-> 0, stitched |-> {}, held |-> {},
     keys |-> <<>>, max |-> [u \in Subjects |-> 0]]

\* maxSubjectSequence and maxSequenceBySubject after sequence s.
Raise(acc, u, s) ==
    IF acc.max[u] >= s THEN acc
    ELSE [acc EXCEPT !.max[u] = s, !.keys = InsertionOrder(@, u)]

Sorted(recs, u) ==
    CHOOSE q \in SetToSeqs(OfSubject(recs, u)) :
        \A i, j \in DOMAIN q : i < j => Precedes(q[i], q[j])

VisitRecord(recs, sorted, acc, r) ==
    LET same     == SameTransaction(recs, r)
        contexts == {q \in same : IsContextMessage(q)}
        first    == Min({q.seq : q \in contexts})
        orphaned == acc.maxSequence - r.seq > OrphanGap
        hold     == [acc EXCEPT !.held = @ \cup {r}]
        context  == (CHOOSE q \in contexts : q.seq = first).ctx
        save(q)  == [Raise(acc, r.subject, r.seq) EXCEPT !.stitched = @ \cup {q}]
    IN  CASE IsHeartbeatMessage(r) -> Raise(acc, r.subject, r.seq)
          [] /\ UseBuffer /\ IsChange(r)
             /\ Cardinality(same) = 1 /\ r = Last(sorted) -> hold
          [] IsContextMessage(r) ->
             IF UseBuffer /\ ~(\E q \in same : IsChange(q)) /\ ~orphaned
             THEN hold ELSE acc
          [] OTHER -> save(IF contexts # {} THEN SetContext(r, context) ELSE r)

VisitSubject(recs, acc, u) ==
    LET sorted == Sorted(recs, u)
        last   == Last(sorted).seq
        begun  == [acc EXCEPT !.maxSequence = IF last > @ THEN last ELSE @]
    IN  FoldLeft(LAMBDA a, r : VisitRecord(recs, sorted, a, r), begun, sorted)

SubjectWithMaxSequence(acc) ==
    FoldLeft(LAMBDA best, u :
                 IF acc.max[u] > acc.max[best] /\ OfSubject(acc.held, best) = {}
                 THEN u ELSE best,
             Head(acc.keys), acc.keys)

VisitSubjects(recs, subjectOrder) ==
    FoldLeft(LAMBDA acc, u : VisitSubject(recs, acc, u), NothingVisited, subjectOrder)

LoopResult(recs, subjectOrder) ==
    LET acc == VisitSubjects(recs, subjectOrder)
        ack == IF acc.held = {} THEN acc.maxSequence
               ELSE IF acc.keys = <<>> THEN 0
               ELSE acc.max[SubjectWithMaxSequence(acc)]
        min == Min({r.seq : r \in acc.held})
    IN  [stitched |-> acc.stitched,
         buffer   |-> acc.held,
         ack      |-> IF acc.held # {} /\ ack >= min THEN min - 1 ELSE ack]

\* The passes of the code and the statement record by record give the same
\* records, the same buffer and the same acknowledgement (stitching.ts:12-155).
LoopAgrees == LoopResult(buffer, order) = StitchFetchedRecords(buffer, order)
=============================================================================
