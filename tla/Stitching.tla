------------------------------ MODULE Stitching ------------------------------
(***************************************************************************)
(* stitchFetchedRecords (core/src/stitching.ts) and the FetchedRecordBuffer*)
(* it reads (core/src/fetched-record-buffer.ts), as operators.             *)
(*                                                                         *)
(* The buffer is a set of records; `order` is the sequence of the subjects *)
(* of the store, in the insertion order that Object.keys returns and that  *)
(* forEach visits.  The nested loops of the code visit the records of a    *)
(* subject sorted by transaction id, then stream sequence; everything they *)
(* accumulate depends on the visited prefix only through MaxSequence, so   *)
(* each branch is stated here as a condition on one record.                *)
(*                                                                         *)
(* A sequence number 0 stands for the code's undefined.                    *)
(***************************************************************************)
EXTENDS Integers, Sequences, FiniteSets, FiniteSetsExt, FetchedRecord

CONSTANTS
    UseBuffer,   \* the useBuffer option
    OrphanGap    \* the orphanContextSequenceGap option (1000 in the code)

ASSUME StitchingAssumption == UseBuffer \in BOOLEAN /\ OrphanGap \in Nat

(***************************************************************************)
(* The buffer.                                                             *)
(***************************************************************************)
OfSubject(recs, u) == {r \in recs : r.subject = u}

\* Wrong: keyed on the subject alone.
SameSubject(recs, r) == OfSubject(recs, r.subject)

SameTransaction(recs, r) ==
    {q \in recs : q.subject = r.subject /\ q.tx = r.tx}

\* The order in which forEach hands over the records of one subject.
Precedes(a, b) == a.tx < b.tx \/ (a.tx = b.tx /\ a.seq < b.seq)

LastOf(recs, u) ==
    CHOOSE r \in OfSubject(recs, u) :
        \A q \in OfSubject(recs, u) : q = r \/ Precedes(q, r)

(***************************************************************************)
(* Which records are held back for the next call.                          *)
(***************************************************************************)
\* The subjects that forEach has reached when it is at subject u.
Visited(order, u) ==
    {order[i] : i \in {j \in DOMAIN order :
                           \E k \in DOMAIN order : j <= k /\ order[k] = u}}

\* maxSequence once the subjects `us` are visited: the sequence of the last
\* record in transaction order, which need not be the largest one.
MaxSequence(recs, us) == Max({LastOf(recs, u).seq : u \in us})

ChangeArrived(recs, r) == \E q \in SameTransaction(recs, r) : IsChange(q)

\* Wrong: a context is held for ever, one sequence too long or too short.
NeverOrphaned(recs, order, r) == FALSE

OrphanedLate(recs, order, r) ==
    MaxSequence(recs, Visited(order, r.subject)) - r.seq > OrphanGap + 1

OrphanedEarly(recs, order, r) ==
    MaxSequence(recs, Visited(order, r.subject)) - r.seq >= OrphanGap

Orphaned(recs, order, r) ==
    MaxSequence(recs, Visited(order, r.subject)) - r.seq > OrphanGap

\* Wrong: any change that is alone waits, or none does.
HeldWhileAlone(recs, r) ==
    UseBuffer /\ IsChange(r) /\ SameTransaction(recs, r) = {r}

NeverHeld(recs, r) == FALSE

\* The last change of a subject, alone in its transaction, waits for a pair.
HeldChange(recs, r) ==
    /\ UseBuffer
    /\ IsChange(r)
    /\ SameTransaction(recs, r) = {r}
    /\ r = LastOf(recs, r.subject)

\* A context waits for its change unless the stream has moved too far on.
HeldContext(recs, order, r) ==
    /\ UseBuffer
    /\ IsContextMessage(r)
    /\ ~ChangeArrived(recs, r)
    /\ ~Orphaned(recs, order, r)

Held(recs, order) ==
    {r \in recs : HeldChange(recs, r) \/ HeldContext(recs, order, r)}

(***************************************************************************)
(* Which records are returned for saving, and with what context.           *)
(***************************************************************************)
\* Wrong: any context of the subject will do.
AnyContext(recs, r) == {q \in OfSubject(recs, r.subject) : IsContextMessage(q)}

ContextsOf(recs, r) == {q \in SameTransaction(recs, r) : IsContextMessage(q)}

\* `find` returns the context that arrived first.
WithContext(recs, r) ==
    IF ContextsOf(recs, r) = {} THEN r
    ELSE LET first == CHOOSE q \in ContextsOf(recs, r) :
                          \A p \in ContextsOf(recs, r) : q.seq <= p.seq
         IN  SetContext(r, first.ctx)

Savable(recs) ==
    {r \in recs : ~IsHeartbeatMessage(r) /\ ~IsContextMessage(r)
                                         /\ ~HeldChange(recs, r)}

Stitched(recs) == {WithContext(recs, r) : r \in Savable(recs)}

(***************************************************************************)
(* How far the stream may be acknowledged.                                 *)
(***************************************************************************)
\* The sequences that raise maxSequenceBySubject[u].
Settled(recs, u) ==
    {r.seq : r \in {q \in OfSubject(recs, u) :
                        IsHeartbeatMessage(q) \/ q \in Savable(recs)}}

\* Wrong: the largest of all, whichever subjects hold records.
HighestSettled(recs, order) ==
    LET settled == UNION {Settled(recs, order[i]) : i \in DOMAIN order}
    IN  IF settled = {} THEN 0 ELSE Max(settled)

\* While some record is held, the walk over maxSequenceBySubject moves on to
\* a later subject with a larger maximum, unless it stands at a subject that
\* holds records itself: it stops at the first of the record maxima that
\* does, and else at the last of them.
AckSequence(recs, order) ==
    LET keys   == {i \in DOMAIN order : Settled(recs, order[i]) # {}}
        top(i) == Max(Settled(recs, order[i]))
        highs  == {i \in keys : \A j \in keys : j < i => top(j) < top(i)}
        stops  == {i \in highs : OfSubject(Held(recs, order), order[i]) # {}}
    IN  IF keys = {} THEN 0
        ELSE IF stops # {} THEN top(Min(stops))
        ELSE top(Max(highs))

Candidate(recs, order) ==
    IF recs = {} THEN 0
    ELSE IF Held(recs, order) = {} THEN MaxSequence(recs, {r.subject : r \in recs})
    ELSE AckSequence(recs, order)

\* Wrong: not clamped at all, or clamped to the held record itself.
Unclamped(ack, held) == ack

ClampedAt(ack, held) ==
    IF \E r \in held : ack >= r.seq THEN Min({r.seq : r \in held}) ELSE ack

\* Never acknowledge at or past a held record.
Clamp(ack, held) ==
    IF \E r \in held : ack >= r.seq
    THEN Min({r.seq : r \in held}) - 1
    ELSE ack

(***************************************************************************)
(* The function's result.                                                  *)
(***************************************************************************)
StitchFetchedRecords(recs, order) ==
    LET held == Held(recs, order)
    IN  [stitched |-> Stitched(recs),
         buffer   |-> held,
         ack      |-> Clamp(Candidate(recs, order), held)]
=============================================================================
