---------------------------- MODULE StitchSession ----------------------------
(***************************************************************************)
(* A caller of stitchFetchedRecords over many calls: records of several    *)
(* subjects arrive, are added to the buffer that the last call returned,   *)
(* and the buffer is stitched again at any moment.  The deployed consumer  *)
(* reads one subject; the function and its acknowledgement are written for *)
(* several, whose records share the sequence numbers of one stream.        *)
(*                                                                         *)
(* Whatever is acknowledged here is acknowledged for every subject.        *)
(***************************************************************************)
EXTENDS Stitching

CONSTANTS
    Subjects,        \* the subjects that records arrive on
    Transactions,    \* the transaction ids they carry
    ArrivingKinds,   \* the kinds of message that arrive
    MaxRecords       \* bound on the records of a session

ASSUME SessionAssumption ==
    /\ Transactions \subseteq Nat
    /\ ArrivingKinds \subseteq Kinds
    /\ MaxRecords \in Nat

VARIABLES
    received,   \* every record so far; the s-th has sequence s
    buffer,     \* the FetchedRecordBuffer, as a set of records
    order,      \* its subjects, in the order in which they were inserted
    saved,      \* the records that a call returned for saving
    acked       \* everything up to here is acknowledged

sessionVars == <<received, buffer, order, saved, acked>>

SessionInit ==
    /\ received = <<>>
    /\ buffer = {}
    /\ order = <<>>
    /\ saved = {}
    /\ acked = 0

\* The store keeps the place of a subject that it knows.
InsertionOrder(known, u) ==
    IF \E i \in DOMAIN known : known[i] = u THEN known ELSE Append(known, u)

AddFetchedRecord(m, u) ==
    LET r == FromNatsMessage(m, Len(received) + 1, u)
    IN  /\ received' = Append(received, r)
        /\ buffer' = buffer \cup {r}
        /\ order' = InsertionOrder(order, u)
        /\ UNCHANGED <<saved, acked>>

Arrive ==
    /\ Len(received) < MaxRecords
    /\ \E u \in Subjects, t \in Transactions, k \in ArrivingKinds :
        AddFetchedRecord([kind |-> k, tx |-> t, pos |-> Len(received) + 1], u)

\* The places of the subjects that still have records, in ascending order.
Remaining(recs) ==
    LET kept == {i \in DOMAIN order : OfSubject(recs, order[i]) # {}}
    IN  {at \in [1..Cardinality(kept) -> kept] :
            \A i, j \in DOMAIN at : i < j => at[i] < at[j]}

\* The new buffer gets its subjects in the order of the visits.
Call ==
    LET result == StitchFetchedRecords(buffer, order)
    IN  /\ buffer' = result.buffer
        /\ \E at \in Remaining(result.buffer) :
              order' = [n \in DOMAIN at |-> order[at[n]]]
        /\ saved' = saved \cup result.stitched
        /\ acked' = Max({acked, result.ack})
        /\ UNCHANGED received

SessionNext == Arrive \/ Call

SessionSpec == SessionInit /\ [][SessionNext]_sessionVars

-----------------------------------------------------------------------------
SavedSequences == {r.seq : r \in saved}

\* An acknowledgement picked at one subject never passes what another subject
\* still needs: every change up to it was returned for saving, and what is
\* held lies beyond it (stitching.ts:101-142).
AckedIsSaved ==
    /\ \A s \in 1..acked : IsChange(received[s]) => s \in SavedSequences
    /\ \A r \in buffer : r.seq > acked

\* A context waits long enough: the first change of its transaction is saved
\* with a context when every sequence before that change was within the gap,
\* however many calls and records of other subjects came in between
\* (stitching.ts:7-10, 62-81).
EarlierInTransaction(r) ==
    {q \in SameTransaction({received[s] : s \in DOMAIN received}, r) : q.seq < r.seq}

PairedWithinGap ==
    \A d \in saved :
        (/\ IsChange(d)
         /\ \A q \in EarlierInTransaction(d) : ~IsChange(q)
         /\ \E q \in EarlierInTransaction(d) :
               IsContextMessage(q) /\ d.seq - 1 - q.seq <= OrphanGap)
        => d.ctx # NoContext
=============================================================================
