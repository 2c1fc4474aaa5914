------------------------------ MODULE JetStream ------------------------------
(***************************************************************************)
(* The NATS server as the worker relies on it: one stream with Limits      *)
(* retention and DiscardNew, and one durable pull consumer with AckPolicy  *)
(* All and DeliverPolicy All (core/src/nats.ts, worker/src/index.ts).  The *)
(* server's own code is not in this repository.                            *)
(*                                                                         *)
(*   - `log` is everything the stream ever accepted; sequence s is log[s]. *)
(*     Purging only moves firstSeq, so the history stays readable.         *)
(*   - a publish into a full stream is rejected, never an older message    *)
(*     evicted;                                                            *)
(*   - a delivered message is pending until it is acknowledged; when its   *)
(*     ack wait runs out it is delivered again, before any new message,    *)
(*     and the limit on pending messages stops only new deliveries;        *)
(*   - an acknowledgement of s acknowledges everything up to s;            *)
(*   - the consumer's filter skips the "idle" messages.                    *)
(*                                                                         *)
(* Simplifications: the stream is bounded by a number of messages, not by  *)
(* bytes; server and consumer state survive restarts (file storage).       *)
(***************************************************************************)
EXTENDS Integers, Sequences, FiniteSets, FiniteSetsExt, FetchedRecord

CONSTANTS
    StreamCap,      \* max_bytes of the stream, counted in messages
    MaxAckPending   \* the consumer's max_ack_pending

ASSUME JetStreamAssumption ==
    StreamCap \in Nat \ {0} /\ MaxAckPending \in Nat \ {0}

VARIABLES
    log,        \* the messages the stream accepted, by sequence
    firstSeq,   \* the first sequence still stored
    delivered,  \* the highest sequence delivered to the consumer
    pending,    \* delivered and not acknowledged
    expired,    \* pending messages that are due for redelivery
    ackFloor    \* every sequence up to here is acknowledged

jsVars == <<log, firstSeq, delivered, pending, expired, ackFloor>>

JSTypeOK ==
    /\ log \in Seq(Message)
    /\ firstSeq \in 1..(Len(log) + 1)
    /\ delivered \in 0..Len(log)
    /\ ackFloor \in 0..delivered
    /\ firstSeq <= ackFloor + 1
    /\ pending \subseteq (ackFloor + 1)..delivered
    /\ expired \subseteq pending

JSInit ==
    /\ log = <<>>
    /\ firstSeq = 1
    /\ delivered = 0
    /\ pending = {}
    /\ expired = {}
    /\ ackFloor = 0

\* The messages that the consumer's filter_subject lets through.
Matches(s) == log[s].kind # "idle"

HasRoom == Len(log) - firstSeq + 1 < StreamCap

JSPublish(m) ==
    /\ HasRoom
    /\ log' = Append(log, m)
    /\ UNCHANGED <<firstSeq, delivered, pending, expired, ackFloor>>

\* s is the next message that was never delivered.
IsNext(s) ==
    /\ s \in (delivered + 1)..Len(log)
    /\ Matches(s)
    /\ \A t \in (delivered + 1)..(s - 1) : ~Matches(t)

JSDeliverNew(s) ==
    /\ IsNext(s)
    /\ expired = {}
    /\ Cardinality(pending) < MaxAckPending
    /\ delivered' = s
    /\ pending' = pending \cup {s}
    /\ UNCHANGED <<log, firstSeq, expired, ackFloor>>

\* s is the first message that is due for redelivery.
JSRedeliver(s) ==
    /\ s \in expired
    /\ \A t \in expired : s <= t
    /\ expired' = expired \ {s}
    /\ UNCHANGED <<log, firstSeq, delivered, pending, ackFloor>>

\* The ack wait of a pending message runs out.
JSExpire(s) ==
    /\ s \in pending \ expired
    /\ expired' = expired \cup {s}
    /\ UNCHANGED <<log, firstSeq, delivered, pending, ackFloor>>

JSAckAll(s) ==
    /\ ackFloor' = IF s > ackFloor THEN s ELSE ackFloor
    /\ pending' = {t \in pending : t > s}
    /\ expired' = {t \in expired : t > s}
    /\ UNCHANGED <<log, firstSeq, delivered>>

\* Delete everything below sequence s.
JSPurge(s) ==
    /\ firstSeq' = IF s > firstSeq THEN s ELSE firstSeq
    /\ UNCHANGED <<log, delivered, pending, expired, ackFloor>>
=============================================================================
