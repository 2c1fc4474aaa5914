---------------------------- MODULE FetchedRecord ----------------------------
(***************************************************************************)
(* What the worker sees of one message of the stream, and the record it    *)
(* makes of it (core/src/fetched-record.ts).                               *)
(*                                                                         *)
(* A message is abstracted to three fields.  "tx" is the Postgres          *)
(* transaction id, "pos" the LSN (unique for each thing the source wrote,  *)
(* and the part of the audit table's unique key that tells rows apart),    *)
(* and "kind" everything the code branches on:                             *)
(*                                                                         *)
(*   "change"     an insert, update, delete or truncate worth a row        *)
(*   "noop"       an update that touched only ignored fields               *)
(*   "context"    a logical message with prefix _bemi                      *)
(*   "heartbeat"  a logical message with prefix _bemi_heartbeat            *)
(*   "foreign"    a logical message with any other non-empty prefix        *)
(*   "bare"       a logical message with the empty prefix                  *)
(*   "poison"     a message whose parsing throws: an operation the code    *)
(*                does not know, an unavailable TOAST value on both sides, *)
(*                a transaction id that is null                            *)
(*   "idle"       a message on a subject the consumer does not read        *)
(*                                                                         *)
(* The payload of a context message is abstracted to the position of that  *)
(* message, so the "ctx" field of a row names the message it came from.    *)
(***************************************************************************)
EXTENDS Naturals

Kinds == {"change", "noop", "context", "heartbeat",
          "foreign", "bare", "poison", "idle"}

Message == [kind : Kinds, tx : Nat, pos : Nat \ {0}]

\* The records of the given subjects.
RecordOf(subjects) ==
    [seq : Nat \ {0}, subject : subjects, tx : Nat, kind : Kinds,
     pos : Nat \ {0}, ctx : Nat]

\* The `{}` that a record carries when no context was attached to it.
NoContext == 0

\* The message is a logical message with a prefix that is not Bemi's.
IsIgnored(m) == m.kind = "foreign"

\* fromNatsMessage, or keying the buffer on the transaction id, throws.
Throws(m) == m.kind = "poison"

\* The record that fromNatsMessage builds of message m at stream sequence s.
FromNatsMessage(m, s, subject) ==
    [seq     |-> s,
     subject |-> subject,
     tx      |-> m.tx,
     kind    |-> m.kind,
     pos     |-> m.pos,
     ctx     |-> IF m.kind = "context" THEN m.pos ELSE NoContext]

IsContextMessage(r) == r.kind = "context"

IsHeartbeatMessage(r) == r.kind = "heartbeat"

\* Any operation other than MESSAGE: a "bare" record is none of the three.
IsChange(r) == r.kind \in {"change", "noop"}

SetContext(r, c) == [r EXCEPT !.ctx = c]
=============================================================================
