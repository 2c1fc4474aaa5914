---------------------------- MODULE CaptureFilter ----------------------------
(***************************************************************************)
(* The images of a changed row on their way into the audit table:          *)
(* parseDebeziumData's repair of values that Debezium could not see        *)
(* (core/src/fetched-record.ts) and isEmptyChange on the result            *)
(* (core/src/capture-filter.ts).                                           *)
(*                                                                         *)
(* An image is a function from some columns to values, and {} is the       *)
(* function with no columns.  The primary key is left out of the images.   *)
(* A scalar that is unavailable beside a before-image makes the message    *)
(* one whose parsing throws, which is module FetchedRecord's "poison".     *)
(***************************************************************************)
EXTENDS FiniteSets

CONSTANTS
    Columns,        \* the columns of the tracked table
    IgnoreFields    \* BEMI_IGNORE_FIELDS

ASSUME FilterAssumption == IsFiniteSet(Columns) /\ IgnoreFields \subseteq Columns

\* A TOASTed value that the update did not touch is missing from the WAL; for
\* an array Debezium sends an array of the placeholder.  No column holds it.
Unavailable == "__bemi_unavailable_value"

NoImage == [c \in {} |-> Unavailable]

\* image[c] as JavaScript reads it: undefined for a column it does not have.
Undefined == "undefined"

ValueAt(image, c) == IF c \in DOMAIN image THEN image[c] ELSE Undefined

(***************************************************************************)
(* parseDebeziumData: only the columns of the before-image are looked at.  *)
(***************************************************************************)
\* Wrong: what is there is taken as it is.
AsSent(image, other) == image

Repaired(image, other) ==
    [c \in DOMAIN image |->
        IF c \in DOMAIN other /\ image[c] = Unavailable
        THEN other[c] ELSE image[c]]

(***************************************************************************)
(* isEmptyChange.                                                          *)
(***************************************************************************)
Compared(r) == (DOMAIN r.before \union DOMAIN r.after) \ IgnoreFields

\* Wrong: what is absent from the before-image did not change.
SameWhereBefore(r) ==
    /\ IgnoreFields # {}
    /\ r.operation = "UPDATE"
    /\ \A c \in DOMAIN r.before \ IgnoreFields : r.before[c] = ValueAt(r.after, c)

IsEmptyChange(r) ==
    /\ IgnoreFields # {}
    /\ r.operation = "UPDATE"
    /\ r.before # NoImage
    /\ \A c \in Compared(r) : ValueAt(r.before, c) = ValueAt(r.after, c)

FilterEmptyChanges(recs) == {r \in recs : ~IsEmptyChange(r)}
=============================================================================
