---------------------------- MODULE ContextEmitter ----------------------------
(***************************************************************************)
(* emitChangeContext (context/src/index.ts) up to the query it sends: what *)
(* it refuses, what it does not send, and the payload of what it sends.    *)
(*                                                                         *)
(* A context is an object or not (null, an array, or no object at all), and*)
(* has some of the Fields as its own keys: a Map or an instance without    *)
(* keys is an object of no fields.  Of a field's value only its fate in    *)
(* JSON.stringify matters:                                                 *)
(*                                                                         *)
(*   "value"      it is serialised, and counts for one unit of length      *)
(*   "undefined"  it is left out, which the caller is taken to mean        *)
(*   "function"   it would be left out (a function or a symbol)            *)
(*   "opaque"     JSON.stringify throws (a cycle, a BigInt)                *)
(*                                                                         *)
(* What a value loses inside itself is not told apart: a Set, which is     *)
(* written as {}, is a value like any other.                               *)
(***************************************************************************)
EXTENDS Naturals, FiniteSets

CONSTANTS
    Fields,     \* the names of fields
    MaxBytes    \* the maxBytes option, in serialised fields

ASSUME EmitterAssumption == IsFiniteSet(Fields) /\ MaxBytes \in Nat

Contexts ==
    [object : BOOLEAN,
     fields : UNION {[S -> {"value", "undefined", "function", "opaque"}] :
                        S \in SUBSET Fields}]

FieldsThatAre(c, kind) == {f \in DOMAIN c.fields : c.fields[f] = kind}

\* The fields that JSON.stringify writes.
Payload(c) == FieldsThatAre(c, "value")

DroppedFields(c) == FieldsThatAre(c, "function")

\* Wrong: a function is left out without a word, as JSON.stringify does it.
RejectsUnlessDropped(c) ==
    \/ ~c.object
    \/ FieldsThatAre(c, "opaque") # {}
    \/ Cardinality(Payload(c)) > MaxBytes

\* emitChangeContext throws, before anything is sent.
Rejects(c) ==
    \/ ~c.object
    \/ FieldsThatAre(c, "opaque") # {}
    \/ DroppedFields(c) # {}
    \/ Cardinality(Payload(c)) > MaxBytes

\* Wrong: the object has keys, so there is something to send.
EmitsKeys(c) == ~Rejects(c) /\ DOMAIN c.fields # {}

\* The query is sent; otherwise the call returns and nothing happens.
Emits(c) == ~Rejects(c) /\ Payload(c) # {}
=============================================================================
