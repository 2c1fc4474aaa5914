--------------------------- MODULE MCStitchSession ---------------------------
(***************************************************************************)
(* Sessions of a few records on two subjects.                              *)
(***************************************************************************)
EXTENDS StitchingLoop

BothSubjects == {"first", "second"}

TwoTransactions == {1, 2}

StitchedKinds == {"change", "context", "heartbeat"}
=============================================================================
