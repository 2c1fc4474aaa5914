----------------------------- MODULE MCDeployment -----------------------------
(***************************************************************************)
(* Two transactions for Deployment: one change, and one of three changes   *)
(* that does not fit into a stream of two messages.                        *)
(***************************************************************************)
EXTENDS Deployment

SmallThenLarge == {1, 4}
=============================================================================
