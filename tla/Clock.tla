--------------------------------- MODULE Clock --------------------------------
(***************************************************************************)
(* The time that Date.now and the timers of one worker read.               *)
(***************************************************************************)
EXTENDS Integers

VARIABLE now
=============================================================================
