---------------------------- MODULE MCWorkerWatch ----------------------------
(***************************************************************************)
(* One slot for WorkerWatch: slots do not depend on each other.            *)
(*                                                                         *)
(* The clock is not bounded.  Actions and properties only ever compare     *)
(* times with now, up to the longest time that any of them asks for, so    *)
(* states in which everything happened equally long ago are one (Ages).    *)
(* How long something has lasted counts only from the first poll on, and   *)
(* when the slot was last warned of only if it is behind.  What a query    *)
(* read counts by what its answer tells, and of the latest warnings only   *)
(* that of inactivity: no action reads any of them again.                  *)
(***************************************************************************)
EXTENDS WorkerWatch, FiniteSetsExt

CONSTANT s1

OneSlot == {s1}

Age(t, most) == IF t = Never THEN Never
                ELSE IF now - t > most THEN most + 1 ELSE now - t

AgeOf(times, most) == [s \in DOMAIN times |-> Age(times[s], most)]

SincePolled(times) ==
    [s \in Slots |-> IF polledSince = Never THEN times[s] = Never
                     ELSE IF times[s] = Never THEN Never
                     ELSE Age(Max({times[s], polledSince}), Deadline)]

Told(rows) ==
    << Inactive(rows),
       {s \in DOMAIN rows : RetentionIsHigh(rows, s) \/ rows[s].lost} >>

Ages ==
    << server, {s \in Slots : <<s, "inactive">> \in warnings}, loop, failed, polledSince = Never,
       {<<now - q.sent, Told(q.rows)>> : q \in queries},
       IF timer = Never THEN Never ELSE timer - now,
       Age(lastSlotReadAt, 0), Age(lastSlots, QueryTime),
       AgeOf(slotMonitorState, SLOT_INACTIVE_GRACE),
       IF loop \in {"down", "hung"} THEN 0 ELSE now - phaseAt,
       Age(lastTickAt, STALL_TIMEOUT - 1),
       SincePolled(quietSince), SincePolled(behindSince),
       AgeOf(awakeSince, Unseen), AgeOf(awakeAt, SLOT_INACTIVE_GRACE - 1),
       [s \in Slots |-> IF behindSince[s] = Never THEN Never
                        ELSE Age(warnedAt[s], Deadline)] >>
=============================================================================
