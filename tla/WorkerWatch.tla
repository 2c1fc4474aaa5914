----------------------------- MODULE WorkerWatch -----------------------------
(***************************************************************************)
(* What a worker's process tells the outside about itself and the slots:   *)
(* composes SlotMonitor and HealthProbe, which share the clock and the     *)
(* life of the process (worker/src/index.ts), with a database server whose *)
(* slots come, go, lose and regain their consumers and fall behind.        *)
(*                                                                         *)
(* Time passes only while nothing that is due is put off; what may take    *)
(* arbitrarily long is a loop that hangs and a worker that is down.        *)
(***************************************************************************)
EXTENDS SlotMonitor, HealthProbe

CONSTANT MaxFailed   \* bound on the polls that fail in a row

ASSUME WatchAssumption == MaxFailed \in Nat

VARIABLES
    polledSince,   \* when the first poll was due, or Never
    failed,        \* polls that have failed since the last answer
    quietSince,    \* since when a slot has had no consumer, or Never
    awakeSince,    \* since when it has had one or been absent, or Never
    awakeAt,       \* when it last had been awake for longer than Unseen
    behindSince,   \* since when it has been behind, or Never
    warnedAt       \* when a poll of this process last warned of it, or Never

pollVars == <<polledSince, failed>>

slotVars == <<quietSince, awakeSince, awakeAt, behindSince>>

vars == <<now, server, monitorVars, healthVars, pollVars, slotVars, warnedAt>>

Times == Nat \cup {Never}

TypeOK ==
    /\ now \in Nat
    /\ MonitorTypeOK
    /\ HealthTypeOK
    /\ polledSince \in Times
    /\ failed \in 0..MaxFailed
    /\ {quietSince, awakeSince, behindSince, awakeAt, warnedAt}
           \subseteq [Slots -> Times]

\* A slot retains too much, or what it needs is gone or about to go.
Behind(rows, s) == s \in DOMAIN rows /\ (rows[s].over \/ rows[s].lost)

\* The longest time between two polls, and between two that are answered.
Period == SLOT_POLL_INTERVAL + QueryTime

Unseen == (1 + MaxFailed) * Period

Init ==
    /\ now = 0
    /\ server \in Rows
    /\ MonitorInit
    /\ HealthInit
    /\ polledSince = Never
    /\ failed = 0
    /\ LET since(P(_)) == [s \in Slots |-> IF P(s) THEN 0 ELSE Never]
       IN  /\ quietSince  = since(LAMBDA s : s \in Inactive(server))
           /\ awakeSince  = since(LAMBDA s : s \notin Inactive(server))
           /\ behindSince = since(LAMBDA s : Behind(server, s))
    /\ awakeAt = [s \in Slots |-> Never]
    /\ warnedAt = [s \in Slots |-> Never]

(***************************************************************************)
(* The database server.                                                    *)
(***************************************************************************)
\* Where a slot's backlog may go: without a consumer it only gets worse, but
\* a slot that lost what it needs retains nothing more.
NextBacklogs(row) ==
    {next \in Row : /\ next.active = row.active
                    /\ row.active \/ /\ row.over => next.over \/ next.lost
                                     /\ row.lost => next.lost}

\* What the rows may be next: a slot is made or dropped, its consumer comes
\* or goes, it falls behind, or its consumer catches up.
NextRows(s) ==
    IF s \notin DOMAIN server
    THEN {[n \in DOMAIN server \cup {s} |->
               IF n = s THEN [active |-> TRUE, over |-> FALSE, lost |-> FALSE]
                        ELSE server[n]]}
    ELSE {Restrict(server, DOMAIN server \ {s}),
          [server EXCEPT ![s].active = ~@]}
         \cup {[server EXCEPT ![s] = next] : next \in NextBacklogs(server[s])}

Since(times, s, holds) ==
    [times EXCEPT ![s] = IF ~holds THEN Never ELSE IF @ = Never THEN now ELSE @]

ServerChanges(s) ==
    /\ server' \in NextRows(s)
    /\ quietSince'  = Since(quietSince, s, s \in Inactive(server'))
    /\ awakeSince'  = Since(awakeSince, s, s \notin Inactive(server'))
    /\ behindSince' = Since(behindSince, s, Behind(server', s))
    /\ UNCHANGED <<now, monitorVars, healthVars, pollVars, awakeAt, warnedAt>>

(***************************************************************************)
(* The worker's process.                                                   *)
(***************************************************************************)
Boot ==
    /\ LoopBoots
    /\ UNCHANGED <<now, server, monitorVars, pollVars, slotVars, warnedAt>>

\* The migrations are done; the monitor starts just before the loop.
Serve ==
    /\ LoopStarts
    /\ MonitorStarts
    /\ polledSince' = now
    /\ UNCHANGED <<now, server, failed, slotVars, warnedAt>>

Turn ==
    /\ \/ \E received \in BOOLEAN : FetchEnds(received)
       \/ WorkEnds
       \/ LoopHangs
    /\ UNCHANGED <<now, server, monitorVars, pollVars, slotVars, warnedAt>>

\* Killed by its supervisor because of the probe, or for any other reason.
Stop ==
    /\ LoopStops
    /\ MonitorStops
    /\ polledSince' = Never
    /\ failed' = 0
    /\ warnedAt' = [s \in Slots |-> Never]
    /\ UNCHANGED <<now, server, slotVars>>

SendQuery ==
    /\ Poll
    /\ UNCHANGED <<now, server, healthVars, pollVars, slotVars, warnedAt>>

ObserveSlots ==
    /\ \E q \in queries : PollAnswered(q)
    /\ warnedAt' = [s \in Slots |->
           IF \E w \in warnings' : w[1] = s THEN now ELSE warnedAt[s]]
    /\ failed' = 0
    /\ UNCHANGED <<now, server, healthVars, polledSince, slotVars>>

QueryFails ==
    /\ failed < MaxFailed
    /\ failed' = failed + 1
    /\ \E q \in queries : PollFails(q)
    /\ UNCHANGED <<now, server, healthVars, polledSince, slotVars, warnedAt>>

Tick ==
    /\ MonitorPunctual
    /\ LoopPunctual
    /\ now' = now + 1
    /\ awakeAt' = [s \in Slots |->
           IF awakeSince[s] # Never /\ now' - awakeSince[s] > Unseen
           THEN now' ELSE awakeAt[s]]
    /\ UNCHANGED <<server, monitorVars, healthVars, pollVars,
                   quietSince, awakeSince, behindSince, warnedAt>>

Next ==
    \/ \E s \in Slots : ServerChanges(s)
    \/ Boot \/ Serve \/ Turn \/ Stop
    \/ SendQuery \/ ObserveSlots \/ QueryFails
    \/ Tick

Spec == Init /\ [][Next]_vars

(***************************************************************************)
(* Properties.                                                             *)
(***************************************************************************)
\* To see that a slot is inactive, to wait, and to see it again.
Deadline == Unseen + QueryTime + SLOT_INACTIVE_GRACE + Unseen

\* It has been so since time t, and the monitor has been polling all along
\* and had this much time.
LongSince(t, time) ==
    /\ t # Never /\ polledSince # Never
    /\ now - t > time /\ now - polledSince > time

\* A slot that nobody consumes is reported as inactive once the grace period
\* is over and for as long as it lasts, whatever the polls in between failed
\* and however late their answers came (replication-slot.ts:107-116).
AbandonedIsReported ==
    \A s \in Slots :
        LongSince(quietSince[s], Deadline)
            => <<s, "inactive">> \in warnings

\* A slot that has been behind for as long is reported for one reason or
\* another, even one whose consumer comes and goes, though the two checks
\* exclude each other (replication-slot.ts:107-128).
BackloggedIsReported ==
    \A s \in Slots :
        LongSince(behindSince[s], Deadline) => now - warnedAt[s] <= Deadline

\* A slot whose consumer was back for long enough to be seen is not reported
\* as inactive before a grace period has gone by after that: routine restarts
\* do not page (replication-slot.ts:108-112, 150-152).
RestartsAreNotReported ==
    \A s \in Slots :
        <<s, "inactive">> \in warnings /\ lastSlotReadAt = now
                                       /\ awakeAt[s] # Never
            => lastSlotReadAt - awakeAt[s] >= SLOT_INACTIVE_GRACE

\* An answer never replaces one to a later query (worker/src/index.ts:102-107).
SlotDataNeverGoesBack ==
    [][Up' => lastSlots' >= lastSlots]_vars

\* A worker that gets through its turns is never reported as stalled, busy or
\* idle; the probe restarts nothing but a loop that hangs
\* (worker/src/index.ts:24-25, ingestion.ts:107-109).
OnlyHangsLookStalled == Stalled => loop = "hung"
=============================================================================
