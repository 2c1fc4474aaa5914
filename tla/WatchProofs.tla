------------------------------ MODULE WatchProofs ------------------------------
(***************************************************************************)
(* Theorems about WorkerWatch.  The invariant says where a worker is in    *)
(* its life: what may be under way, how long ago the phase began, and how  *)
(* long before that the latest tick was.                                   *)
(***************************************************************************)
EXTENDS WorkerWatch, FiniteSetTheorems, TLAPS

-----------------------------------------------------------------------------
(* The monitor.  At most one query is under way, and then no poll is due;   *)
(* what it will bring is no older than what is there.                       *)

OneAtATime ==
    /\ timer # Never => queries = {}
    /\ \A p, q \in queries : p = q
    /\ loop \in {"down", "starting"} => timer = Never /\ queries = {}

NoneOlder ==
    /\ lastSlotReadAt <= now
    /\ \A q \in queries : lastSlots <= q.sent /\ q.sent <= now

(* The loop.  A phase ends in time, and the tick was when it began, or at   *)
(* the beginning of the phase before it.                                    *)

InTime ==
    /\ loop \in {"starting", "working"} =>
           phaseAt <= lastTickAt /\ now <= phaseAt + MaxWork
    /\ loop = "fetching" =>
           phaseAt <= lastTickAt + MaxWork /\ now <= phaseAt + FETCH_EXPIRES

WatchInv == TypeOK /\ OneAtATime /\ NoneOlder /\ InTime

USE SlotMonitorAssumption, HealthAssumption, WatchAssumption

LEMMA WatchInit == Init => WatchInv
<1> SUFFICES ASSUME Init PROVE WatchInv
    OBVIOUS
<1> USE DEF Init, MonitorInit, HealthInit
<1>1. MonitorTypeOK
  <2>1. Cardinality(queries) <= 1
    BY FS_EmptySet
  <2> QED
    BY <2>1 DEF MonitorTypeOK, Never
<1>2. HealthTypeOK
  BY DEF HealthTypeOK
<1>3. TypeOK
  BY <1>1, <1>2 DEF TypeOK, Times, Never
<1>4. OneAtATime /\ NoneOlder /\ InTime
  BY DEF OneAtATime, NoneOlder, InTime
<1> QED
  BY <1>3, <1>4 DEF WatchInv
-----------------------------------------------------------------------------
(* One lemma for each action that moves one of the parts, and one for the   *)
(* rest.                                                                    *)

LEMMA RestrictedRows ==
    ASSUME NEW s \in Slots, server \in Rows, NEW rows \in NextRows(s)
    PROVE  rows \in Rows
<1>1. PICK S \in SUBSET Slots : server \in [S -> Row]
  BY DEF Rows
<1>2. [active |-> TRUE, over |-> FALSE, lost |-> FALSE] \in Row
  BY DEF Row
<1>3. CASE s \notin DOMAIN server
  <2>1. rows \in [S \cup {s} -> Row]
    BY <1>1, <1>2, <1>3 DEF NextRows
  <2> QED
    BY <2>1 DEF Rows
<1>4. CASE s \in DOMAIN server
  <2>1. CASE rows = Restrict(server, DOMAIN server \ {s})
    <3>1. rows \in [S \ {s} -> Row]
      BY <1>1, <2>1 DEF Restrict
    <3> QED
      BY <3>1 DEF Rows
  <2>2. CASE rows = [server EXCEPT ![s].active = ~server[s].active]
    <3>1. [server[s] EXCEPT !.active = ~server[s].active] \in Row
      BY <1>1, <1>4 DEF Row
    <3>2. rows \in [S -> Row]
      BY <1>1, <1>4, <2>2, <3>1
    <3> QED
      BY <3>2 DEF Rows
  <2>3. CASE \E next \in Row : rows = [server EXCEPT ![s] = next]
    <3>1. rows \in [S -> Row]
      BY <1>1, <1>4, <2>3
    <3> QED
      BY <3>1 DEF Rows
  <2> QED
    BY <1>4, <2>1, <2>2, <2>3 DEF NextRows, NextBacklogs
<1> QED
  BY <1>3, <1>4

LEMMA SinceType ==
    ASSUME NEW times \in [Slots -> Times], NEW s, NEW holds, now \in Nat
    PROVE  Since(times, s, holds) \in [Slots -> Times]
  BY DEF Since, Times, Never

LEMMA ServerChangesStep ==
    ASSUME WatchInv, NEW s \in Slots, ServerChanges(s)
    PROVE  WatchInv'
<1> USE DEF WatchInv, ServerChanges, vars, monitorVars, healthVars, pollVars
<1>1. server' \in Rows
  BY RestrictedRows DEF TypeOK, MonitorTypeOK
<1>2. /\ quietSince' \in [Slots -> Times]
      /\ awakeSince' \in [Slots -> Times]
      /\ behindSince' \in [Slots -> Times]
  BY SinceType DEF TypeOK
<1>3. TypeOK'
  BY <1>1, <1>2 DEF TypeOK, MonitorTypeOK, HealthTypeOK
<1>4. OneAtATime' /\ NoneOlder' /\ InTime'
  BY DEF OneAtATime, NoneOlder, InTime
<1> QED
  BY <1>3, <1>4

LEMMA LoopStep ==
    ASSUME WatchInv, Boot \/ Serve \/ Turn
    PROVE  WatchInv'
<1> USE DEF WatchInv, pollVars, slotVars, monitorVars, TypeOK, MonitorTypeOK,
            HealthTypeOK, OneAtATime, NoneOlder, InTime, Enter
<1>1. CASE Boot
  BY <1>1 DEF Boot, LoopBoots
<1>2. CASE Serve
  BY <1>2 DEF Serve, LoopStarts, MonitorStarts, Times
<1>3. CASE Turn
  <2>1. CASE \E received \in BOOLEAN : FetchEnds(received)
    BY <1>3, <2>1 DEF Turn, FetchEnds, OnTick
  <2>2. CASE WorkEnds
    BY <1>3, <2>2 DEF Turn, WorkEnds
  <2>3. CASE LoopHangs
    BY <1>3, <2>3 DEF Turn, LoopHangs
  <2> QED
    BY <1>3, <2>1, <2>2, <2>3 DEF Turn
<1> QED
  BY <1>1, <1>2, <1>3

LEMMA StopStep == ASSUME WatchInv, Stop PROVE WatchInv'
<1> USE DEF WatchInv, Stop, LoopStops, MonitorStops, slotVars
<1>1. Cardinality({}) <= 1
  BY FS_EmptySet
<1>2. TypeOK'
  BY <1>1 DEF TypeOK, MonitorTypeOK, HealthTypeOK, Times, Never
<1>3. OneAtATime' /\ NoneOlder' /\ InTime'
  BY DEF OneAtATime, NoneOlder, InTime, TypeOK
<1> QED
  BY <1>2, <1>3

LEMMA SendQueryStep == ASSUME WatchInv, SendQuery PROVE WatchInv'
<1> DEFINE query == [sent |-> now, rows |-> server]
<1> USE DEF WatchInv, SendQuery, Poll, TimerWhilePolling, healthVars, pollVars,
            slotVars
<1>1. timer # Never
  BY DEF TypeOK, Never
<1>2. queries' = {query}
  BY <1>1 DEF OneAtATime
<1>3. query \in Query
  BY DEF Query, TypeOK, MonitorTypeOK
<1>4. Cardinality({query}) = 1
  BY FS_Singleton
<1>5. TypeOK'
  <2>1. queries' \subseteq Query /\ Cardinality(queries') <= 1
    BY <1>2, <1>3, <1>4
  <2>2. MonitorTypeOK'
    BY <2>1 DEF TypeOK, MonitorTypeOK
  <2> QED
    BY <2>2 DEF TypeOK, HealthTypeOK
<1>6. OneAtATime'
  BY <1>1, <1>2 DEF OneAtATime
<1>7. NoneOlder' /\ InTime'
  BY <1>2 DEF NoneOlder, InTime, TypeOK, MonitorTypeOK
<1> QED
  BY <1>5, <1>6, <1>7

\* Either end of a query leaves no other, and the next poll is to come.
LEMMA QueryEnds ==
    ASSUME WatchInv, NEW q \in queries, queries' = queries \ {q}, ScheduleNext
    PROVE  /\ queries' = {}
           /\ Cardinality(queries') <= 1
           /\ timer' \in Nat \cup {Never}
           /\ loop \notin {"down", "starting"}
<1>1. queries' = {}
  BY DEF WatchInv, OneAtATime
<1>2. Cardinality({}) <= 1
  BY FS_EmptySet
<1> QED
  BY <1>1, <1>2 DEF WatchInv, OneAtATime, TypeOK, MonitorTypeOK, ScheduleNext

LEMMA ObserveSlotsStep == ASSUME WatchInv, ObserveSlots PROVE WatchInv'
<1> USE DEF healthVars, slotVars
<1>1. PICK q \in queries : PollAnswered(q)
  BY DEF ObserveSlots, PollAnswered
<1>2. /\ queries' = {}
      /\ Cardinality(queries') <= 1
      /\ timer' \in Nat \cup {Never}
      /\ loop \notin {"down", "starting"}
  BY <1>1, QueryEnds DEF PollAnswered
<1>3. q.rows \in Rows /\ q.sent \in Nat
  BY DEF WatchInv, TypeOK, MonitorTypeOK, Query
<1>4. Inactive(q.rows) \subseteq Slots /\ DOMAIN q.rows \subseteq Slots
  BY <1>3 DEF Inactive, Rows
<1>5. /\ DOMAIN slotMonitorState' \subseteq Slots
      /\ slotMonitorState' \in [DOMAIN slotMonitorState' -> 0..now]
  BY <1>1, <1>4 DEF PollAnswered, ObservedState, WatchInv, TypeOK,
                    MonitorTypeOK, NoneOlder
<1>6. warnings' \subseteq Warning
  BY <1>1, <1>4 DEF PollAnswered, ObservedWarnings, Warning
<1>7. warnedAt' \in [Slots -> Times]
  BY DEF ObserveSlots, WatchInv, TypeOK, Times
<1>8. lastSlots' <= now /\ lastSlots' = q.sent /\ lastSlotReadAt' = now
  BY <1>1 DEF PollAnswered, WatchInv, NoneOlder
<1>9. TypeOK'
  BY <1>2, <1>3, <1>5, <1>6, <1>7, <1>8
     DEF ObserveSlots, PollAnswered, WatchInv, TypeOK, MonitorTypeOK, HealthTypeOK
<1>10. OneAtATime' /\ NoneOlder' /\ InTime'
  BY <1>2, <1>8 DEF ObserveSlots, WatchInv, OneAtATime, NoneOlder, InTime, TypeOK
<1> QED
  BY <1>9, <1>10 DEF WatchInv

LEMMA QueryFailsStep == ASSUME WatchInv, QueryFails PROVE WatchInv'
<1> USE DEF healthVars, slotVars
<1>1. PICK q \in queries : PollFails(q)
  BY DEF QueryFails, PollFails
<1>2. /\ queries' = {}
      /\ Cardinality(queries') <= 1
      /\ timer' \in Nat \cup {Never}
      /\ loop \notin {"down", "starting"}
  BY <1>1, QueryEnds DEF PollFails
<1>3. TypeOK'
  BY <1>1, <1>2 DEF QueryFails, PollFails, WatchInv, TypeOK, MonitorTypeOK,
                    HealthTypeOK
<1>4. OneAtATime' /\ NoneOlder' /\ InTime'
  BY <1>1, <1>2 DEF QueryFails, PollFails, WatchInv, OneAtATime, NoneOlder,
                    InTime, TypeOK
<1> QED
  BY <1>3, <1>4 DEF WatchInv

LEMMA TickStep == ASSUME WatchInv, Tick PROVE WatchInv'
<1> USE DEF WatchInv, Tick, monitorVars, healthVars, pollVars
<1>1. awakeAt' \in [Slots -> Times]
  BY DEF TypeOK, Times
<1>2. TypeOK'
  BY <1>1 DEF TypeOK, MonitorTypeOK, HealthTypeOK
<1>3. InTime'
  BY DEF InTime, LoopPunctual, TypeOK, HealthTypeOK
<1>4. OneAtATime' /\ NoneOlder'
  BY DEF OneAtATime, NoneOlder, TypeOK, MonitorTypeOK, Query
<1> QED
  BY <1>2, <1>3, <1>4

LEMMA WatchNext == ASSUME WatchInv, [Next]_vars PROVE WatchInv'
<1>1. CASE UNCHANGED vars
  BY <1>1 DEF vars, monitorVars, healthVars, pollVars, slotVars, WatchInv, TypeOK,
              MonitorTypeOK, HealthTypeOK, OneAtATime, NoneOlder, InTime
<1>2. CASE Next
  BY <1>2, ServerChangesStep, LoopStep, StopStep, SendQueryStep,
     ObserveSlotsStep, QueryFailsStep, TickStep DEF Next
<1> QED
  BY <1>1, <1>2

LEMMA WatchInvariant == Spec => []WatchInv
  BY WatchInit, WatchNext, PTL DEF Spec

-----------------------------------------------------------------------------
\* Every variable of the monitor and the probe keeps to its type, and at most
\* one query is under way at a time.
THEOREM WatchTypeCorrect == Spec => []TypeOK
<1>1. WatchInv => TypeOK
  BY DEF WatchInv
<1> QED
  BY <1>1, WatchInvariant, PTL

\* The probe answers 503 for nothing but a loop that hangs, for all lengths of
\* a fetch and of a turn that together stay below STALL_TIMEOUT.
THEOREM ProbeReportsOnlyHangs == Spec => []OnlyHangsLookStalled
<1>1. WatchInv => OnlyHangsLookStalled
  BY DEF WatchInv, InTime, TypeOK, HealthTypeOK, OnlyHangsLookStalled, Stalled, Up
<1> QED
  BY <1>1, WatchInvariant, PTL

\* As polls schedule each other, slot data is never replaced by older.
THEOREM SlotDataIsMonotonic == Spec => SlotDataNeverGoesBack
<1>1. ASSUME WatchInv, [Next]_vars
      PROVE  [Up' => lastSlots' >= lastSlots]_vars
  <2> USE DEF WatchInv, TypeOK, MonitorTypeOK
  <2>1. CASE UNCHANGED lastSlots
    BY <1>1, <2>1
  <2>2. CASE ObserveSlots
    BY <1>1, <2>2 DEF ObserveSlots, PollAnswered, NoneOlder, Query
  <2>3. CASE Stop
    BY <2>3 DEF Stop, LoopStops, Up
  <2>4. CASE QueryFails
    BY <1>1, <2>4 DEF QueryFails, PollFails
  <2>5. CASE UNCHANGED vars
    BY <2>5
  <2>6. CASE Boot \/ Turn \/ Tick \/ SendQuery \/ Serve \/ \E s \in Slots : ServerChanges(s)
    BY <1>1, <2>6 DEF Boot, Turn, Tick, SendQuery, Poll, Serve, MonitorStarts,
                ServerChanges, monitorVars
  <2> QED
    BY <1>1, <2>1, <2>2, <2>3, <2>4, <2>5, <2>6 DEF Next
<1> QED
  BY <1>1, WatchInvariant, PTL DEF Spec, SlotDataNeverGoesBack

-----------------------------------------------------------------------------
(***************************************************************************)
(* The deadlines.  Time is measured in periods: a poll and the wait for it *)
(* take at most one, and MaxFailed of them may fail before one is answered.*)
(***************************************************************************)
Pace(n) == n * Period

\* The process has no answer yet.
NoAnswer ==
    /\ lastSlotReadAt = 0 /\ lastSlots = 0
    /\ DOMAIN slotMonitorState = {} /\ warnings = {}

\* The poll that is due or under way is in time, counted from `start`.
InPace(start) ==
    /\ timer # Never =>
           now <= timer /\ timer <= start + Pace(failed) + SLOT_POLL_INTERVAL
    /\ \A q \in queries :
           /\ now <= q.sent + QueryTime
           /\ q.sent <= start + Pace(failed) + SLOT_POLL_INTERVAL
    /\ timer # Never \/ queries # {}

\* The next poll comes after the latest answer.
AnswerIsPast ==
    /\ polledSince <= lastSlots
    /\ timer # Never => lastSlotReadAt < timer
    /\ \A q \in queries : lastSlotReadAt < q.sent

Polling ==
    /\ polledSince = Never =>
           NoAnswer /\ queries = {} /\ timer = Never /\ failed = 0
    /\ loop \in {"down", "starting"} => polledSince = Never
    /\ polledSince # Never =>
           /\ polledSince <= now
           /\ \/ NoAnswer /\ InPace(polledSince - SLOT_POLL_INTERVAL)
              \/ AnswerIsPast /\ InPace(lastSlotReadAt)
    /\ lastSlotReadAt <= lastSlots + QueryTime
    /\ timer # Never => polledSince <= timer
    /\ \A q \in queries : polledSince <= q.sent

-----------------------------------------------------------------------------
(* What the database server, a query and an answer say about one another.  *)
(* Something that began before the rows were read shows in the rows.       *)

SlotTimes ==
    \A s \in Slots :
        /\ quietSince[s] # Never => s \in Inactive(server)
        /\ awakeSince[s] # Never => s \notin Inactive(server)
        /\ behindSince[s] # Never => Behind(server, s)
        /\ quietSince[s] <= now /\ awakeSince[s] <= now /\ behindSince[s] <= now
        /\ awakeAt[s] <= now /\ warnedAt[s] <= now

Before(times, s, t) == times[s] # Never /\ times[s] < t

QueriesTell ==
    \A q \in queries, s \in Slots :
        /\ Before(quietSince, s, q.sent) => s \in Inactive(q.rows)
        /\ Before(awakeSince, s, q.sent) => s \notin Inactive(q.rows)
        /\ Before(behindSince, s, q.sent) => Behind(q.rows, s)

AnswersTell ==
    \A s \in Slots :
        /\ Before(quietSince, s, lastSlots) => s \in DOMAIN slotMonitorState
        /\ Before(awakeSince, s, lastSlots) => s \notin DOMAIN slotMonitorState
        /\ Before(behindSince, s, lastSlots) =>
               s \in DOMAIN slotMonitorState \/ warnedAt[s] = lastSlotReadAt

Overdue(s) ==
    /\ s \in DOMAIN slotMonitorState
    /\ lastSlotReadAt - slotMonitorState[s] >= SLOT_INACTIVE_GRACE

WarningsTell ==
    \A s \in Slots :
        /\ <<s, "inactive">> \in warnings <=> Overdue(s)
        /\ Overdue(s) => warnedAt[s] = lastSlotReadAt

(* When the timer of an inactive slot can have been started at the latest, *)
(* and that a slot which was awake for longer than polls leave unseen has a *)
(* query under way that saw it, and that may not fail.                     *)

TimerStarts ==
    \A s \in DOMAIN slotMonitorState :
        /\ quietSince[s] # Never =>
               \/ slotMonitorState[s] <= quietSince[s] + QueryTime + Unseen
               \/ slotMonitorState[s] <= polledSince + Unseen
        /\ behindSince[s] # Never =>
               \/ slotMonitorState[s] <= behindSince[s] + QueryTime + Unseen
               \/ slotMonitorState[s] <= polledSince + Unseen
               \/ slotMonitorState[s] <= warnedAt[s] + Unseen
        /\ awakeAt[s] # Never /\ slotMonitorState[s] < awakeAt[s] =>
               /\ failed = MaxFailed
               /\ \E q \in queries : s \notin Inactive(q.rows)

DeadlineInv ==
    Polling /\ SlotTimes /\ QueriesTell /\ AnswersTell /\ WarningsTell /\ TimerStarts

-----------------------------------------------------------------------------
(* Arithmetic of periods, and how far apart answers are.                   *)

LEMMA PaceFacts ==
    /\ Period \in Nat /\ Unseen \in Nat /\ Period <= Unseen
    /\ Pace(0) = 0
    /\ \A n \in Nat : Pace(n) \in Nat /\ Pace(n + 1) = Pace(n) + Period
    /\ \A n \in 0..MaxFailed : Pace(n) + Period <= Unseen
    /\ \A n \in 0..MaxFailed : n < MaxFailed => Pace(n) + Period + Period <= Unseen
<1>1. Period \in Nat
  BY DEF Period
<1>2. \A m, n, p \in Nat : m <= n => m * p <= n * p
  OBVIOUS
<1>3. \A n, p \in Nat : (n + 1) * p = n * p + p /\ n * p \in Nat /\ 0 * p = 0
  OBVIOUS
<1>4. \A n \in Nat : Pace(n) \in Nat /\ Pace(n + 1) = Pace(n) + Period
  BY <1>1, <1>3 DEF Pace
<1>5. Unseen = Pace(MaxFailed) + Period
  BY <1>1, <1>3 DEF Unseen, Pace
<1>6. \A n \in 0..MaxFailed : Pace(n) <= Pace(MaxFailed)
  BY <1>1, <1>2 DEF Pace
<1>7. \A n \in 0..MaxFailed : n < MaxFailed => Pace(n + 1) <= Pace(MaxFailed)
  BY <1>6
<1>8. Pace(0) = 0
  BY <1>1, <1>3 DEF Pace
<1> QED
  BY <1>1, <1>4, <1>5, <1>6, <1>7, <1>8

\* From one answer to the next it takes no longer than Unseen.
LEMMA PollsInTime ==
    ASSUME WatchInv, Polling, polledSince # Never
    PROVE  \/ NoAnswer /\ now <= polledSince - SLOT_POLL_INTERVAL + Unseen
           \/ AnswerIsPast /\ now <= lastSlotReadAt + Unseen
<1>1. /\ now \in Nat /\ polledSince \in Nat /\ lastSlotReadAt \in Nat
      /\ timer \in Nat \cup {Never} /\ failed \in 0..MaxFailed
      /\ \A q \in queries : q.sent \in Nat
  BY DEF WatchInv, TypeOK, MonitorTypeOK, Times, Query
<1>2. /\ Pace(failed) \in Nat /\ Unseen \in Nat
      /\ Pace(failed) + SLOT_POLL_INTERVAL + QueryTime <= Unseen
  BY <1>1, PaceFacts DEF Period
<1>3. ASSUME NEW start \in Int, InPace(start)
      PROVE  now <= start + Unseen
  BY <1>1, <1>2, <1>3 DEF InPace
<1> QED
  BY <1>1, <1>3 DEF Polling

-----------------------------------------------------------------------------
LEMMA DeadlineInit == Init => DeadlineInv
<1> SUFFICES ASSUME Init PROVE DeadlineInv
  OBVIOUS
<1> USE DEF Init, MonitorInit, HealthInit
<1>1. DOMAIN slotMonitorState = {}
  OBVIOUS
<1>2. Polling
  BY <1>1 DEF Polling, NoAnswer
<1>3. SlotTimes
  BY DEF SlotTimes, Behind, Never
<1>4. QueriesTell /\ TimerStarts /\ WarningsTell
  BY <1>1 DEF QueriesTell, TimerStarts, WarningsTell, Overdue
<1>5. AnswersTell
  BY DEF AnswersTell, Before, Never
<1> QED
  BY <1>2, <1>3, <1>4, <1>5 DEF DeadlineInv

LEMMA NextRowsLeave ==
    ASSUME server \in Rows, NEW s \in Slots, NEW rows \in NextRows(s),
           NEW t \in Slots \ {s}
    PROVE  /\ t \in DOMAIN rows <=> t \in DOMAIN server
           /\ t \in DOMAIN server => rows[t] = server[t]
<1>1. PICK S \in SUBSET Slots : server \in [S -> Row]
  BY DEF Rows
<1>2. CASE s \notin DOMAIN server
  BY <1>1, <1>2 DEF NextRows
<1>3. CASE s \in DOMAIN server
  <2>1. CASE rows = Restrict(server, DOMAIN server \ {s})
    BY <1>1, <2>1 DEF Restrict
  <2>2. CASE rows = [server EXCEPT ![s].active = ~server[s].active]
    BY <1>1, <2>2
  <2>3. CASE \E next \in Row : rows = [server EXCEPT ![s] = next]
    BY <1>1, <2>3
  <2> QED
    BY <1>3, <2>1, <2>2, <2>3 DEF NextRows, NextBacklogs
<1> QED
  BY <1>2, <1>3

\* What begins now began after every query that is under way.
LEMMA ServerChangesKeeps ==
    ASSUME WatchInv, DeadlineInv, NEW s \in Slots, ServerChanges(s)
    PROVE  DeadlineInv'
<1> USE DEF DeadlineInv
<1>1. /\ UNCHANGED <<now, monitorVars, healthVars, pollVars, awakeAt, warnedAt>>
      /\ server' \in NextRows(s)
  BY DEF ServerChanges
<1>2. /\ server \in Rows /\ now \in Nat /\ failed \in 0..MaxFailed
      /\ quietSince \in [Slots -> Times] /\ awakeSince \in [Slots -> Times]
      /\ behindSince \in [Slots -> Times]
      /\ lastSlots \in Nat /\ lastSlotReadAt \in Nat /\ lastSlots <= now
      /\ lastSlotReadAt <= now
      /\ \A q \in queries : q.sent \in Nat /\ q.sent <= now
      /\ DOMAIN slotMonitorState \subseteq Slots
      /\ \A t \in DOMAIN slotMonitorState :
             slotMonitorState[t] \in Nat /\ slotMonitorState[t] <= now
  BY DEF WatchInv, TypeOK, MonitorTypeOK, NoneOlder, Query
<1>3. \A t \in Slots \ {s} :
          /\ t \in Inactive(server') <=> t \in Inactive(server)
          /\ Behind(server', t) <=> Behind(server, t)
          /\ quietSince'[t] = quietSince[t] /\ awakeSince'[t] = awakeSince[t]
          /\ behindSince'[t] = behindSince[t]
  <2>1. SUFFICES ASSUME NEW t \in Slots \ {s}
        PROVE  /\ t \in Inactive(server') <=> t \in Inactive(server)
               /\ Behind(server', t) <=> Behind(server, t)
               /\ quietSince'[t] = quietSince[t] /\ awakeSince'[t] = awakeSince[t]
               /\ behindSince'[t] = behindSince[t]
    OBVIOUS
  <2>2. /\ t \in DOMAIN server' <=> t \in DOMAIN server
        /\ t \in DOMAIN server => server'[t] = server[t]
    BY <1>1, <1>2, NextRowsLeave
  <2>3. /\ quietSince'[t] = quietSince[t] /\ awakeSince'[t] = awakeSince[t]
        /\ behindSince'[t] = behindSince[t]
    BY <1>2 DEF ServerChanges, Since
  <2> QED
    BY <2>2, <2>3 DEF Inactive, Behind
<1>4. /\ quietSince'[s] # Never => s \in Inactive(server')
      /\ awakeSince'[s] # Never => s \notin Inactive(server')
      /\ behindSince'[s] # Never => Behind(server', s)
      /\ quietSince'[s] \in {quietSince[s], now, Never}
      /\ awakeSince'[s] \in {awakeSince[s], now, Never}
      /\ behindSince'[s] \in {behindSince[s], now, Never}
  BY <1>2 DEF ServerChanges, Since, Behind
<1>5. \A t \in Slots :
          /\ quietSince'[t] \in {quietSince[t], now, Never}
          /\ awakeSince'[t] \in {awakeSince[t], now, Never}
          /\ behindSince'[t] \in {behindSince[t], now, Never}
  BY <1>3, <1>4
<1>6. Polling'
  BY <1>1 DEF Polling, NoAnswer, InPace, AnswerIsPast, monitorVars, healthVars, pollVars
<1>7. SlotTimes'
  <2> SUFFICES ASSUME NEW t \in Slots
               PROVE  /\ quietSince'[t] # Never => t \in Inactive(server')
                      /\ awakeSince'[t] # Never => t \notin Inactive(server')
                      /\ behindSince'[t] # Never => Behind(server', t)
                      /\ quietSince'[t] <= now /\ awakeSince'[t] <= now
                      /\ behindSince'[t] <= now
                      /\ awakeAt[t] <= now /\ warnedAt[t] <= now
    BY <1>1 DEF SlotTimes
  <2>1. quietSince'[t] <= now /\ awakeSince'[t] <= now /\ behindSince'[t] <= now
    BY <1>2, <1>5 DEF SlotTimes, Never
  <2> QED
    BY <1>3, <1>4, <2>1 DEF SlotTimes
<1>8. \A t \in Slots, at \in Nat :
          /\ at <= now /\ Before(quietSince', t, at) => Before(quietSince, t, at)
          /\ at <= now /\ Before(awakeSince', t, at) => Before(awakeSince, t, at)
          /\ at <= now /\ Before(behindSince', t, at) => Before(behindSince, t, at)
  BY <1>2, <1>5 DEF Before
<1>9. QueriesTell'
  BY <1>1, <1>2, <1>8 DEF QueriesTell, monitorVars, Before
<1>10. AnswersTell'
  BY <1>1, <1>2, <1>8 DEF AnswersTell, monitorVars, Before
<1>11. WarningsTell'
  BY <1>1 DEF WarningsTell, Overdue, monitorVars
<1>12. TimerStarts'
  <2> SUFFICES ASSUME NEW t \in DOMAIN slotMonitorState
      PROVE  /\ quietSince'[t] # Never =>
                    \/ slotMonitorState[t] <= quietSince'[t] + QueryTime + Unseen
                    \/ slotMonitorState[t] <= polledSince + Unseen
             /\ behindSince'[t] # Never =>
                    \/ slotMonitorState[t] <= behindSince'[t] + QueryTime + Unseen
                    \/ slotMonitorState[t] <= polledSince + Unseen
                    \/ slotMonitorState[t] <= warnedAt[t] + Unseen
    BY <1>1 DEF TimerStarts, monitorVars, pollVars
  <2>1. t \in Slots /\ slotMonitorState[t] <= now + QueryTime + Unseen
    BY <1>2, PaceFacts
  <2> QED
    BY <1>5, <2>1 DEF TimerStarts
<1> QED
  BY <1>6, <1>7, <1>9, <1>10, <1>11, <1>12

LEMMA LoopKeeps ==
    ASSUME WatchInv, DeadlineInv, Boot \/ Turn
    PROVE  DeadlineInv'
<1> USE DEF DeadlineInv
<1>1. /\ UNCHANGED <<now, server, monitorVars, pollVars, slotVars, warnedAt>>
      /\ loop' \in {"down", "starting"} => loop \in {"down", "starting"}
  BY DEF Boot, Turn, LoopBoots, FetchEnds, WorkEnds, LoopHangs, Enter
<1>2. Polling'
  BY <1>1 DEF Polling, NoAnswer, InPace, AnswerIsPast, monitorVars, pollVars
<1>3. SlotTimes' /\ QueriesTell' /\ AnswersTell'
  BY <1>1 DEF SlotTimes, QueriesTell, AnswersTell, Before, Behind, monitorVars, slotVars
<1>4. WarningsTell' /\ TimerStarts'
  BY <1>1 DEF WarningsTell, Overdue, TimerStarts, monitorVars, pollVars, slotVars
<1> QED
  BY <1>2, <1>3, <1>4

\* The first poll is due at once.
LEMMA ServeKeeps ==
    ASSUME WatchInv, DeadlineInv, Serve
    PROVE  DeadlineInv'
<1> USE DEF DeadlineInv
<1>1. /\ timer' = now /\ polledSince' = now /\ loop' = "fetching"
      /\ UNCHANGED <<queries, lastSlotReadAt, lastSlots, slotMonitorState, warnings>>
      /\ UNCHANGED <<now, server, failed, slotVars, warnedAt>>
      /\ loop = "starting"
  BY DEF Serve, LoopStarts, MonitorStarts, Enter
<1>2. NoAnswer /\ queries = {} /\ failed = 0 /\ now \in Nat
  BY <1>1 DEF Polling, WatchInv, TypeOK
<1>3. Polling'
  <2>1. InPace(polledSince - SLOT_POLL_INTERVAL)'
    BY <1>1, <1>2, PaceFacts DEF InPace, Never
  <2>2. NoAnswer'
    BY <1>1, <1>2 DEF NoAnswer
  <2> QED
    BY <1>1, <1>2, <2>1, <2>2 DEF Polling, Never
<1>4. SlotTimes' /\ QueriesTell' /\ AnswersTell'
  BY <1>1 DEF SlotTimes, QueriesTell, AnswersTell, Before, Behind, slotVars
<1>5. WarningsTell' /\ TimerStarts'
  BY <1>1, <1>2 DEF WarningsTell, Overdue, TimerStarts, NoAnswer, slotVars
<1> QED
  BY <1>3, <1>4, <1>5

LEMMA StopKeeps ==
    ASSUME WatchInv, DeadlineInv, Stop
    PROVE  DeadlineInv'
<1> USE DEF DeadlineInv
<1>1. /\ queries' = {} /\ timer' = Never /\ lastSlotReadAt' = 0 /\ lastSlots' = 0
      /\ DOMAIN slotMonitorState' = {} /\ warnings' = {}
      /\ loop' = "down" /\ polledSince' = Never /\ failed' = 0
      /\ warnedAt' = [s \in Slots |-> Never]
      /\ UNCHANGED <<now, server, slotVars>>
  BY DEF Stop, LoopStops, MonitorStops
<1>2. Polling'
  BY <1>1 DEF Polling, NoAnswer
<1>3. SlotTimes'
  BY <1>1 DEF SlotTimes, Behind, slotVars, Never, WatchInv, TypeOK
<1>4. AnswersTell'
  <2>1. \A s \in Slots : /\ ~Before(quietSince', s, 0) /\ ~Before(awakeSince', s, 0)
                         /\ ~Before(behindSince', s, 0)
    BY <1>1 DEF WatchInv, TypeOK, Times, Before, slotVars
  <2> QED
    BY <1>1, <2>1 DEF AnswersTell
<1>5. QueriesTell' /\ WarningsTell' /\ TimerStarts'
  BY <1>1 DEF QueriesTell, WarningsTell, Overdue, TimerStarts
<1> QED
  BY <1>2, <1>3, <1>4, <1>5

\* A query reads the rows that the server has now.
LEMMA SendQueryKeeps ==
    ASSUME WatchInv, DeadlineInv, SendQuery
    PROVE  DeadlineInv'
<1> USE DEF DeadlineInv
<1> DEFINE query == [sent |-> now, rows |-> server]
<1>1. /\ timer = now /\ timer' = Never /\ queries' = queries \cup {query}
      /\ UNCHANGED <<lastSlotReadAt, lastSlots, slotMonitorState, warnings>>
      /\ UNCHANGED <<now, server, healthVars, pollVars, slotVars, warnedAt>>
  BY DEF SendQuery, Poll, TimerWhilePolling
<1>2. /\ now \in Nat /\ timer # Never /\ failed \in 0..MaxFailed
      /\ lastSlotReadAt \in Nat /\ polledSince \in Times
  BY <1>1 DEF WatchInv, TypeOK, MonitorTypeOK, Never
<1>3. queries = {} /\ queries' = {query} /\ polledSince # Never
  BY <1>1, <1>2 DEF WatchInv, OneAtATime, Polling
<1>4. \A q \in queries' : q.sent = now /\ q.rows = server
  BY <1>3
<1> HIDE DEF query
<1>5. ASSUME NEW start, InPace(start), start' = start
      PROVE  InPace(start)'
  BY <1>1, <1>2, <1>3, <1>4, <1>5 DEF InPace, pollVars
<1>6. Polling'
  <2>0. /\ timer' # Never => polledSince' <= timer'
        /\ \A q \in queries' : polledSince' <= q.sent
    BY <1>1, <1>2, <1>4 DEF Polling, pollVars
  <2>1. CASE NoAnswer /\ InPace(polledSince - SLOT_POLL_INTERVAL)
    <3>1. NoAnswer' /\ InPace(polledSince - SLOT_POLL_INTERVAL)'
      BY <1>1, <1>5, <2>1 DEF NoAnswer, pollVars
    <3> QED
      BY <1>1, <1>3, <2>0, <3>1 DEF Polling, healthVars, pollVars
  <2>2. CASE AnswerIsPast /\ InPace(lastSlotReadAt)
    <3>1. AnswerIsPast' /\ InPace(lastSlotReadAt)'
      BY <1>1, <1>2, <1>4, <1>5, <2>2 DEF AnswerIsPast, pollVars
    <3> QED
      BY <1>1, <1>3, <2>0, <3>1 DEF Polling, healthVars, pollVars
  <2> QED
    BY <1>3, <2>1, <2>2 DEF Polling
<1>7. SlotTimes' /\ AnswersTell' /\ WarningsTell'
  BY <1>1 DEF SlotTimes, AnswersTell, WarningsTell, Overdue, Before, Behind, slotVars
<1>8. QueriesTell'
  BY <1>1, <1>4 DEF QueriesTell, SlotTimes, Before, slotVars
<1>9. TimerStarts'
  BY <1>1, <1>3 DEF TimerStarts, pollVars, slotVars
<1> QED
  BY <1>6, <1>7, <1>8, <1>9

LEMMA QueryFailsKeeps ==
    ASSUME WatchInv, DeadlineInv, QueryFails
    PROVE  DeadlineInv'
<1> USE DEF DeadlineInv
<1>1. PICK q \in queries :
          /\ queries' = queries \ {q} /\ ScheduleNext
          /\ failed < MaxFailed /\ failed' = failed + 1
          /\ UNCHANGED <<lastSlotReadAt, lastSlots, slotMonitorState, warnings>>
          /\ UNCHANGED <<now, server, healthVars, polledSince, slotVars, warnedAt>>
  BY DEF QueryFails, PollFails
<1>2. /\ now \in Nat /\ failed \in 0..MaxFailed /\ q.sent \in Nat
      /\ lastSlotReadAt \in Nat /\ polledSince \in Times /\ lastSlotReadAt <= now
      /\ lastSlotReadAt \in Int
  BY <1>1 DEF WatchInv, TypeOK, MonitorTypeOK, Query, NoneOlder
<1>3. queries' = {} /\ timer' = now + SLOT_POLL_INTERVAL /\ polledSince # Never
  BY <1>1 DEF WatchInv, OneAtATime, ScheduleNext, Polling
<1>4. Pace(failed') = Pace(failed) + SLOT_POLL_INTERVAL + QueryTime /\ Pace(failed) \in Nat
  BY <1>1, <1>2, PaceFacts DEF Period
<1>5. ASSUME NEW start \in Int, InPace(start)
      PROVE  /\ now <= timer' /\ timer' <= start + Pace(failed') + SLOT_POLL_INTERVAL
  <2>1. now <= q.sent + QueryTime /\ q.sent <= start + Pace(failed) + SLOT_POLL_INTERVAL
    BY <1>5 DEF InPace
  <2> QED
    BY <1>2, <1>3, <1>4, <2>1
<1>6. Polling'
  <2>0. timer' # Never => polledSince' <= timer'
    BY <1>1, <1>2, <1>3 DEF Polling, Times, Never
  <2>1. CASE NoAnswer /\ InPace(polledSince - SLOT_POLL_INTERVAL)
    <3>1. polledSince - SLOT_POLL_INTERVAL \in Int
      BY <1>2, <1>3 DEF Times
    <3>2. NoAnswer' /\ InPace(polledSince - SLOT_POLL_INTERVAL)'
      BY <1>1, <1>2, <1>3, <1>5, <2>1, <3>1 DEF NoAnswer, InPace, Never
    <3> QED
      BY <1>1, <1>3, <2>0, <3>2 DEF Polling, healthVars
  <2>2. CASE AnswerIsPast /\ InPace(lastSlotReadAt)
    <3>1. InPace(lastSlotReadAt)'
      BY <1>1, <1>2, <1>3, <1>5, <2>2 DEF InPace, Never
    <3>2. AnswerIsPast'
      BY <1>1, <1>2, <1>3, <2>2 DEF AnswerIsPast
    <3> QED
      BY <1>1, <1>3, <2>0, <3>1, <3>2 DEF Polling, healthVars
  <2> QED
    BY <1>3, <2>1, <2>2 DEF Polling
<1>7. SlotTimes' /\ AnswersTell' /\ WarningsTell' /\ QueriesTell'
  BY <1>1, <1>3 DEF SlotTimes, AnswersTell, WarningsTell, QueriesTell, Overdue, Before,
                    Behind, slotVars
<1>8. TimerStarts'
  BY <1>1, <1>2 DEF TimerStarts, slotVars
<1> QED
  BY <1>6, <1>7, <1>8

-----------------------------------------------------------------------------
(* An answer.                                                              *)

\* What follows from its coming: the timers it starts, and what it warns of.
LEMMA AnswerFacts ==
    ASSUME WatchInv, NEW q \in queries, PollAnswered(q),
           warnedAt' = [s \in Slots |->
               IF \E w \in warnings' : w[1] = s THEN now ELSE warnedAt[s]]
    PROVE  /\ DOMAIN slotMonitorState' = Inactive(q.rows)
           /\ \A s \in Inactive(q.rows) : slotMonitorState'[s] =
                  IF s \in DOMAIN slotMonitorState THEN slotMonitorState[s] ELSE now
           /\ \A s \in Slots : <<s, "inactive">> \in warnings' <=> Overdue(s)'
           /\ \A s \in Slots : Overdue(s)' => warnedAt'[s] = now
           /\ \A s \in Slots : Behind(q.rows, s) =>
                  s \in Inactive(q.rows) \/ warnedAt'[s] = now
           /\ \A s \in Slots : warnedAt'[s] \in {warnedAt[s], now}
<1> DEFINE state == ObservedState(q.rows, slotMonitorState, now)
<1>1. /\ slotMonitorState' = state /\ lastSlotReadAt' = now
      /\ warnings' = ObservedWarnings(q.rows, state, now)
  BY DEF PollAnswered
<1>2. /\ DOMAIN state = Inactive(q.rows)
      /\ \A s \in Inactive(q.rows) : state[s] =
             IF s \in DOMAIN slotMonitorState THEN slotMonitorState[s] ELSE now
  BY DEF ObservedState
<1> HIDE DEF state
<1>3. \A s \in Slots : <<s, "inactive">> \in warnings' <=>
          s \in Inactive(q.rows) /\ now - state[s] >= SLOT_INACTIVE_GRACE
  BY <1>1 DEF ObservedWarnings
<1>4. \A s \in Slots : <<s, "inactive">> \in warnings' <=> Overdue(s)'
  BY <1>1, <1>2, <1>3 DEF Overdue
<1>5. \A s \in Slots, why \in {"inactive", "retention", "wal_status"} :
          <<s, why>> \in warnings' => warnedAt'[s] = now
  OBVIOUS
<1>6. ASSUME NEW s \in Slots, Behind(q.rows, s)
      PROVE  s \in Inactive(q.rows) \/ warnedAt'[s] = now
  <2>1. CASE q.rows[s].active
    <3>1. \/ RetentionIsHigh(q.rows, s)
          \/ q.rows[s].lost
      BY <1>6, <2>1 DEF Behind, RetentionIsHigh
    <3>2. <<s, "retention">> \in warnings' \/ <<s, "wal_status">> \in warnings'
      BY <1>1, <1>6, <3>1 DEF ObservedWarnings, Behind
    <3> QED
      BY <1>5, <3>2
  <2>2. CASE ~q.rows[s].active
    BY <1>6, <2>2 DEF Behind, Inactive
  <2> QED
    BY <2>1, <2>2
<1>7. \A s \in Slots : warnedAt'[s] \in {warnedAt[s], now}
  OBVIOUS
<1> QED
  BY <1>1, <1>2, <1>4, <1>5, <1>6, <1>7

LEMMA ObserveSlotsKeeps ==
    ASSUME WatchInv, DeadlineInv, ObserveSlots
    PROVE  DeadlineInv'
<1> USE DEF DeadlineInv
<1>1. PICK q \in queries : PollAnswered(q)
  BY DEF ObserveSlots, PollAnswered
<1>2. /\ queries' = queries \ {q} /\ ScheduleNext
      /\ lastSlotReadAt' = now /\ lastSlots' = q.sent /\ failed' = 0
      /\ warnedAt' = [s \in Slots |->
             IF \E w \in warnings' : w[1] = s THEN now ELSE warnedAt[s]]
      /\ UNCHANGED <<now, server, healthVars, polledSince, slotVars>>
  BY <1>1 DEF ObserveSlots, PollAnswered
<1>3. /\ now \in Nat /\ failed \in 0..MaxFailed /\ q.sent \in Nat /\ q.sent <= now
      /\ lastSlotReadAt \in Nat /\ polledSince \in Times /\ lastSlotReadAt <= now
      /\ lastSlots \in Nat /\ lastSlots <= q.sent
      /\ quietSince \in [Slots -> Times] /\ awakeSince \in [Slots -> Times]
      /\ behindSince \in [Slots -> Times] /\ awakeAt \in [Slots -> Times]
      /\ warnedAt \in [Slots -> Times]
      /\ Inactive(q.rows) \subseteq Slots
  BY DEF WatchInv, TypeOK, MonitorTypeOK, Query, NoneOlder, Inactive, Rows
<1>4. queries' = {} /\ timer' = now + SLOT_POLL_INTERVAL /\ polledSince # Never
  BY <1>2 DEF WatchInv, OneAtATime, ScheduleNext, Polling
<1>5. /\ DOMAIN slotMonitorState' = Inactive(q.rows)
      /\ \A s \in Inactive(q.rows) : slotMonitorState'[s] =
             IF s \in DOMAIN slotMonitorState THEN slotMonitorState[s] ELSE now
      /\ \A s \in Slots : <<s, "inactive">> \in warnings' <=> Overdue(s)'
      /\ \A s \in Slots : Overdue(s)' => warnedAt'[s] = now
      /\ \A s \in Slots : Behind(q.rows, s) =>
             s \in Inactive(q.rows) \/ warnedAt'[s] = now
      /\ \A s \in Slots : warnedAt'[s] \in {warnedAt[s], now}
  BY <1>1, <1>2, AnswerFacts
<1>6. polledSince <= q.sent /\ now <= q.sent + QueryTime
  BY <1>2, <1>4 DEF Polling, InPace
<1>7. Polling'
  <2>1. InPace(lastSlotReadAt)'
    BY <1>2, <1>3, <1>4, PaceFacts DEF InPace, Never
  <2>2. AnswerIsPast'
    BY <1>2, <1>3, <1>4, <1>6 DEF AnswerIsPast
  <2>3. timer' # Never => polledSince' <= timer'
    BY <1>2, <1>3, <1>4, <1>6 DEF Times, Never
  <2> QED
    BY <1>2, <1>3, <1>4, <1>6, <2>1, <2>2, <2>3 DEF Polling, healthVars
<1>8. SlotTimes'
  BY <1>2, <1>3, <1>5 DEF SlotTimes, Behind, slotVars
<1>9. AnswersTell'
  BY <1>2, <1>5 DEF AnswersTell, QueriesTell, slotVars, Before
<1>10. QueriesTell' /\ WarningsTell'
  BY <1>2, <1>4, <1>5 DEF QueriesTell, WarningsTell
<1>11. TimerStarts'
  <2> SUFFICES ASSUME NEW s \in Inactive(q.rows)
      PROVE  /\ quietSince[s] # Never =>
                    \/ slotMonitorState'[s] <= quietSince[s] + QueryTime + Unseen
                    \/ slotMonitorState'[s] <= polledSince + Unseen
             /\ behindSince[s] # Never =>
                    \/ slotMonitorState'[s] <= behindSince[s] + QueryTime + Unseen
                    \/ slotMonitorState'[s] <= polledSince + Unseen
                    \/ slotMonitorState'[s] <= warnedAt'[s] + Unseen
             /\ awakeAt[s] # Never => slotMonitorState'[s] >= awakeAt[s]
    <3>1. /\ \A s \in Inactive(q.rows) : slotMonitorState'[s] \in Nat
          /\ DOMAIN slotMonitorState' = Inactive(q.rows)
          /\ UNCHANGED slotVars /\ polledSince' = polledSince
      BY <1>2, <1>3, <1>5 DEF WatchInv, TypeOK, MonitorTypeOK
    <3> QED
      BY <1>3, <3>1 DEF TimerStarts, slotVars, Times
  <2>1. /\ s \in Slots /\ Unseen \in Nat
        /\ warnedAt[s] <= now /\ awakeAt[s] <= now
        /\ warnedAt'[s] \in {warnedAt[s], now}
        /\ warnedAt[s] \in Times /\ awakeAt[s] \in Times
        /\ quietSince[s] \in Times /\ behindSince[s] \in Times
    BY <1>3, <1>5, PaceFacts DEF SlotTimes
  <2>2. CASE s \in DOMAIN slotMonitorState
    <3>1. slotMonitorState'[s] = slotMonitorState[s] /\ slotMonitorState[s] \in Nat
      BY <1>5, <2>2 DEF WatchInv, TypeOK, MonitorTypeOK
    <3>2. awakeAt[s] # Never => slotMonitorState'[s] >= awakeAt[s]
      BY <2>1, <2>2, <3>1 DEF TimerStarts, WatchInv, OneAtATime, Times
    <3>3. slotMonitorState[s] <= warnedAt[s] + Unseen
              => slotMonitorState[s] <= warnedAt'[s] + Unseen
      BY <1>3, <2>1, <3>1 DEF Times, Never
    <3> QED
      BY <2>2, <3>1, <3>2, <3>3 DEF TimerStarts
  <2>3. CASE s \notin DOMAIN slotMonitorState
    <3>1. slotMonitorState'[s] = now
      BY <1>5, <2>3
    <3>2. CASE NoAnswer /\ now <= polledSince - SLOT_POLL_INTERVAL + Unseen
      <4>1. now <= polledSince + Unseen
        BY <1>3, <1>4, <2>1, <3>2 DEF Times
      <4> QED
        BY <2>1, <3>1, <4>1, <1>3 DEF Times
    <3>3. CASE AnswerIsPast /\ now <= lastSlotReadAt + Unseen
      <4>1. now <= lastSlots + QueryTime + Unseen
        BY <1>3, <2>1, <3>3 DEF Polling
      <4>2. quietSince[s] # Never => quietSince[s] >= lastSlots
        BY <1>3, <2>1, <2>3 DEF AnswersTell, Before, Times
      <4>3. behindSince[s] # Never =>
                behindSince[s] >= lastSlots \/ warnedAt[s] = lastSlotReadAt
        BY <1>3, <2>1, <2>3 DEF AnswersTell, Before, Times
      <4>4. warnedAt[s] = lastSlotReadAt => now <= warnedAt'[s] + Unseen
        BY <1>3, <2>1, <3>3
      <4> QED
        BY <1>3, <2>1, <3>1, <4>1, <4>2, <4>3, <4>4 DEF Times
    <3> QED
      BY <1>4, <3>2, <3>3, PollsInTime
  <2> QED
    BY <2>2, <2>3
<1> QED
  BY <1>7, <1>8, <1>9, <1>10, <1>11

-----------------------------------------------------------------------------
(* Time passes.                                                            *)

\* A slot that has been awake for too long to go unseen has been seen awake,
\* or is by the query under way, which is the last that may be needed.
LEMMA AwakeIsSeen ==
    ASSUME WatchInv, DeadlineInv, MonitorPunctual,
           NEW s \in DOMAIN slotMonitorState,
           awakeSince[s] # Never, (now + 1) - awakeSince[s] > Unseen
    PROVE  failed = MaxFailed /\ \E q \in queries : s \notin Inactive(q.rows)
<1> USE DEF DeadlineInv
<1>1. /\ now \in Nat /\ failed \in 0..MaxFailed /\ timer \in Nat \cup {Never}
      /\ \A q \in queries : q.sent \in Nat
      /\ lastSlotReadAt \in Nat /\ lastSlots \in Nat
      /\ s \in Slots /\ awakeSince[s] \in Nat
  BY DEF WatchInv, TypeOK, MonitorTypeOK, Query, Times
<1>2. AnswerIsPast /\ InPace(lastSlotReadAt)
  BY DEF Polling, NoAnswer
<1>3. lastSlotReadAt <= awakeSince[s] + QueryTime
  BY <1>1 DEF Polling, AnswersTell, Before
<1>4. /\ Unseen \in Nat /\ Pace(failed) \in Nat
      /\ Pace(failed) + SLOT_POLL_INTERVAL + QueryTime <= Unseen
      /\ failed < MaxFailed =>
             Pace(failed) + SLOT_POLL_INTERVAL + QueryTime + QueryTime <= Unseen
  BY <1>1, PaceFacts DEF Period
<1>5. timer = Never
  BY <1>1, <1>2, <1>3, <1>4 DEF InPace, MonitorPunctual
<1>6. PICK q \in queries : TRUE
  BY <1>2, <1>5 DEF InPace
<1>7. /\ now + 1 <= q.sent + QueryTime /\ q.sent \in Nat
      /\ q.sent <= lastSlotReadAt + Pace(failed) + SLOT_POLL_INTERVAL
  BY <1>1, <1>2, <1>6 DEF InPace, MonitorPunctual
<1>8. failed = MaxFailed
  BY <1>1, <1>3, <1>4, <1>7
<1>9. Before(awakeSince, s, q.sent)
  <2>1. QueryTime <= Unseen
    BY <1>4
  <2> QED
    BY <1>1, <1>4, <1>7, <2>1 DEF Before
<1> QED
  BY <1>1, <1>8, <1>9 DEF QueriesTell

LEMMA TickKeeps ==
    ASSUME WatchInv, DeadlineInv, Tick
    PROVE  DeadlineInv'
<1> USE DEF DeadlineInv
<1>1. /\ now' = now + 1 /\ MonitorPunctual
      /\ awakeAt' = [s \in Slots |->
             IF awakeSince[s] # Never /\ now' - awakeSince[s] > Unseen
             THEN now' ELSE awakeAt[s]]
      /\ UNCHANGED <<server, monitorVars, healthVars, pollVars,
                     quietSince, awakeSince, behindSince, warnedAt>>
  BY DEF Tick
<1>2. /\ now \in Nat /\ timer \in Nat \cup {Never} /\ polledSince \in Times
      /\ \A q \in queries : q.sent \in Nat
      /\ \A s \in Slots : /\ quietSince[s] \in Times /\ awakeSince[s] \in Times
                         /\ behindSince[s] \in Times /\ awakeAt[s] \in Times
                         /\ warnedAt[s] \in Times
      /\ DOMAIN slotMonitorState \subseteq Slots
  BY DEF WatchInv, TypeOK, MonitorTypeOK, Query
<1>3. ASSUME NEW start, InPace(start), start' = start
      PROVE  InPace(start)'
  BY <1>1, <1>2, <1>3 DEF InPace, MonitorPunctual, monitorVars, pollVars
<1>4. Polling'
  <2>1. polledSince # Never => polledSince' <= now'
    BY <1>1, <1>2 DEF Polling, pollVars, Times
  <2>2. NoAnswer => NoAnswer'
    BY <1>1 DEF NoAnswer, monitorVars
  <2>3. AnswerIsPast => AnswerIsPast'
    BY <1>1 DEF AnswerIsPast, monitorVars, pollVars
  <2>4. /\ (polledSince - SLOT_POLL_INTERVAL)' = polledSince - SLOT_POLL_INTERVAL
        /\ lastSlotReadAt' = lastSlotReadAt
    BY <1>1 DEF monitorVars, pollVars
  <2>5. /\ InPace(polledSince - SLOT_POLL_INTERVAL)
               => InPace(polledSince - SLOT_POLL_INTERVAL)'
        /\ InPace(lastSlotReadAt) => InPace(lastSlotReadAt)'
    BY <1>3, <2>4
  <2> QED
    BY <1>1, <2>1, <2>2, <2>3, <2>5 DEF Polling, monitorVars, pollVars, healthVars
<1>5. SlotTimes'
  <2>1. \A s \in Slots : awakeAt'[s] <= now'
    BY <1>1, <1>2 DEF SlotTimes, Times, Never
  <2> QED
    BY <1>1, <1>2, <2>1 DEF SlotTimes, Behind, Times, Never
<1>6. QueriesTell' /\ AnswersTell' /\ WarningsTell'
  BY <1>1 DEF QueriesTell, AnswersTell, WarningsTell, Overdue, Before, monitorVars
<1>7. TimerStarts'
  <2> SUFFICES ASSUME NEW s \in DOMAIN slotMonitorState,
                      awakeAt'[s] # Never, slotMonitorState[s] < awakeAt'[s]
               PROVE  failed = MaxFailed /\ \E q \in queries : s \notin Inactive(q.rows)
    BY <1>1 DEF TimerStarts, monitorVars, pollVars
  <2>1. CASE awakeSince[s] # Never /\ (now + 1) - awakeSince[s] > Unseen
    BY <1>1, <2>1, AwakeIsSeen
  <2>2. CASE ~(awakeSince[s] # Never /\ (now + 1) - awakeSince[s] > Unseen)
    <3>1. awakeAt'[s] = awakeAt[s]
      BY <1>1, <1>2, <2>2
    <3> QED
      BY <3>1 DEF TimerStarts
  <2> QED
    BY <2>1, <2>2
<1> QED
  BY <1>4, <1>5, <1>6, <1>7

LEMMA DeadlineNext == ASSUME WatchInv, DeadlineInv, [Next]_vars PROVE DeadlineInv'
<1>1. CASE UNCHANGED vars
  <2> USE <1>1 DEF DeadlineInv, vars, monitorVars, healthVars, pollVars, slotVars
  <2>1. Polling'
    BY DEF Polling, NoAnswer, InPace, AnswerIsPast
  <2>2. SlotTimes' /\ QueriesTell' /\ AnswersTell'
    BY DEF SlotTimes, QueriesTell, AnswersTell, Before, Behind
  <2>3. WarningsTell' /\ TimerStarts'
    BY DEF WarningsTell, TimerStarts, Overdue
  <2> QED
    BY <2>1, <2>2, <2>3
<1>2. CASE Next
  BY <1>2, ServerChangesKeeps, LoopKeeps, ServeKeeps, StopKeeps, SendQueryKeeps,
     ObserveSlotsKeeps, QueryFailsKeeps, TickKeeps DEF Next
<1> QED
  BY <1>1, <1>2

LEMMA DeadlineInvariant == Spec => [](WatchInv /\ DeadlineInv)
<1>1. Init => WatchInv /\ DeadlineInv
  BY WatchInit, DeadlineInit
<1>2. WatchInv /\ DeadlineInv /\ [Next]_vars => WatchInv' /\ DeadlineInv'
  BY WatchNext, DeadlineNext
<1> QED
  BY <1>1, <1>2, PTL DEF Spec

-----------------------------------------------------------------------------
\* What has lasted longer than Deadline, polled all along, began before the
\* query of the latest answer was sent, and that answer is not old.
LEMMA LongSinceIsOld ==
    ASSUME WatchInv, DeadlineInv, NEW t \in Times, LongSince(t, Deadline)
    PROVE  /\ t < lastSlots /\ polledSince < lastSlots
           /\ now <= lastSlotReadAt + Unseen
           /\ t + QueryTime + Unseen + SLOT_INACTIVE_GRACE <= lastSlotReadAt
           /\ polledSince + Unseen + SLOT_INACTIVE_GRACE <= lastSlotReadAt
<1>1. /\ now \in Nat /\ t \in Nat /\ polledSince \in Nat /\ Unseen \in Nat
      /\ lastSlotReadAt \in Nat /\ lastSlots \in Nat
      /\ now - t > Deadline /\ now - polledSince > Deadline
      /\ lastSlotReadAt <= lastSlots + QueryTime
      /\ Deadline = Unseen + QueryTime + SLOT_INACTIVE_GRACE + Unseen
  BY PaceFacts DEF WatchInv, TypeOK, MonitorTypeOK, Times, LongSince, Deadline,
                   DeadlineInv, Polling
<1>2. now <= lastSlotReadAt + Unseen
  BY <1>1, PollsInTime DEF DeadlineInv, Never
<1> QED
  BY <1>1, <1>2

\* A slot that has had no consumer for longer than Deadline is reported, for
\* every interval, grace period, delay of answers and number of failed polls.
THEOREM AbandonedReported == Spec => []AbandonedIsReported
<1>1. ASSUME WatchInv, DeadlineInv
      PROVE  AbandonedIsReported
  <2> SUFFICES ASSUME NEW s \in Slots, LongSince(quietSince[s], Deadline)
               PROVE  <<s, "inactive">> \in warnings
    BY DEF AbandonedIsReported
  <2>1. /\ quietSince[s] \in Times /\ quietSince[s] # Never /\ polledSince \in Times
        /\ lastSlotReadAt \in Nat /\ polledSince # Never
        /\ s \in DOMAIN slotMonitorState => slotMonitorState[s] \in Nat
    BY <1>1 DEF WatchInv, TypeOK, MonitorTypeOK, LongSince
  <2>2. /\ quietSince[s] < lastSlots
        /\ quietSince[s] + QueryTime + Unseen + SLOT_INACTIVE_GRACE <= lastSlotReadAt
        /\ polledSince + Unseen + SLOT_INACTIVE_GRACE <= lastSlotReadAt
    BY <1>1, <2>1, LongSinceIsOld
  <2>3. s \in DOMAIN slotMonitorState
    BY <1>1, <2>1, <2>2 DEF DeadlineInv, AnswersTell, Before
  <2>4. \/ slotMonitorState[s] <= quietSince[s] + QueryTime + Unseen
        \/ slotMonitorState[s] <= polledSince + Unseen
    BY <1>1, <2>1, <2>3 DEF DeadlineInv, TimerStarts
  <2>5. Overdue(s)
    BY <2>1, <2>2, <2>3, <2>4, PaceFacts DEF Overdue, Times
  <2> QED
    BY <1>1, <2>5 DEF DeadlineInv, WarningsTell
<1> QED
  BY <1>1, DeadlineInvariant, PTL

\* A slot that has been behind for longer than Deadline has been warned of no
\* longer ago than that, though its consumer may come and go.
THEOREM BackloggedReported == Spec => []BackloggedIsReported
<1>1. ASSUME WatchInv, DeadlineInv
      PROVE  BackloggedIsReported
  <2> SUFFICES ASSUME NEW s \in Slots, LongSince(behindSince[s], Deadline)
               PROVE  now - warnedAt[s] <= Deadline
    BY DEF BackloggedIsReported
  <2>1. /\ behindSince[s] \in Times /\ behindSince[s] # Never /\ polledSince \in Times
        /\ lastSlotReadAt \in Nat /\ polledSince # Never /\ now \in Nat
        /\ warnedAt[s] \in Times /\ Unseen \in Nat
        /\ s \in DOMAIN slotMonitorState => slotMonitorState[s] \in Nat
        /\ Deadline = Unseen + QueryTime + SLOT_INACTIVE_GRACE + Unseen
    BY <1>1, PaceFacts DEF WatchInv, TypeOK, MonitorTypeOK, LongSince, Deadline
  <2>2. /\ behindSince[s] < lastSlots
        /\ now <= lastSlotReadAt + Unseen
        /\ behindSince[s] + QueryTime + Unseen + SLOT_INACTIVE_GRACE <= lastSlotReadAt
        /\ polledSince + Unseen + SLOT_INACTIVE_GRACE <= lastSlotReadAt
    BY <1>1, <2>1, LongSinceIsOld
  <2>3. CASE warnedAt[s] = lastSlotReadAt
    BY <2>1, <2>2, <2>3
  <2>4. CASE s \in DOMAIN slotMonitorState
    <3>1. CASE Overdue(s)
      BY <1>1, <2>3, <3>1 DEF DeadlineInv, WarningsTell
    <3>2. CASE ~Overdue(s)
      <4>1. lastSlotReadAt - slotMonitorState[s] < SLOT_INACTIVE_GRACE
        BY <2>1, <2>4, <3>2 DEF Overdue
      <4>2. slotMonitorState[s] <= warnedAt[s] + Unseen
        BY <1>1, <2>1, <2>2, <2>4, <4>1 DEF DeadlineInv, TimerStarts, Times
      <4> QED
        BY <2>1, <2>2, <2>4, <4>1, <4>2 DEF Times, Never
    <3> QED
      BY <3>1, <3>2
  <2> QED
    BY <1>1, <2>1, <2>2, <2>3, <2>4 DEF DeadlineInv, AnswersTell, Before
<1> QED
  BY <1>1, DeadlineInvariant, PTL

\* Nor does the timer of a slot outlast a restart of its consumer that polls
\* could not miss: no answer reports the slot within a grace period of it.
THEOREM RestartsUnreported == Spec => []RestartsAreNotReported
<1>1. ASSUME WatchInv, DeadlineInv
      PROVE  RestartsAreNotReported
  <2> SUFFICES ASSUME NEW s \in Slots, <<s, "inactive">> \in warnings,
                      lastSlotReadAt = now, awakeAt[s] # Never
               PROVE  lastSlotReadAt - awakeAt[s] >= SLOT_INACTIVE_GRACE
    BY DEF RestartsAreNotReported
  <2>1. Overdue(s)
    BY <1>1 DEF DeadlineInv, WarningsTell
  <2>2. /\ s \in DOMAIN slotMonitorState /\ slotMonitorState[s] \in Nat
        /\ awakeAt[s] \in Nat /\ now \in Nat
    BY <1>1, <2>1 DEF Overdue, WatchInv, TypeOK, MonitorTypeOK, Times
  <2>3. queries = {} \/ \A q \in queries : lastSlotReadAt < q.sent /\ q.sent <= now
    BY <1>1, <2>2 DEF DeadlineInv, Polling, NoAnswer, AnswerIsPast, WatchInv, NoneOlder
  <2>4. \A q \in queries : q.sent \in Nat
    BY <1>1 DEF WatchInv, TypeOK, MonitorTypeOK, Query
  <2>5. queries = {}
    BY <2>2, <2>3, <2>4
  <2>6. slotMonitorState[s] >= awakeAt[s]
    BY <1>1, <2>2, <2>5 DEF DeadlineInv, TimerStarts
  <2> QED
    BY <2>1, <2>2, <2>6 DEF Overdue
<1> QED
  BY <1>1, DeadlineInvariant, PTL
=============================================================================
