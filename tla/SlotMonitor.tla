----------------------------- MODULE SlotMonitor -----------------------------
(***************************************************************************)
(* The replication slot monitor: observeSlots and the query it is given    *)
(* (core/src/replication-slot.ts), and the poll that schedules itself      *)
(* (pollReplicationSlots, worker/src/index.ts).                            *)
(*                                                                         *)
(* Of a slot's row the model keeps whether a consumer is connected, whether*)
(* what it retains is "over" the warning threshold, and whether its        *)
(* wal_status is bad ("lost": unreserved or lost).  A query reads the      *)
(* server when it is sent and is answered at most QueryTime later.         *)
(***************************************************************************)
EXTENDS Clock, FiniteSets, Functions

CONSTANTS
    Slots,                 \* names of replication slots
    SLOT_POLL_INTERVAL,    \* from the end of a poll to the next
    SLOT_INACTIVE_GRACE,   \* how long a slot may be seen inactive
    QueryTime              \* bound on the time a query takes

ASSUME SlotMonitorAssumption ==
    /\ SLOT_POLL_INTERVAL \in Nat \ {0}
    /\ SLOT_INACTIVE_GRACE \in Nat /\ QueryTime \in Nat

VARIABLES
    server,            \* the rows of pg_replication_slots, by slot name
    queries,           \* queries under way: when sent, and the rows they read
    timer,             \* when the next poll is due, or Never
    lastSlotReadAt,    \* when the latest answer came
    lastSlots,         \* and when the query was sent whose rows it brought
    slotMonitorState,  \* since when each slot is seen inactive
    warnings           \* what the latest poll logged

monitorVars ==
    <<queries, timer, lastSlotReadAt, lastSlots, slotMonitorState, warnings>>

Never == -1

Row == [active : BOOLEAN, over : BOOLEAN, lost : BOOLEAN]

Rows == UNION {[S -> Row] : S \in SUBSET Slots}

Query == [sent : Nat, rows : Rows]

Warning == Slots \X {"inactive", "retention", "wal_status"}

MonitorTypeOK ==
    /\ server \in Rows
    /\ queries \subseteq Query /\ Cardinality(queries) <= 1
    /\ timer \in Nat \cup {Never}
    /\ lastSlotReadAt \in Nat
    /\ lastSlots \in 0..lastSlotReadAt
    /\ DOMAIN slotMonitorState \subseteq Slots
    /\ slotMonitorState \in [DOMAIN slotMonitorState -> 0..lastSlotReadAt]
    /\ warnings \subseteq Warning

(***************************************************************************)
(* observeSlots.                                                           *)
(***************************************************************************)
Inactive(rows) == {s \in DOMAIN rows : ~rows[s].active}

\* Wrong: the timer starts anew with each poll, or outlives the inactivity.
StateFromThisPoll(rows, previous, at) == [s \in Inactive(rows) |-> at]

StateMerged(rows, previous, at) ==
    [s \in Inactive(rows) \cup DOMAIN previous |->
        IF s \in DOMAIN previous THEN previous[s] ELSE at]

\* The timer of a slot is carried over while it is inactive, and only then.
ObservedState(rows, previous, at) ==
    [s \in Inactive(rows) |->
        IF s \in DOMAIN previous THEN previous[s] ELSE at]

\* Wrong: an inactive slot that is over the threshold has two chances, an
\* active one has none.
RetentionOfInactive(rows, s) == ~rows[s].active /\ rows[s].over

\* The retention of an active slot; an inactive one is judged by its timer.
RetentionIsHigh(rows, s) == rows[s].active /\ rows[s].over

ObservedWarnings(rows, state, at) ==
    {<<s, "inactive">> : s \in
        {s \in Inactive(rows) : at - state[s] >= SLOT_INACTIVE_GRACE}}
    \cup {<<s, "retention">> : s \in
        {s \in DOMAIN rows : RetentionIsHigh(rows, s)}}
    \cup {<<s, "wal_status">> : s \in
        {s \in DOMAIN rows : rows[s].lost}}

(***************************************************************************)
(* pollReplicationSlots.                                                   *)
(***************************************************************************)
MonitorInit ==
    /\ queries = {}
    /\ timer = Never
    /\ lastSlotReadAt = 0
    /\ lastSlots = 0
    /\ slotMonitorState = <<>>
    /\ warnings = {}

\* The process ends, and everything the monitor knew with it.
MonitorStops ==
    /\ queries' = {}
    /\ timer' = Never
    /\ lastSlotReadAt' = 0
    /\ lastSlots' = 0
    /\ slotMonitorState' = <<>>
    /\ warnings' = {}

\* The first poll follows the migrations at once.
MonitorStarts ==
    /\ timer' = now
    /\ UNCHANGED <<queries, lastSlotReadAt, lastSlots,
                   slotMonitorState, warnings>>

\* Wrong: setInterval.
TimerOfInterval == now + SLOT_POLL_INTERVAL

\* No poll is due while one is under way.
TimerWhilePolling == Never

Poll ==
    /\ timer = now
    /\ queries' = queries \cup {[sent |-> now, rows |-> server]}
    /\ timer' = TimerWhilePolling
    /\ UNCHANGED <<lastSlotReadAt, lastSlots, slotMonitorState, warnings>>

ScheduleNext ==
    timer' = IF timer = Never THEN now + SLOT_POLL_INTERVAL ELSE timer

PollAnswered(q) ==
    LET state == ObservedState(q.rows, slotMonitorState, now)
    IN  /\ q \in queries
        /\ queries' = queries \ {q}
        /\ lastSlotReadAt' = now
        /\ lastSlots' = q.sent
        /\ slotMonitorState' = state
        /\ warnings' = ObservedWarnings(q.rows, state, now)
        /\ ScheduleNext

\* The error is logged; what was known of the slots stays.
PollFails(q) ==
    /\ q \in queries
    /\ queries' = queries \ {q}
    /\ ScheduleNext
    /\ UNCHANGED <<lastSlotReadAt, lastSlots, slotMonitorState, warnings>>

\* Nothing the monitor has to do is put off: time may pass.
MonitorPunctual ==
    /\ timer # now
    /\ \A q \in queries : now < q.sent + QueryTime
=============================================================================
