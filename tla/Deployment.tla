------------------------------ MODULE Deployment ------------------------------
(***************************************************************************)
(* What happens around the pipeline's steady state: the stack is brought   *)
(* up, upgraded, reset and brought up again (docker-compose.yml), while    *)
(* transactions commit, containers restart and the stream fills.  Composes *)
(* StreamSetup and Connector with the worker, of which only its consumer   *)
(* setup (buildConsumer, core/src/nats.ts) is detailed: its loop is one    *)
(* step that records the oldest message and releases it, which is what     *)
(* Ingestion shows of it.                                                  *)
(*                                                                         *)
(* SetupFirst says that Debezium is down while stream-setup runs, as       *)
(* debezium.sh assumes and depends_on arranges for a whole stack that is   *)
(* brought up.                                                             *)
(***************************************************************************)
EXTENDS StreamSetup, Connector, Functions

CONSTANTS
    StreamCap,     \* max_bytes of the stream, counted in messages
    SetupFirst,    \* stream-setup completes before Debezium starts
    MaxRuns,       \* bound on the times the stack is brought up
    MaxResets,     \* bound on those of them with BEMI_RESET_SLOT
    MaxFailures,   \* bound on setup requests that fail
    MaxCrashes     \* bound on containers that are killed

ASSUME DeploymentAssumption ==
    /\ StreamCap \in Nat \ {0}
    /\ SetupFirst \in BOOLEAN
    /\ MaxRuns \in Nat /\ MaxResets \in Nat
    /\ MaxFailures \in Nat /\ MaxCrashes \in Nat

VARIABLES
    worker,     \* "down", "updating" or "adding" its consumer, or "running"
    recorded,   \* positions of the changes that have a row
    promised,   \* changes committed under a slot and not given up by a reset
    used        \* how much of each bound is used up

vars == <<setupVars, connectorVars, worker, recorded, promised, used>>

Budget == [runs    : 0..MaxRuns, resets  : 0..MaxResets,
           failures : 0..MaxFailures, crashes : 0..MaxCrashes]

TypeOK ==
    /\ SetupTypeOK
    /\ ConnectorTypeOK
    /\ worker \in {"down", "updating", "adding", "running"}
    /\ recorded \subseteq 1..wal
    /\ promised \subseteq 1..wal
    /\ used \in Budget

\* A first installation, into which transactions may have been committed.
Fresh ==
    /\ wal = 0
    /\ slot = NoSlot /\ slotsMade = 0 /\ offsets = NoOffsets
    /\ stream = NoStream /\ consumer = "none"
    /\ recorded = {} /\ promised = {}
    /\ worker = "down"

\* An upgrade from when Debezium made the stream itself, in memory; the file
\* of offsets may not have been on a volume, and a worker may still be running.
Upgraded ==
    /\ wal \in TxEnds /\ \A e \in TxEnds : wal <= e
    /\ slotsMade = 1 /\ slot = [gen |-> 1, confirmed |-> wal]
    /\ offsets \in {NoOffsets, [gen |-> 1, lsn |-> wal]}
    /\ consumer \in {"none", "stale"}
    /\ worker \in IF consumer = "none" THEN {"down"} ELSE {"down", "running"}
    /\ promised = 1..wal
    /\ \E n \in 0..wal :
           /\ recorded = 1..n
           /\ stream = [storage |-> "Memory",
                        msgs    |-> [i \in 1..(wal - n) |-> n + i]]

Init ==
    /\ Fresh \/ Upgraded
    /\ setup = [pc |-> "idle", attempt |-> 1, reset |-> FALSE]
    /\ dbz = Down
    /\ used = [runs |-> 0, resets |-> 0, failures |-> 0, crashes |-> 0]

Spend(what, max) ==
    /\ used[what] < max
    /\ used' = [used EXCEPT ![what] = @ + 1]

Kept == recorded \cup Range(stream.msgs)

SetupDone == setup.pc = "done"

(***************************************************************************)
(* Bringing the stack up.                                                  *)
(***************************************************************************)
\* A run that failed is repeated; the bounds are on any other.
BringUp(reset) ==
    /\ SetupFirst => dbz.pc = "down"
    /\ Run(reset)
    /\ IF reset THEN Spend("resets", MaxResets)
       ELSE IF setup.pc = "failed" THEN UNCHANGED used
       ELSE Spend("runs", MaxRuns)
    /\ UNCHANGED <<connectorVars, worker, recorded, promised>>

SetupProceeds ==
    /\ SetupStep
    /\ UNCHANGED <<connectorVars, worker, recorded, promised, used>>

SetupFailsOnce ==
    /\ SetupFails
    /\ Spend("failures", MaxFailures)
    /\ UNCHANGED <<connectorVars, worker, recorded, promised>>

\* What the slot had not confirmed is given up.
SlotIsDropped ==
    /\ DropSlot(Running)
    /\ IF Running \/ ~SlotExists
       THEN UNCHANGED <<connectorVars, promised>>
       ELSE /\ LoseSlot
            /\ promised' = {p \in promised : p <= slot.confirmed}
    /\ UNCHANGED <<worker, recorded, used>>

\* "Drain or delete it manually": the operator heeds the refusal.
DrainByHand ==
    /\ setup.pc = "failed"
    /\ Refuses
    /\ recorded' = Kept
    /\ stream' = [stream EXCEPT !.msgs = <<>>]
    /\ UNCHANGED <<setup, consumer, connectorVars, worker, promised, used>>

(***************************************************************************)
(* Debezium.                                                               *)
(***************************************************************************)
CommitTransaction ==
    /\ Commit
    /\ promised' = IF SlotExists THEN promised \cup ((wal + 1)..wal')
                                 ELSE promised
    /\ UNCHANGED <<setupVars, worker, recorded, used>>

\* Wrong: Debezium is not gated on stream-setup.
StartUngated ==
    /\ CheckSlot
    /\ UNCHANGED <<setupVars, worker, recorded, promised, used>>

StartDebezium ==
    /\ SetupFirst => SetupDone
    /\ CheckSlot
    /\ UNCHANGED <<setupVars, worker, recorded, promised, used>>

ConnectDebezium ==
    /\ Connect
    /\ UNCHANGED <<setupVars, worker, recorded, promised, used>>

HasRoom == stream.storage # "none" /\ Len(stream.msgs) < StreamCap

Publish ==
    /\ HasRoom
    /\ Send
    /\ stream' = [stream EXCEPT !.msgs = Append(@, dbz.cursor + 1)]
    /\ UNCHANGED <<setup, consumer, worker, recorded, promised, used>>

\* The stream takes nothing for as long as the sink retries; it exits.
Rejected ==
    /\ CanSend /\ ~HasRoom
    /\ Exit
    /\ UNCHANGED <<setupVars, worker, recorded, promised, used>>

Flush ==
    /\ FlushOffsets
    /\ UNCHANGED <<setupVars, worker, recorded, promised, used>>

Confirm ==
    /\ ConfirmSlot
    /\ UNCHANGED <<setupVars, worker, recorded, promised, used>>

\* SIGTERM, or SIGKILL.
StopDebezium ==
    /\ Exit \/ ConnectorCrash
    /\ Spend("crashes", MaxCrashes)
    /\ UNCHANGED <<setupVars, worker, recorded, promised>>

(***************************************************************************)
(* The worker.                                                             *)
(***************************************************************************)
\* A new container waits for the setup, one that is restarted for nothing.
\* consumers.get finds the consumer or not; anything else ends the process.
GetConsumer ==
    /\ worker = "down"
    /\ stream.storage # "none"
    /\ worker' = IF consumer = "none" THEN "adding" ELSE "updating"
    /\ UNCHANGED <<setupVars, connectorVars, recorded, promised, used>>

\* Its options are asked for, and applied if they differ.
UpdateConsumer ==
    /\ worker = "updating"
    /\ \/ /\ stream.storage = "none"
          /\ worker' = "down" /\ UNCHANGED consumer
       \/ /\ stream.storage # "none" /\ consumer = "none"
          /\ worker' = "adding" /\ UNCHANGED consumer
       \/ /\ consumer # "none"
          /\ worker' = "running" /\ consumer' = "current"
    /\ UNCHANGED <<setup, stream, connectorVars, recorded, promised, used>>

AddConsumer ==
    /\ worker = "adding"
    /\ IF stream.storage = "none"
       THEN worker' = "down" /\ UNCHANGED consumer
       ELSE worker' = "running" /\ consumer' = "current"
    /\ UNCHANGED <<setup, stream, connectorVars, recorded, promised, used>>

Record ==
    /\ worker = "running"
    /\ consumer # "none"
    /\ stream.msgs # <<>>
    /\ recorded' = recorded \cup {Head(stream.msgs)}
    /\ stream' = [stream EXCEPT !.msgs = Tail(@)]
    /\ UNCHANGED <<setup, consumer, connectorVars, worker, promised, used>>

\* Its consumer was deleted, and a fetch says so.
WorkerExits ==
    /\ worker = "running"
    /\ consumer = "none"
    /\ worker' = "down"
    /\ UNCHANGED <<setupVars, connectorVars, recorded, promised, used>>

WorkerCrash ==
    /\ worker # "down"
    /\ worker' = "down"
    /\ Spend("crashes", MaxCrashes)
    /\ UNCHANGED <<setupVars, connectorVars, recorded, promised>>

(***************************************************************************)
(* The specification.                                                      *)
(***************************************************************************)
Next ==
    \/ BringUp(TRUE) \/ BringUp(FALSE)
    \/ SetupProceeds \/ SetupFailsOnce \/ SlotIsDropped \/ DrainByHand
    \/ CommitTransaction \/ StartDebezium \/ ConnectDebezium
    \/ Publish \/ Rejected \/ Flush \/ Confirm \/ StopDebezium
    \/ GetConsumer \/ UpdateConsumer \/ AddConsumer
    \/ Record \/ WorkerExits \/ WorkerCrash

\* The stack is brought up, and again after a setup that failed; containers
\* are restarted, a worker that is down at the latest when the setup is done;
\* the operator does drain what is refused.  The periodic flush of the offsets
\* is not relied on.
Fairness ==
    /\ WF_vars(BringUp(FALSE) /\ ~SetupDone)
    /\ WF_vars(SetupProceeds)
    /\ WF_vars(SlotIsDropped)
    /\ SF_vars(DrainByHand)
    /\ WF_vars(StartDebezium)
    /\ WF_vars(ConnectDebezium)
    /\ WF_vars(Publish \/ Rejected)
    /\ WF_vars(\/ GetConsumer /\ SetupDone
               \/ UpdateConsumer \/ AddConsumer \/ Record \/ WorkerExits)

Spec == Init /\ [][Next]_vars

FairSpec == Spec /\ Fairness

(***************************************************************************)
(* Properties.                                                             *)
(***************************************************************************)
\* A promised change has its row, is in the stream, or can still be read from
\* the slot (README.md: nothing is lost silently).  It is what the choice of
\* update over delete, the refusal, the order of the containers and the
\* synchronous sink are for (nats.ts:98-111, application.properties:56-61).
NothingDiscarded ==
    \A p \in promised : p \in Kept \/ (SlotExists /\ p > slot.confirmed)

\* Offsets are never left beside a slot they were not taken from: Debezium
\* could not resume them and would exit for ever (debezium.sh:45-52).
OffsetsFitSlot ==
    SlotExists /\ offsets.gen # 0 => offsets.gen = slot.gen

\* Debezium runs only beside a bounded stream on disk (reset.ts:50-53).
FileBacked == Running => stream.storage = "File"

\* Every promised change is recorded in the end, or given up by a later reset;
\* so a setup that failed in part, a stranded file of offsets or a transaction
\* larger than the stream does not stop the capture for good
\* (application.properties:37-41, reset.ts:54-75).
CaptureResumes ==
    \A p \in UNION {1..e : e \in TxEnds} :
        p \in promised ~> (p \in recorded \/ p \notin promised)
=============================================================================
