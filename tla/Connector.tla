------------------------------ MODULE Connector ------------------------------
(***************************************************************************)
(* The Debezium container: its start script (debezium/debezium.sh) and,    *)
(* as far as the script and application.properties rely on it, the server: *)
(* the replication slot in Postgres and the offsets file on the volume.    *)
(*                                                                         *)
(* A position in the write-ahead log is a number; transactions end at the  *)
(* positions TxEnds.  The slot is confirmed at the end of a transaction,   *)
(* the offsets at any change.  A slot has a number, `gen`, that tells it   *)
(* from the slots of the same name before it; gen 0 is no slot, no file.   *)
(***************************************************************************)
EXTENDS Naturals, FiniteSets

CONSTANT TxEnds   \* the positions of the transactions' last changes

ASSUME ConnectorAssumption == TxEnds \subseteq Nat \ {0} /\ IsFiniteSet(TxEnds)

VARIABLES
    wal,        \* the last committed position
    slot,       \* the replication slot and its confirmed position
    slotsMade,  \* how many slots there ever were
    offsets,    \* offsets.dat and the slot it belongs to
    dbz         \* the container: state, whether the check saw a slot, cursor

connectorVars == <<wal, slot, slotsMade, offsets, dbz>>

NoSlot == [gen |-> 0, confirmed |-> 0]

NoOffsets == [gen |-> 0, lsn |-> 0]

ConnectorTypeOK ==
    /\ wal \in Nat
    /\ slotsMade \in Nat
    /\ slot \in [gen : 0..slotsMade, confirmed : 0..wal]
    /\ offsets \in [gen : 0..slotsMade, lsn : 0..wal]
    /\ dbz \in [pc : {"down", "checked", "running"}, slotSeen : BOOLEAN,
                cursor : 0..wal]

SlotExists == slot.gen # 0

Running == dbz.pc = "running"

Down == [pc |-> "down", slotSeen |-> FALSE, cursor |-> 0]

\* The tracked database commits its next transaction.
Commit ==
    /\ \E e \in TxEnds :
           /\ e > wal
           /\ \A f \in TxEnds : f > wal => e <= f
           /\ wal' = e
    /\ UNCHANGED <<slot, slotsMade, offsets, dbz>>

LoseSlot ==
    /\ slot' = NoSlot
    /\ UNCHANGED <<wal, slotsMade, offsets, dbz>>

\* The script counts the slots of its name.
CheckSlot ==
    /\ dbz.pc = "down"
    /\ dbz' = [dbz EXCEPT !.pc = "checked", !.slotSeen = SlotExists]
    /\ UNCHANGED <<wal, slot, slotsMade, offsets>>

\* Wrong: the file stays whatever the check saw.
KeptAlways == offsets

\* The script discards the file when it saw no slot to go with it.
KeptOffsets == IF dbz.slotSeen THEN offsets ELSE NoOffsets

\* Where the server resumes: at its offsets, never below the slot.
Resume(file, s) ==
    IF file.gen = s.gen /\ file.lsn > s.confirmed THEN file.lsn
                                                  ELSE s.confirmed

\* The server makes a slot at the current position when there is none; it
\* cannot resume offsets that were taken from another slot.
Connect ==
    /\ dbz.pc = "checked"
    /\ offsets' = KeptOffsets
    /\ \/ SlotExists /\ UNCHANGED <<slot, slotsMade>>
       \/ /\ ~SlotExists
          /\ slotsMade' = slotsMade + 1
          /\ slot' = [gen |-> slotsMade + 1, confirmed |-> wal]
    /\ dbz' = IF offsets'.gen \in {0, slot'.gen}
              THEN [dbz EXCEPT !.pc = "running",
                               !.cursor = Resume(offsets', slot')]
              ELSE Down
    /\ UNCHANGED wal

CanSend == Running /\ dbz.cursor < wal

\* The stream accepts the change after the cursor.
Send ==
    /\ CanSend
    /\ dbz' = [dbz EXCEPT !.cursor = @ + 1]
    /\ UNCHANGED <<wal, slot, slotsMade, offsets>>

AtCursor == [gen |-> slot.gen, lsn |-> dbz.cursor]

\* offset.flush.interval.ms is over.
FlushOffsets ==
    /\ Running
    /\ offsets # AtCursor
    /\ offsets' = AtCursor
    /\ UNCHANGED <<wal, slot, slotsMade, dbz>>

\* The slot follows the flushed offsets, a transaction at a time.
ConfirmSlot ==
    /\ Running
    /\ offsets.gen = slot.gen
    /\ \E e \in TxEnds :
           /\ slot.confirmed < e
           /\ e <= offsets.lsn
           /\ slot' = [slot EXCEPT !.confirmed = e]
    /\ UNCHANGED <<wal, slotsMade, offsets, dbz>>

\* Wrong: an exit that loses the offsets it had not flushed.
ExitUnflushed ==
    /\ Running
    /\ dbz' = Down
    /\ UNCHANGED <<wal, slot, slotsMade, offsets>>

\* An orderly end, on SIGTERM or a rejected batch, flushes the offsets.
Exit ==
    /\ Running
    /\ offsets' = AtCursor
    /\ dbz' = Down
    /\ UNCHANGED <<wal, slot, slotsMade>>

ConnectorCrash ==
    /\ dbz.pc # "down"
    /\ dbz' = Down
    /\ UNCHANGED <<wal, slot, slotsMade, offsets>>
=============================================================================
