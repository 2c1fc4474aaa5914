--------------------------- MODULE DeploymentProofs ---------------------------
(***************************************************************************)
(* Theorems about Deployment, for stacks in which stream-setup completes   *)
(* before Debezium starts (SetupFirst).                                    *)
(***************************************************************************)
EXTENDS Deployment, TLAPS

-----------------------------------------------------------------------------
(* What is stored in the stream was committed, and what the setup is about *)
(* to do fits the stream it looked at earlier.                             *)

StreamInv ==
    /\ Range(stream.msgs) \subseteq 1..wal
    /\ stream.storage = "none" => stream.msgs = <<>>
    /\ setup.pc = "deleting" => stream.msgs = <<>>
    /\ setup.pc \in {"updating", "done"} => stream.storage = "File"

(* The script's check of the slot is still true while the script goes on.  *)

StartInv ==
    /\ dbz.pc # "down" => SetupDone
    /\ dbz.pc = "checked" => dbz.slotSeen = SlotExists
    /\ Running => SlotExists

(* Whatever was promised and lies behind the cursor, or behind offsets of  *)
(* the slot that exists, is kept.                                          *)

KeptUpTo(lsn) == \A p \in promised : p <= lsn => p \in Kept

CursorInv ==
    /\ SlotExists /\ offsets.gen = slot.gen => KeptUpTo(offsets.lsn)
    /\ Running => KeptUpTo(dbz.cursor)

DeploymentInv ==
    /\ TypeOK /\ StreamInv /\ StartInv
    /\ OffsetsFitSlot /\ NothingDiscarded /\ CursorInv

-----------------------------------------------------------------------------
(* Sequences and budgets.                                                  *)

LEMMA RangeOfAppend ==
    ASSUME NEW S, NEW q \in Seq(S), NEW x \in S
    PROVE  Range(Append(q, x)) = Range(q) \cup {x}
<1>1. Len(q) \in Nat /\ Len(Append(q, x)) = Len(q) + 1
  OBVIOUS
<1>2. \A i \in 1..Len(q) : Append(q, x)[i] = q[i]
  OBVIOUS
<1>3. Append(q, x)[Len(q) + 1] = x
  OBVIOUS
<1>4. DOMAIN q = 1..Len(q) /\ DOMAIN Append(q, x) = 1..(Len(q) + 1)
  OBVIOUS
<1>5. 1..(Len(q) + 1) = 1..Len(q) \cup {Len(q) + 1}
  BY <1>1
<1> QED
  BY <1>2, <1>3, <1>4, <1>5 DEF Range

LEMMA RangeOfTail ==
    ASSUME NEW S, NEW q \in Seq(S), q # <<>>
    PROVE  Range(q) = {Head(q)} \cup Range(Tail(q))
<1>1. Len(q) \in Nat \ {0} /\ Len(Tail(q)) = Len(q) - 1 /\ Head(q) = q[1]
  OBVIOUS
<1>2. \A i \in 1..(Len(q) - 1) : Tail(q)[i] = q[i + 1]
  OBVIOUS
<1>3. DOMAIN q = 1..Len(q) /\ DOMAIN Tail(q) = 1..(Len(q) - 1)
  BY <1>1
<1>4. \A i \in 2..Len(q) : i - 1 \in 1..(Len(q) - 1) /\ q[i] = Tail(q)[i - 1]
  BY <1>1, <1>2
<1>5. Range(q) \subseteq {Head(q)} \cup Range(Tail(q))
  <2> SUFFICES ASSUME NEW i \in 1..Len(q) PROVE q[i] \in {Head(q)} \cup Range(Tail(q))
    BY <1>3 DEF Range
  <2>1. CASE i = 1
    BY <1>1, <2>1
  <2>2. CASE i \in 2..Len(q)
    BY <1>3, <1>4, <2>2 DEF Range
  <2> QED
    BY <1>1, <2>1, <2>2
<1>6. {Head(q)} \cup Range(Tail(q)) \subseteq Range(q)
  BY <1>1, <1>2, <1>3 DEF Range
<1> QED
  BY <1>5, <1>6

LEMMA RangeOfShift ==
    ASSUME NEW n \in Nat, NEW m \in Nat
    PROVE  Range([i \in 1..m |-> n + i]) = (n + 1)..(n + m)
<1> DEFINE q == [i \in 1..m |-> n + i]
<1>1. DOMAIN q = 1..m /\ \A i \in 1..m : q[i] = n + i
  OBVIOUS
<1> HIDE DEF q
<1>2. Range(q) \subseteq (n + 1)..(n + m)
  <2> SUFFICES ASSUME NEW i \in 1..m PROVE q[i] \in (n + 1)..(n + m)
    BY <1>1 DEF Range
  <2> QED
    BY <1>1
<1>3. (n + 1)..(n + m) \subseteq Range(q)
  <2> SUFFICES ASSUME NEW p \in (n + 1)..(n + m) PROVE p \in Range(q)
    OBVIOUS
  <2>1. p - n \in 1..m /\ n + (p - n) = p
    OBVIOUS
  <2>2. q[p - n] = p
    BY <1>1, <2>1
  <2> QED
    BY <1>1, <2>1, <2>2 DEF Range
<1>4. Range(q) = (n + 1)..(n + m)
  BY <1>2, <1>3
<1> QED
  BY <1>4 DEF q

LEMMA RangeOfEmpty == Range(<<>>) = {}
  BY DEF Range

Phases == Stopped \cup Requests \cup {"dropping"}

Services == [pc : Phases, attempt : 1..MAX_ATTEMPTS, reset : BOOLEAN]

LEMMA SpendType ==
    ASSUME used \in Budget,
           \/ Spend("runs", MaxRuns) \/ Spend("resets", MaxResets)
           \/ Spend("failures", MaxFailures) \/ Spend("crashes", MaxCrashes)
    PROVE  used' \in Budget
  BY DeploymentAssumption DEF Spend, Budget

-----------------------------------------------------------------------------
LEMMA DeploymentInit == Init => DeploymentInv
<1> SUFFICES ASSUME Init PROVE DeploymentInv
  OBVIOUS
<1> USE SetupAssumption, ConnectorAssumption, DeploymentAssumption DEF Init
<1>1. /\ setup \in [pc : Stopped \cup Requests \cup {"dropping"},
                    attempt : 1..MAX_ATTEMPTS, reset : BOOLEAN]
      /\ used \in Budget
  BY DEF Budget, Stopped
<1>2. CASE Fresh
  <2>1. TypeOK
    BY <1>1, <1>2 DEF TypeOK, SetupTypeOK, ConnectorTypeOK, Fresh, NoStream,
                      NoSlot, NoOffsets, Down
  <2>2. StreamInv /\ StartInv
    BY <1>2, RangeOfEmpty DEF StreamInv, StartInv, Fresh, NoStream, Down, Running
  <2>3. OffsetsFitSlot /\ NothingDiscarded /\ CursorInv
    BY <1>2 DEF OffsetsFitSlot, NothingDiscarded, CursorInv, Fresh, NoSlot,
                SlotExists, Running, Down
  <2> QED
    BY <2>1, <2>2, <2>3 DEF DeploymentInv
<1>3. CASE Upgraded
  <2> USE <1>3 DEF Upgraded
  <2>1. PICK n \in 0..wal :
            /\ recorded = 1..n
            /\ stream = [storage |-> "Memory",
                         msgs    |-> [i \in 1..(wal - n) |-> n + i]]
    OBVIOUS
  <2>2. wal \in Nat /\ n \in Nat /\ n <= wal /\ wal - n \in Nat
    OBVIOUS
  <2>3. stream.msgs \in Seq(Nat)
    BY <2>1, <2>2
  <2>4. Range(stream.msgs) = (n + 1)..wal
    <3>1. stream.msgs = [i \in 1..(wal - n) |-> n + i] /\ n + (wal - n) = wal
      BY <2>1, <2>2
    <3> HIDE DEF Init, Upgraded
    <3> QED
      BY <2>2, <3>1, RangeOfShift
  <2>5. TypeOK
    <3>1. SetupTypeOK
      BY <1>1, <2>1, <2>3, stream.storage = "Memory" DEF SetupTypeOK
    <3>2. ConnectorTypeOK
      BY <2>2 DEF ConnectorTypeOK, NoOffsets, Down
    <3> QED
      BY <1>1, <2>1, <2>2, <3>1, <3>2 DEF TypeOK
  <2>6. StreamInv /\ StartInv
    <3>1. stream.storage = "Memory" /\ setup.pc = "idle" /\ dbz.pc = "down"
      BY <2>1 DEF Down
    <3>2. (n + 1)..wal \subseteq 1..wal
      BY <2>2
    <3> QED
      BY <2>4, <3>1, <3>2 DEF StreamInv, StartInv, Running
  <2>7. Kept = 1..wal
    <3>1. 1..wal = 1..n \cup (n + 1)..wal
      BY <2>2
    <3> QED
      BY <2>1, <2>4, <3>1 DEF Kept
  <2>8. OffsetsFitSlot /\ NothingDiscarded /\ CursorInv
    BY <2>7 DEF OffsetsFitSlot, NothingDiscarded, CursorInv, KeptUpTo, NoOffsets,
                Running, Down
  <2> QED
    BY <2>5, <2>6, <2>8 DEF DeploymentInv
<1> QED
  BY <1>2, <1>3

-----------------------------------------------------------------------------
(* Steps that leave the connector and the promises alone, and take nothing *)
(* out of what is kept.                                                    *)

LEMMA PromisesStay ==
    ASSUME DeploymentInv, UNCHANGED <<connectorVars, promised>>, Kept \subseteq Kept'
    PROVE  OffsetsFitSlot' /\ NothingDiscarded' /\ CursorInv'
  BY DEF DeploymentInv, OffsetsFitSlot, NothingDiscarded, CursorInv, KeptUpTo,
         SlotExists, Running, connectorVars

LEMMA ConnectorTypeStays ==
    ASSUME ConnectorTypeOK, UNCHANGED connectorVars
    PROVE  ConnectorTypeOK'
  BY DEF ConnectorTypeOK, connectorVars

LEMMA StartStays ==
    ASSUME StartInv, UNCHANGED connectorVars, SetupDone => SetupDone'
    PROVE  StartInv'
  BY DEF StartInv, SlotExists, Running, connectorVars

\* While the setup is under way Debezium is down.
LEMMA DownUntilSetUp ==
    ASSUME StartInv, ~SetupDone, UNCHANGED connectorVars
    PROVE  StartInv'
  BY DEF StartInv, SlotExists, Running, connectorVars

LEMMA ServiceMoves ==
    ASSUME NEW r \in Services, NEW pc \in Phases
    PROVE  [r EXCEPT !.pc = pc] \in Services /\ [r EXCEPT !.pc = pc].pc = pc
  BY DEF Services

LEMMA ServiceCounts ==
    ASSUME NEW r \in Services, NEW n \in 1..MAX_ATTEMPTS
    PROVE  /\ [r EXCEPT !.attempt = n] \in Services
           /\ [r EXCEPT !.attempt = n].pc = r.pc
  BY DEF Services

LEMMA BringUpKeeps ==
    ASSUME SetupFirst, DeploymentInv, NEW reset \in BOOLEAN, BringUp(reset)
    PROVE  DeploymentInv'
<1> USE DEF BringUp, Run
<1>1. used' \in Budget
  BY SpendType DEF DeploymentInv, TypeOK
<1>2. SetupTypeOK'
  BY SetupAssumption DEF DeploymentInv, TypeOK, SetupTypeOK, Requests
<1>3. TypeOK'
  BY <1>1, <1>2, ConnectorTypeStays DEF DeploymentInv, TypeOK, connectorVars
<1>4. setup'.pc \in {"dropping", "looking"}
  OBVIOUS
<1>5. StreamInv'
  BY <1>4 DEF DeploymentInv, StreamInv, connectorVars
<1>6. StartInv'
  BY DEF StartInv, SlotExists, Running, connectorVars
<1>7. Kept' = Kept
  BY DEF Kept
<1> QED
  BY <1>3, <1>5, <1>6, <1>7, PromisesStay DEF DeploymentInv

\* What a request of the setup does to the stream loses nothing: one that is
\* deleted was seen empty, and nothing publishes while Debezium is down.
LEMMA RetryStops ==
    ASSUME setup \in Services, NEW pc \in {"looking", "dropping"}, Retry(pc)
    PROVE  setup'.pc \in {pc, "failed"} /\ setup' \in Services
<1>1. CASE setup.attempt >= MAX_ATTEMPTS
  <2>1. setup' = [setup EXCEPT !.pc = "failed"] /\ "failed" \in Phases
    BY <1>1 DEF Retry, Phases, Stopped
  <2> QED
    BY <2>1, ServiceMoves
<1>2. CASE ~(setup.attempt >= MAX_ATTEMPTS)
  <2>1. setup.attempt + 1 \in 1..MAX_ATTEMPTS
    BY <1>2, SetupAssumption DEF Services
  <2>2. /\ setup' = [setup EXCEPT !.pc = pc, !.attempt = setup.attempt + 1]
        /\ pc \in Phases
    BY <1>2 DEF Retry, Phases, Requests
  <2>3. [setup EXCEPT !.pc = pc] \in Services /\ [setup EXCEPT !.pc = pc].pc = pc
    BY <2>2, ServiceMoves
  <2> QED
    BY <2>1, <2>2, <2>3, ServiceCounts
<1> QED
  BY <1>1, <1>2

LEMMA RequestKeeps ==
    ASSUME TypeOK, StreamInv, SetupStep \/ SetupFails, UNCHANGED <<wal, recorded>>
    PROVE  SetupTypeOK' /\ StreamInv' /\ Kept' = Kept /\ ~SetupDone
<1> USE DEF TypeOK, StreamInv, Kept, SetupDone
<1>1. SetupTypeOK
  OBVIOUS
<1>2. setup \in Services
  BY DEF SetupTypeOK, Services, Phases
<1>3. \A pc \in {"adding", "deleting", "updating", "done"} :
          Await(pc) => setup' \in Services /\ setup'.pc = pc
  <2> SUFFICES ASSUME NEW pc \in {"adding", "deleting", "updating", "done"}, Await(pc)
               PROVE  setup' \in Services /\ setup'.pc = pc
    OBVIOUS
  <2>1. pc \in Phases
    BY DEF Phases, Stopped, Requests
  <2> QED
    BY <1>2, <2>1, ServiceMoves DEF Await
<1>4. \A ok \in BOOLEAN, pc \in {"adding", "done"} :
          Answered(ok, pc) => /\ setup' \in Services
                              /\ setup'.pc \in {pc, "looking", "failed"}
  BY <1>2, <1>3, RetryStops DEF Answered
<1>5. CASE Look
  <2>1. setup' \in Services /\ UNCHANGED <<stream, consumer>>
    BY <1>2, <1>3, <1>5, RetryStops DEF Look
  <2>2. setup'.pc = "deleting" => stream.msgs = <<>>
    BY <1>2, <1>3, <1>5, RetryStops DEF Look, Refuses
  <2>3. setup'.pc \in {"updating", "done"} => stream.storage = "File"
    BY <1>2, <1>3, <1>5, RetryStops DEF Look
  <2> QED
    BY <2>1, <2>2, <2>3, <1>5 DEF SetupTypeOK, Services, Phases, Look
<1>6. CASE \E ok \in BOOLEAN : Delete(ok)
  <2>1. setup' \in Services /\ setup'.pc \in {"adding", "looking", "failed"}
    BY <1>4, <1>6 DEF Delete
  <2>2. stream' = NoStream /\ consumer' = "none" /\ setup.pc = "deleting"
    BY <1>6 DEF Delete
  <2>3. Range(stream'.msgs) = {} /\ Range(stream.msgs) = {}
    BY <2>2, RangeOfEmpty DEF NoStream
  <2> QED
    BY <2>1, <2>2, <2>3 DEF SetupTypeOK, Services, Phases, NoStream
<1>7. CASE \E ok \in BOOLEAN : Add(ok)
  <2>1. setup' \in Services /\ setup'.pc \in {"done", "looking", "failed"}
    BY <1>4, <1>7 DEF Add
  <2>2. /\ stream' = [storage |-> "File", msgs |-> <<>>]
        /\ stream.msgs = <<>> /\ setup.pc = "adding" /\ UNCHANGED consumer
    BY <1>7 DEF Add
  <2>3. Range(stream'.msgs) = {} /\ Range(stream.msgs) = {}
    BY <2>2, RangeOfEmpty
  <2> QED
    BY <2>1, <2>2, <2>3 DEF SetupTypeOK, Services, Phases
<1>8. CASE \E ok \in BOOLEAN : Update(ok)
  <2>1. setup' \in Services /\ setup'.pc \in {"done", "looking", "failed"}
    BY <1>4, <1>8 DEF Update
  <2>2. UNCHANGED <<stream, consumer>> /\ setup.pc = "updating"
    BY <1>8 DEF Update
  <2> QED
    BY <2>1, <2>2 DEF SetupTypeOK, Services, Phases
<1>9. CASE Unreachable
  <2>1. setup' \in Services /\ setup'.pc \in {"looking", "failed"}
    BY <1>2, <1>9, RetryStops DEF Unreachable
  <2> QED
    BY <2>1, <1>9 DEF SetupTypeOK, Services, Phases, Unreachable, Requests
<1>10. CASE ConnectOrmFails
  <2>1. setup' \in Services /\ setup'.pc \in {"dropping", "failed"}
    BY <1>2, <1>10, RetryStops DEF ConnectOrmFails
  <2> QED
    BY <2>1, <1>10 DEF SetupTypeOK, Services, Phases, ConnectOrmFails
<1> QED
  BY <1>5, <1>6, <1>7, <1>8, <1>9, <1>10 DEF SetupStep, SetupFails

LEMMA SetupKeeps ==
    ASSUME DeploymentInv, SetupProceeds \/ SetupFailsOnce
    PROVE  DeploymentInv'
<1>1. /\ SetupStep \/ SetupFails
      /\ UNCHANGED <<connectorVars, worker, recorded, promised>>
  BY DEF SetupProceeds, SetupFailsOnce
<1>2. SetupTypeOK' /\ StreamInv' /\ Kept' = Kept /\ ~SetupDone
  BY <1>1, RequestKeeps DEF DeploymentInv, connectorVars
<1>3. used' \in Budget
  BY SpendType DEF SetupProceeds, SetupFailsOnce, DeploymentInv, TypeOK
<1>4. TypeOK'
  BY <1>1, <1>2, <1>3, ConnectorTypeStays DEF DeploymentInv, TypeOK, connectorVars
<1>5. StartInv'
  BY <1>1, <1>2, DownUntilSetUp DEF DeploymentInv
<1> QED
  BY <1>1, <1>2, <1>4, <1>5, PromisesStay DEF DeploymentInv

LEMMA SlotIsDroppedKeeps ==
    ASSUME DeploymentInv, SlotIsDropped
    PROVE  DeploymentInv'
<1> USE DEF SlotIsDropped, DropSlot, LoseSlot, DeploymentInv
<1>1. dbz.pc = "down" /\ ~Running
  BY DEF StartInv, SetupDone, Running
<1>2. setup \in Services
  BY DEF TypeOK, SetupTypeOK, Services, Phases
<1>3. setup'.pc = "looking" /\ setup' \in Services
  <2>1. setup' = [setup EXCEPT !.pc = "looking", !.attempt = 1]
    BY <1>1
  <2>2. "looking" \in Phases /\ 1 \in 1..MAX_ATTEMPTS
    BY SetupAssumption DEF Phases, Requests
  <2> HIDE DEF SlotIsDropped, DropSlot, LoseSlot, DeploymentInv
  <2>3. /\ [setup EXCEPT !.pc = "looking"] \in Services
        /\ [setup EXCEPT !.pc = "looking"].pc = "looking"
    BY <1>2, <2>2, ServiceMoves
  <2> QED
    BY <2>1, <2>2, <2>3, ServiceCounts
<1>4. /\ ~SlotExists' /\ slot' \in [gen : 0..slotsMade, confirmed : 0..wal]
      /\ UNCHANGED <<wal, slotsMade, offsets, dbz>>
  <2>1. CASE SlotExists
    BY <1>1, <2>1 DEF SlotExists, NoSlot, TypeOK, ConnectorTypeOK
  <2>2. CASE ~SlotExists
    BY <2>2 DEF SlotExists, connectorVars, TypeOK, ConnectorTypeOK
  <2> QED
    BY <2>1, <2>2
<1>5. TypeOK'
  <2>1. SetupTypeOK'
    BY <1>3 DEF TypeOK, SetupTypeOK, Services, Phases
  <2>2. ConnectorTypeOK'
    BY <1>4 DEF TypeOK, ConnectorTypeOK
  <2> QED
    BY <1>4, <2>1, <2>2 DEF TypeOK
<1>6. StreamInv' /\ StartInv'
  BY <1>1, <1>3, <1>4 DEF StreamInv, StartInv, Running
<1>7. Kept' = Kept
  BY DEF Kept
<1>8. \A p \in promised' : p \in Kept
  BY <1>1 DEF NothingDiscarded, TypeOK, ConnectorTypeOK
<1>9. OffsetsFitSlot' /\ NothingDiscarded' /\ CursorInv'
  BY <1>1, <1>4, <1>7, <1>8
     DEF OffsetsFitSlot, NothingDiscarded, CursorInv, KeptUpTo, Running
<1> QED
  BY <1>5, <1>6, <1>9

LEMMA DrainByHandKeeps ==
    ASSUME DeploymentInv, DrainByHand
    PROVE  DeploymentInv'
<1> USE DEF DrainByHand, DeploymentInv
<1>1. /\ stream'.storage = stream.storage /\ stream'.msgs = <<>>
      /\ stream' \in [storage : {"none", "Memory", "File"}, msgs : Seq(Nat)]
  <2>1. stream' = [stream EXCEPT !.msgs = <<>>] /\ <<>> \in Seq(Nat)
    OBVIOUS
  <2>2. stream \in [storage : {"none", "Memory", "File"}, msgs : Seq(Nat)]
    BY DEF TypeOK, SetupTypeOK
  <2> HIDE DEF DrainByHand, DeploymentInv
  <2> QED
    BY <2>1, <2>2
<1>2. Range(stream'.msgs) = {}
  BY <1>1, RangeOfEmpty
<1>3. Kept' = Kept /\ Kept \subseteq 1..wal
  BY <1>2 DEF Kept, StreamInv, TypeOK
<1>4. TypeOK'
  BY <1>1, <1>3, ConnectorTypeStays DEF TypeOK, SetupTypeOK, connectorVars
<1>5. StreamInv'
  BY <1>1, <1>2 DEF StreamInv, connectorVars
<1>6. StartInv'
  BY StartStays DEF SetupDone
<1> QED
  BY <1>3, <1>4, <1>5, <1>6, PromisesStay

-----------------------------------------------------------------------------
(* Debezium.  The cursor starts where everything promised is kept and goes *)
(* on one kept change at a time; offsets follow the cursor, and the slot   *)
(* follows the offsets.                                                    *)

LEMMA StreamStays ==
    ASSUME TypeOK, StreamInv, UNCHANGED setupVars, wal' \in Nat, wal <= wal'
    PROVE  SetupTypeOK' /\ StreamInv' /\ (SetupDone' <=> SetupDone)
<1>1. 1..wal \subseteq 1..wal'
  BY DEF TypeOK, ConnectorTypeOK
<1> QED
  BY <1>1 DEF TypeOK, SetupTypeOK, StreamInv, SetupDone, setupVars

LEMMA CommitKeeps ==
    ASSUME DeploymentInv, CommitTransaction
    PROVE  DeploymentInv'
<1> USE DEF CommitTransaction, DeploymentInv
<1>1. /\ wal' \in Nat /\ wal < wal' /\ wal \in Nat
      /\ UNCHANGED <<slot, slotsMade, offsets, dbz>>
  BY ConnectorAssumption DEF Commit, TypeOK, ConnectorTypeOK
<1>2. 0..wal \subseteq 0..wal' /\ 1..wal \subseteq 1..wal'
  BY <1>1
<1>3. promised' \subseteq promised \cup (IF SlotExists THEN (wal + 1)..wal' ELSE {})
  OBVIOUS
<1>4. (wal + 1)..wal' \subseteq 1..wal'
  BY <1>1
<1>5. ConnectorTypeOK'
  BY <1>1, <1>2 DEF TypeOK, ConnectorTypeOK
<1>6. SetupTypeOK' /\ StreamInv' /\ (SetupDone' <=> SetupDone)
  BY <1>1, StreamStays
<1>7. TypeOK'
  BY <1>2, <1>3, <1>4, <1>5, <1>6 DEF TypeOK
<1>8. StartInv' /\ OffsetsFitSlot'
  BY <1>1, <1>6 DEF StartInv, OffsetsFitSlot, SlotExists, Running
<1>9. Kept' = Kept
  BY DEF Kept, setupVars
<1>10. NothingDiscarded'
  <2> SUFFICES ASSUME NEW p \in promised'
               PROVE  p \in Kept \/ (SlotExists /\ p > slot.confirmed)
    BY <1>1, <1>9 DEF NothingDiscarded, SlotExists
  <2>1. CASE p \in promised
    BY <2>1 DEF NothingDiscarded
  <2>2. CASE SlotExists /\ p \in (wal + 1)..wal'
    BY <1>1, <2>2 DEF TypeOK, ConnectorTypeOK
  <2> QED
    BY <1>3, <2>1, <2>2
<1>11. \A lsn \in 0..wal : KeptUpTo(lsn) => KeptUpTo(lsn)'
  <2> SUFFICES ASSUME NEW lsn \in 0..wal, KeptUpTo(lsn), NEW p \in promised', p <= lsn
               PROVE  p \in Kept
    BY <1>9 DEF KeptUpTo
  <2>1. p \notin (wal + 1)..wal'
    BY <1>1
  <2> QED
    BY <1>3, <2>1 DEF KeptUpTo
<1>12. CursorInv'
  BY <1>1, <1>11 DEF CursorInv, SlotExists, Running, TypeOK, ConnectorTypeOK
<1> QED
  BY <1>6, <1>7, <1>8, <1>10, <1>12

LEMMA StartKeeps ==
    ASSUME SetupFirst, DeploymentInv, StartDebezium
    PROVE  DeploymentInv'
<1> USE DEF DeploymentInv
<1>1. /\ UNCHANGED <<setupVars, wal, slot, slotsMade, offsets>> /\ SetupDone
      /\ UNCHANGED <<worker, recorded, promised, used>>
      /\ dbz' = [dbz EXCEPT !.pc = "checked", !.slotSeen = SlotExists]
  BY DEF StartDebezium, CheckSlot
<1>2. /\ dbz'.pc = "checked" /\ dbz'.slotSeen = SlotExists
      /\ dbz'.cursor \in 0..wal /\ SlotExists \in BOOLEAN
      /\ dbz' \in [pc : {"down", "checked", "running"}, slotSeen : BOOLEAN,
                   cursor : 0..wal]
  BY <1>1 DEF TypeOK, ConnectorTypeOK, SlotExists
<1>3. SetupTypeOK' /\ StreamInv' /\ SetupDone'
  BY <1>1, StreamStays DEF TypeOK, ConnectorTypeOK
<1>4. TypeOK'
  BY <1>1, <1>2, <1>3 DEF TypeOK, ConnectorTypeOK
<1>5. StartInv' /\ OffsetsFitSlot'
  BY <1>1, <1>2, <1>3 DEF StartInv, OffsetsFitSlot, SlotExists, Running
<1>6. Kept' = Kept
  BY <1>1 DEF Kept, setupVars
<1>7. NothingDiscarded' /\ CursorInv'
  BY <1>1, <1>2, <1>6 DEF NothingDiscarded, CursorInv, KeptUpTo, SlotExists, Running
<1> QED
  BY <1>3, <1>4, <1>5, <1>7

\* The slot that the server finds is the one the script saw, or it makes one
\* when everything that is still promised is kept.
LEMMA ConnectKeeps ==
    ASSUME DeploymentInv, ConnectDebezium
    PROVE  DeploymentInv'
<1> USE DEF DeploymentInv
<1>1. /\ Connect /\ dbz.pc = "checked"
      /\ UNCHANGED <<setupVars, wal, worker, recorded, promised, used>>
  BY DEF ConnectDebezium, Connect
<1>2. SetupDone /\ dbz.slotSeen = SlotExists
  BY <1>1 DEF StartInv
<1>3. SetupTypeOK' /\ StreamInv' /\ SetupDone'
  BY <1>1, <1>2, StreamStays DEF TypeOK, ConnectorTypeOK
<1>4. Kept' = Kept
  BY <1>1 DEF Kept, setupVars
<1>5. /\ slotsMade' \in Nat
      /\ slot' \in [gen : 0..slotsMade', confirmed : 0..wal] /\ slot'.gen # 0
      /\ offsets' \in [gen : 0..slotsMade', lsn : 0..wal]
      /\ offsets'.gen \in {0, slot'.gen}
      /\ \A p \in promised : p <= slot'.confirmed => p \in Kept
      /\ \A p \in promised : p \in Kept \/ p > slot'.confirmed
      /\ offsets'.gen = slot'.gen => KeptUpTo(offsets'.lsn)
  <2> USE DEF TypeOK, ConnectorTypeOK
  <2>1. CASE SlotExists
    <3>1. offsets' = offsets /\ slot' = slot /\ slotsMade' = slotsMade
      BY <1>1, <1>2, <2>1 DEF Connect, KeptOffsets
    <3>2. \A p \in promised : p \in Kept \/ p > slot.confirmed
      BY <2>1 DEF NothingDiscarded
    <3>3. \A p \in promised : p <= slot.confirmed => p \in Kept
      BY <3>2
    <3>4. offsets.gen \in {0, slot.gen} /\ slot.gen # 0
      BY <2>1 DEF OffsetsFitSlot, SlotExists
    <3>5. offsets.gen = slot.gen => KeptUpTo(offsets.lsn)
      BY <2>1 DEF CursorInv
    <3> QED
      BY <3>1, <3>2, <3>3, <3>4, <3>5
  <2>2. CASE ~SlotExists
    <3>1. /\ offsets' = NoOffsets /\ slotsMade' = slotsMade + 1
          /\ slot' = [gen |-> slotsMade + 1, confirmed |-> wal]
      BY <1>1, <1>2, <2>2 DEF Connect, KeptOffsets
    <3>2. \A p \in promised : p \in Kept
      BY <2>2 DEF NothingDiscarded
    <3>3. offsets'.gen = 0 /\ slot'.gen = slotsMade + 1
      BY <3>1 DEF NoOffsets
    <3>4. /\ slot' \in [gen : 0..slotsMade', confirmed : 0..wal]
          /\ offsets' \in [gen : 0..slotsMade', lsn : 0..wal]
      BY <3>1 DEF NoOffsets
    <3> QED
      BY <3>1, <3>2, <3>3, <3>4
  <2> QED
    BY <2>1, <2>2
<1>6. /\ dbz' = [dbz EXCEPT !.pc = "running", !.cursor = Resume(offsets', slot')]
      /\ Resume(offsets', slot') \in 0..wal
      /\ KeptUpTo(Resume(offsets', slot'))
  <2>1. dbz' = [dbz EXCEPT !.pc = "running", !.cursor = Resume(offsets', slot')]
    BY <1>1, <1>5 DEF Connect
  <2>2. Resume(offsets', slot') \in 0..wal
    BY <1>5 DEF Resume
  <2>3. KeptUpTo(slot'.confirmed)
    BY <1>5 DEF KeptUpTo
  <2>4. KeptUpTo(Resume(offsets', slot'))
    BY <1>5, <2>3 DEF Resume
  <2> QED
    BY <2>1, <2>2, <2>4
<1>7. /\ dbz'.pc = "running" /\ dbz'.cursor = Resume(offsets', slot')
      /\ dbz' \in [pc : {"down", "checked", "running"}, slotSeen : BOOLEAN,
                   cursor : 0..wal]
  BY <1>6 DEF TypeOK, ConnectorTypeOK
<1>8. TypeOK'
  BY <1>1, <1>3, <1>5, <1>7 DEF TypeOK, ConnectorTypeOK
<1>9. StartInv' /\ OffsetsFitSlot'
  BY <1>3, <1>5, <1>7 DEF StartInv, OffsetsFitSlot, SlotExists, Running
<1>10. NothingDiscarded'
  BY <1>1, <1>4, <1>5 DEF NothingDiscarded, SlotExists
<1>11. CursorInv'
  BY <1>1, <1>4, <1>5, <1>6, <1>7 DEF CursorInv, KeptUpTo
<1> QED
  BY <1>3, <1>8, <1>9, <1>10, <1>11

LEMMA PublishKeeps ==
    ASSUME DeploymentInv, Publish
    PROVE  DeploymentInv'
<1> USE DEF DeploymentInv
<1> DEFINE next == dbz.cursor + 1
<1>1. /\ Running /\ dbz.cursor < wal /\ dbz' = [dbz EXCEPT !.cursor = next]
      /\ stream' = [stream EXCEPT !.msgs = Append(stream.msgs, next)]
      /\ stream.storage # "none"
      /\ UNCHANGED <<wal, slot, slotsMade, offsets>>
      /\ UNCHANGED <<setup, consumer, worker, recorded, promised, used>>
  BY DEF Publish, Send, CanSend, HasRoom
<1>2. /\ dbz \in [pc : {"down", "checked", "running"}, slotSeen : BOOLEAN,
                  cursor : 0..wal]
      /\ stream \in [storage : {"none", "Memory", "File"}, msgs : Seq(Nat)]
      /\ wal \in Nat
  BY DEF TypeOK, SetupTypeOK, ConnectorTypeOK
<1>3. next \in 1..wal /\ next \in 0..wal /\ next \in Nat
  BY <1>1, <1>2
<1>4. /\ stream'.storage = stream.storage
      /\ stream'.msgs = Append(stream.msgs, next)
      /\ stream' \in [storage : {"none", "Memory", "File"}, msgs : Seq(Nat)]
  <2>1. Append(stream.msgs, next) \in Seq(Nat)
    BY <1>2, <1>3
  <2> QED
    BY <1>1, <1>2, <2>1
<1>5. Range(stream'.msgs) = Range(stream.msgs) \cup {next}
  BY <1>2, <1>3, <1>4, RangeOfAppend
<1>6. /\ dbz'.pc = dbz.pc /\ dbz'.slotSeen = dbz.slotSeen /\ dbz'.cursor = next
      /\ dbz' \in [pc : {"down", "checked", "running"}, slotSeen : BOOLEAN,
                   cursor : 0..wal]
  BY <1>1, <1>2, <1>3
<1> HIDE DEF next
<1>7. TypeOK'
  BY <1>1, <1>4, <1>6 DEF TypeOK, SetupTypeOK, ConnectorTypeOK
<1>8. StartInv' /\ OffsetsFitSlot'
  BY <1>1, <1>6 DEF StartInv, OffsetsFitSlot, SetupDone, SlotExists, Running
<1>9. StreamInv'
  <2>1. setup.pc = "done"
    BY <1>1 DEF StartInv, SetupDone, Running
  <2> QED
    BY <1>1, <1>3, <1>4, <1>5, <2>1 DEF StreamInv
<1>10. Kept' = Kept \cup {next}
  BY <1>1, <1>5 DEF Kept
<1>11. NothingDiscarded'
  BY <1>1, <1>10 DEF NothingDiscarded, SlotExists
<1>12. CursorInv'
  <2>1. \A p \in promised : p <= next => p <= dbz.cursor \/ p = next
    BY <1>2 DEF TypeOK, next
  <2>2. KeptUpTo(dbz.cursor)
    BY <1>1 DEF CursorInv
  <2>3. \A p \in promised : p <= dbz'.cursor => p \in Kept'
    BY <1>1, <1>6, <1>10, <2>1, <2>2 DEF KeptUpTo
  <2> QED
    BY <1>1, <1>10, <2>3 DEF CursorInv, KeptUpTo, SlotExists
<1> QED
  BY <1>7, <1>8, <1>9, <1>11, <1>12

LEMMA StopKeeps ==
    ASSUME DeploymentInv, Rejected \/ Flush \/ StopDebezium
    PROVE  DeploymentInv'
<1> USE DEF DeploymentInv
<1>1. /\ UNCHANGED <<setupVars, wal, slot, slotsMade, worker, recorded, promised>>
      /\ offsets' = offsets \/ (Running /\ offsets' = AtCursor)
      /\ dbz' = dbz \/ dbz' = Down
  BY DEF Rejected, Flush, StopDebezium, FlushOffsets, Exit, ConnectorCrash
<1>2. used' \in Budget
  BY SpendType DEF Rejected, Flush, StopDebezium, TypeOK
<1>3. SetupTypeOK' /\ StreamInv' /\ (SetupDone' <=> SetupDone)
  BY <1>1, StreamStays DEF TypeOK, ConnectorTypeOK
<1>4. offsets' \in [gen : 0..slotsMade, lsn : 0..wal]
  BY <1>1 DEF AtCursor, TypeOK, ConnectorTypeOK
<1>5. dbz' \in [pc : {"down", "checked", "running"}, slotSeen : BOOLEAN,
                cursor : 0..wal]
  <2>1. dbz \in [pc : {"down", "checked", "running"}, slotSeen : BOOLEAN,
                cursor : 0..wal] /\ wal \in Nat
    BY DEF TypeOK, ConnectorTypeOK
  <2>2. Down \in [pc : {"down", "checked", "running"}, slotSeen : BOOLEAN,
                 cursor : 0..wal]
    BY <2>1 DEF Down
  <2> QED
    BY <1>1, <2>1, <2>2
<1>6. TypeOK'
  <2>1. ConnectorTypeOK'
    BY <1>1, <1>4, <1>5 DEF TypeOK, ConnectorTypeOK
  <2> QED
    BY <1>1, <1>2, <1>3, <2>1 DEF TypeOK
<1>7. StartInv'
  BY <1>1, <1>3 DEF StartInv, Running, SlotExists, Down
<1>8. OffsetsFitSlot'
  BY <1>1 DEF OffsetsFitSlot, SlotExists, AtCursor
<1>9. Kept' = Kept
  BY <1>1 DEF Kept, setupVars
<1>10. NothingDiscarded'
  BY <1>1, <1>9 DEF NothingDiscarded, SlotExists
<1>11. CursorInv'
  BY <1>1, <1>9 DEF CursorInv, KeptUpTo, SlotExists, Running, AtCursor, Down
<1> QED
  BY <1>3, <1>6, <1>7, <1>8, <1>10, <1>11

LEMMA ConfirmKeeps ==
    ASSUME DeploymentInv, Confirm
    PROVE  DeploymentInv'
<1> USE DEF DeploymentInv
<1>1. PICK e \in TxEnds :
          /\ Running /\ offsets.gen = slot.gen
          /\ e <= offsets.lsn /\ slot' = [slot EXCEPT !.confirmed = e]
          /\ UNCHANGED <<setupVars, wal, slotsMade, offsets, dbz>>
          /\ UNCHANGED <<worker, recorded, promised, used>>
  BY DEF Confirm, ConfirmSlot
<1>2. /\ slot \in [gen : 0..slotsMade, confirmed : 0..wal]
      /\ offsets \in [gen : 0..slotsMade, lsn : 0..wal] /\ wal \in Nat
      /\ promised \subseteq 1..wal
  BY DEF TypeOK, ConnectorTypeOK
<1>3. e \in 0..wal /\ e \in Nat
  BY <1>1, <1>2, ConnectorAssumption
<1>4. /\ slot'.gen = slot.gen /\ slot'.confirmed = e
      /\ slot' \in [gen : 0..slotsMade, confirmed : 0..wal]
  BY <1>1, <1>2, <1>3
<1>5. SetupTypeOK' /\ StreamInv' /\ (SetupDone' <=> SetupDone)
  BY <1>1, <1>2, StreamStays
<1>6. TypeOK'
  BY <1>1, <1>4, <1>5 DEF TypeOK, ConnectorTypeOK
<1>7. StartInv' /\ OffsetsFitSlot'
  BY <1>1, <1>4, <1>5 DEF StartInv, OffsetsFitSlot, SlotExists, Running
<1>8. Kept' = Kept
  BY <1>1 DEF Kept, setupVars
<1>9. SlotExists /\ SlotExists'
  BY <1>1, <1>4 DEF StartInv, SlotExists
<1>10. KeptUpTo(offsets.lsn)
  BY <1>1, <1>9 DEF CursorInv
<1>11. NothingDiscarded'
  <2> SUFFICES ASSUME NEW p \in promised, ~(p > e)
               PROVE  p \in Kept
    BY <1>1, <1>4, <1>8, <1>9 DEF NothingDiscarded
  <2>1. p <= offsets.lsn
    BY <1>1, <1>2, <1>3
  <2> QED
    BY <1>10, <2>1 DEF KeptUpTo
<1>12. CursorInv'
  BY <1>1, <1>4, <1>8 DEF CursorInv, KeptUpTo, SlotExists, Running
<1> QED
  BY <1>5, <1>6, <1>7, <1>11, <1>12

-----------------------------------------------------------------------------
(* The worker moves a change from the stream to the table.                 *)

LEMMA WorkerKeeps ==
    ASSUME DeploymentInv, \/ GetConsumer \/ UpdateConsumer \/ AddConsumer
                          \/ WorkerExits \/ WorkerCrash
    PROVE  DeploymentInv'
<1> USE DEF DeploymentInv
<1>1. /\ UNCHANGED <<setup, stream, connectorVars, recorded, promised>>
      /\ worker' \in {"down", "updating", "adding", "running"}
      /\ consumer' \in {consumer, "current"}
  BY DEF GetConsumer, UpdateConsumer, AddConsumer, WorkerExits, WorkerCrash,
         setupVars
<1>2. used' \in Budget
  BY SpendType DEF GetConsumer, UpdateConsumer, AddConsumer, WorkerExits,
                   WorkerCrash, TypeOK
<1>3. SetupTypeOK' /\ ConnectorTypeOK'
  BY <1>1, ConnectorTypeStays DEF TypeOK, SetupTypeOK
<1>4. TypeOK'
  BY <1>1, <1>2, <1>3 DEF TypeOK, connectorVars
<1>5. StreamInv' /\ StartInv'
  BY <1>1, StartStays DEF StreamInv, SetupDone, connectorVars
<1>6. Kept' = Kept
  BY <1>1 DEF Kept
<1> QED
  BY <1>1, <1>4, <1>5, <1>6, PromisesStay

LEMMA RecordKeeps ==
    ASSUME DeploymentInv, Record
    PROVE  DeploymentInv'
<1> USE DEF DeploymentInv
<1>1. /\ stream.msgs # <<>> /\ recorded' = recorded \cup {Head(stream.msgs)}
      /\ stream' = [stream EXCEPT !.msgs = Tail(stream.msgs)]
      /\ UNCHANGED <<setup, consumer, connectorVars, worker, promised, used>>
  BY DEF Record
<1>2. stream \in [storage : {"none", "Memory", "File"}, msgs : Seq(Nat)]
  BY DEF TypeOK, SetupTypeOK
<1>3. /\ stream'.storage = stream.storage /\ stream'.msgs = Tail(stream.msgs)
      /\ stream' \in [storage : {"none", "Memory", "File"}, msgs : Seq(Nat)]
  <2>1. Tail(stream.msgs) \in Seq(Nat)
    BY <1>1, <1>2
  <2> QED
    BY <1>1, <1>2, <2>1
<1>4. Range(stream.msgs) = {Head(stream.msgs)} \cup Range(stream'.msgs)
  BY <1>1, <1>2, <1>3, RangeOfTail
<1>5. Kept' = Kept
  BY <1>1, <1>4 DEF Kept
<1>6. Kept \subseteq 1..wal
  BY DEF Kept, StreamInv, TypeOK
<1>7. recorded' \subseteq 1..wal /\ Range(stream'.msgs) \subseteq 1..wal
  BY <1>5, <1>6 DEF Kept
<1>8. TypeOK'
  BY <1>1, <1>3, <1>7, ConnectorTypeStays DEF TypeOK, SetupTypeOK, connectorVars
<1>9. StreamInv'
  BY <1>1, <1>3, <1>7 DEF StreamInv, connectorVars
<1>10. StartInv'
  BY <1>1, StartStays DEF SetupDone
<1> QED
  BY <1>1, <1>5, <1>8, <1>9, <1>10, PromisesStay

-----------------------------------------------------------------------------
LEMMA DeploymentNext ==
    ASSUME SetupFirst, DeploymentInv, [Next]_vars
    PROVE  DeploymentInv'
<1>1. CASE Next
  BY <1>1, BringUpKeeps, SetupKeeps, SlotIsDroppedKeeps, DrainByHandKeeps, CommitKeeps,
     StartKeeps, ConnectKeeps, PublishKeeps, StopKeeps, ConfirmKeeps, WorkerKeeps,
     RecordKeeps
     DEF Next
<1>2. CASE UNCHANGED vars
  <2>1. UNCHANGED <<setupVars, connectorVars, worker, recorded, promised, used>>
    BY <1>2 DEF vars
  <2>2. TypeOK' /\ Kept' = Kept
    BY <2>1 DEF DeploymentInv, TypeOK, SetupTypeOK, ConnectorTypeOK, setupVars,
                connectorVars, Kept
  <2>3. StreamInv' /\ StartInv'
    BY <2>1, StartStays DEF DeploymentInv, StreamInv, SetupDone, setupVars,
                            connectorVars
  <2> QED
    BY <2>1, <2>2, <2>3, PromisesStay DEF DeploymentInv
<1> QED
  BY <1>1, <1>2

\* The parts hold together; none of them is inductive alone.
LEMMA DeploymentInvariant ==
    ASSUME SetupFirst PROVE Spec => []DeploymentInv
<1>1. DeploymentInv /\ [Next]_vars => DeploymentInv'
  BY DeploymentNext
<1> QED
  BY <1>1, DeploymentInit, PTL DEF Spec

-----------------------------------------------------------------------------
\* Every variable of the setup, the connector and the worker keeps to its type.
THEOREM DeploymentTypeCorrect == ASSUME SetupFirst PROVE Spec => []TypeOK
<1>1. DeploymentInv => TypeOK
  BY DEF DeploymentInv
<1> QED
  BY <1>1, DeploymentInvariant, PTL

\* Whatever transactions there are and however often the stack is brought up
\* and reset, a promised change has its row, is in the stream, or is ahead of
\* what the slot has confirmed.
THEOREM NothingPromisedIsLost ==
    ASSUME SetupFirst PROVE Spec => []NothingDiscarded
<1>1. DeploymentInv => NothingDiscarded
  BY DEF DeploymentInv
<1> QED
  BY <1>1, DeploymentInvariant, PTL

\* The offsets that the script leaves are of the slot that exists.
THEOREM OffsetsAlwaysFit == ASSUME SetupFirst PROVE Spec => []OffsetsFitSlot
<1>1. DeploymentInv => OffsetsFitSlot
  BY DEF DeploymentInv
<1> QED
  BY <1>1, DeploymentInvariant, PTL

\* Debezium runs beside a stream that was made, or found, by the setup.
THEOREM StreamIsOnDisk == ASSUME SetupFirst PROVE Spec => []FileBacked
<1>1. DeploymentInv => FileBacked
  BY DEF DeploymentInv, StreamInv, StartInv, SetupDone, Running, FileBacked
<1> QED
  BY <1>1, DeploymentInvariant, PTL
=============================================================================
