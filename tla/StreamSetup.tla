----------------------------- MODULE StreamSetup -----------------------------
(***************************************************************************)
(* The one-shot stream-setup service (worker/src/reset.ts), with           *)
(* ensureDebeziumStream (core/src/nats.ts), against the stream as the NATS *)
(* server keeps it.                                                        *)
(*                                                                         *)
(* Each request that the code awaits is a step, because others act while   *)
(* it is on its way; a request whose answer is lost was applied all the    *)
(* same.  A message is the position of the change it carries.              *)
(*                                                                         *)
(* Simplifications: of a stream's configuration only the storage is kept   *)
(* (retention differs when it does); size limits are one constant, so the  *)
(* update applies nothing that can be seen here.                           *)
(***************************************************************************)
EXTENDS Naturals, Sequences

CONSTANT MAX_ATTEMPTS   \* of a connection, and of the stream's setup

ASSUME SetupAssumption == MAX_ATTEMPTS \in Nat \ {0}

VARIABLES
    setup,      \* the service: what it awaits, its attempt, its BEMI_RESET_SLOT
    stream,     \* storage and stored messages of DebeziumStream
    consumer    \* the durable consumer: "none", "stale" options, or "current"

setupVars == <<setup, stream, consumer>>

Stopped == {"idle", "done", "failed"}

Requests == {"looking", "deleting", "adding", "updating"}

SetupTypeOK ==
    /\ setup \in [pc : Stopped \cup Requests \cup {"dropping"},
                  attempt : 1..MAX_ATTEMPTS, reset : BOOLEAN]
    /\ stream \in [storage : {"none", "Memory", "File"}, msgs : Seq(Nat)]
    /\ consumer \in {"none", "stale", "current"}

NoStream == [storage |-> "none", msgs |-> <<>>]

Await(pc) == setup' = [setup EXCEPT !.pc = pc]

Run(reset) ==
    /\ setup.pc \in Stopped
    /\ setup' = [pc      |-> IF reset THEN "dropping" ELSE "looking",
                 attempt |-> 1,
                 reset   |-> reset]
    /\ UNCHANGED <<stream, consumer>>

\* Wrong: one attempt too many; or a setup that gives up and exits with 0.
RetryOnceMore(pc) ==
    setup' = IF setup.attempt > MAX_ATTEMPTS
             THEN [setup EXCEPT !.pc = "failed"]
             ELSE [setup EXCEPT !.pc = pc, !.attempt = @ + 1]

RetryThenProceed(pc) ==
    setup' = IF setup.attempt >= MAX_ATTEMPTS
             THEN [setup EXCEPT !.pc = "done"]
             ELSE [setup EXCEPT !.pc = pc, !.attempt = @ + 1]

\* Either loop: the last attempt throws, which ends the process.
Retry(pc) ==
    setup' = IF setup.attempt >= MAX_ATTEMPTS
             THEN [setup EXCEPT !.pc = "failed"]
             ELSE [setup EXCEPT !.pc = pc, !.attempt = @ + 1]

\* connectOrm does not get through to the database.
ConnectOrmFails ==
    /\ setup.pc = "dropping"
    /\ Retry("dropping")
    /\ UNCHANGED <<stream, consumer>>

\* pg_drop_replication_slot raises an error while the slot is in use, and
\* this statement is not retried.
DropSlot(active) ==
    /\ setup.pc = "dropping"
    /\ setup' = [setup EXCEPT !.pc = IF active THEN "failed" ELSE "looking",
                              !.attempt = 1]
    /\ UNCHANGED <<stream, consumer>>

\* A stream of the wrong kind that still holds messages is not recreated.
Refuses == stream.storage = "Memory" /\ stream.msgs # <<>>

Look ==
    /\ setup.pc = "looking"
    /\ \/ stream.storage = "none" /\ Await("adding")
       \/ Refuses /\ Retry("looking")
       \/ stream.storage = "Memory" /\ ~Refuses /\ Await("deleting")
       \/ stream.storage = "File" /\ Await("updating")
    /\ UNCHANGED <<stream, consumer>>

Answered(ok, pc) == IF ok THEN Await(pc) ELSE Retry("looking")

\* A stream takes its consumers with it.
Delete(ok) ==
    /\ setup.pc = "deleting"
    /\ stream' = NoStream
    /\ consumer' = "none"
    /\ Answered(ok, "adding")

Add(ok) ==
    /\ setup.pc = "adding"
    /\ stream.storage = "none"
    /\ stream' = [storage |-> "File", msgs |-> <<>>]
    /\ Answered(ok, "done")
    /\ UNCHANGED consumer

Update(ok) ==
    /\ setup.pc = "updating"
    /\ Answered(ok, "done")
    /\ UNCHANGED <<stream, consumer>>

\* The request does not reach the server.
Unreachable ==
    /\ setup.pc \in Requests
    /\ Retry("looking")
    /\ UNCHANGED <<stream, consumer>>

SetupStep ==
    \/ Look
    \/ Delete(TRUE)
    \/ Add(TRUE)
    \/ Update(TRUE)

SetupFails ==
    \/ ConnectOrmFails
    \/ Unreachable
    \/ Delete(FALSE)
    \/ Add(FALSE)
    \/ Update(FALSE)
=============================================================================
