-------------------------------- MODULE Source --------------------------------
(***************************************************************************)
(* The tracked database and Debezium, as the rest of the system relies on  *)
(* them (debezium/application.properties, docker-compose.yml).  Their code *)
(* is not in this repository.                                              *)
(*                                                                         *)
(* `wal` is what the publication emits, in commit order.  Debezium         *)
(* publishes it synchronously and in order, and flushes its offset only    *)
(* over what the stream accepted; the replication slot advances with the   *)
(* flushed offset, so what lies below it cannot be read again.  A restart  *)
(* (a rejected batch, a lost connection, a container restart) resumes from *)
(* the flushed offset and publishes a second time what was in between.     *)
(***************************************************************************)
EXTENDS Naturals, Sequences, FetchedRecord

CONSTANTS
    Histories,   \* the write-ahead logs to consider
    MaxReplays   \* bound on the restarts of Debezium

ASSUME SourceAssumption ==
    Histories \subseteq Seq(Message) /\ MaxReplays \in Nat

VARIABLES
    wal,       \* the changes and logical messages to publish
    sent,      \* how many of them the stream accepted in this run
    flushed,   \* the offset that a restart resumes from
    replays    \* restarts so far

srcVars == <<wal, sent, flushed, replays>>

SrcTypeOK ==
    /\ wal \in Histories
    /\ sent \in 0..Len(wal)
    /\ flushed \in 0..sent
    /\ replays \in 0..MaxReplays

SrcInit ==
    /\ wal \in Histories
    /\ sent = 0
    /\ flushed = 0
    /\ replays = 0

SrcUnsent == sent < Len(wal)

SrcSend ==
    /\ SrcUnsent
    /\ sent' = sent + 1
    /\ UNCHANGED <<wal, flushed, replays>>

SrcFlush ==
    /\ flushed < sent
    /\ flushed' = sent
    /\ UNCHANGED <<wal, sent, replays>>

SrcRestart ==
    /\ flushed < sent
    /\ replays < MaxReplays
    /\ sent' = flushed
    /\ replays' = replays + 1
    /\ UNCHANGED <<wal, flushed>>
=============================================================================
