----------------------------- MODULE MCIngestion -----------------------------
(***************************************************************************)
(* Small write-ahead logs for Ingestion.  A log is built from what single  *)
(* transactions write; the i-th message of transaction t has position      *)
(* 10 * t + i, so positions are unique without naming them one by one.     *)
(* The order of the transactions is that of their commits; their ids need  *)
(* not ascend, because an id is taken when a transaction first writes.     *)
(***************************************************************************)
EXTENDS Ingestion

\* Transaction t, writing messages of these kinds.
Tx(t, kinds) ==
    [i \in DOMAIN kinds |-> [kind |-> kinds[i], tx |-> t, pos |-> 10 * t + i]]

Led     == <<"context", "change">>
Trail   == <<"change", "context">>
Several == <<"context", "change", "change">>
Spread  == <<"context", "bare", "bare", "change">>
Lone    == <<"change">>
Orphan  == <<"context">>
Beat    == <<"heartbeat">>
Empty   == <<"noop">>
Other   == <<"foreign">>
Poison  == <<"poison">>
Idle    == <<"idle">>

\* Everything the deployed worker meets.
WorkerHistories ==
    { Tx(1, Led) \o Tx(2, Lone) \o Tx(3, Beat),
      Tx(2, Lone) \o Tx(1, Led) \o Tx(3, Idle),
      Tx(3, Empty) \o Tx(1, Other) \o Tx(2, Trail),
      Tx(2, Orphan) \o Tx(1, Lone) \o Tx(3, Poison) }

\* Contexts before and after the changes of their transaction, several changes
\* of one, a context exactly the gap before its change, contexts whose change
\* never comes, one of them ahead of lower ids, and lone changes that wait for
\* a pair.
BufferedHistories ==
    { Tx(1, Several) \o Tx(2, Lone),
      Tx(2, Lone) \o Tx(1, Led) \o Tx(3, Beat),
      Tx(1, Lone) \o Tx(2, Empty) \o Tx(3, Beat),
      Tx(3, Orphan) \o Tx(1, Lone) \o Tx(2, Lone) \o Tx(4, Beat),
      Tx(1, Orphan) \o Tx(2, Led) \o Tx(3, Other),
      Tx(1, Spread),
      Tx(1, Trail) \o Tx(2, Trail) }

\* What must drain although the stream is full more than once.
LiveHistories ==
    { Tx(1, Led) \o Tx(2, Lone),
      Tx(2, Lone) \o Tx(1, Idle) \o Tx(3, Orphan) \o Tx(4, Lone) }

LiveBufferedHistories ==
    { Tx(1, Led) \o Tx(2, Lone) \o Tx(3, Beat) \o Tx(4, Beat),
      Tx(2, Orphan) \o Tx(1, Lone) \o Tx(3, Lone) \o Tx(4, Beat) \o Tx(5, Beat) }

(***************************************************************************)
(* One log for each disagreement between the code and what it says.        *)
(***************************************************************************)
TwoChangesHistories == { Tx(1, Lone) \o Tx(2, Lone) }

LedHistories == { Tx(1, Led) \o Tx(2, Beat) }

ForeignHistories == { Tx(1, Other) \o Tx(2, Other) \o Tx(3, Lone) \o Tx(4, Lone) }
=============================================================================
