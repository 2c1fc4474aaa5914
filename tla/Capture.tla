------------------------------- MODULE Capture -------------------------------
(***************************************************************************)
(* From a write in the application to a row of the audit table: what a     *)
(* stored row says about the table, and about who changed it.              *)
(*                                                                         *)
(* Sessions of the application change rows of one tracked table and emit   *)
(* contexts, in transactions that interleave, commit or roll back.  Each   *)
(* write takes its LSN when it is made; the WAL is decoded in commit       *)
(* order.  A context emitted on the top-level client runs on a connection  *)
(* of its own and commits at once (context/src/index.ts:40-43).            *)
(*                                                                         *)
(* The worker is reduced to what it computes: it takes all that was        *)
(* committed since its last turn.  That a fetch cuts transactions apart,   *)
(* and all that can fail on the way, is the subject of module Ingestion.   *)
(***************************************************************************)
EXTENDS Integers, Sequences, Functions, Stitching, ContextEmitter, CaptureFilter

CONSTANTS
    Sessions,     \* the application's connections with a transaction
    Ids,          \* primary keys
    Values,       \* values of a column
    Toasted,      \* array columns that are stored out of line
    Excluded,     \* BEMI_EXCLUDE_COLUMNS
    Updates,      \* the sets of columns that one UPDATE may change
    MaxWrites,    \* bound on the writes
    MaxEmits,     \* bound on the contexts that are emitted
    MaxMessages   \* bound on both together

\* Some column is captured: without its primary key, an image of none could
\* not be told from no image.  The deployed worker does not set useBuffer.
ASSUME CaptureAssumption ==
    /\ ~UseBuffer
    /\ Toasted \subseteq Columns
    /\ Excluded \subseteq Columns /\ Excluded # Columns
    /\ Values \cap {Unavailable, Undefined} = {}
    /\ Updates \subseteq SUBSET Columns
    /\ {MaxWrites, MaxEmits, MaxMessages} \subseteq Nat

VARIABLES
    identity,   \* the replica identity of the table: "FULL" or "DEFAULT"
    initial,    \* the committed rows before the first decoded transaction
    table,      \* the committed rows now
    session,    \* the open transaction of each session
    log,        \* the committed messages, in commit order
    fetched,    \* how many of them the worker has taken
    changes,    \* the rows of the audit table
    given,      \* the fields that each committed transaction was first given
    writes,     \* writes so far
    emits,      \* emitted contexts so far
    xids        \* transaction ids assigned so far

vars == <<identity, initial, table, session, log, fetched, changes, given,
          writes, emits, xids>>

Subject == "bemi"

Row == [Columns -> Values]

Idle == [xid |-> 0, rows |-> [i \in {} |-> NoImage], sent |-> <<>>, given |-> {}]

\* The next LSN: every write and every emitted context takes one.
Position == writes + emits + 1

Init ==
    /\ identity \in {"FULL", "DEFAULT"}
    /\ initial \in [Ids -> {NoImage} \union {[c \in Columns |-> v] : v \in Values}]
    /\ table = initial
    /\ session = [a \in Sessions |-> Idle]
    /\ log = <<>>
    /\ fetched = 0
    /\ changes = {}
    /\ given = [x \in {} |-> {}]
    /\ writes = 0
    /\ emits = 0
    /\ xids = 0

(***************************************************************************)
(* The application.  A transaction gets its id with its first write or its *)
(* first transactional message; a row that another transaction has written *)
(* cannot be written before that one ends.                                 *)
(***************************************************************************)
Xid(a) == IF session[a].xid = 0 THEN xids + 1 ELSE session[a].xid

Unlocked(a, i) == \A b \in Sessions \ {a} : i \notin DOMAIN session[b].rows

Current(a, i) ==
    IF i \in DOMAIN session[a].rows THEN session[a].rows[i] ELSE table[i]

Change(a, op, i, old, new) ==
    [kind |-> "change", tx |-> Xid(a), pos |-> Position, operation |-> op,
     id |-> i, old |-> old, new |-> new, fields |-> {}]

ContextMessage(xid, fields) ==
    [kind |-> "context", tx |-> xid, pos |-> Position, operation |-> "MESSAGE",
     id |-> 0, old |-> NoImage, new |-> NoImage, fields |-> fields]

Write(a, op, i, new) ==
    /\ writes < MaxWrites /\ Position <= MaxMessages
    /\ Unlocked(a, i)
    /\ session' = [session EXCEPT
          ![a].xid  = Xid(a),
          ![a].rows = [j \in DOMAIN @ \union {i} |-> IF j = i THEN new ELSE @[j]],
          ![a].sent = Append(@, Change(a, op, i, Current(a, i), new))]
    /\ writes' = writes + 1
    /\ xids' = IF session[a].xid = 0 THEN xids + 1 ELSE xids
    /\ UNCHANGED <<identity, initial, table, log, fetched, changes, given, emits>>

Insert(a, i) ==
    /\ Current(a, i) = NoImage
    /\ \E v \in Values : Write(a, "CREATE", i, [c \in Columns |-> v])

Update(a, i) ==
    /\ Current(a, i) # NoImage
    /\ \E new \in Row :
        /\ {c \in Columns : new[c] # Current(a, i)[c]} \in Updates
        /\ Write(a, "UPDATE", i, new)

Delete(a, i) ==
    /\ Current(a, i) # NoImage
    /\ Write(a, "DELETE", i, NoImage)

\* What the caller meant to attach.
Given(c) == DOMAIN c.fields \ FieldsThatAre(c, "undefined")

\* The caller passes the client of its transaction, and the call returns.
EmitInTransaction(a, c) ==
    /\ ~Rejects(c)
    /\ emits < MaxEmits /\ Position <= MaxMessages
    /\ session' = [session EXCEPT
          ![a].xid   = IF Emits(c) THEN Xid(a) ELSE @,
          ![a].sent  = IF Emits(c) THEN Append(@, ContextMessage(Xid(a), Payload(c)))
                                   ELSE @,
          ![a].given = IF @ = {} THEN Given(c) ELSE @]
    /\ emits' = IF Emits(c) THEN emits + 1 ELSE emits
    /\ xids' = IF Emits(c) /\ session[a].xid = 0 THEN xids + 1 ELSE xids
    /\ UNCHANGED <<identity, initial, table, log, fetched, changes, given, writes>>

\* The caller passes the top-level client.
EmitOnTopLevelClient(c) ==
    /\ Emits(c)
    /\ emits < MaxEmits /\ Position <= MaxMessages
    /\ log' = Append(log, ContextMessage(xids + 1, Payload(c)))
    /\ emits' = emits + 1
    /\ xids' = xids + 1
    /\ UNCHANGED <<identity, initial, table, session, fetched, changes, given, writes>>

Commit(a) ==
    /\ session[a].xid # 0
    /\ table' = [i \in Ids |-> Current(a, i)]
    /\ log' = log \o session[a].sent
    /\ given' = [x \in DOMAIN given \union {session[a].xid} |->
                    IF x = session[a].xid THEN session[a].given ELSE given[x]]
    /\ session' = [session EXCEPT ![a] = Idle]
    /\ UNCHANGED <<identity, initial, fetched, changes, writes, emits, xids>>

\* Also what becomes of the transaction when a rejected context is not caught.
Rollback(a) ==
    /\ session[a] # Idle
    /\ session' = [session EXCEPT ![a] = Idle]
    /\ UNCHANGED <<identity, initial, table, log, fetched, changes, given,
                   writes, emits, xids>>

(***************************************************************************)
(* Debezium.  With a full replica identity the old row is in the WAL; it   *)
(* fills in a scalar that an update left out of line, and leaves arrays to *)
(* the worker.  Otherwise it has nothing to compare with.                  *)
(***************************************************************************)
Captured(row) == Restrict(row, DOMAIN row \ Excluded)

LeftOutOfLine(m, c) ==
    m.operation = "UPDATE" /\ c \in Toasted /\ m.old[c] = m.new[c]

Before(m) == IF identity = "FULL" THEN Captured(m.old) ELSE NoImage

After(m) ==
    [c \in DOMAIN Captured(m.new) |->
        IF LeftOutOfLine(m, c) THEN Unavailable ELSE m.new[c]]

(***************************************************************************)
(* The worker.                                                             *)
(***************************************************************************)
\* fromNatsMessage for the message at sequence s.
Parsed(s) ==
    LET m == log[s] IN
    [seq |-> s, subject |-> Subject, kind |-> m.kind, tx |-> m.tx, pos |-> m.pos,
     operation |-> m.operation, primaryKey |-> m.id,
     before |-> Repaired(Before(m), After(m)),
     after |-> Repaired(After(m), Before(m)),
     ctx |-> m.fields]

RowOf(r) ==
    [position |-> r.pos, transactionId |-> r.tx, operation |-> r.operation,
     primaryKey |-> r.primaryKey, before |-> r.before, after |-> r.after,
     context |-> r.ctx]

\* One turn of the loop: parse, stitch, filter, store.
Ingest ==
    /\ fetched < Len(log)
    /\ LET recs == {Parsed(s) : s \in (fetched + 1)..Len(log)}
           kept == FilterEmptyChanges(
                       StitchFetchedRecords(recs, <<Subject>>).stitched)
       IN  changes' = changes \union {RowOf(r) : r \in kept}
    /\ fetched' = Len(log)
    /\ UNCHANGED <<identity, initial, table, session, log, given, writes,
                   emits, xids>>

Next ==
    \/ \E a \in Sessions :
        \/ \E i \in Ids : Insert(a, i) \/ Update(a, i) \/ Delete(a, i)
        \/ \E c \in Contexts : EmitInTransaction(a, c)
        \/ Commit(a)
        \/ Rollback(a)
    \/ \E c \in Contexts : EmitOnTopLevelClient(c)
    \/ Ingest

Spec == Init /\ [][Next]_vars
-----------------------------------------------------------------------------
Images == UNION {[S -> Values \union {Unavailable}] : S \in SUBSET Columns}

\* Rows, open transactions and messages are what they should be; in the WAL no
\* context is empty, and no two messages share a position.
TypeOK ==
    /\ identity \in {"FULL", "DEFAULT"}
    /\ table \in [Ids -> {NoImage} \union Row]
    /\ fetched \in 0..Len(log)
    /\ \A s \in DOMAIN log :
        /\ log[s].tx \in 1..xids
        /\ log[s].pos \in 1..(Position - 1)
        /\ log[s].kind = "context" => log[s].fields \in (SUBSET Fields) \ {{}}
        /\ \A t \in DOMAIN log : log[t].pos = log[s].pos => t = s
    /\ \A row \in changes :
        /\ {row.before, row.after} \subseteq Images
        /\ row.context \subseteq Fields

(***************************************************************************)
(* The audit table read as the history of the tracked table.               *)
(***************************************************************************)
\* What the worker was not told to leave out.
Substance(image) == Restrict(image, DOMAIN image \ (IgnoreFields \union Excluded))

Earlier(row) ==
    {r \in changes : r.primaryKey = row.primaryKey /\ r.position < row.position}

Latest(rows) == CHOOSE r \in rows : \A q \in rows : q.position <= r.position

LastAfter(rows, i) == IF rows = {} THEN initial[i] ELSE Latest(rows).after

\* With a full replica identity the stored rows of a key, read by position,
\* are a history without a gap: each begins where the one before it ended,
\* and once all is taken the last ends at the committed row.  It holds up to
\* ignored and excluded columns, whatever was left out of line, filtered out,
\* rolled back or interleaved (capture-filter.ts:31-33, fetched-record.ts:34).
HistoryWithoutGaps ==
    identity = "FULL" =>
        /\ \A row \in changes :
            Substance(row.before) = Substance(LastAfter(Earlier(row), row.primaryKey))
        /\ fetched = Len(log) =>
            \A i \in Ids :
                Substance(table[i]) =
                    Substance(LastAfter({r \in changes : r.primaryKey = i}, i))

\* What a change did to the row itself, not to its images.
DidNothing(m) ==
    /\ m.operation = "UPDATE"
    /\ Substance(m.old) = Substance(m.new)

\* A committed change that the worker took is missing from the audit table
\* only if it was an update that changed ignored columns alone, and the images
\* could show that; and such an update is missing (README.md:145-147: never
\* without a before-image, and never a create or a delete).
OnlyNoiseIsDropped ==
    \A s \in 1..fetched :
        log[s].kind = "change" =>
            ((\E row \in changes : row.position = log[s].pos)
              <=> ~(DidNothing(log[s]) /\ identity = "FULL" /\ IgnoreFields # {}))

\* A stored row has the context that its own transaction was first given on
\* its own client, whole, and nothing if there was none: not what another
\* transaction, the top-level client or a rolled back attempt emitted
\* (context/src/index.ts:37-45).
AttributedAsGiven ==
    \A row \in changes : row.context = given[row.transactionId]
=============================================================================
