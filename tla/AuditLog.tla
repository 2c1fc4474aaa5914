------------------------------- MODULE AuditLog -------------------------------
(***************************************************************************)
(* What the pipeline promises, without the worker: everything the source   *)
(* offers is kept until it is recorded, recorded once and never rewritten, *)
(* and given up only after that.  core/src/nats.ts calls it trading silent *)
(* data loss for visible back-pressure.                                    *)
(***************************************************************************)
EXTENDS Naturals, Sequences, FetchedRecord

CONSTANTS
    DueKinds,   \* the kinds of message that have to be recorded
    Capacity    \* how many messages may be kept at a time

VARIABLES
    offered,    \* every message offered so far, in order
    recorded,   \* the rows written, each with the position it is for
    released    \* how many messages from the front were given up

auditVars == <<offered, recorded, released>>

HasRow(p) == \E row \in recorded : row.pos = p

AuditInit ==
    /\ offered = <<>>
    /\ recorded = {}
    /\ released = 0

Offer ==
    /\ Len(offered) - released < Capacity
    /\ Len(offered') = Len(offered) + 1
    /\ offered'[Len(offered')] \in Message
    /\ offered' = Append(offered, offered'[Len(offered')])
    /\ UNCHANGED <<recorded, released>>

\* Rows are added for offered messages that have none; no row is touched.
Write ==
    /\ recorded \subseteq recorded'
    /\ \A new \in recorded' \ recorded :
        /\ ~HasRow(new.pos)
        /\ \E i \in DOMAIN offered : offered[i].pos = new.pos
        /\ \A other \in recorded' : other.pos = new.pos => other = new
    /\ UNCHANGED <<offered, released>>

GiveUp ==
    /\ released' \in released..Len(offered)
    /\ \A i \in 1..released' : offered[i].kind \in DueKinds => HasRow(offered[i].pos)
    /\ UNCHANGED <<offered, recorded>>

AuditNext == Offer \/ Write \/ GiveUp

AuditSpec == AuditInit /\ [][AuditNext]_auditVars
=============================================================================
