----------------------------- MODULE HealthProbe -----------------------------
(***************************************************************************)
(* /healthz (serveHealth, worker/src/index.ts) and what it judges: the     *)
(* phases of the ingestion loop, of which the end of a fetch sets          *)
(* lastTickAt.  A fetch ends when it has its messages or expires; the rest *)
(* of a turn and the start of the process take at most MaxWork, unless the *)
(* loop hangs in an await that never returns.                              *)
(***************************************************************************)
EXTENDS Clock

CONSTANTS
    STALL_TIMEOUT,   \* after which the probe answers 503
    FETCH_EXPIRES,   \* how long a fetch waits
    MaxWork          \* bound on the rest of a turn, and on the start

ASSUME HealthAssumption ==
    /\ STALL_TIMEOUT \in Nat /\ FETCH_EXPIRES \in Nat /\ MaxWork \in Nat
    /\ FETCH_EXPIRES + MaxWork < STALL_TIMEOUT

VARIABLES
    loop,         \* the phase the loop is in
    phaseAt,      \* since when, if it is one that ends by itself
    lastTickAt    \* when the latest fetch ended

healthVars == <<loop, phaseAt, lastTickAt>>

HealthTypeOK ==
    /\ loop \in {"down", "starting", "fetching", "working", "hung"}
    /\ phaseAt \in 0..now
    /\ lastTickAt \in 0..now

HealthInit == loop = "starting" /\ phaseAt = 0 /\ lastTickAt = 0

Up == loop # "down"

Enter(phase) == loop' = phase /\ phaseAt' = now

LoopBoots ==
    /\ loop = "down"
    /\ Enter("starting")
    /\ lastTickAt' = now

LoopStarts ==
    /\ loop = "starting"
    /\ Enter("fetching")
    /\ UNCHANGED lastTickAt

\* Wrong: only a fetch with messages counts.
TickOfMessages(received) == lastTickAt' = IF received THEN now ELSE lastTickAt

OnTick(received) == lastTickAt' = now

FetchEnds(received) ==
    /\ loop = "fetching"
    /\ Enter("working")
    /\ OnTick(received)

WorkEnds ==
    /\ loop = "working"
    /\ Enter("fetching")
    /\ UNCHANGED lastTickAt

LoopHangs ==
    /\ loop \in {"starting", "fetching", "working"}
    /\ loop' = "hung" /\ phaseAt' = 0
    /\ UNCHANGED lastTickAt

LoopStops ==
    /\ Up
    /\ loop' = "down" /\ phaseAt' = 0 /\ lastTickAt' = 0

\* What the probe answers.
Stalled == Up /\ now - lastTickAt >= STALL_TIMEOUT

LoopPunctual ==
    /\ loop = "fetching" => now < phaseAt + FETCH_EXPIRES
    /\ loop \in {"starting", "working"} => now < phaseAt + MaxWork
=============================================================================
