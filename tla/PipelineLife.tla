----------------------------- MODULE PipelineLife -----------------------------
(***************************************************************************)
(* What a pipeline of the DaJet Flow server promises to those who hold it: *)
(* it is idle or working; executing an idle one starts one task; disposing *)
(* a working one cancels the token of the latest task and lets it be       *)
(* executed again; a cancelled task ends, unless it was replaced or its    *)
(* source block has a queue to drain that never runs dry.                  *)
(*                                                                         *)
(* Pipeline implements this module, PipelineManager is built from it.      *)
(***************************************************************************)
EXTENDS Integers

CONSTANTS
    MaxStarts,   \* bound on the successful executions
    RunOnce      \* is the option SleepTimeout zero

VARIABLES
    phase,      \* "idle", or "working" from ExecuteAsync to the end of Dispose
    started,    \* successful executions so far, task k is of the k-th
    cancelled,  \* the tasks whose token is cancelled
    alive,      \* the tasks that have not ended
    busy,       \* those in the loop of the source block, which goes on while
                \* there are rows and looks at no token
    stopped     \* has the host cancelled the token all pipelines link to

lifeVars == <<phase, started, cancelled, alive, busy, stopped>>

Init ==
    /\ phase = "idle"
    /\ started = 0
    /\ cancelled = {}
    /\ alive = {}
    /\ busy = {}
    /\ stopped = FALSE

(* The token of the new task is linked with the host's.                    *)
Execute ==
    /\ phase = "idle"
    /\ started < MaxStarts
    /\ phase' = "working"
    /\ started' = started + 1
    /\ alive' = alive \cup {started'}
    /\ cancelled' = IF stopped THEN cancelled \cup {started'} ELSE cancelled
    /\ UNCHANGED <<busy, stopped>>

(* The first half of Dispose cancels the latest token only.                *)
Cancel ==
    /\ phase = "working"
    /\ cancelled' = cancelled \cup {started}
    /\ UNCHANGED <<phase, started, alive, busy, stopped>>

(* Its second half, which does not wait for the task.                      *)
Release ==
    /\ phase = "working"
    /\ started \in cancelled
    /\ phase' = "idle"
    /\ UNCHANGED <<started, cancelled, alive, busy, stopped>>

(* Tasks begin to drain their queue, or have drained it.  A Dispose turns  *)
(* out whoever is in the loop, but not a task that comes to it later.      *)
Turn ==
    /\ busy' \in SUBSET alive
    /\ UNCHANGED <<phase, started, cancelled, alive, stopped>>

(* A task ends, cancelled or after it has run once.  Either it disposes    *)
(* the pipeline as its last step, or somebody else does or did.            *)
End(k) ==
    /\ k \in alive \ busy
    /\ RunOnce \/ k \in cancelled
    /\ alive' = alive \ {k}
    /\ phase' \in {phase} \cup IF started \in cancelled THEN {"idle"} ELSE {}
    /\ UNCHANGED <<started, cancelled, busy, stopped>>

Stop ==
    /\ ~stopped
    /\ stopped' = TRUE
    /\ cancelled' = cancelled \cup 1..started
    /\ UNCHANGED <<phase, started, alive, busy>>

Next ==
    \/ Execute \/ Cancel \/ Release \/ Turn \/ Stop
    \/ \E k \in 1..MaxStarts : End(k)

Spec == Init /\ [][Next]_lifeVars

(* A cancelled task that does not drain its queue for ever ends, if it is  *)
(* the latest or the host stops.  A task ends once, so this is the weak    *)
(* fairness of its End.                                                    *)
Due(k) ==
    /\ k \in alive \ busy
    /\ k \in cancelled
    /\ k = started \/ stopped

Fairness == \A k \in 1..MaxStarts : []<>~Due(k)

FairSpec == Spec /\ Fairness
=============================================================================
