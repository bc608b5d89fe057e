------------------------------- MODULE Pipeline -------------------------------
(***************************************************************************)
(* One pipeline of the DaJet Flow server: class DaJet.Flow.Pipeline with   *)
(* its source block, the database consumer OneDbConsumer.                  *)
(*                                                                         *)
(* Callers (HTTP requests, the activation service, the host) execute and   *)
(* dispose the pipeline concurrently; every successful execution starts a  *)
(* task of its own, and the task disposes the pipeline when it ends.  The  *)
(* fields _state, _token and _cts are shared by all of them.               *)
(***************************************************************************)
EXTENDS Integers

CONSTANTS
    Callers,     \* threads that call ExecuteAsync and Dispose
    MaxStarts,   \* bound on the successful executions
    RunOnce,     \* is the option SleepTimeout zero
    Operations   \* which of "execute", "dispose", "stop" happen at all

ASSUME PipelineAssumption ==
    /\ MaxStarts \in Nat
    /\ RunOnce \in BOOLEAN
    /\ Operations \subseteq {"execute", "dispose", "stop"}

(* Task k is the one started by the k-th successful execution; the token   *)
(* created with it has the same number.                                    *)
Tasks == 1..MaxStarts

ASSUME ThreadAssumption == Callers \cap Tasks = {}

Threads == Callers \cup Tasks

VARIABLES
    state,      \* Pipeline._state
    cts,        \* Pipeline._cts, 0 is null
    token,      \* Pipeline._token, 0 is the default token
    cancelled,  \* the cancelled tokens
    stopped,    \* has the host cancelled its own token
    handler,    \* OneDbConsumer._state
    monitor,    \* PipelineInfo.State in the manager's monitor
    started,    \* successful executions so far
    awaits,     \* the token a sleeping task waits on
    pc          \* where each thread is

vars == <<state, cts, token, cancelled, stopped, handler, monitor, started,
          awaits, pc>>

Disposing       == {"d.cancel", "d.clear", "d.handler", "d.released",
                    "d.monitor", "d.idle"}
CallerLocations == {"free", "x.working", "d.enter"} \cup Disposing
TaskLocations   == {"none", "top", "work", "execute", "consume", "leave",
                    "left", "finish", "sleep", "delay", "ended", "d.enter"}
                   \cup Disposing
Locations       == CallerLocations \cup TaskLocations

Init ==
    /\ state = "idle"
    /\ cts = 0 /\ token = 0 /\ cancelled = {} /\ stopped = FALSE
    /\ handler = "IDLE"
    /\ monitor = "Idle"
    /\ started = 0
    /\ awaits = [k \in Tasks |-> 0]
    /\ pc = [t \in Threads |-> IF t \in Callers THEN "free" ELSE "none"]

At(t, l)   == pc[t] = l
Goto(t, l) == pc' = [pc EXCEPT ![t] = l]

(* Mutant: the cancellation is never seen.                                 *)
CancellationUnseen == FALSE

(* _token.IsCancellationRequested, read from the shared field.             *)
IsCancellationRequested == token \in cancelled

-----------------------------------------------------------------------------
(* ExecuteAsync: the compare-and-swap idle -> starting, the new token and  *)
(* the new task; then, as a second step, the state is set to working.      *)

(* Mutant: an execution in progress does not prevent another.              *)
ExecuteAsyncUnguarded(c) ==
    /\ started < MaxStarts
    /\ At(c, "free")
    /\ state' = "starting"
    /\ started' = started + 1
    /\ cts' = started' /\ token' = started'
    /\ pc' = [pc EXCEPT ![c] = "x.working", ![started'] = "top"]
    /\ UNCHANGED <<cancelled, stopped, handler, monitor, awaits>>

(* Mutant: the token of the first execution is kept.                       *)
ExecuteAsyncOldToken(c) ==
    /\ started < MaxStarts
    /\ At(c, "free")
    /\ state = "idle"
    /\ state' = "starting"
    /\ started' = started + 1
    /\ cts' = started'
    /\ token' = IF token = 0 THEN started' ELSE token
    /\ pc' = [pc EXCEPT ![c] = "x.working", ![started'] = "top"]
    /\ UNCHANGED <<cancelled, stopped, handler, monitor, awaits>>

ExecuteAsync(c) ==
    /\ "execute" \in Operations
    /\ started < MaxStarts
    /\ At(c, "free")
    /\ state = "idle"
    /\ state' = "starting"
    /\ started' = started + 1
    /\ cts' = started'
    /\ token' = started'
    /\ cancelled' = IF stopped THEN cancelled \cup {started'} ELSE cancelled
    /\ pc' = [pc EXCEPT ![c] = "x.working", ![started'] = "top"]
    /\ UNCHANGED <<stopped, handler, monitor, awaits>>

SetWorkingState(c) ==
    /\ At(c, "x.working")
    /\ state' = "working"
    /\ Goto(c, "free")
    /\ UNCHANGED <<cts, token, cancelled, stopped, handler, monitor, started,
                   awaits>>

(* Dispose called by a request or by the host.                             *)
CallDispose(c) ==
    /\ "dispose" \in Operations
    /\ At(c, "free")
    /\ Goto(c, "d.enter")
    /\ UNCHANGED <<state, cts, token, cancelled, stopped, handler, monitor,
                   started, awaits>>

(* The host shuts down: its token is linked with every pipeline's.         *)
HostStop ==
    /\ "stop" \in Operations
    /\ ~stopped
    /\ stopped' = TRUE
    /\ cancelled' = cancelled \cup 1..started
    /\ UNCHANGED <<state, cts, token, handler, monitor, started, awaits, pc>>

-----------------------------------------------------------------------------
(* ExecutePipeline, the body of task k.                                    *)

Top(k) ==
    /\ At(k, "top")
    /\ Goto(k, IF IsCancellationRequested THEN "d.enter" ELSE "work")
    /\ UNCHANGED <<state, cts, token, cancelled, stopped, handler, monitor,
                   started, awaits>>

Work(k) ==
    /\ At(k, "work")
    /\ monitor' = "Working"
    /\ Goto(k, "execute")
    /\ UNCHANGED <<state, cts, token, cancelled, stopped, handler, started,
                   awaits>>

(* _handler.Execute(): only an idle consumer starts to consume.            *)
HandlerExecute(k) ==
    /\ At(k, "execute")
    /\ IF handler = "IDLE"
       THEN handler' = "ACTIVE" /\ Goto(k, "consume")
       ELSE Goto(k, "finish") /\ UNCHANGED handler
    /\ UNCHANGED <<state, cts, token, cancelled, stopped, monitor, started,
                   awaits>>

(* One transaction.  The next one follows while the queue is not empty and *)
(* the consumer is active, whatever has become of the token; an exception  *)
(* leaves the loop, too.                                                   *)
Consume(k) ==
    /\ At(k, "consume")
    /\ \/ handler = "ACTIVE" /\ UNCHANGED pc
       \/ Goto(k, "leave")
    /\ UNCHANGED <<state, cts, token, cancelled, stopped, handler, monitor,
                   started, awaits>>

(* finally { _Dispose(); }                                                 *)
HandlerLeave(k) ==
    /\ At(k, "leave")
    /\ IF handler = "ACTIVE"
       THEN handler' = "DISPOSING" /\ Goto(k, "left")
       ELSE Goto(k, "finish") /\ UNCHANGED handler
    /\ UNCHANGED <<state, cts, token, cancelled, stopped, monitor, started,
                   awaits>>

HandlerLeft(k) ==
    /\ At(k, "left")
    /\ handler' = "IDLE"
    /\ Goto(k, "finish")
    /\ UNCHANGED <<state, cts, token, cancelled, stopped, monitor, started,
                   awaits>>

Finish(k) ==
    /\ At(k, "finish")
    /\ Goto(k, IF RunOnce \/ IsCancellationRequested THEN "d.enter" ELSE "sleep")
    /\ UNCHANGED <<state, cts, token, cancelled, stopped, handler, monitor,
                   started, awaits>>

Sleep(k) ==
    /\ At(k, "sleep")
    /\ monitor' = "Sleeping"
    /\ awaits' = [awaits EXCEPT ![k] = token]
    /\ Goto(k, "delay")
    /\ UNCHANGED <<state, cts, token, cancelled, stopped, handler, started>>

(* Task.Delay(...).Wait(_token) ends by the clock or by the cancellation.  *)
Delay(k) ==
    /\ At(k, "delay")
    /\ \/ Goto(k, "top")
       \/ awaits[k] \in cancelled /\ Goto(k, "d.enter")
    /\ UNCHANGED <<state, cts, token, cancelled, stopped, handler, monitor,
                   started, awaits>>

-----------------------------------------------------------------------------
(* Dispose, by a caller or by a task at its end.  The cancellation handler *)
(* is registered with a token that is cancelled already, so it runs on the *)
(* disposing thread: it clears _cts, disposes the source block between two *)
(* updates of the monitor and sets the state back to idle.                 *)

Leave(t) == Goto(t, IF t \in Callers THEN "free" ELSE "ended")

(* Mutant: Dispose takes a pipeline that is starting for a working one.    *)
DisposeEnterEarly(t) ==
    /\ At(t, "d.enter")
    /\ IF state \in {"starting", "working"}
       THEN state' = "disposing" /\ Goto(t, "d.cancel")
       ELSE Leave(t) /\ UNCHANGED state
    /\ UNCHANGED <<cts, token, cancelled, stopped, handler, monitor, started,
                   awaits>>

DisposeEnter(t) ==
    /\ At(t, "d.enter")
    /\ IF state = "working"
       THEN state' = "disposing" /\ Goto(t, "d.cancel")
       ELSE Leave(t) /\ UNCHANGED state
    /\ UNCHANGED <<cts, token, cancelled, stopped, handler, monitor, started,
                   awaits>>

DisposeCancel(t) ==
    /\ At(t, "d.cancel")
    /\ cancelled' = cancelled \cup {cts}
    /\ Goto(t, "d.clear")
    /\ UNCHANGED <<state, cts, token, stopped, handler, monitor, started,
                   awaits>>

(* Mutant: the pipeline is idle before its source block is disposed.       *)
DisposeClearIdle(t) ==
    /\ At(t, "d.clear")
    /\ state' = "idle"
    /\ cts' = 0
    /\ monitor' = "Disposing"
    /\ Goto(t, "d.handler")
    /\ UNCHANGED <<token, cancelled, stopped, handler, started, awaits>>

DisposeClear(t) ==
    /\ At(t, "d.clear")
    /\ cts' = 0
    /\ monitor' = "Disposing"
    /\ Goto(t, "d.handler")
    /\ UNCHANGED <<state, token, cancelled, stopped, handler, started, awaits>>

DisposeHandler(t) ==
    /\ At(t, "d.handler")
    /\ IF handler = "ACTIVE"
       THEN handler' = "DISPOSING" /\ Goto(t, "d.released")
       ELSE Goto(t, "d.monitor") /\ UNCHANGED handler
    /\ UNCHANGED <<state, cts, token, cancelled, stopped, monitor, started,
                   awaits>>

DisposeReleased(t) ==
    /\ At(t, "d.released")
    /\ handler' = "IDLE"
    /\ Goto(t, "d.monitor")
    /\ UNCHANGED <<state, cts, token, cancelled, stopped, monitor, started,
                   awaits>>

(* Mutant: the monitor is not told of the end.                             *)
DisposeMonitorForgotten(t) ==
    /\ At(t, "d.monitor")
    /\ Goto(t, "d.idle")
    /\ UNCHANGED <<state, cts, token, cancelled, stopped, handler, monitor,
                   started, awaits>>

DisposeMonitor(t) ==
    /\ At(t, "d.monitor")
    /\ monitor' = "Idle"
    /\ Goto(t, "d.idle")
    /\ UNCHANGED <<state, cts, token, cancelled, stopped, handler, started,
                   awaits>>

SetIdleState(t) ==
    /\ At(t, "d.idle")
    /\ state' = "idle"
    /\ Leave(t)
    /\ UNCHANGED <<cts, token, cancelled, stopped, handler, monitor, started,
                   awaits>>

-----------------------------------------------------------------------------
DisposeStep(t) ==
    \/ DisposeEnter(t) \/ DisposeCancel(t) \/ DisposeClear(t)
    \/ DisposeHandler(t) \/ DisposeReleased(t)
    \/ DisposeMonitor(t) \/ SetIdleState(t)

TaskStep(k) ==
    \/ Top(k) \/ Work(k) \/ HandlerExecute(k) \/ Consume(k) \/ HandlerLeave(k)
    \/ HandlerLeft(k) \/ Finish(k) \/ Sleep(k) \/ Delay(k)

CallerStep(c) == ExecuteAsync(c) \/ SetWorkingState(c) \/ CallDispose(c)

Next ==
    \/ \E c \in Callers : CallerStep(c)
    \/ \E k \in Tasks : TaskStep(k)
    \/ \E t \in Threads : DisposeStep(t)
    \/ HostStop

Spec == Init /\ [][Next]_vars

(* What keeps a task in the loop of OneDbConsumer: rows, and a block that  *)
(* is active.                                                              *)
Draining(k) == At(k, "consume") /\ handler = "ACTIVE"

(* Threads are not suspended for ever inside the pipeline's code, and a    *)
(* transaction of the source block ends.  The queue need never be empty:   *)
(* nothing makes a task leave the loop while the block is active.          *)
Fairness ==
    /\ \A c \in Callers : WF_vars(SetWorkingState(c))
    /\ \A t \in Threads : WF_vars(DisposeStep(t))
    /\ \A k \in Tasks : WF_vars(~Draining(k) /\ TaskStep(k))

FairSpec == Spec /\ Fairness

-----------------------------------------------------------------------------
(* The types of the variables.                                             *)
TypeOK ==
    /\ state \in {"idle", "starting", "working", "disposing"}
    /\ cts \in 0..MaxStarts
    /\ token \in 0..MaxStarts
    /\ cancelled \subseteq Tasks
    /\ stopped \in BOOLEAN
    /\ handler \in {"IDLE", "ACTIVE", "DISPOSING"}
    /\ monitor \in {"Idle", "Working", "Sleeping", "Disposing"}
    /\ started \in 0..MaxStarts
    /\ awaits \in [Tasks -> 0..MaxStarts]
    /\ pc \in [Threads -> Locations]
    /\ \A c \in Callers : pc[c] \in CallerLocations
    /\ \A k \in Tasks : pc[k] \in TaskLocations

(* A thread that starts or disposes the pipeline does so alone: _state is  *)
(* starting or disposing exactly while one thread is in that code, so the  *)
(* unsynchronized fields _cts and _token have one writer at a time.        *)
InTransition(t) == pc[t] \in {"x.working"} \cup Disposing

TransitionsAreExclusive ==
    /\ \A t, u \in Threads : InTransition(t) /\ InTransition(u) => t = u
    /\ state = "starting" <=> \E t \in Threads : At(t, "x.working")
    /\ state = "disposing" <=> \E t \in Threads : pc[t] \in Disposing

(* Pipeline.Dispose never finds _cts null, and cancels the token that the  *)
(* latest task reads from _token: that is why the handler it registers     *)
(* with _token runs, and runs at once.                                     *)
DisposeCancelsTheCurrentToken ==
    \A t \in Threads :
        /\ At(t, "d.cancel") => cts = token /\ cts = started /\ cts # 0
        /\ At(t, "d.clear") => token \in cancelled

(* At most one thread is inside OneDbConsumer.ExecuteConsumer, which keeps *)
(* the script and its parameters in fields.                                *)
OneThreadInHandler ==
    \A j, k \in Tasks : At(j, "consume") /\ At(k, "consume") => j = k

(* Pipeline._state "2 == working" is never what a task that has ended      *)
(* leaves behind: a pipeline that is working has a task.                   *)
WorkingHasATask ==
    state = "working" => \E k \in Tasks : pc[k] \notin {"none", "ended"}

(* When nobody runs in it, an idle pipeline is shown as idle: Dispose      *)
(* updates the monitor before it lets the next execution in.               *)
MonitorTellsTheTruth ==
    state = "idle" /\ (\A t \in Threads : pc[t] \in {"free", "none", "ended"})
        => monitor = "Idle"

(* Once its token is cancelled, by Pipeline.Dispose or by the host, the    *)
(* task of ExecutePipeline ends, at least if the queue that it consumes    *)
(* runs dry.                                                               *)
DisposeEndsTheDrainedTask ==
    \A k \in Tasks : (k \in cancelled) ~> (At(k, "ended") \/ [](Draining(k)))

(* A cancelled task of ExecutePipeline ends, unless a later execution has  *)
(* replaced the token in _token before it has, or unless it came to        *)
(* OneDbConsumer.Execute after the source block was disposed and stays     *)
(* there, because it finds rows in every transaction.                      *)
DisposeEndsTheLatestTask ==
    \A k \in Tasks :
        (k \in cancelled) ~> \/ At(k, "ended")
                             \/ started > k
                             \/ [](Draining(k))

(* What the holders of a Pipeline rely on, with all its internal steps     *)
(* hidden: it is free for ExecuteAsync again only after the latest token   *)
(* was cancelled, and a cancelled latest task and, once the host stops,    *)
(* every task ends, if it does not drain its queue for ever.               *)
Life ==
    INSTANCE PipelineLife WITH
        phase <- IF state = "idle" THEN "idle" ELSE "working",
        alive <- {k \in Tasks : pc[k] \notin {"none", "ended"}},
        busy <- {k \in Tasks : Draining(k)},
        MaxStarts <- MaxStarts, RunOnce <- RunOnce,
        started <- started, cancelled <- cancelled, stopped <- stopped

ImplementsPipelineLife == Life!FairSpec

-----------------------------------------------------------------------------
(* Why TransitionsAreExclusive and DisposeCancelsTheCurrentToken hold: the *)
(* latest token is in both fields from ExecuteAsync until Dispose.         *)
TokenInv ==
    /\ token = started
    /\ cancelled \subseteq 1..started
    /\ \A k \in Tasks : k > started => At(k, "none")
    /\ state \in {"starting", "working"} => cts = started /\ started > 0
    /\ \A t \in Threads :
          /\ At(t, "d.cancel") => cts = started /\ started > 0
          /\ At(t, "d.clear") => token \in cancelled

IInv ==
    /\ TypeOK
    /\ TransitionsAreExclusive
    /\ TokenInv

(* When only the tasks themselves dispose the pipeline, one task runs at a *)
(* time: all the earlier ones have ended.                                  *)
OneTaskInv ==
    /\ \A c \in Callers : pc[c] \in {"free", "x.working"}
    /\ \A k \in Tasks : k < started => At(k, "ended")
    /\ \A k \in Tasks : k <= started => ~At(k, "none")
    /\ state = "idle" => \A k \in Tasks : pc[k] \in {"none", "ended"}

(* The monitor is told of the end before the next execution is let in, and *)
(* without a Dispose from outside nobody tells it anything in between.     *)
MonitorInv ==
    /\ state = "idle" => monitor = "Idle"
    /\ \A t \in Threads : At(t, "d.idle") => monitor = "Idle"

(* Why PipelineLife is implemented: a token is cancelled before the next   *)
(* one is made, so that all tokens but the latest are cancelled, and       *)
(* whichever token a task has looked at, its own is cancelled by the time  *)
(* it goes to Dispose.                                                     *)
LifeInv ==
    /\ \A k \in Tasks : k < started => k \in cancelled
    /\ state = "idle" => started = 0 \/ started \in cancelled
    /\ \A t \in Threads :
          pc[t] \in Disposing \ {"d.cancel"} => started \in cancelled
    /\ \A k \in Tasks :
          /\ At(k, "delay") => awaits[k] \in k..started
          /\ pc[k] \in {"d.enter"} \cup Disposing =>
                 RunOnce \/ k \in cancelled
=============================================================================
