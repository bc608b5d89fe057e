--------------------------- MODULE PipelineManager ---------------------------
(***************************************************************************)
(* The pipelines of the DaJet Flow server and who changes them: the        *)
(* service loop of DaJetFlowService that activates the stored pipelines,   *)
(* the requests of FlowController, and the host that stops the service and *)
(* disposes the PipelineManager.  All of them share two dictionaries, the  *)
(* pipelines and the monitor, without a lock.                              *)
(*                                                                         *)
(* An instance <<u, n>> is the n-th object of class Pipeline created for   *)
(* the record u.  What it does between the calls is PipelineLife.          *)
(***************************************************************************)
EXTENDS Integers, FiniteSets

CONSTANTS
    Stored,        \* records that are in the database from the start
    Posted,        \* records that may be added by POST /flow
    Automatic,     \* records with ActivationMode.Auto
    RunOnce,       \* records whose option SleepTimeout is zero
    Requests,      \* threads that serve HTTP requests
    MaxRequests,   \* bound on the requests
    MaxStarts      \* bound on the executions of an instance

Uuids == Stored \cup Posted

(* A removal makes room for one more instance, and so does the disposal of *)
(* the manager: the bound is never reached.                                *)
MaxInstances == MaxRequests + 2
Instances    == Uuids \X (1..MaxInstances)

ASSUME ManagerAssumption ==
    /\ Stored \cap Posted = {}
    /\ Automatic \subseteq Uuids /\ RunOnce \subseteq Uuids
    /\ IsFiniteSet(Requests)
    /\ MaxRequests \in Nat /\ MaxStarts \in Nat

VARIABLES
    records,     \* per record: "absent", "bare" (without its handlers yet),
                 \* "whole", "deleted"
    pipelines,   \* _pipelines: the number of the instance, 0 if there is none
    monitor,     \* the keys of _monitor
    created,     \* how many instances of each record there have been
    removals,    \* how many of them a restart or a deletion took out
    phase, started, cancelled, alive, busy,   \* PipelineLife, per instance
    stopped,     \* is the token of the service cancelled
    svc,         \* where the service thread is
    todo,        \* records of its query it has not looked at yet
    current,     \* the instance it is creating
    pc, target,  \* where each request is, and the instance it is about
    requests,    \* how many requests there have been
    host,        \* where the host's Dispose of the manager is
    visited      \* the keys it has enumerated

stores    == <<records, pipelines, monitor, created, removals>>
instances == <<phase, started, cancelled, alive, busy, stopped>>
service   == <<svc, todo, current>>
serving   == <<pc, target, requests>>
hosting   == <<host, visited>>

vars == <<stores, instances, service, serving, hosting>>

Life(i) ==
    INSTANCE PipelineLife WITH
        phase <- phase[i], started <- started[i],
        cancelled <- cancelled[i], alive <- alive[i], busy <- busy[i],
        RunOnce <- (i[1] \in RunOnce)

None == <<>>

Init ==
    /\ records = [u \in Uuids |-> IF u \in Stored THEN "whole" ELSE "absent"]
    /\ pipelines = [u \in Uuids |-> 0]
    /\ monitor = {}
    /\ created = [u \in Uuids |-> 0]
    /\ removals = [u \in Uuids |-> 0]
    /\ phase = [i \in Instances |-> "idle"]
    /\ started = [i \in Instances |-> 0]
    /\ cancelled = [i \in Instances |-> {}]
    /\ alive = [i \in Instances |-> {}]
    /\ busy = [i \in Instances |-> {}]
    /\ stopped = FALSE
    /\ svc = "top" /\ todo = {} /\ current = None
    /\ pc = [r \in Requests |-> "free"]
    /\ target = [r \in Requests |-> None]
    /\ requests = 0
    /\ host = "running" /\ visited = {}

-----------------------------------------------------------------------------
(* The two calls of an instance.  ExecuteAsync does nothing unless the     *)
(* pipeline is idle; Dispose may find it starting or being disposed, too,  *)
(* and then does nothing.                                                  *)

(* Mutant: the pipelines are not linked to the token of the service.       *)
ExecuteUnlinked(i) ==
    /\ phase[i] = "idle" /\ started[i] < MaxStarts
    /\ phase' = [phase EXCEPT ![i] = "working"]
    /\ started' = [started EXCEPT ![i] = @ + 1]
    /\ alive' = [alive EXCEPT ![i] = @ \cup {started[i] + 1}]
    /\ UNCHANGED <<cancelled, busy, stopped>>

(* Mutant: an execution in progress does not prevent another.              *)
ExecuteUnguarded(i) ==
    /\ started[i] < MaxStarts
    /\ phase' = [phase EXCEPT ![i] = "working"]
    /\ started' = [started EXCEPT ![i] = @ + 1]
    /\ alive' = [alive EXCEPT ![i] = @ \cup {started[i] + 1}]
    /\ cancelled' = IF stopped
                    THEN [cancelled EXCEPT ![i] = @ \cup {started[i] + 1}]
                    ELSE cancelled
    /\ UNCHANGED <<busy, stopped>>

Execute(i) ==
    /\ phase[i] = "idle" /\ started[i] < MaxStarts
    /\ phase' = [phase EXCEPT ![i] = "working"]
    /\ started' = [started EXCEPT ![i] = @ + 1]
    /\ alive' = [alive EXCEPT ![i] = @ \cup {started[i] + 1}]
    /\ cancelled' = IF stopped
                    THEN [cancelled EXCEPT ![i] = @ \cup {started[i] + 1}]
                    ELSE cancelled
    /\ UNCHANGED <<busy, stopped>>

Cancel(i) ==
    /\ phase[i] = "working"
    /\ cancelled' = [cancelled EXCEPT ![i] = @ \cup {started[i]}]
    /\ UNCHANGED <<phase, started, alive, busy, stopped>>

ExecuteAsync(i) ==
    \/ Execute(i)
    \/ phase[i] = "working" /\ UNCHANGED instances

Dispose(i)      == Cancel(i) \/ UNCHANGED instances

(* What the instance does on its own threads.                              *)
TaskCancels(i) ==
    /\ alive[i] # {} /\ i[1] \in RunOnce
    /\ Cancel(i)
    /\ UNCHANGED <<stores, service, serving, hosting>>

Release(i) ==
    /\ phase[i] = "working" /\ started[i] \in cancelled[i]
    /\ phase' = [phase EXCEPT ![i] = "idle"]
    /\ UNCHANGED <<started, cancelled, alive, busy, stopped>>
    /\ UNCHANGED <<stores, service, serving, hosting>>

(* After the stop a task is in the loop of its source block and stays there*)
(* for ever: there are always rows, and the loop looks at no token.  A task*)
(* whose queue runs dry in the end is one that has not ended yet, and so   *)
(* is every task before the stop, since nothing makes it end.              *)
TaskDrains(i, k) ==
    /\ stopped
    /\ k \in alive[i] \ busy[i]
    /\ busy' = [busy EXCEPT ![i] = @ \cup {k}]
    /\ UNCHANGED <<phase, started, cancelled, alive, stopped>>
    /\ UNCHANGED <<stores, service, serving, hosting>>

TaskEnds(i, k) ==
    /\ k \in alive[i] \ busy[i]
    /\ i[1] \in RunOnce \/ k \in cancelled[i]
    /\ alive' = [alive EXCEPT ![i] = @ \ {k}]
    /\ \/ UNCHANGED phase
       \/ /\ started[i] \in cancelled[i]
          /\ phase' = [phase EXCEPT ![i] = "idle"]
    /\ UNCHANGED <<started, cancelled, busy, stopped>>
    /\ UNCHANGED <<stores, service, serving, hosting>>

-----------------------------------------------------------------------------
(* DaJetFlowService.TryDoWork and PipelineManager.ActivatePipelines.       *)

(* A local variable is forgotten where the code no longer uses it.         *)
GoOn(l) == svc' = l

Continue ==
    /\ svc' = "scan"
    /\ current' = None

(* The token is tested, after three seconds at most, and the records are   *)
(* read.  A query that fails changes nothing: it comes again.              *)
Query ==
    /\ svc = "top"
    /\ IF stopped
       THEN GoOn("ended") /\ UNCHANGED todo
       ELSE /\ todo' = {u \in Uuids : records[u] \in {"bare", "whole"}}
            /\ GoOn("scan")
    /\ UNCHANGED <<stores, instances, current, serving, hosting>>

(* Mutant: the monitor tells which records have been activated.            *)
IsActivatedInMonitor(u) == u \in monitor

(* Mutant: nothing tells a record that has been activated.                 *)
IsActivatedNever(u) == FALSE

(* _pipelines.ContainsKey                                                  *)
IsActivated(u) == pipelines[u] # 0

NextRecord ==
    /\ svc = "scan" /\ todo # {}
    /\ \E u \in todo :
          /\ todo' = todo \ {u}
          /\ IF IsActivated(u)
             THEN UNCHANGED <<svc, current>>
             ELSE GoOn("create") /\ current' = <<u, created[u] + 1>>
    /\ UNCHANGED <<stores, instances, serving, hosting>>

EndOfRecords ==
    /\ svc = "scan" /\ todo = {}
    /\ GoOn("top")
    /\ UNCHANGED <<stores, instances, todo, current, serving, hosting>>

(* PipelineFactory.Create reads the handlers of the record: there may be   *)
(* none yet, or none any more, and it may fail for other reasons.          *)
CreatePipeline(u) ==
    /\ svc = "create" /\ current[1] = u
    /\ records[u] = "whole"
    /\ created[u] < MaxInstances
    /\ created' = [created EXCEPT ![u] = @ + 1]
    /\ GoOn("add")
    /\ UNCHANGED <<records, pipelines, monitor, removals, instances, todo,
                   current, serving, hosting>>

(* A broken pipeline is added to the monitor only.                         *)
CreatePipelineFails(u) ==
    /\ svc = "create" /\ current[1] = u
    /\ monitor' = monitor \cup {u}
    /\ Continue
    /\ UNCHANGED <<records, pipelines, created, removals, instances, todo,
                   serving, hosting>>

(* An addition makes a concurrent enumeration throw, a removal does not.   *)
AddPipeline ==
    /\ svc = "add"
    /\ pipelines' = [pipelines EXCEPT ![current[1]] = current[2]]
    /\ GoOn("monitor")
    /\ host' = IF host = "dispose" THEN "failed" ELSE host
    /\ UNCHANGED <<records, monitor, created, removals, instances, todo,
                   current, serving, visited>>

AddMonitor ==
    /\ svc = "monitor"
    /\ monitor' = monitor \cup {current[1]}
    /\ IF current[1] \in Automatic
       THEN GoOn("start") /\ UNCHANGED current
       ELSE Continue
    /\ UNCHANGED <<records, pipelines, created, removals, instances, todo,
                   serving, hosting>>

StartPipeline ==
    /\ svc = "start"
    /\ ExecuteAsync(current)
    /\ Continue
    /\ UNCHANGED <<stores, todo, serving, hosting>>

ServiceStep ==
    \/ Query \/ NextRecord \/ EndOfRecords
    \/ \E u \in Uuids : CreatePipeline(u) \/ CreatePipelineFails(u)
    \/ AddPipeline \/ AddMonitor \/ StartPipeline

-----------------------------------------------------------------------------
(* The requests of FlowController.                                         *)

Goto(r, l) == pc' = [pc EXCEPT ![r] = l]

Return(r) ==
    /\ pc' = [pc EXCEPT ![r] = "free"]
    /\ target' = [target EXCEPT ![r] = None]

(* Execute, dispose and restart look for the record first, delete does not.*)
Receive(r) ==
    /\ pc[r] = "free"
    /\ requests < MaxRequests
    /\ requests' = requests + 1
    /\ \E u \in Uuids :
          /\ target' = [target EXCEPT ![r] = <<u, 0>>]
          /\ \/ /\ records[u] \in {"bare", "whole"}
                /\ \E l \in {"execute", "dispose", "remove"} : Goto(r, l)
             \/ /\ records[u] # "absent"
                /\ Goto(r, "delete")
             \/ /\ records[u] = "absent"
                /\ Goto(r, "post")
    /\ UNCHANGED <<stores, instances, service, hosting>>

(* POST /flow stores the pipeline, then its handlers.                      *)
PostRecord(r) ==
    LET u == target[r][1] IN
    /\ pc[r] = "post"
    /\ IF records[u] = "absent"
       THEN /\ records' = [records EXCEPT ![u] = "bare"]
            /\ Goto(r, "handlers")
            /\ UNCHANGED target
       ELSE Return(r) /\ UNCHANGED records
    /\ UNCHANGED <<pipelines, monitor, created, removals, requests,
                   instances, service, hosting>>

PostHandlers(r) ==
    /\ pc[r] = "handlers"
    /\ records' = [records EXCEPT ![target[r][1]] =
                     IF @ = "bare" THEN "whole" ELSE @]
    /\ Return(r)
    /\ UNCHANGED <<pipelines, monitor, created, removals, requests, instances,
                   service, hosting>>

(* ExecutePipeline and DisposePipeline: TryGetValue, then the call of what *)
(* it has found.                                                           *)
TryGetValue(r) ==
    LET u == target[r][1] IN
    /\ pc[r] \in {"execute", "dispose", "removed"}
    /\ IF pipelines[u] = 0
       THEN Return(r)
       ELSE /\ target' = [target EXCEPT ![r][2] = pipelines[u]]
            /\ Goto(r, IF pc[r] = "execute" THEN "run" ELSE "stop")
    /\ UNCHANGED <<stores, instances, service, requests, hosting>>

RunFound(r) ==
    /\ pc[r] = "run"
    /\ ExecuteAsync(target[r])
    /\ Return(r)
    /\ UNCHANGED <<stores, service, requests, hosting>>

StopFound(r) ==
    /\ pc[r] = "stop"
    /\ Dispose(target[r])
    /\ Return(r)
    /\ UNCHANGED <<stores, service, requests, hosting>>

DeleteRecord(r) ==
    /\ pc[r] = "delete"
    /\ records' = [records EXCEPT ![target[r][1]] = "deleted"]
    /\ Goto(r, "remove")
    /\ UNCHANGED <<pipelines, monitor, created, removals, instances, service,
                   target, requests, hosting>>

RemoveMonitor(u) ==
    /\ monitor' = monitor \ {u}
    /\ UNCHANGED <<pipelines, removals>>

RemoveFromPipelines(u) ==
    /\ pipelines' = [pipelines EXCEPT ![u] = 0]
    /\ removals' = IF pipelines[u] = 0 THEN removals
                   ELSE [removals EXCEPT ![u] = @ + 1]
    /\ UNCHANGED monitor

(* Mutant: the pipeline is removed before its entry in the monitor.        *)
RemovePipelineFirst(r) ==
    /\ \/ /\ pc[r] = "remove" /\ Goto(r, "forget")
          /\ RemoveFromPipelines(target[r][1])
       \/ /\ pc[r] = "forget" /\ Goto(r, "removed")
          /\ RemoveMonitor(target[r][1])
    /\ UNCHANGED <<records, created, instances, service, target, requests,
                   hosting>>

(* RemovePipeline, of restart and delete: out of the monitor, out of the   *)
(* pipelines, and then (TryGetValue above) a lookup of what to dispose.    *)
RemovePipeline(r) ==
    /\ \/ /\ pc[r] = "remove" /\ Goto(r, "forget")
          /\ RemoveMonitor(target[r][1])
       \/ /\ pc[r] = "forget" /\ Goto(r, "removed")
          /\ RemoveFromPipelines(target[r][1])
    /\ UNCHANGED <<records, created, instances, service, target, requests,
                   hosting>>

RequestStep(r) ==
    \/ PostRecord(r) \/ PostHandlers(r)
    \/ TryGetValue(r) \/ RunFound(r) \/ StopFound(r)
    \/ DeleteRecord(r) \/ RemovePipeline(r)

-----------------------------------------------------------------------------
(* The host cancels the token of the service, waits for its thread, or no  *)
(* longer than its timeout, and disposes the service and with it the       *)
(* manager.                                                                *)
HostStop ==
    /\ ~stopped
    /\ stopped' = TRUE
    /\ cancelled' = [i \in Instances |-> cancelled[i] \cup 1..started[i]]
    /\ UNCHANGED <<phase, started, alive, busy>>
    /\ UNCHANGED <<stores, service, serving, hosting>>

HostDispose ==
    /\ host = "running" /\ stopped
    /\ host' = "dispose"
    /\ UNCHANGED <<stores, instances, service, serving, visited>>

(* foreach (IPipeline pipeline in _pipelines.Values) pipeline.Dispose()    *)
HostDisposeNext ==
    /\ host = "dispose"
    /\ \E u \in Uuids \ visited :
          /\ pipelines[u] # 0
          /\ visited' = visited \cup {u}
          /\ Dispose(<<u, pipelines[u]>>)
    /\ UNCHANGED <<stores, service, serving, host>>

HostClearMonitor ==
    /\ host = "dispose"
    /\ \A u \in Uuids \ visited : pipelines[u] = 0
    /\ monitor' = {}
    /\ host' = "clear"
    /\ UNCHANGED <<records, pipelines, created, removals, instances, service,
                   serving, visited>>

HostClearPipelines ==
    /\ host = "clear"
    /\ pipelines' = [u \in Uuids |-> 0]
    /\ host' = "done"
    /\ visited' = {}
    /\ UNCHANGED <<records, monitor, created, removals, instances, service,
                   serving>>

HostStep == HostDisposeNext \/ HostClearMonitor \/ HostClearPipelines

-----------------------------------------------------------------------------
InstanceStep(i) ==
    \/ TaskCancels(i) \/ Release(i)
    \/ \E k \in 1..MaxStarts : TaskDrains(i, k) \/ TaskEnds(i, k)

Next ==
    \/ ServiceStep
    \/ \E r \in Requests : Receive(r) \/ RequestStep(r)
    \/ HostStop \/ HostDispose \/ HostStep
    \/ \E i \in Instances : InstanceStep(i)

Spec == Init /\ [][Next]_vars

(* The service goes on and the factory does not fail for ever; after the   *)
(* stop a task that does not drain ends, as PipelineLife promises.  Nothing*)
(* makes the host stop or dispose, a request arrive or end, or a task end  *)
(* before the stop.                                                        *)
Fairness ==
    /\ WF_vars(ServiceStep)
    /\ \A u \in Uuids : SF_vars(CreatePipeline(u))
    /\ WF_vars(\E i \in Instances, k \in 1..MaxStarts :
                   stopped /\ k \in cancelled[i] /\ TaskEnds(i, k))

FairSpec == Spec /\ Fairness

-----------------------------------------------------------------------------
(* The types of the variables.                                             *)
TypeOK ==
    /\ records \in [Uuids -> {"absent", "bare", "whole", "deleted"}]
    /\ pipelines \in [Uuids -> 0..MaxInstances]
    /\ monitor \subseteq Uuids
    /\ created \in [Uuids -> 0..MaxInstances]
    /\ removals \in [Uuids -> 0..MaxRequests]
    /\ \A u \in Uuids : pipelines[u] <= created[u]
    /\ phase \in [Instances -> {"idle", "working"}]
    /\ started \in [Instances -> 0..MaxStarts]
    /\ cancelled \in [Instances -> SUBSET (1..MaxStarts)]
    /\ alive \in [Instances -> SUBSET (1..MaxStarts)]
    /\ busy \in [Instances -> SUBSET (1..MaxStarts)]
    /\ \A i \in Instances : busy[i] \subseteq alive[i]
    /\ stopped \in BOOLEAN
    /\ svc \in {"top", "scan", "create", "add", "monitor", "start", "ended"}
    /\ todo \subseteq Uuids
    /\ current \in Instances \cup {None}
    /\ pc \in [Requests -> {"free", "post", "handlers", "execute", "run",
                            "dispose", "stop", "delete", "remove", "forget",
                            "removed"}]
    /\ target \in [Requests -> {None} \cup (Uuids \X (0..MaxInstances))]
    /\ requests \in 0..MaxRequests
    /\ host \in {"running", "dispose", "failed", "clear", "done"}
    /\ visited \subseteq Uuids

(* A pipeline of the dictionary is in the monitor, too, or the service is  *)
(* about to add it or somebody is about to remove it: the order in which   *)
(* CreatePipeline, RemovePipeline and Dispose change the two leaves no     *)
(* pipeline that runs without being shown.                                 *)
MonitoredPipelines ==
    \A u \in Uuids : pipelines[u] # 0 =>
        \/ u \in monitor
        \/ svc = "monitor" /\ current[1] = u
        \/ \E r \in Requests : pc[r] = "forget" /\ target[r][1] = u
        \/ host = "clear"

(* CreatePipeline calls _pipelines.Add some time after ContainsKey: nobody *)
(* else adds, so that it neither throws nor hides an instance.             *)
AddFindsNoPipeline == svc = "add" => pipelines[current[1]] = 0

(* RemovePipeline and Dispose let go of instances that still run.  Beside  *)
(* those at most one instance of a record has a task.                      *)
Running(u) == {n \in 1..MaxInstances : alive[<<u, n>>] # {}}

OneRunningInstance ==
    host \in {"running", "dispose", "failed", "clear"} =>
        \A u \in Uuids : Cardinality(Running(u)) <= 1 + removals[u]

(* Every instance lives as PipelineLife says, whoever holds it and however *)
(* stale what they know of it.                                             *)
EveryInstanceIsAPipeline ==
    [][\A i \in Instances : UNCHANGED Life(i)!lifeVars \/ Life(i)!Next]_vars

(* DaJetFlowService cancels one token for all: the tasks of all instances  *)
(* end, those of instances that restart and delete have let go of, of      *)
(* pipelines activated or executed after the cancellation, and of those    *)
(* that the host's Dispose does not reach.  Left are only tasks that drain *)
(* a queue which never runs dry.                                           *)
StopEndsEverything == stopped ~> \A i \in Instances : alive[i] = busy[i]

(* ActivatePipelines: a stored record that has no instance, at first, after*)
(* a failure of the factory or after a restart, gets one, and an automatic *)
(* one is started.                                                         *)
StoredPipelinesStart ==
    \A u \in Uuids :
        (records[u] = "whole" /\ pipelines[u] = 0) ~>
            \/ records[u] = "deleted"
            \/ stopped
            \/ /\ pipelines[u] # 0
               /\ u \in Automatic => started[<<u, pipelines[u]>>] > 0

-----------------------------------------------------------------------------
(* Why the invariants hold: an inductive invariant, in parts.              *)

(* What a request has found is an instance that has been created.          *)
RequestInv ==
    \A r \in Requests :
        /\ pc[r] # "free" => target[r] \in Uuids \X (0..MaxInstances)
        /\ pc[r] \in {"run", "stop"} =>
              target[r] \in Instances /\ target[r][2] <= created[target[r][1]]

(* Only the service adds pipelines: from ContainsKey to Add its record has *)
(* none, and the instance in its hands is the latest.                      *)
ServiceInv ==
    /\ svc \in {"create", "add", "monitor", "start"} => current \in Instances
    /\ svc = "create" => /\ pipelines[current[1]] = 0
                         /\ current[2] = created[current[1]] + 1
    /\ svc = "add" => /\ pipelines[current[1]] = 0
                      /\ current[2] = created[current[1]]
    /\ svc \in {"monitor", "start"} => current[2] <= created[current[1]]

(* Every instance but one was removed by a request, or the host has        *)
(* cleared the dictionary, which it does once; a request removes once.     *)
Removing(u) == {r \in Requests : /\ pc[r] \in {"delete", "remove", "forget"}
                                 /\ target[r][1] = u}

Present(u) == pipelines[u] # 0 \/ (svc = "add" /\ current[1] = u)

CountInv ==
    \A u \in Uuids :
        /\ created[u] <= removals[u] + (IF Present(u) THEN 1 ELSE 0)
                                     + (IF host = "done" THEN 1 ELSE 0)
        /\ removals[u] + Cardinality(Removing(u)) <= requests

(* Only what has been created runs, and only what has been executed works. *)
InstanceInv ==
    \A i \in Instances :
        /\ i[2] > created[i[1]] => alive[i] = {}
        /\ phase[i] = "working" => started[i] > 0

IInv ==
    /\ TypeOK /\ RequestInv /\ ServiceInv /\ CountInv /\ InstanceInv
    /\ MonitoredPipelines
=============================================================================
