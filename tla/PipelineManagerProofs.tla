----------------------- MODULE PipelineManagerProofs -----------------------
(***************************************************************************)
(* Proofs about PipelineManager, for every set of records and of request   *)
(* threads and every bound: its inductive invariant, what follows from it  *)
(* for the two dictionaries and for the tasks that run beside each other,  *)
(* and that every instance lives as PipelineLife says.                     *)
(***************************************************************************)
EXTENDS PipelineManager, FiniteSetTheorems, TLAPS

(* TypeOK by the groups of variables that the actions name in UNCHANGED.   *)
StoresOK ==
    /\ records \in [Uuids -> {"absent", "bare", "whole", "deleted"}]
    /\ pipelines \in [Uuids -> 0..MaxInstances]
    /\ monitor \subseteq Uuids
    /\ created \in [Uuids -> 0..MaxInstances]
    /\ removals \in [Uuids -> 0..MaxRequests]
    /\ \A u \in Uuids : pipelines[u] <= created[u]

InstancesOK ==
    /\ phase \in [Instances -> {"idle", "working"}]
    /\ started \in [Instances -> 0..MaxStarts]
    /\ cancelled \in [Instances -> SUBSET (1..MaxStarts)]
    /\ alive \in [Instances -> SUBSET (1..MaxStarts)]
    /\ busy \in [Instances -> SUBSET (1..MaxStarts)]
    /\ \A i \in Instances : busy[i] \subseteq alive[i]
    /\ stopped \in BOOLEAN

ServiceOK ==
    /\ svc \in {"top", "scan", "create", "add", "monitor", "start", "ended"}
    /\ todo \subseteq Uuids
    /\ current \in Instances \cup {None}

ServingOK ==
    /\ pc \in [Requests -> {"free", "post", "handlers", "execute", "run",
                            "dispose", "stop", "delete", "remove", "forget",
                            "removed"}]
    /\ target \in [Requests -> {None} \cup (Uuids \X (0..MaxInstances))]
    /\ requests \in 0..MaxRequests

HostingOK ==
    /\ host \in {"running", "dispose", "failed", "clear", "done"}
    /\ visited \subseteq Uuids

LEMMA TypeOKParts ==
    /\ TypeOK <=> /\ StoresOK /\ InstancesOK /\ ServiceOK
                  /\ ServingOK /\ HostingOK
    /\ TypeOK' <=> (/\ StoresOK /\ InstancesOK /\ ServiceOK
                    /\ ServingOK /\ HostingOK)'
  BY Zenon DEF TypeOK, StoresOK, InstancesOK, ServiceOK, ServingOK, HostingOK

(* What the proofs know of the constants.                                  *)
LEMMA InstancesArePairs ==
    /\ \A u \in Uuids, n \in 1..MaxInstances : <<u, n>> \in Instances
    /\ \A i \in Instances :
          i[1] \in Uuids /\ i[2] \in 1..MaxInstances /\ i = <<i[1], i[2]>>
  BY DEF Instances

LEMMA Bounds ==
    /\ MaxRequests \in Nat /\ MaxStarts \in Nat /\ MaxInstances \in Nat
    /\ MaxInstances = MaxRequests + 2
  BY ManagerAssumption DEF MaxInstances

(* The requests that may still take a pipeline out can be counted.         *)
LEMMA RemovingFinite ==
    /\ \A u : IsFiniteSet(Removing(u)) /\ Cardinality(Removing(u)) \in Nat
    /\ \A u : Cardinality(Removing(u)') \in Nat
<1>1. \A u : Removing(u) \subseteq Requests /\ Removing(u)' \subseteq Requests
  BY DEF Removing
<1>2. QED
  BY <1>1, ManagerAssumption, FS_Subset, FS_CardinalityType

(* MonitoredPipelines, with a name for its cases.                          *)
Forgotten(u) == \E r \in Requests : pc[r] = "forget" /\ target[r][1] = u

Monitored(u) ==
    \/ u \in monitor
    \/ svc = "monitor" /\ current[1] = u
    \/ Forgotten(u)
    \/ host = "clear"

LEMMA MonitoredParts ==
    /\ MonitoredPipelines <=>
          \A u \in Uuids : pipelines[u] # 0 => Monitored(u)
    /\ MonitoredPipelines' <=>
          \A u \in Uuids : pipelines'[u] # 0 => Monitored(u)'
  BY Zenon DEF MonitoredPipelines, Monitored, Forgotten

(* A step of a request is a step of no other request.                      *)
LEMMA OthersStandStill ==
    ASSUME ServingOK, NEW r \in Requests, Receive(r) \/ RequestStep(r)
    PROVE  \A q \in Requests \ {r} : pc'[q] = pc[q] /\ target'[q] = target[q]
<1> USE DEF ServingOK, Goto, Return
<1>1. CASE Receive(r)
  BY <1>1 DEF Receive
<1>2. CASE PostRecord(r)
  BY <1>2 DEF PostRecord
<1>3. CASE PostHandlers(r)
  BY <1>3 DEF PostHandlers
<1>4. CASE TryGetValue(r)
  BY <1>4 DEF TryGetValue
<1>5. CASE RunFound(r) \/ StopFound(r)
  BY <1>5 DEF RunFound, StopFound
<1>6. CASE DeleteRecord(r)
  BY <1>6 DEF DeleteRecord
<1>7. CASE RemovePipeline(r)
  BY <1>7 DEF RemovePipeline
<1>8. QED
  BY <1>1, <1>2, <1>3, <1>4, <1>5, <1>6, <1>7 DEF RequestStep

(* What such a step does to the sets of requests that the invariant counts *)
(* or asks for.                                                            *)
LEMMA ForgettingGoesOn ==
    ASSUME ServingOK, NEW r \in Requests, Receive(r) \/ RequestStep(r),
           pc[r] # "forget"
    PROVE  \A u \in Uuids : Forgotten(u) => Forgotten(u)'
  BY OthersStandStill DEF Forgotten

LEMMA RemovedOnce ==
    ASSUME ServingOK, NEW r \in Requests, Receive(r) \/ RequestStep(r)
    PROVE  \A u \in Uuids :
              /\ Removing(u)' \subseteq Removing(u) \cup {r}
              /\ Removing(u) \ {r} \subseteq Removing(u)'
  BY OthersStandStill DEF Removing

LEMMA OneMoreRequest ==
    ASSUME ServingOK, NEW r \in Requests, Receive(r)
    PROVE  \A u \in Uuids :
              Cardinality(Removing(u)') <= Cardinality(Removing(u)) + 1
<1> TAKE u \in Uuids
<1>1. Removing(u)' \subseteq Removing(u) \cup {r}
  BY RemovedOnce
<1>2. IsFiniteSet(Removing(u)) /\ Cardinality(Removing(u)) \in Nat
  BY RemovingFinite
<1>a. /\ IsFiniteSet(Removing(u) \cup {r})
      /\ Cardinality(Removing(u) \cup {r}) =
            IF r \in Removing(u) THEN Cardinality(Removing(u))
            ELSE Cardinality(Removing(u)) + 1
  BY <1>2, FS_AddElement, Zenon
<1>3. /\ IsFiniteSet(Removing(u) \cup {r})
      /\ Cardinality(Removing(u) \cup {r}) <= Cardinality(Removing(u)) + 1
  BY <1>2, <1>a
<1>4. /\ Cardinality(Removing(u)') <= Cardinality(Removing(u) \cup {r})
      /\ IsFiniteSet(Removing(u)')
  BY <1>1, <1>3, FS_Subset
<1>5. QED
  BY <1>2, <1>3, <1>4, FS_CardinalityType

LEMMA OneRemoval ==
    ASSUME ServingOK, NEW r \in Requests, RemovePipeline(r)
    PROVE  \A u \in Uuids :
              /\ Cardinality(Removing(u)') \in Nat
              /\ Cardinality(Removing(u)') =
                    IF pc[r] = "forget" /\ target[r][1] = u
                    THEN Cardinality(Removing(u)) - 1
                    ELSE Cardinality(Removing(u))
<1> TAKE u \in Uuids
<1>0. /\ target' = target
      /\ \/ pc[r] = "remove" /\ pc' = [pc EXCEPT ![r] = "forget"]
         \/ pc[r] = "forget" /\ pc' = [pc EXCEPT ![r] = "removed"]
  BY DEF RemovePipeline, Goto
<1>1. CASE pc[r] = "forget" /\ target[r][1] = u
  <2>1. r \in Removing(u)
    BY <1>1 DEF Removing
  <2>2. Removing(u)' = Removing(u) \ {r}
    BY <1>0, <1>1 DEF Removing, ServingOK
  <2>3. /\ Cardinality(Removing(u) \ {r}) = Cardinality(Removing(u)) - 1
        /\ IsFiniteSet(Removing(u) \ {r})
    BY <2>1, RemovingFinite, FS_RemoveElement
  <2>4. Cardinality(Removing(u) \ {r}) \in Nat
    BY <2>3, FS_CardinalityType
  <2>5. QED
    BY <1>1, <2>2, <2>3, <2>4
<1>2. CASE ~(pc[r] = "forget" /\ target[r][1] = u)
  <2>1. Removing(u)' = Removing(u)
    BY <1>0, <1>2 DEF Removing, ServingOK
  <2>2. QED
    BY <1>2, <2>1, RemovingFinite
<1>3. QED
  BY <1>1, <1>2

(* The two calls of an instance, whoever makes them.                       *)
LEMMA StartKeepsInstances ==
    ASSUME InstancesOK, InstanceInv, NEW i \in Instances, ExecuteAsync(i)
    PROVE  /\ InstancesOK'
           /\ \A j \in Instances :
                 /\ (phase[j] = "working" => started[j] > 0)'
                 /\ alive'[j] # {} => alive[j] # {} \/ j = i
<1> USE Bounds
<1>1. CASE Execute(i)
  <2>1. started[i] + 1 \in 1..MaxStarts
    BY <1>1 DEF InstancesOK, Execute
  <2>2. InstancesOK'
    BY <1>1, <2>1 DEF InstancesOK, Execute
  <2>3. QED
    BY <1>1, <2>2 DEF InstancesOK, InstanceInv, Execute
<1>2. CASE UNCHANGED instances
  BY <1>2 DEF InstancesOK, InstanceInv, instances
<1>3. QED
  BY <1>1, <1>2 DEF ExecuteAsync

LEMMA DisposeKeepsInstances ==
    ASSUME InstancesOK, InstanceInv, NEW i \in Instances, Dispose(i)
    PROVE  /\ InstancesOK'
           /\ \A j \in Instances :
                 /\ (phase[j] = "working" => started[j] > 0)'
                 /\ alive'[j] = alive[j]
<1> USE Bounds
<1>1. CASE Cancel(i)
  <2>1. started[i] \in 1..MaxStarts
    BY <1>1 DEF InstancesOK, InstanceInv, Cancel
  <2>2. QED
    BY <1>1, <2>1 DEF InstancesOK, InstanceInv, Cancel
<1>2. CASE UNCHANGED instances
  BY <1>2 DEF InstancesOK, InstanceInv, instances
<1>3. QED
  BY <1>1, <1>2 DEF Dispose

-----------------------------------------------------------------------------
(* The inductive step, thread by thread.  The service creates an instance  *)
(* only where CountInv leaves room for it.                                 *)
LEMMA ServiceStepsKeepIInv ==
    ASSUME IInv, ServiceStep
    PROVE  IInv'
<1> USE Bounds, InstancesArePairs DEF IInv
<1>t. /\ StoresOK /\ InstancesOK /\ ServiceOK /\ ServingOK /\ HostingOK
  BY TypeOKParts
<1>s. UNCHANGED serving
  BY DEF ServiceStep, Query, NextRecord, EndOfRecords, CreatePipeline,
     CreatePipelineFails, AddPipeline, AddMonitor, StartPipeline
<1>r. \A v : Removing(v)' = Removing(v) /\ Forgotten(v)' = Forgotten(v)
  BY <1>s DEF serving, Removing, Forgotten
<1>1. CASE Query
  <2> USE <1>1 DEF Query, GoOn, stores, instances, serving, hosting
  <2> DEFINE Untouched ==
       /\ StoresOK /\ InstancesOK /\ ServingOK /\ HostingOK
       /\ RequestInv /\ InstanceInv
  <2>1. Untouched'
    BY <1>t
    DEF StoresOK, InstancesOK, ServingOK, HostingOK, RequestInv, InstanceInv
  <2>2. ServiceOK'
    BY <1>t
    DEF ServiceOK, StoresOK, CountInv, Instances
  <2>3. ServiceInv'
    BY <1>t
    DEF ServiceInv, StoresOK, ServiceOK, ServingOK
  <2>4. CountInv'
    BY <1>t, <1>r, RemovingFinite
    DEF CountInv, Present, StoresOK, ServiceOK, ServingOK, HostingOK,
        ServiceInv
  <2>5. MonitoredPipelines'
    BY <1>t, <1>r, MonitoredParts
    DEF Monitored, StoresOK, ServiceOK
  <2>6. QED
    BY <2>1, <2>2, <2>3, <2>4, <2>5, TypeOKParts
<1>2. CASE NextRecord
  <2> USE <1>2
          DEF NextRecord, GoOn, IsActivated, stores, instances, serving,
              hosting
  <2> DEFINE Untouched ==
       /\ StoresOK /\ InstancesOK /\ ServingOK /\ HostingOK
       /\ RequestInv /\ InstanceInv
  <2>1. Untouched'
    BY <1>t
    DEF StoresOK, InstancesOK, ServingOK, HostingOK, RequestInv, InstanceInv
  <2>2. PICK u \in todo :
           \/ UNCHANGED <<svc, current>>
           \/ /\ pipelines[u] = 0
              /\ svc' = "create" /\ current' = <<u, created[u] + 1>>
    BY Zenon
  <2>3. u \in Uuids /\ (pipelines[u] = 0 => created[u] + 1 \in 1..MaxInstances)
    BY <1>t, <2>2, RemovingFinite
    DEF StoresOK, ServiceOK, ServingOK, CountInv, Present
  <2>4. ServiceOK'
    BY <1>t, <2>2, <2>3 DEF ServiceOK
  <2>5. ServiceInv'
    BY <1>t, <2>2, <2>3 DEF ServiceInv, StoresOK, ServiceOK
  <2>6. CountInv'
    BY <1>t, <1>r, RemovingFinite
    DEF CountInv, Present, StoresOK, ServiceOK, ServingOK, HostingOK,
        ServiceInv
  <2>7. MonitoredPipelines'
    BY <1>t, <1>r, MonitoredParts
    DEF Monitored, StoresOK, ServiceOK
  <2>8. QED
    BY <2>1, <2>4, <2>5, <2>6, <2>7, TypeOKParts
<1>3. CASE EndOfRecords
  <2> USE <1>3 DEF EndOfRecords, GoOn, stores, instances, serving, hosting
  <2> DEFINE Untouched ==
       /\ StoresOK /\ InstancesOK /\ ServingOK /\ HostingOK
       /\ RequestInv /\ InstanceInv
  <2>1. Untouched'
    BY <1>t
    DEF StoresOK, InstancesOK, ServingOK, HostingOK, RequestInv, InstanceInv
  <2>2. ServiceOK'
    BY <1>t
    DEF ServiceOK, StoresOK, CountInv, Instances
  <2>3. ServiceInv'
    BY <1>t
    DEF ServiceInv, StoresOK, ServiceOK, ServingOK
  <2>4. CountInv'
    BY <1>t, <1>r, RemovingFinite
    DEF CountInv, Present, StoresOK, ServiceOK, ServingOK, HostingOK,
        ServiceInv
  <2>5. MonitoredPipelines'
    BY <1>t, <1>r, MonitoredParts
    DEF Monitored, StoresOK, ServiceOK
  <2>6. QED
    BY <2>1, <2>2, <2>3, <2>4, <2>5, TypeOKParts
<1>4. ASSUME NEW u \in Uuids, CreatePipeline(u)
     PROVE  IInv'
  <2> USE <1>4 DEF CreatePipeline, GoOn, instances, serving, hosting
  <2>1. (InstancesOK /\ ServingOK /\ HostingOK)'
    BY <1>t
    DEF InstancesOK, ServingOK, HostingOK
  <2>2. (StoresOK /\ ServiceOK)'
    BY <1>t
    DEF StoresOK, ServingOK, ServiceOK, ServiceInv, RequestInv, Instances,
        CountInv
  <2>3. RequestInv'
    BY <1>t
    DEF RequestInv, StoresOK, ServingOK
  <2>4. ServiceInv'
    BY <1>t
    DEF ServiceInv, StoresOK, ServiceOK, ServingOK
  <2>5. CountInv'
    BY <1>t, <1>r, RemovingFinite
    DEF CountInv, Present, StoresOK, ServiceOK, ServingOK, HostingOK,
        ServiceInv
  <2>6. InstanceInv'
    BY <1>t
    DEF InstanceInv, StoresOK, InstancesOK
  <2>7. MonitoredPipelines'
    BY <1>t, <1>r, MonitoredParts
    DEF Monitored, StoresOK, ServiceOK
  <2>8. QED
    BY <2>1, <2>2, <2>3, <2>4, <2>5, <2>6, <2>7, TypeOKParts
<1>5. ASSUME NEW u \in Uuids, CreatePipelineFails(u)
     PROVE  IInv'
  <2> USE <1>5 DEF CreatePipelineFails, Continue, instances, serving, hosting
  <2> DEFINE Untouched ==
       /\ InstancesOK /\ ServingOK /\ HostingOK
       /\ RequestInv /\ InstanceInv
  <2>1. Untouched'
    BY <1>t
    DEF InstancesOK, ServingOK, HostingOK, RequestInv, InstanceInv
  <2>2. (StoresOK /\ ServiceOK)'
    BY <1>t
    DEF StoresOK, ServingOK, ServiceOK, ServiceInv, RequestInv, Instances,
        CountInv
  <2>3. ServiceInv'
    BY <1>t
    DEF ServiceInv, StoresOK, ServiceOK, ServingOK
  <2>4. CountInv'
    BY <1>t, <1>r, RemovingFinite
    DEF CountInv, Present, StoresOK, ServiceOK, ServingOK, HostingOK,
        ServiceInv
  <2>5. MonitoredPipelines'
    BY <1>t, <1>r, MonitoredParts
    DEF Monitored, StoresOK, ServiceOK
  <2>6. QED
    BY <2>1, <2>2, <2>3, <2>4, <2>5, TypeOKParts
<1>6. CASE AddPipeline
  <2> USE <1>6 DEF AddPipeline, GoOn, instances, serving
  <2>1. (InstancesOK /\ ServingOK /\ RequestInv /\ InstanceInv)'
    BY <1>t
    DEF InstancesOK, ServingOK, RequestInv, InstanceInv
  <2>2. (StoresOK /\ ServiceOK /\ HostingOK)'
    BY <1>t
    DEF StoresOK, ServingOK, ServiceOK, ServiceInv, RequestInv, Instances,
        CountInv, HostingOK
  <2>3. ServiceInv'
    BY <1>t
    DEF ServiceInv, StoresOK, ServiceOK, ServingOK
  <2>4. CountInv'
    BY <1>t, <1>r, RemovingFinite
    DEF CountInv, Present, StoresOK, ServiceOK, ServingOK, HostingOK,
        ServiceInv
  <2>5. MonitoredPipelines'
    BY <1>t, <1>r, MonitoredParts
    DEF Monitored, StoresOK, ServiceOK
  <2>6. QED
    BY <2>1, <2>2, <2>3, <2>4, <2>5, TypeOKParts
<1>7. CASE AddMonitor
  <2> USE <1>7 DEF AddMonitor, GoOn, Continue, instances, serving, hosting
  <2> DEFINE Untouched ==
       /\ InstancesOK /\ ServingOK /\ HostingOK
       /\ RequestInv /\ InstanceInv
  <2>1. Untouched'
    BY <1>t
    DEF InstancesOK, ServingOK, HostingOK, RequestInv, InstanceInv
  <2>2. (StoresOK /\ ServiceOK)'
    BY <1>t
    DEF StoresOK, ServingOK, ServiceOK, ServiceInv, RequestInv, Instances,
        CountInv
  <2>3. ServiceInv'
    BY <1>t
    DEF ServiceInv, StoresOK, ServiceOK, ServingOK
  <2>4. CountInv'
    BY <1>t, <1>r, RemovingFinite
    DEF CountInv, Present, StoresOK, ServiceOK, ServingOK, HostingOK,
        ServiceInv
  <2>5. MonitoredPipelines'
    BY <1>t, <1>r, MonitoredParts
    DEF Monitored, StoresOK, ServiceOK
  <2>6. QED
    BY <2>1, <2>2, <2>3, <2>4, <2>5, TypeOKParts
<1>8. CASE StartPipeline
  <2> USE <1>8 DEF StartPipeline, Continue, stores, serving, hosting
  <2>1. (StoresOK /\ ServingOK /\ HostingOK /\ RequestInv)'
    BY <1>t
    DEF StoresOK, ServingOK, HostingOK, RequestInv
  <2>2. InstancesOK'
    BY <1>t, StartKeepsInstances DEF ServiceInv
  <2>3. ServiceOK'
    BY <1>t
    DEF ServiceOK, StoresOK, CountInv, Instances
  <2>4. ServiceInv'
    BY <1>t
    DEF ServiceInv, StoresOK, ServiceOK, ServingOK
  <2>5. CountInv'
    BY <1>t, <1>r, RemovingFinite
    DEF CountInv, Present, StoresOK, ServiceOK, ServingOK, HostingOK,
        ServiceInv
  <2>6. InstanceInv'
    BY <1>t, StartKeepsInstances DEF InstanceInv, ServiceInv, StoresOK
  <2>7. MonitoredPipelines'
    BY <1>t, <1>r, MonitoredParts
    DEF Monitored, StoresOK, ServiceOK
  <2>8. QED
    BY <2>1, <2>2, <2>3, <2>4, <2>5, <2>6, <2>7, TypeOKParts
<1>9. QED
  BY <1>1, <1>2, <1>3, <1>4, <1>5, <1>6, <1>7, <1>8 DEF ServiceStep

(* A request takes out at most one instance, and counts it once.           *)
LEMMA RequestStepsKeepIInv ==
    ASSUME IInv, NEW r \in Requests, Receive(r) \/ RequestStep(r)
    PROVE  IInv'
<1> USE Bounds, InstancesArePairs DEF IInv
<1>t. /\ StoresOK /\ InstancesOK /\ ServiceOK /\ ServingOK /\ HostingOK
  BY TypeOKParts
<1>1. CASE Receive(r)
  <2> USE <1>1 DEF Receive, Goto, stores, instances, service, hosting
  <2> DEFINE Untouched ==
       /\ StoresOK /\ InstancesOK /\ ServiceOK /\ HostingOK
       /\ ServiceInv /\ InstanceInv
  <2>1. Untouched'
    BY <1>t
    DEF StoresOK, InstancesOK, ServiceOK, HostingOK, ServiceInv, InstanceInv
  <2>2. ServingOK'
    BY <1>t
    DEF ServingOK, StoresOK
  <2>3. RequestInv'
    BY <1>t
    DEF RequestInv, StoresOK, ServingOK
  <2>4. CountInv'
    <3>1. \A v \in Uuids :
             Cardinality(Removing(v)') <= Cardinality(Removing(v)) + 1
      BY <1>t, OneMoreRequest
    <3>2. QED
      BY <1>t, <3>1, RemovingFinite
      DEF CountInv, Present, StoresOK, ServiceOK, ServingOK, HostingOK
  <2>5. MonitoredPipelines'
    BY <1>t, ForgettingGoesOn, MonitoredParts
    DEF Monitored
  <2>6. QED
    BY <2>1, <2>2, <2>3, <2>4, <2>5, TypeOKParts
<1>2. CASE PostRecord(r)
  <2> USE <1>2 DEF PostRecord, Goto, Return, instances, service, hosting
  <2> DEFINE Untouched ==
       /\ InstancesOK /\ ServiceOK /\ HostingOK
       /\ ServiceInv /\ InstanceInv
  <2>1. Untouched'
    BY <1>t
    DEF InstancesOK, ServiceOK, HostingOK, ServiceInv, InstanceInv
  <2>2. (StoresOK /\ ServingOK)'
    BY <1>t
    DEF StoresOK, ServingOK, ServiceOK, ServiceInv, RequestInv, Instances
  <2>3. RequestInv'
    BY <1>t
    DEF RequestInv, StoresOK, ServingOK
  <2>4. CountInv'
    <3>1. \A v \in Uuids : Removing(v)' = Removing(v)
      BY <1>t DEF Removing, RequestInv, ServingOK
    <3>2. QED
      BY <1>t, <3>1, RemovingFinite
      DEF CountInv, Present, StoresOK, ServiceOK, ServingOK, HostingOK
  <2>5. MonitoredPipelines'
    BY <1>t, ForgettingGoesOn, MonitoredParts
    DEF Monitored
  <2>6. QED
    BY <2>1, <2>2, <2>3, <2>4, <2>5, TypeOKParts
<1>3. CASE PostHandlers(r)
  <2> USE <1>3 DEF PostHandlers, Return, instances, service, hosting
  <2> DEFINE Untouched ==
       /\ InstancesOK /\ ServiceOK /\ HostingOK
       /\ ServiceInv /\ InstanceInv
  <2>1. Untouched'
    BY <1>t
    DEF InstancesOK, ServiceOK, HostingOK, ServiceInv, InstanceInv
  <2>2. (StoresOK /\ ServingOK)'
    BY <1>t
    DEF StoresOK, ServingOK, ServiceOK, ServiceInv, RequestInv, Instances
  <2>3. RequestInv'
    BY <1>t
    DEF RequestInv, StoresOK, ServingOK
  <2>4. CountInv'
    <3>1. \A v \in Uuids : Removing(v)' = Removing(v)
      BY <1>t DEF Removing, RequestInv, ServingOK
    <3>2. QED
      BY <1>t, <3>1, RemovingFinite
      DEF CountInv, Present, StoresOK, ServiceOK, ServingOK, HostingOK
  <2>5. MonitoredPipelines'
    BY <1>t, ForgettingGoesOn, MonitoredParts
    DEF Monitored
  <2>6. QED
    BY <2>1, <2>2, <2>3, <2>4, <2>5, TypeOKParts
<1>4. CASE TryGetValue(r)
  <2> USE <1>4
          DEF TryGetValue, Goto, Return, stores, instances, service, hosting
  <2> DEFINE Untouched ==
       /\ StoresOK /\ InstancesOK /\ ServiceOK /\ HostingOK
       /\ ServiceInv /\ InstanceInv
  <2>1. Untouched'
    BY <1>t
    DEF StoresOK, InstancesOK, ServiceOK, HostingOK, ServiceInv, InstanceInv
  <2>2. ServingOK'
    BY <1>t
    DEF ServingOK, StoresOK, RequestInv
  <2>3. RequestInv'
    BY <1>t
    DEF RequestInv, StoresOK, ServingOK
  <2>4. CountInv'
    <3>1. \A v \in Uuids : Removing(v)' = Removing(v)
      BY <1>t DEF Removing, RequestInv, ServingOK
    <3>2. QED
      BY <1>t, <3>1, RemovingFinite
      DEF CountInv, Present, StoresOK, ServiceOK, ServingOK, HostingOK
  <2>5. MonitoredPipelines'
    BY <1>t, ForgettingGoesOn, MonitoredParts
    DEF Monitored
  <2>6. QED
    BY <2>1, <2>2, <2>3, <2>4, <2>5, TypeOKParts
<1>5. CASE RunFound(r)
  <2> USE <1>5 DEF RunFound, Return, stores, service, hosting
  <2>1. (StoresOK /\ ServiceOK /\ HostingOK /\ ServiceInv)'
    BY <1>t
    DEF StoresOK, ServiceOK, HostingOK, ServiceInv
  <2>2. InstancesOK'
    BY <1>t, StartKeepsInstances DEF RequestInv
  <2>3. ServingOK'
    BY <1>t
    DEF ServingOK, StoresOK
  <2>4. RequestInv'
    BY <1>t
    DEF RequestInv, StoresOK, ServingOK
  <2>5. CountInv'
    <3>1. \A v \in Uuids : Removing(v)' = Removing(v)
      BY <1>t DEF Removing, RequestInv, ServingOK
    <3>2. QED
      BY <1>t, <3>1, RemovingFinite
      DEF CountInv, Present, StoresOK, ServiceOK, ServingOK, HostingOK
  <2>6. InstanceInv'
    BY <1>t, StartKeepsInstances DEF InstanceInv, RequestInv, StoresOK
  <2>7. MonitoredPipelines'
    BY <1>t, ForgettingGoesOn, MonitoredParts
    DEF Monitored
  <2>8. QED
    BY <2>1, <2>2, <2>3, <2>4, <2>5, <2>6, <2>7, TypeOKParts
<1>6. CASE StopFound(r)
  <2> USE <1>6 DEF StopFound, Return, stores, service, hosting
  <2>1. (StoresOK /\ ServiceOK /\ HostingOK /\ ServiceInv)'
    BY <1>t
    DEF StoresOK, ServiceOK, HostingOK, ServiceInv
  <2>2. InstancesOK'
    BY <1>t, DisposeKeepsInstances DEF RequestInv
  <2>3. ServingOK'
    BY <1>t
    DEF ServingOK, StoresOK
  <2>4. RequestInv'
    BY <1>t
    DEF RequestInv, StoresOK, ServingOK
  <2>5. CountInv'
    <3>1. \A v \in Uuids : Removing(v)' = Removing(v)
      BY <1>t DEF Removing, RequestInv, ServingOK
    <3>2. QED
      BY <1>t, <3>1, RemovingFinite
      DEF CountInv, Present, StoresOK, ServiceOK, ServingOK, HostingOK
  <2>6. InstanceInv'
    BY <1>t, DisposeKeepsInstances DEF InstanceInv, RequestInv, StoresOK
  <2>7. MonitoredPipelines'
    BY <1>t, ForgettingGoesOn, MonitoredParts
    DEF Monitored
  <2>8. QED
    BY <2>1, <2>2, <2>3, <2>4, <2>5, <2>6, <2>7, TypeOKParts
<1>7. CASE DeleteRecord(r)
  <2> USE <1>7 DEF DeleteRecord, Goto, instances, service, hosting
  <2> DEFINE Untouched ==
       /\ InstancesOK /\ ServiceOK /\ HostingOK
       /\ ServiceInv /\ InstanceInv
  <2>1. Untouched'
    BY <1>t
    DEF InstancesOK, ServiceOK, HostingOK, ServiceInv, InstanceInv
  <2>2. (StoresOK /\ ServingOK)'
    BY <1>t
    DEF StoresOK, ServingOK, ServiceOK, ServiceInv, RequestInv, Instances
  <2>3. RequestInv'
    BY <1>t
    DEF RequestInv, StoresOK, ServingOK
  <2>4. CountInv'
    <3>1. \A v \in Uuids : Removing(v)' = Removing(v)
      BY <1>t DEF Removing, RequestInv, ServingOK
    <3>2. QED
      BY <1>t, <3>1, RemovingFinite
      DEF CountInv, Present, StoresOK, ServiceOK, ServingOK, HostingOK
  <2>5. MonitoredPipelines'
    BY <1>t, ForgettingGoesOn, MonitoredParts
    DEF Monitored
  <2>6. QED
    BY <2>1, <2>2, <2>3, <2>4, <2>5, TypeOKParts
<1>8. CASE RemovePipeline(r)
  <2> USE <1>8
          DEF RemovePipeline, Goto, RemoveMonitor, RemoveFromPipelines,
              instances, service, hosting
  <2>1. (InstancesOK /\ ServiceOK /\ HostingOK /\ InstanceInv)'
    BY <1>t
    DEF InstancesOK, ServiceOK, HostingOK, InstanceInv
  <2>2. StoresOK'
    <3>1. \A v \in Uuids : /\ pc[r] = "forget" /\ target[r][1] = v
                          => removals[v] < MaxRequests
      BY <1>t, OneRemoval, RemovingFinite DEF CountInv, StoresOK, ServingOK
    <3>2. QED
      BY <1>t, <3>1 DEF StoresOK, ServingOK, RequestInv
  <2>3. ServingOK'
    BY <1>t
    DEF ServingOK, StoresOK
  <2>4. RequestInv'
    BY <1>t
    DEF RequestInv, StoresOK, ServingOK
  <2>5. ServiceInv'
    BY <1>t
    DEF ServiceInv, StoresOK, ServiceOK, ServingOK
  <2>6. CountInv'
    BY <1>t, OneRemoval, RemovingFinite
    DEF CountInv, Present, StoresOK, ServiceOK, ServingOK, HostingOK,
        ServiceInv, RequestInv
  <2>7. MonitoredPipelines'
    <3>1. SUFFICES ASSUME NEW v \in Uuids, pipelines'[v] # 0
                   PROVE  Monitored(v)'
      BY MonitoredParts
    <3>2. Monitored(v)
      BY <1>t, <3>1, MonitoredParts DEF StoresOK, ServingOK
    <3>3. Forgotten(v) => Forgotten(v)'
      BY <1>t, <3>1, OthersStandStill
      DEF Forgotten, StoresOK, ServingOK, RequestStep
    <3>4. pc[r] = "remove" /\ target[r][1] = v => Forgotten(v)'
      BY <1>t DEF Forgotten, ServingOK
    <3>5. QED
      BY <1>t, <3>2, <3>3, <3>4 DEF Monitored
  <2>8. QED
    BY <2>1, <2>2, <2>3, <2>4, <2>5, <2>6, <2>7, TypeOKParts
<1>9. QED
  BY <1>1, <1>2, <1>3, <1>4, <1>5, <1>6, <1>7, <1>8 DEF RequestStep

(* The host clears the dictionaries once, at the very end.                 *)
LEMMA HostStepsKeepIInv ==
    ASSUME IInv, HostStop \/ HostDispose \/ HostStep
    PROVE  IInv'
<1> USE Bounds, InstancesArePairs DEF IInv
<1>t. /\ StoresOK /\ InstancesOK /\ ServiceOK /\ ServingOK /\ HostingOK
  BY TypeOKParts
<1>s. UNCHANGED serving
  BY DEF HostStop, HostDispose, HostStep, HostDisposeNext, HostClearMonitor,
     HostClearPipelines
<1>r. \A v : Removing(v)' = Removing(v) /\ Forgotten(v)' = Forgotten(v)
  BY <1>s DEF serving, Removing, Forgotten
<1>1. CASE HostStop
  <2> USE <1>1 DEF HostStop, stores, service, serving, hosting
  <2> DEFINE Untouched ==
       /\ StoresOK /\ ServiceOK /\ ServingOK /\ HostingOK /\ RequestInv
       /\ ServiceInv /\ CountInv /\ InstanceInv /\ MonitoredPipelines
  <2>1. Untouched'
    BY <1>t
    DEF StoresOK, ServiceOK, ServingOK, HostingOK, RequestInv, ServiceInv,
        CountInv, InstanceInv, MonitoredPipelines, Removing, Present,
        Forgotten
  <2>2. InstancesOK'
    <3>1. cancelled' \in [Instances -> SUBSET (1..MaxStarts)]
      BY <1>t DEF InstancesOK
    <3>2. QED
      BY <1>t, <3>1 DEF InstancesOK
  <2>3. QED
    BY <2>1, <2>2, TypeOKParts
<1>2. CASE HostDispose
  <2> USE <1>2 DEF HostDispose, stores, instances, service, serving
  <2> DEFINE Untouched ==
       /\ StoresOK /\ InstancesOK /\ ServiceOK /\ ServingOK
       /\ RequestInv /\ ServiceInv /\ InstanceInv
  <2>1. Untouched'
    BY <1>t
    DEF StoresOK, InstancesOK, ServiceOK, ServingOK, RequestInv, ServiceInv,
        InstanceInv
  <2>2. HostingOK'
    BY <1>t
    DEF HostingOK
  <2>3. CountInv'
    BY <1>t, <1>r, RemovingFinite
    DEF CountInv, Present, StoresOK, ServiceOK, ServingOK, HostingOK,
        ServiceInv
  <2>4. MonitoredPipelines'
    BY <1>t, <1>r, MonitoredParts
    DEF Monitored, StoresOK, ServiceOK
  <2>5. QED
    BY <2>1, <2>2, <2>3, <2>4, TypeOKParts
<1>3. CASE HostDisposeNext
  <2> USE <1>3 DEF HostDisposeNext, stores, service, serving
  <2> DEFINE Untouched ==
       /\ StoresOK /\ ServiceOK /\ ServingOK /\ RequestInv
       /\ ServiceInv /\ CountInv /\ MonitoredPipelines
  <2>1. Untouched'
    BY <1>t
    DEF StoresOK, ServiceOK, ServingOK, RequestInv, ServiceInv, CountInv,
        MonitoredPipelines, Removing, Present, Forgotten
  <2>2. PICK u \in Uuids : /\ pipelines[u] # 0
                           /\ Dispose(<<u, pipelines[u]>>)
    OBVIOUS
  <2>3. <<u, pipelines[u]>> \in Instances
    BY <1>t, <2>2 DEF StoresOK, Instances
  <2>4. InstancesOK'
    BY <1>t, <2>2, <2>3, DisposeKeepsInstances
  <2>5. HostingOK'
    BY <1>t
    DEF HostingOK
  <2>6. InstanceInv'
    BY <1>t, <2>2, <2>3, DisposeKeepsInstances DEF InstanceInv
  <2>7. QED
    BY <2>1, <2>4, <2>5, <2>6, TypeOKParts
<1>4. CASE HostClearMonitor
  <2> USE <1>4 DEF HostClearMonitor, instances, service, serving
  <2> DEFINE Untouched ==
       /\ InstancesOK /\ ServiceOK /\ ServingOK /\ RequestInv
       /\ ServiceInv /\ InstanceInv
  <2>1. Untouched'
    BY <1>t
    DEF InstancesOK, ServiceOK, ServingOK, RequestInv, ServiceInv,
        InstanceInv
  <2>2. (StoresOK /\ HostingOK)'
    BY <1>t
    DEF StoresOK, ServingOK, ServiceOK, ServiceInv, RequestInv, Instances,
        HostingOK
  <2>3. CountInv'
    BY <1>t, <1>r, RemovingFinite
    DEF CountInv, Present, StoresOK, ServiceOK, ServingOK, HostingOK,
        ServiceInv
  <2>4. MonitoredPipelines'
    BY <1>t, <1>r, MonitoredParts
    DEF Monitored, StoresOK, ServiceOK
  <2>5. QED
    BY <2>1, <2>2, <2>3, <2>4, TypeOKParts
<1>5. CASE HostClearPipelines
  <2> USE <1>5 DEF HostClearPipelines, instances, service, serving
  <2> DEFINE Untouched ==
       /\ InstancesOK /\ ServiceOK /\ ServingOK
       /\ RequestInv /\ InstanceInv
  <2>1. Untouched'
    BY <1>t
    DEF InstancesOK, ServiceOK, ServingOK, RequestInv, InstanceInv
  <2>2. (StoresOK /\ HostingOK)'
    BY <1>t
    DEF StoresOK, ServingOK, ServiceOK, ServiceInv, RequestInv, Instances,
        HostingOK
  <2>3. ServiceInv'
    BY <1>t
    DEF ServiceInv, StoresOK, ServiceOK, ServingOK
  <2>4. CountInv'
    BY <1>t, <1>r, RemovingFinite
    DEF CountInv, Present, StoresOK, ServiceOK, ServingOK, HostingOK,
        ServiceInv
  <2>5. MonitoredPipelines'
    BY <1>t, <1>r, MonitoredParts
    DEF Monitored, StoresOK, ServiceOK
  <2>6. QED
    BY <2>1, <2>2, <2>3, <2>4, <2>5, TypeOKParts
<1>6. QED
  BY <1>1, <1>2, <1>3, <1>4, <1>5 DEF HostStep

(* An instance knows nothing of the dictionaries.                          *)
LEMMA InstanceStepsKeepIInv ==
    ASSUME IInv, NEW i \in Instances, InstanceStep(i)
    PROVE  IInv'
<1> USE Bounds, InstancesArePairs DEF IInv
<1>t. /\ StoresOK /\ InstancesOK /\ ServiceOK /\ ServingOK /\ HostingOK
  BY TypeOKParts
<1>s. UNCHANGED serving
  BY DEF InstanceStep, TaskCancels, Release, TaskDrains, TaskEnds
<1>r. \A v : Removing(v)' = Removing(v) /\ Forgotten(v)' = Forgotten(v)
  BY <1>s DEF serving, Removing, Forgotten
<1>1. CASE TaskCancels(i)
  <2> USE <1>1 DEF TaskCancels, Cancel, stores, service, serving, hosting
  <2> DEFINE Untouched ==
       /\ StoresOK /\ ServiceOK /\ ServingOK /\ HostingOK /\ RequestInv
       /\ ServiceInv /\ CountInv /\ MonitoredPipelines
  <2>1. Untouched'
    BY <1>t
    DEF StoresOK, ServiceOK, ServingOK, HostingOK, RequestInv, ServiceInv,
        CountInv, MonitoredPipelines, Removing, Present, Forgotten
  <2>2. InstancesOK'
    BY <1>t, DisposeKeepsInstances DEF Dispose
  <2>3. InstanceInv'
    BY <1>t, DisposeKeepsInstances DEF Dispose, InstanceInv
  <2>4. QED
    BY <2>1, <2>2, <2>3, TypeOKParts
<1>2. CASE Release(i)
  <2> USE <1>2 DEF Release, stores, service, serving, hosting
  <2> DEFINE Untouched ==
       /\ StoresOK /\ ServiceOK /\ ServingOK /\ HostingOK /\ RequestInv
       /\ ServiceInv /\ CountInv /\ MonitoredPipelines
  <2>1. Untouched'
    BY <1>t
    DEF StoresOK, ServiceOK, ServingOK, HostingOK, RequestInv, ServiceInv,
        CountInv, MonitoredPipelines, Removing, Present, Forgotten
  <2>2. InstancesOK'
    BY <1>t
    DEF InstancesOK
  <2>3. InstanceInv'
    BY <1>t
    DEF InstanceInv, StoresOK, InstancesOK
  <2>4. QED
    BY <2>1, <2>2, <2>3, TypeOKParts
<1>3. ASSUME NEW k \in 1..MaxStarts, TaskEnds(i, k)
     PROVE  IInv'
  <2> USE <1>3 DEF TaskEnds, stores, service, serving, hosting
  <2> DEFINE Untouched ==
       /\ StoresOK /\ ServiceOK /\ ServingOK /\ HostingOK /\ RequestInv
       /\ ServiceInv /\ CountInv /\ MonitoredPipelines
  <2>1. Untouched'
    BY <1>t
    DEF StoresOK, ServiceOK, ServingOK, HostingOK, RequestInv, ServiceInv,
        CountInv, MonitoredPipelines, Removing, Present, Forgotten
  <2>2. InstancesOK'
    BY <1>t
    DEF InstancesOK
  <2>3. InstanceInv'
    BY <1>t
    DEF InstanceInv, StoresOK, InstancesOK
  <2>4. QED
    BY <2>1, <2>2, <2>3, TypeOKParts
<1>4. ASSUME NEW k \in 1..MaxStarts, TaskDrains(i, k)
     PROVE  IInv'
  <2> USE <1>4 DEF TaskDrains, stores, service, serving, hosting
  <2> DEFINE Untouched ==
       /\ StoresOK /\ ServiceOK /\ ServingOK /\ HostingOK /\ RequestInv
       /\ ServiceInv /\ CountInv /\ InstanceInv /\ MonitoredPipelines
  <2>1. Untouched'
    BY <1>t
    DEF StoresOK, ServiceOK, ServingOK, HostingOK, RequestInv, ServiceInv,
        CountInv, InstanceInv, MonitoredPipelines, Removing, Present, Forgotten
  <2>2. InstancesOK'
    BY <1>t
    DEF InstancesOK
  <2>3. QED
    BY <2>1, <2>2, TypeOKParts
<1>5. QED
  BY <1>1, <1>2, <1>3, <1>4 DEF InstanceStep

-----------------------------------------------------------------------------
LEMMA InitHolds == Init => IInv
<1> SUFFICES ASSUME Init
             PROVE  IInv
  OBVIOUS
<1> USE Bounds, ManagerAssumption DEF Init
<1>1. StoresOK
  BY DEF StoresOK, Uuids
<1>2. InstancesOK
  <2>1. {} \in SUBSET (1..MaxStarts) /\ 0 \in 0..MaxStarts
    OBVIOUS
  <2>2. QED
    BY <2>1 DEF InstancesOK
<1>3. ServiceOK /\ ServingOK /\ HostingOK
  BY DEF ServiceOK, ServingOK, HostingOK
<1>4. RequestInv /\ ServiceInv /\ InstanceInv /\ MonitoredPipelines
  BY DEF RequestInv, ServiceInv, InstanceInv, MonitoredPipelines
<1>5. CountInv
  <2>1. \A u : Removing(u) = {}
    BY DEF Removing
  <2>2. Cardinality({}) = 0
    BY FS_EmptySet
  <2>3. QED
    <3>1. \A u \in Uuids : ~Present(u) /\ removals[u] = 0 /\ created[u] = 0
      BY DEF Present
    <3>2. \A u \in Uuids : Cardinality(Removing(u)) = 0
      BY <2>1, <2>2
    <3>3. QED
      BY <3>1, <3>2 DEF CountInv
<1>6. QED
  BY <1>1, <1>2, <1>3, <1>4, <1>5, TypeOKParts DEF IInv

LEMMA NextKeepsIInv == IInv /\ [Next]_vars => IInv'
<1>1. ASSUME IInv, UNCHANGED vars
      PROVE  IInv'
  BY <1>1 DEF vars, stores, instances, service, serving, hosting, IInv, TypeOK,
     RequestInv, ServiceInv, CountInv, Removing, Present, InstanceInv,
     MonitoredPipelines
<1>2. QED
  BY <1>1, ServiceStepsKeepIInv, RequestStepsKeepIInv, HostStepsKeepIInv,
     InstanceStepsKeepIInv DEF Next

(* The inductive invariant: the types, what the service and the requests   *)
(* know of the instances in their hands, how many instances there have     *)
(* been, and which of them may run.                                        *)
THEOREM Invariance == Spec => []IInv
  BY InitHolds, NextKeepsIInv, PTL DEF Spec

(* The types of the variables.                                             *)
THEOREM TypeCorrect == Spec => []TypeOK
  BY Invariance, PTL DEF IInv

(* There is always room for one more instance: the bound in CreatePipeline *)
(* never holds an activation back (PipelineManager.ActivatePipelines).     *)
THEOREM NoActivationIsHeldBack ==
    Spec => [](svc = "create" => created[current[1]] < MaxInstances)
<1>1. ASSUME IInv, svc = "create"
      PROVE  created[current[1]] < MaxInstances
  BY <1>1, Bounds, InstancesArePairs, TypeOKParts
  DEF IInv, ServiceInv, StoresOK
<1>2. QED
  BY <1>1, Invariance, PTL

(* No pipeline runs without being shown, whatever activations, restarts,   *)
(* deletions and the disposal of the manager do to the two dictionaries,   *)
(* one after the other and without a lock (PipelineManager.CreatePipeline, *)
(* RemovePipeline, Dispose).                                               *)
THEOREM PipelinesAreMonitored == Spec => []MonitoredPipelines
  BY Invariance, PTL DEF IInv

(* _pipelines.Add finds no pipeline, although ContainsKey was called some  *)
(* steps earlier (PipelineManager.ActivatePipelines, CreatePipeline).      *)
THEOREM AddThrowsNothing == Spec => []AddFindsNoPipeline
<1>1. IInv => AddFindsNoPipeline
  BY DEF IInv, ServiceInv, AddFindsNoPipeline
<1>2. QED
  BY <1>1, Invariance, PTL

(* The numbers 1..n are n.                                                 *)
LEMMA IntervalSize ==
    \A n \in Nat : IsFiniteSet(1..n) /\ Cardinality(1..n) = n
<1> TAKE n \in Nat
<1>1. 1 \in Int /\ n \in Int
  OBVIOUS
<1>2. /\ IsFiniteSet(1..n)
      /\ Cardinality(1..n) = IF 1 > n THEN 0 ELSE n - 1 + 1
  BY <1>1, FS_Interval, Zenon
<1>3. QED
  BY <1>2

(* Until the host has cleared the dictionaries a record has at most one    *)
(* instance with tasks beside those that restart and delete have let go of *)
(* (PipelineManager.RemovePipeline, ActivatePipelines).                    *)
THEOREM NoMoreThanOneRuns == Spec => []OneRunningInstance
<1>1. ASSUME IInv, host # "done", NEW u \in Uuids
      PROVE  Cardinality(Running(u)) <= 1 + removals[u]
  <2>1. /\ created[u] \in Nat /\ removals[u] \in Nat
        /\ created[u] <= 1 + removals[u]
    BY <1>1, Bounds, TypeOKParts DEF IInv, CountInv, StoresOK
  <2>2. Running(u) \subseteq 1..created[u]
    BY <1>1, <2>1, Bounds, InstancesArePairs DEF IInv, InstanceInv, Running
  <2>3. IsFiniteSet(1..created[u]) /\ Cardinality(1..created[u]) = created[u]
    BY <2>1, IntervalSize
  <2>4. /\ Cardinality(Running(u)) <= created[u]
        /\ Cardinality(Running(u)) \in Nat
    BY <2>2, <2>3, FS_Subset, FS_CardinalityType
  <2>5. QED
    BY <2>1, <2>4
<1>2. IInv => OneRunningInstance
  BY <1>1 DEF OneRunningInstance
<1>3. QED
  BY <1>2, Invariance, PTL

-----------------------------------------------------------------------------
(* A step of PipelineLife, or none, of one instance.                       *)
LifeStep(i) == UNCHANGED Life(i)!lifeVars \/ Life(i)!Next

LEMMA OthersLiveOn ==
    ASSUME UNCHANGED instances, NEW i \in Instances
    PROVE  LifeStep(i)
  BY DEF instances, LifeStep, Life!lifeVars

LEMMA ExecuteIsALifeStep ==
    ASSUME InstancesOK, NEW i \in Instances, ExecuteAsync(i),
           NEW j \in Instances
    PROVE  LifeStep(j)
<1>1. CASE UNCHANGED instances
  BY <1>1, OthersLiveOn
<1>2. CASE Execute(i) /\ j = i
  <2>1. Life(j)!Execute
    BY <1>2 DEF Execute, InstancesOK, Life!Execute
  <2>2. QED
    BY <2>1 DEF LifeStep, Life!Next
<1>3. CASE Execute(i) /\ j # i
  BY <1>3 DEF Execute, InstancesOK, LifeStep, Life!lifeVars
<1>4. QED
  BY <1>1, <1>2, <1>3 DEF ExecuteAsync

LEMMA DisposeIsALifeStep ==
    ASSUME InstancesOK, NEW i \in Instances, Dispose(i),
           NEW j \in Instances
    PROVE  LifeStep(j)
<1>1. CASE UNCHANGED instances
  BY <1>1, OthersLiveOn
<1>2. CASE Cancel(i) /\ j = i
  <2>1. Life(j)!Cancel
    BY <1>2 DEF Cancel, InstancesOK, Life!Cancel
  <2>2. QED
    BY <2>1 DEF LifeStep, Life!Next
<1>3. CASE Cancel(i) /\ j # i
  BY <1>3 DEF Cancel, InstancesOK, LifeStep, Life!lifeVars
<1>4. QED
  BY <1>1, <1>2, <1>3 DEF Dispose

LEMMA ReleaseIsALifeStep ==
    ASSUME InstancesOK, NEW i \in Instances, Release(i),
           NEW j \in Instances
    PROVE  LifeStep(j)
<1>1. CASE j = i
  <2>1. Life(j)!Release
    BY <1>1 DEF Release, InstancesOK, Life!Release
  <2>2. QED
    BY <2>1 DEF LifeStep, Life!Next
<1>2. CASE j # i
  BY <1>2 DEF Release, InstancesOK, LifeStep, Life!lifeVars
<1>3. QED
  BY <1>1, <1>2

LEMMA EndIsALifeStep ==
    ASSUME InstancesOK, NEW i \in Instances, NEW k \in 1..MaxStarts,
           TaskEnds(i, k), NEW j \in Instances
    PROVE  LifeStep(j)
<1>1. CASE j = i
  <2>1. phase'[i] \in {phase[i]} \cup
                      IF started[i] \in cancelled[i] THEN {"idle"} ELSE {}
    BY DEF TaskEnds, InstancesOK
  <2>2. Life(j)!End(k)
    BY <1>1, <2>1 DEF TaskEnds, InstancesOK, Life!End
  <2>3. QED
    BY <2>2 DEF LifeStep, Life!Next
<1>2. CASE j # i
  BY <1>2 DEF TaskEnds, InstancesOK, LifeStep, Life!lifeVars
<1>3. QED
  BY <1>1, <1>2

LEMMA DrainIsALifeStep ==
    ASSUME InstancesOK, NEW i \in Instances, NEW k \in 1..MaxStarts,
           TaskDrains(i, k), NEW j \in Instances
    PROVE  LifeStep(j)
<1>1. CASE j = i
  <2>1. Life(j)!Turn
    BY <1>1 DEF TaskDrains, InstancesOK, Life!Turn
  <2>2. QED
    BY <2>1 DEF LifeStep, Life!Next
<1>2. CASE j # i
  BY <1>2 DEF TaskDrains, InstancesOK, LifeStep, Life!lifeVars
<1>3. QED
  BY <1>1, <1>2

LEMMA StopIsALifeStep ==
    ASSUME InstancesOK, HostStop, NEW j \in Instances
    PROVE  LifeStep(j)
<1>1. Life(j)!Stop
  BY DEF HostStop, InstancesOK, Life!Stop
<1>2. QED
  BY <1>1 DEF LifeStep, Life!Next

(* Every step, of whichever thread and however stale the instance it has   *)
(* found, is a step of PipelineLife or none for each of the instances      *)
(* (PipelineManager.ExecutePipeline, DisposePipeline, ActivatePipelines,   *)
(* Dispose).                                                               *)
THEOREM InstancesArePipelines == Spec => EveryInstanceIsAPipeline
<1>1. ASSUME IInv, Next, NEW j \in Instances
      PROVE  LifeStep(j)
  <2>t. InstancesOK
    BY <1>1, TypeOKParts DEF IInv
  <2>1. CASE ServiceStep
    <3>1. CASE StartPipeline
      BY <1>1, <3>1, <2>t, ExecuteIsALifeStep
      DEF StartPipeline, IInv, ServiceInv
    <3>2. CASE ~StartPipeline
      <4>1. UNCHANGED instances
        BY <2>1, <3>2 DEF ServiceStep, Query, NextRecord, EndOfRecords,
           CreatePipeline, CreatePipelineFails, AddPipeline, AddMonitor
      <4>2. QED
        BY <4>1, OthersLiveOn
    <3>3. QED
      BY <3>1, <3>2
  <2>2. ASSUME NEW r \in Requests, Receive(r) \/ RequestStep(r)
        PROVE  LifeStep(j)
    <3>1. CASE RunFound(r)
      BY <1>1, <3>1, <2>t, ExecuteIsALifeStep DEF RunFound, IInv, RequestInv
    <3>2. CASE StopFound(r)
      BY <1>1, <3>2, <2>t, DisposeIsALifeStep DEF StopFound, IInv, RequestInv
    <3>3. CASE ~RunFound(r) /\ ~StopFound(r)
      <4>1. UNCHANGED instances
        BY <2>2, <3>3 DEF RequestStep, Receive, PostRecord, PostHandlers,
           TryGetValue, DeleteRecord, RemovePipeline
      <4>2. QED
        BY <4>1, OthersLiveOn
    <3>4. QED
      BY <3>1, <3>2, <3>3
  <2>3. CASE HostStop
    BY <2>3, <2>t, StopIsALifeStep
  <2>4. CASE HostDisposeNext
    <3>1. PICK u \in Uuids : /\ pipelines[u] # 0
                             /\ Dispose(<<u, pipelines[u]>>)
      BY <2>4 DEF HostDisposeNext
    <3>2. <<u, pipelines[u]>> \in Instances
      BY <1>1, <3>1, Bounds, TypeOKParts DEF IInv, StoresOK, Instances
    <3>3. QED
      BY <2>t, <3>1, <3>2, DisposeIsALifeStep
  <2>5. CASE HostDispose \/ HostClearMonitor \/ HostClearPipelines
    BY <2>5, OthersLiveOn DEF HostDispose, HostClearMonitor, HostClearPipelines
  <2>6. ASSUME NEW i \in Instances, InstanceStep(i)
        PROVE  LifeStep(j)
    BY <2>6, <2>t, DisposeIsALifeStep, ReleaseIsALifeStep, EndIsALifeStep,
       DrainIsALifeStep
    DEF InstanceStep, TaskCancels, Dispose
  <2>7. QED
    BY <1>1, <2>1, <2>2, <2>3, <2>4, <2>5, <2>6 DEF Next, HostStep
<1>2. IInv /\ [Next]_vars =>
        [\A i \in Instances : UNCHANGED Life(i)!lifeVars \/ Life(i)!Next]_vars
  BY <1>1 DEF LifeStep
<1>3. QED
  BY <1>2, Invariance, PTL DEF Spec, EveryInstanceIsAPipeline

=============================================================================
