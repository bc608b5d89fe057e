---------------------------- MODULE PipelineProofs ----------------------------
(***************************************************************************)
(* Proofs about Pipeline, for every set of callers and any number of       *)
(* executions: its transitions exclude each other, its monitor tells the   *)
(* truth to those who hold the pipeline, and it implements PipelineLife.   *)
(***************************************************************************)
EXTENDS Pipeline, TLAPS

(* The locations of the threads, as a part of TypeOK.                      *)
LocationsOK ==
    /\ pc \in [Threads -> Locations]
    /\ \A c \in Callers : pc[c] \in CallerLocations
    /\ \A k \in Tasks : pc[k] \in TaskLocations

(* A thread that moves to a location of its kind keeps LocationsOK.        *)
LEMMA CallerMoves ==
    ASSUME LocationsOK, NEW c \in Callers, NEW l \in CallerLocations, Goto(c, l)
    PROVE  LocationsOK'
  BY ThreadAssumption DEF LocationsOK, Goto, Threads, Locations

LEMMA TaskMoves ==
    ASSUME LocationsOK, NEW k \in Tasks, NEW l \in TaskLocations, Goto(k, l)
    PROVE  LocationsOK'
  BY ThreadAssumption DEF LocationsOK, Goto, Threads, Locations

(* Both kinds of threads may be anywhere in Dispose.                       *)
LEMMA DisposeMoves ==
    ASSUME LocationsOK, NEW t \in Threads, NEW l \in Disposing, Goto(t, l)
    PROVE  LocationsOK'
<1>1. l \in CallerLocations /\ l \in TaskLocations
  BY DEF CallerLocations, TaskLocations
<1>2. QED
  BY <1>1, CallerMoves, TaskMoves DEF Threads

(* A thread that leaves Dispose returns to its caller, or ends.            *)
LEMMA LeaveMoves ==
    ASSUME LocationsOK, NEW t \in Threads, Leave(t)
    PROVE  LocationsOK'
<1>1. CASE t \in Callers
  BY <1>1, CallerMoves DEF Leave, CallerLocations
<1>2. CASE t \notin Callers
  BY <1>2, TaskMoves DEF Leave, TaskLocations, Threads
<1>3. QED
  BY <1>1, <1>2

(* The initial state satisfies the inductive invariant.                    *)
LEMMA InitImpliesIInv == Init => IInv
<1> SUFFICES ASSUME Init PROVE IInv
  OBVIOUS
<1> USE PipelineAssumption, ThreadAssumption DEF Init, Threads
<1>1. \A t \in Threads : pc[t] \in {"free", "none"}
  OBVIOUS
<1>2. LocationsOK
  <2>1. \A c \in Callers : pc[c] = "free"
    OBVIOUS
  <2>2. \A k \in Tasks : pc[k] = "none"
    OBVIOUS
  <2>3. "free" \in CallerLocations /\ "none" \in TaskLocations
    BY DEF CallerLocations, TaskLocations
  <2>4. QED
    BY <2>1, <2>2, <2>3 DEF LocationsOK, Locations
<1>3. TypeOK
  <2>1. awaits \in [Tasks -> 0..MaxStarts]
    OBVIOUS
  <2>2. 0 \in 0..MaxStarts
    OBVIOUS
  <2>3. stopped \in BOOLEAN
    BY Zenon
  <2>4. QED
    BY <1>2, <2>1, <2>2, <2>3 DEF TypeOK, LocationsOK
<1>4. TransitionsAreExclusive
  BY <1>1 DEF TransitionsAreExclusive, InTransition, At, Disposing
<1>5. TokenInv
  BY <1>1 DEF TokenInv, At, Tasks
<1>6. QED
  BY <1>3, <1>4, <1>5 DEF IInv

(* Every action of a caller, of a task and of Dispose preserves it.        *)
LEMMA NextPreservesIInv == IInv /\ [Next]_vars => IInv'
<1> SUFFICES ASSUME IInv, [Next]_vars PROVE IInv'
  OBVIOUS
<1> USE PipelineAssumption, ThreadAssumption DEF IInv
<1>0. LocationsOK
  BY DEF TypeOK, LocationsOK
<1>1. ASSUME NEW c \in Callers, ExecuteAsync(c) PROVE IInv'
  <2>1. started' \in Tasks /\ started' = started + 1
    BY <1>1 DEF ExecuteAsync, TypeOK, Tasks
  <2>2. LocationsOK'
    <3>1. "x.working" \in CallerLocations /\ "top" \in TaskLocations
      BY DEF CallerLocations, TaskLocations
    <3>2. QED
      BY <1>0, <1>1, <2>1, <3>1
         DEF ExecuteAsync, LocationsOK, Threads, Locations
  <2>3. TypeOK'
    <3>1. started' \in 0..MaxStarts
      BY <2>1 DEF Tasks
    <3>2. cancelled' \subseteq Tasks
      BY <1>1, <2>1 DEF ExecuteAsync, TypeOK
    <3>3. stopped' \in BOOLEAN
      BY <1>1 DEF ExecuteAsync, TypeOK
    <3>4. QED
      BY <1>1, <2>2, <3>1, <3>2, <3>3 DEF ExecuteAsync, TypeOK, LocationsOK
  <2>4. TransitionsAreExclusive'
    BY <1>0, <1>1 DEF ExecuteAsync, LocationsOK, Threads,
       TransitionsAreExclusive, InTransition, Disposing, At, Goto, TokenInv, Tasks
  <2>5. TokenInv'
    <3>0. started \in Nat /\ started' > started /\ started' > 0
      BY <2>1 DEF TypeOK, Tasks
    <3>1. token' = started' /\ cts' = started'
      BY <1>1 DEF ExecuteAsync
    <3>5. cancelled' \subseteq 1..started'
      BY <1>1, <2>1, <3>0 DEF ExecuteAsync, TokenInv, Tasks
    <3>6. \A k \in Tasks : k > started' => pc'[k] = "none"
      <4>1. ASSUME NEW k \in Tasks, k > started' PROVE pc'[k] = "none"
        <5>1. k # started' /\ k > started /\ k \notin Callers
          BY <4>1, <2>1, <3>0 DEF Tasks
        <5>2. pc[k] = "none"
          BY <5>1 DEF TokenInv, At
        <5>3. QED
          BY <1>0, <1>1, <5>1, <5>2 DEF ExecuteAsync, LocationsOK, Threads
      <4>2. QED
        BY <4>1
    <3>2. \A t \in Threads : pc[t] \notin Disposing
      BY <1>1 DEF ExecuteAsync, TransitionsAreExclusive
    <3>3. \A t \in Threads : pc'[t] \notin {"d.cancel", "d.clear"}
      BY <1>0, <1>1, <3>2 DEF ExecuteAsync, LocationsOK, Disposing
    <3>4. QED
      BY <3>0, <3>1, <3>3, <3>5, <3>6 DEF TokenInv, At
  <2>6. QED BY <2>3, <2>4, <2>5
<1>2. ASSUME NEW c \in Callers, SetWorkingState(c) PROVE IInv'
  <2>1. Goto(c, "free")
    BY <1>2 DEF SetWorkingState
  <2>2. LocationsOK'
    BY <1>0, <2>1, CallerMoves DEF CallerLocations
  <2>3. TypeOK'
    BY <1>2, <2>2 DEF SetWorkingState, TypeOK, LocationsOK, Tasks
  <2>4. TransitionsAreExclusive'
    BY <1>0, <1>2 DEF SetWorkingState, LocationsOK, Threads,
       TransitionsAreExclusive, InTransition, Disposing, At, Goto, TokenInv, Tasks
  <2>5. TokenInv'
    BY <1>0, <1>2 DEF SetWorkingState, TypeOK, LocationsOK, Threads,
       TransitionsAreExclusive, InTransition, Disposing, At, Goto, TokenInv, Tasks
  <2>6. QED BY <2>3, <2>4, <2>5
<1>3. ASSUME NEW c \in Callers, CallDispose(c) PROVE IInv'
  <2>1. Goto(c, "d.enter")
    BY <1>3 DEF CallDispose
  <2>2. LocationsOK'
    BY <1>0, <2>1, CallerMoves DEF CallerLocations
  <2>3. TypeOK'
    BY <1>3, <2>2 DEF CallDispose, TypeOK, LocationsOK, Tasks
  <2>4. TransitionsAreExclusive'
    BY <1>0, <1>3 DEF CallDispose, LocationsOK, Threads,
       TransitionsAreExclusive, InTransition, Disposing, At, Goto, TokenInv, Tasks
  <2>5. TokenInv'
    BY <1>0, <1>3 DEF CallDispose, TypeOK, LocationsOK, Threads,
       TransitionsAreExclusive, InTransition, Disposing, At, Goto, TokenInv, Tasks
  <2>6. QED BY <2>3, <2>4, <2>5
<1>4. ASSUME NEW k \in Tasks, Top(k) PROVE IInv'
  <2>1. Goto(k, "d.enter") \/ Goto(k, "work")
    BY <1>4 DEF Top, IsCancellationRequested
  <2>2. LocationsOK'
    BY <1>0, <2>1, TaskMoves DEF TaskLocations
  <2>3. TypeOK'
    BY <1>4, <2>2 DEF Top, IsCancellationRequested, TypeOK, LocationsOK, Tasks
  <2>4. TransitionsAreExclusive'
    BY <1>0, <1>4 DEF Top, IsCancellationRequested, LocationsOK, Threads,
       TransitionsAreExclusive, InTransition, Disposing, At, Goto, TokenInv, Tasks
  <2>5. TokenInv'
    BY <1>0, <1>4 DEF Top, IsCancellationRequested, TypeOK, LocationsOK, Threads,
       TransitionsAreExclusive, InTransition, Disposing, At, Goto, TokenInv, Tasks
  <2>6. QED BY <2>3, <2>4, <2>5
<1>5. ASSUME NEW k \in Tasks, Work(k) PROVE IInv'
  <2>1. Goto(k, "execute")
    BY <1>5 DEF Work
  <2>2. LocationsOK'
    BY <1>0, <2>1, TaskMoves DEF TaskLocations
  <2>3. TypeOK'
    BY <1>5, <2>2 DEF Work, TypeOK, LocationsOK, Tasks
  <2>4. TransitionsAreExclusive'
    BY <1>0, <1>5 DEF Work, LocationsOK, Threads,
       TransitionsAreExclusive, InTransition, Disposing, At, Goto, TokenInv, Tasks
  <2>5. TokenInv'
    BY <1>0, <1>5 DEF Work, TypeOK, LocationsOK, Threads,
       TransitionsAreExclusive, InTransition, Disposing, At, Goto, TokenInv, Tasks
  <2>6. QED BY <2>3, <2>4, <2>5
<1>6. ASSUME NEW k \in Tasks, HandlerExecute(k) PROVE IInv'
  <2>1. Goto(k, "consume") \/ Goto(k, "finish")
    BY <1>6 DEF HandlerExecute
  <2>2. LocationsOK'
    BY <1>0, <2>1, TaskMoves DEF TaskLocations
  <2>3. TypeOK'
    BY <1>6, <2>2 DEF HandlerExecute, TypeOK, LocationsOK, Tasks
  <2>4. TransitionsAreExclusive'
    BY <1>0, <1>6 DEF HandlerExecute, LocationsOK, Threads,
       TransitionsAreExclusive, InTransition, Disposing, At, Goto, TokenInv, Tasks
  <2>5. TokenInv'
    BY <1>0, <1>6 DEF HandlerExecute, TypeOK, LocationsOK, Threads,
       TransitionsAreExclusive, InTransition, Disposing, At, Goto, TokenInv, Tasks
  <2>6. QED BY <2>3, <2>4, <2>5
<1>7. ASSUME NEW k \in Tasks, Consume(k) PROVE IInv'
  <2>1. Goto(k, "leave") \/ UNCHANGED pc
    BY <1>7 DEF Consume
  <2>2. LocationsOK'
    BY <1>0, <2>1, TaskMoves DEF LocationsOK, TaskLocations
  <2>3. TypeOK'
    BY <1>7, <2>2 DEF Consume, TypeOK, LocationsOK, Tasks
  <2>4. TransitionsAreExclusive'
    BY <1>0, <1>7 DEF Consume, LocationsOK, Threads,
       TransitionsAreExclusive, InTransition, Disposing, At, Goto, TokenInv, Tasks
  <2>5. TokenInv'
    BY <1>0, <1>7 DEF Consume, TypeOK, LocationsOK, Threads,
       TransitionsAreExclusive, InTransition, Disposing, At, Goto, TokenInv, Tasks
  <2>6. QED BY <2>3, <2>4, <2>5
<1>8. ASSUME NEW k \in Tasks, HandlerLeave(k) PROVE IInv'
  <2>1. Goto(k, "left") \/ Goto(k, "finish")
    BY <1>8 DEF HandlerLeave
  <2>2. LocationsOK'
    BY <1>0, <2>1, TaskMoves DEF TaskLocations
  <2>3. TypeOK'
    BY <1>8, <2>2 DEF HandlerLeave, TypeOK, LocationsOK, Tasks
  <2>4. TransitionsAreExclusive'
    BY <1>0, <1>8 DEF HandlerLeave, LocationsOK, Threads,
       TransitionsAreExclusive, InTransition, Disposing, At, Goto, TokenInv, Tasks
  <2>5. TokenInv'
    BY <1>0, <1>8 DEF HandlerLeave, TypeOK, LocationsOK, Threads,
       TransitionsAreExclusive, InTransition, Disposing, At, Goto, TokenInv, Tasks
  <2>6. QED BY <2>3, <2>4, <2>5
<1>9. ASSUME NEW k \in Tasks, HandlerLeft(k) PROVE IInv'
  <2>1. Goto(k, "finish")
    BY <1>9 DEF HandlerLeft
  <2>2. LocationsOK'
    BY <1>0, <2>1, TaskMoves DEF TaskLocations
  <2>3. TypeOK'
    BY <1>9, <2>2 DEF HandlerLeft, TypeOK, LocationsOK, Tasks
  <2>4. TransitionsAreExclusive'
    BY <1>0, <1>9 DEF HandlerLeft, LocationsOK, Threads,
       TransitionsAreExclusive, InTransition, Disposing, At, Goto, TokenInv, Tasks
  <2>5. TokenInv'
    BY <1>0, <1>9 DEF HandlerLeft, TypeOK, LocationsOK, Threads,
       TransitionsAreExclusive, InTransition, Disposing, At, Goto, TokenInv, Tasks
  <2>6. QED BY <2>3, <2>4, <2>5
<1>10. ASSUME NEW k \in Tasks, Finish(k) PROVE IInv'
  <2>1. Goto(k, "d.enter") \/ Goto(k, "sleep")
    BY <1>10 DEF Finish, IsCancellationRequested
  <2>2. LocationsOK'
    BY <1>0, <2>1, TaskMoves DEF TaskLocations
  <2>3. TypeOK'
    BY <1>10, <2>2 DEF Finish, IsCancellationRequested, TypeOK, LocationsOK, Tasks
  <2>4. TransitionsAreExclusive'
    BY <1>0, <1>10 DEF Finish, IsCancellationRequested, LocationsOK, Threads,
       TransitionsAreExclusive, InTransition, Disposing, At, Goto, TokenInv, Tasks
  <2>5. TokenInv'
    BY <1>0, <1>10 DEF Finish, IsCancellationRequested, TypeOK, LocationsOK, Threads,
       TransitionsAreExclusive, InTransition, Disposing, At, Goto, TokenInv, Tasks
  <2>6. QED BY <2>3, <2>4, <2>5
<1>11. ASSUME NEW k \in Tasks, Sleep(k) PROVE IInv'
  <2>1. Goto(k, "delay")
    BY <1>11 DEF Sleep
  <2>2. LocationsOK'
    BY <1>0, <2>1, TaskMoves DEF TaskLocations
  <2>3. TypeOK'
    BY <1>11, <2>2 DEF Sleep, TypeOK, LocationsOK, Tasks
  <2>4. TransitionsAreExclusive'
    BY <1>0, <1>11 DEF Sleep, LocationsOK, Threads,
       TransitionsAreExclusive, InTransition, Disposing, At, Goto, TokenInv, Tasks
  <2>5. TokenInv'
    BY <1>0, <1>11 DEF Sleep, TypeOK, LocationsOK, Threads,
       TransitionsAreExclusive, InTransition, Disposing, At, Goto, TokenInv, Tasks
  <2>6. QED BY <2>3, <2>4, <2>5
<1>12. ASSUME NEW k \in Tasks, Delay(k) PROVE IInv'
  <2>1. Goto(k, "top") \/ Goto(k, "d.enter")
    BY <1>12 DEF Delay
  <2>2. LocationsOK'
    BY <1>0, <2>1, TaskMoves DEF TaskLocations
  <2>3. TypeOK'
    BY <1>12, <2>2 DEF Delay, TypeOK, LocationsOK, Tasks
  <2>4. TransitionsAreExclusive'
    BY <1>0, <1>12 DEF Delay, LocationsOK, Threads,
       TransitionsAreExclusive, InTransition, Disposing, At, Goto, TokenInv, Tasks
  <2>5. TokenInv'
    BY <1>0, <1>12 DEF Delay, TypeOK, LocationsOK, Threads,
       TransitionsAreExclusive, InTransition, Disposing, At, Goto, TokenInv, Tasks
  <2>6. QED BY <2>3, <2>4, <2>5
<1>13. ASSUME NEW t \in Threads, DisposeEnter(t) PROVE IInv'
  <2>1. Leave(t) \/ Goto(t, "d.cancel")
    BY <1>13 DEF DisposeEnter
  <2>2. LocationsOK'
    BY <1>0, <2>1, LeaveMoves, DisposeMoves DEF Disposing
  <2>3. TypeOK'
    BY <1>13, <2>2 DEF DisposeEnter, TypeOK, LocationsOK, Tasks
  <2>4. TransitionsAreExclusive'
    BY <1>0, <1>13 DEF DisposeEnter, Leave, LocationsOK, Threads,
       TransitionsAreExclusive, InTransition, Disposing, At, Goto, TokenInv, Tasks
  <2>5. TokenInv'
    BY <1>0, <1>13 DEF DisposeEnter, Leave, TypeOK, LocationsOK, Threads,
       TransitionsAreExclusive, InTransition, Disposing, At, Goto, TokenInv, Tasks
  <2>6. QED BY <2>3, <2>4, <2>5
<1>14. ASSUME NEW t \in Threads, DisposeCancel(t) PROVE IInv'
  <2>1. Goto(t, "d.clear")
    BY <1>14 DEF DisposeCancel
  <2>2. LocationsOK'
    BY <1>0, <2>1, DisposeMoves DEF Disposing
  <2>3. TypeOK'
    <3>1. cts \in Tasks
      BY <1>14 DEF DisposeCancel, TypeOK, TokenInv, Tasks
    <3>2. QED
      BY <1>14, <2>2, <3>1 DEF DisposeCancel, TypeOK, LocationsOK
  <2>4. TransitionsAreExclusive'
    BY <1>0, <1>14 DEF DisposeCancel, LocationsOK, Threads,
       TransitionsAreExclusive, InTransition, Disposing, At, Goto, TokenInv, Tasks
  <2>5. TokenInv'
    BY <1>0, <1>14 DEF DisposeCancel, TypeOK, LocationsOK, Threads,
       TransitionsAreExclusive, InTransition, Disposing, At, Goto, TokenInv, Tasks
  <2>6. QED BY <2>3, <2>4, <2>5
<1>15. ASSUME NEW t \in Threads, DisposeClear(t) PROVE IInv'
  <2>1. Goto(t, "d.handler")
    BY <1>15 DEF DisposeClear
  <2>2. LocationsOK'
    BY <1>0, <2>1, DisposeMoves DEF Disposing
  <2>3. TypeOK'
    BY <1>15, <2>2 DEF DisposeClear, TypeOK, LocationsOK, Tasks
  <2>4. TransitionsAreExclusive'
    BY <1>0, <1>15 DEF DisposeClear, LocationsOK, Threads,
       TransitionsAreExclusive, InTransition, Disposing, At, Goto, TokenInv, Tasks
  <2>5. TokenInv'
    BY <1>0, <1>15 DEF DisposeClear, TypeOK, LocationsOK, Threads,
       TransitionsAreExclusive, InTransition, Disposing, At, Goto, TokenInv, Tasks
  <2>6. QED BY <2>3, <2>4, <2>5
<1>16. ASSUME NEW t \in Threads, DisposeHandler(t) PROVE IInv'
  <2>1. Goto(t, "d.released") \/ Goto(t, "d.monitor")
    BY <1>16 DEF DisposeHandler
  <2>2. LocationsOK'
    BY <1>0, <2>1, DisposeMoves DEF Disposing
  <2>3. TypeOK'
    BY <1>16, <2>2 DEF DisposeHandler, TypeOK, LocationsOK, Tasks
  <2>4. TransitionsAreExclusive'
    BY <1>0, <1>16 DEF DisposeHandler, LocationsOK, Threads,
       TransitionsAreExclusive, InTransition, Disposing, At, Goto, TokenInv, Tasks
  <2>5. TokenInv'
    BY <1>0, <1>16 DEF DisposeHandler, TypeOK, LocationsOK, Threads,
       TransitionsAreExclusive, InTransition, Disposing, At, Goto, TokenInv, Tasks
  <2>6. QED BY <2>3, <2>4, <2>5
<1>17. ASSUME NEW t \in Threads, DisposeReleased(t) PROVE IInv'
  <2>1. Goto(t, "d.monitor")
    BY <1>17 DEF DisposeReleased
  <2>2. LocationsOK'
    BY <1>0, <2>1, DisposeMoves DEF Disposing
  <2>3. TypeOK'
    BY <1>17, <2>2 DEF DisposeReleased, TypeOK, LocationsOK, Tasks
  <2>4. TransitionsAreExclusive'
    BY <1>0, <1>17 DEF DisposeReleased, LocationsOK, Threads,
       TransitionsAreExclusive, InTransition, Disposing, At, Goto, TokenInv, Tasks
  <2>5. TokenInv'
    BY <1>0, <1>17 DEF DisposeReleased, TypeOK, LocationsOK, Threads,
       TransitionsAreExclusive, InTransition, Disposing, At, Goto, TokenInv, Tasks
  <2>6. QED BY <2>3, <2>4, <2>5
<1>18. ASSUME NEW t \in Threads, DisposeMonitor(t) PROVE IInv'
  <2>1. Goto(t, "d.idle")
    BY <1>18 DEF DisposeMonitor
  <2>2. LocationsOK'
    BY <1>0, <2>1, DisposeMoves DEF Disposing
  <2>3. TypeOK'
    BY <1>18, <2>2 DEF DisposeMonitor, TypeOK, LocationsOK, Tasks
  <2>4. TransitionsAreExclusive'
    BY <1>0, <1>18 DEF DisposeMonitor, LocationsOK, Threads,
       TransitionsAreExclusive, InTransition, Disposing, At, Goto, TokenInv, Tasks
  <2>5. TokenInv'
    BY <1>0, <1>18 DEF DisposeMonitor, TypeOK, LocationsOK, Threads,
       TransitionsAreExclusive, InTransition, Disposing, At, Goto, TokenInv, Tasks
  <2>6. QED BY <2>3, <2>4, <2>5
<1>19. ASSUME NEW t \in Threads, SetIdleState(t) PROVE IInv'
  <2>1. Leave(t)
    BY <1>19 DEF SetIdleState
  <2>2. LocationsOK'
    BY <1>0, <2>1, LeaveMoves
  <2>3. TypeOK'
    BY <1>19, <2>2 DEF SetIdleState, TypeOK, LocationsOK, Tasks
  <2>4. TransitionsAreExclusive'
    BY <1>0, <1>19 DEF SetIdleState, Leave, LocationsOK, Threads,
       TransitionsAreExclusive, InTransition, Disposing, At, Goto, TokenInv, Tasks
  <2>5. TokenInv'
    BY <1>0, <1>19 DEF SetIdleState, Leave, TypeOK, LocationsOK, Threads,
       TransitionsAreExclusive, InTransition, Disposing, At, Goto, TokenInv, Tasks
  <2>6. QED BY <2>3, <2>4, <2>5
<1>20. CASE HostStop
  BY <1>20 DEF HostStop, TypeOK, TransitionsAreExclusive, InTransition, TokenInv,
     At, Tasks
<1>21. CASE UNCHANGED vars
  BY <1>21 DEF vars, TypeOK, TransitionsAreExclusive, InTransition, TokenInv, At
<1>22. QED
  BY <1>1, <1>2, <1>3, <1>4, <1>5, <1>6, <1>7, <1>8, <1>9, <1>10, <1>11, <1>12,
     <1>13, <1>14, <1>15, <1>16, <1>17, <1>18, <1>19, <1>20, <1>21
     DEF Next, CallerStep, TaskStep, DisposeStep

(* The inductive invariant holds in every behaviour.                       *)
THEOREM Invariance == Spec => []IInv
<1>1. Init => IInv
  BY InitImpliesIInv
<1>2. IInv /\ [Next]_vars => IInv'
  BY NextPreservesIInv
<1>3. QED
  BY <1>1, <1>2, PTL DEF Spec

(* The variables keep their types.                                         *)
THEOREM TypeCorrect == Spec => []TypeOK
<1>1. IInv => TypeOK
  BY DEF IInv
<1>2. QED
  BY <1>1, Invariance, PTL

(* One thread at a time starts or disposes a pipeline, whatever the number *)
(* of requests: the compare-and-swap of CanExecute and CanDispose excludes *)
(* all the others until the state is set to working or to idle.            *)
THEOREM OneTransitionAtATime == Spec => []TransitionsAreExclusive
<1>1. IInv => TransitionsAreExclusive
  BY DEF IInv
<1>2. QED
  BY <1>1, Invariance, PTL

(* Pipeline.Dispose always has a token source to cancel, the one of the    *)
(* latest execution.                                                       *)
THEOREM DisposeFindsTheToken == Spec => []DisposeCancelsTheCurrentToken
<1>1. IInv => DisposeCancelsTheCurrentToken
  BY PipelineAssumption
     DEF IInv, TypeOK, TokenInv, DisposeCancelsTheCurrentToken
<1>2. QED
  BY <1>1, Invariance, PTL

-----------------------------------------------------------------------------
(* Without a Dispose from outside, a task is alone.                        *)
LEMMA InitImpliesOneTaskInv == Init => OneTaskInv
<1> SUFFICES ASSUME Init PROVE OneTaskInv
  OBVIOUS
<1> USE PipelineAssumption, ThreadAssumption DEF Init, Threads
<1>1. \A c \in Callers : pc[c] = "free"
  OBVIOUS
<1>2. \A k \in Tasks : pc[k] = "none" /\ k > started
  BY DEF Tasks
<1>3. \A k \in Tasks : ~(k < started) /\ ~(k <= started)
  BY DEF Tasks
<1>4. QED
  BY <1>1, <1>2, <1>3, Zenon DEF OneTaskInv, At

LEMMA NextPreservesOneTaskInv ==
    ASSUME "dispose" \notin Operations, IInv, OneTaskInv, [Next]_vars
    PROVE  OneTaskInv'
<1> USE PipelineAssumption, ThreadAssumption DEF Threads
<1>0. LocationsOK /\ started \in Nat
  BY DEF IInv, TypeOK, LocationsOK
(* The only task that can move is the latest one.                          *)
<1>a. ASSUME NEW k \in Tasks, pc[k] \notin {"none", "ended"}
      PROVE  k = started /\ state # "idle" /\ k \notin Callers
  BY <1>0, <1>a DEF IInv, OneTaskInv, TokenInv, At, Tasks
<1>1. ASSUME NEW c \in Callers, ExecuteAsync(c) PROVE OneTaskInv'
  <2>1. started' = started + 1 /\ started' \in Tasks /\ started' \notin Callers
    BY <1>0, <1>1 DEF ExecuteAsync, Tasks
  <2>2. \A k \in Tasks : pc[k] \in {"none", "ended"}
    BY <1>1 DEF ExecuteAsync, OneTaskInv
  <2>3. \A k \in Tasks : k < started' => At(k, "ended")' /\ ~At(k, "none")'
    <3>1. ASSUME NEW k \in Tasks, k < started' PROVE pc[k] = "ended"
      BY <1>0, <2>1, <2>2, <3>1 DEF OneTaskInv, At, Tasks
    <3>2. QED
      BY <1>0, <1>1, <2>1, <3>1 DEF ExecuteAsync, LocationsOK, At, Tasks
  <2>4. \A k \in Tasks : k = started' => pc'[k] = "top"
    BY <1>0, <1>1, <2>1 DEF ExecuteAsync, LocationsOK
  <2>5. \A d \in Callers : pc'[d] \in {"free", "x.working"}
    BY <1>0, <1>1, <2>1 DEF ExecuteAsync, LocationsOK, OneTaskInv
  <2>6. state' # "idle"
    BY <1>1 DEF ExecuteAsync
  <2>7. \A k \in Tasks : k <= started' => ~At(k, "none")'
    <3>1. \A k \in Tasks : k <= started' => k < started' \/ k = started'
      BY <1>0, <2>1 DEF Tasks
    <3>2. QED
      BY <2>3, <2>4, <3>1 DEF At
  <2>8. QED
    BY <2>3, <2>5, <2>6, <2>7 DEF OneTaskInv
<1>2. ASSUME NEW c \in Callers, SetWorkingState(c) PROVE OneTaskInv'
  BY <1>0, <1>2 DEF SetWorkingState, LocationsOK, OneTaskInv, At, Goto
<1>3. ASSUME NEW c \in Callers, CallDispose(c) PROVE OneTaskInv'
  BY <1>3 DEF CallDispose
<1>4. ASSUME NEW k \in Tasks, Top(k) PROVE OneTaskInv'
  <2>1. k = started /\ state # "idle" /\ k \notin Callers
    BY <1>a, <1>4 DEF Top, At
  <2>2. QED
    BY <1>0, <1>4, <2>1 DEF Top, IsCancellationRequested, LocationsOK, OneTaskInv, At, Goto, Tasks
<1>5. ASSUME NEW k \in Tasks, Work(k) PROVE OneTaskInv'
  <2>1. k = started /\ state # "idle" /\ k \notin Callers
    BY <1>a, <1>5 DEF Work, At
  <2>2. QED
    BY <1>0, <1>5, <2>1 DEF Work, LocationsOK, OneTaskInv, At, Goto, Tasks
<1>6. ASSUME NEW k \in Tasks, HandlerExecute(k) PROVE OneTaskInv'
  <2>1. k = started /\ state # "idle" /\ k \notin Callers
    BY <1>a, <1>6 DEF HandlerExecute, At
  <2>2. QED
    BY <1>0, <1>6, <2>1 DEF HandlerExecute, LocationsOK, OneTaskInv, At, Goto, Tasks
<1>7. ASSUME NEW k \in Tasks, Consume(k) PROVE OneTaskInv'
  <2>1. k = started /\ state # "idle" /\ k \notin Callers
    BY <1>a, <1>7 DEF Consume, At
  <2>2. QED
    BY <1>0, <1>7, <2>1 DEF Consume, LocationsOK, OneTaskInv, At, Goto, Tasks
<1>8. ASSUME NEW k \in Tasks, HandlerLeave(k) PROVE OneTaskInv'
  <2>1. k = started /\ state # "idle" /\ k \notin Callers
    BY <1>a, <1>8 DEF HandlerLeave, At
  <2>2. QED
    BY <1>0, <1>8, <2>1 DEF HandlerLeave, LocationsOK, OneTaskInv, At, Goto, Tasks
<1>9. ASSUME NEW k \in Tasks, HandlerLeft(k) PROVE OneTaskInv'
  <2>1. k = started /\ state # "idle" /\ k \notin Callers
    BY <1>a, <1>9 DEF HandlerLeft, At
  <2>2. QED
    BY <1>0, <1>9, <2>1 DEF HandlerLeft, LocationsOK, OneTaskInv, At, Goto, Tasks
<1>10. ASSUME NEW k \in Tasks, Finish(k) PROVE OneTaskInv'
  <2>1. k = started /\ state # "idle" /\ k \notin Callers
    BY <1>a, <1>10 DEF Finish, At
  <2>2. QED
    BY <1>0, <1>10, <2>1 DEF Finish, IsCancellationRequested, LocationsOK, OneTaskInv, At, Goto, Tasks
<1>11. ASSUME NEW k \in Tasks, Sleep(k) PROVE OneTaskInv'
  <2>1. k = started /\ state # "idle" /\ k \notin Callers
    BY <1>a, <1>11 DEF Sleep, At
  <2>2. QED
    BY <1>0, <1>11, <2>1 DEF Sleep, LocationsOK, OneTaskInv, At, Goto, Tasks
<1>12. ASSUME NEW k \in Tasks, Delay(k) PROVE OneTaskInv'
  <2>1. k = started /\ state # "idle" /\ k \notin Callers
    BY <1>a, <1>12 DEF Delay, At
  <2>2. QED
    BY <1>0, <1>12, <2>1 DEF Delay, LocationsOK, OneTaskInv, At, Goto, Tasks
<1>13. ASSUME NEW t \in Threads, DisposeEnter(t) PROVE OneTaskInv'
  <2>1. t \in Tasks
    BY <1>13 DEF DisposeEnter, OneTaskInv, At
  <2>2. t = started /\ state # "idle" /\ t \notin Callers
    BY <1>a, <1>13, <2>1 DEF DisposeEnter, At
  <2>3. QED
    BY <1>0, <1>13, <2>1, <2>2 DEF DisposeEnter, Leave, LocationsOK, OneTaskInv, At, Goto, Tasks
<1>14. ASSUME NEW t \in Threads, DisposeCancel(t) PROVE OneTaskInv'
  <2>1. t \in Tasks
    BY <1>14 DEF DisposeCancel, OneTaskInv, At
  <2>2. t = started /\ state # "idle" /\ t \notin Callers
    BY <1>a, <1>14, <2>1 DEF DisposeCancel, At
  <2>3. QED
    BY <1>0, <1>14, <2>1, <2>2 DEF DisposeCancel, LocationsOK, OneTaskInv, At, Goto, Tasks
<1>15. ASSUME NEW t \in Threads, DisposeClear(t) PROVE OneTaskInv'
  <2>1. t \in Tasks
    BY <1>15 DEF DisposeClear, OneTaskInv, At
  <2>2. t = started /\ state # "idle" /\ t \notin Callers
    BY <1>a, <1>15, <2>1 DEF DisposeClear, At
  <2>3. QED
    BY <1>0, <1>15, <2>1, <2>2 DEF DisposeClear, LocationsOK, OneTaskInv, At, Goto, Tasks
<1>16. ASSUME NEW t \in Threads, DisposeHandler(t) PROVE OneTaskInv'
  <2>1. t \in Tasks
    BY <1>16 DEF DisposeHandler, OneTaskInv, At
  <2>2. t = started /\ state # "idle" /\ t \notin Callers
    BY <1>a, <1>16, <2>1 DEF DisposeHandler, At
  <2>3. QED
    BY <1>0, <1>16, <2>1, <2>2 DEF DisposeHandler, LocationsOK, OneTaskInv, At, Goto, Tasks
<1>17. ASSUME NEW t \in Threads, DisposeReleased(t) PROVE OneTaskInv'
  <2>1. t \in Tasks
    BY <1>17 DEF DisposeReleased, OneTaskInv, At
  <2>2. t = started /\ state # "idle" /\ t \notin Callers
    BY <1>a, <1>17, <2>1 DEF DisposeReleased, At
  <2>3. QED
    BY <1>0, <1>17, <2>1, <2>2 DEF DisposeReleased, LocationsOK, OneTaskInv, At, Goto, Tasks
<1>18. ASSUME NEW t \in Threads, DisposeMonitor(t) PROVE OneTaskInv'
  <2>1. t \in Tasks
    BY <1>18 DEF DisposeMonitor, OneTaskInv, At
  <2>2. t = started /\ state # "idle" /\ t \notin Callers
    BY <1>a, <1>18, <2>1 DEF DisposeMonitor, At
  <2>3. QED
    BY <1>0, <1>18, <2>1, <2>2 DEF DisposeMonitor, LocationsOK, OneTaskInv, At, Goto, Tasks
<1>19. ASSUME NEW t \in Threads, SetIdleState(t) PROVE OneTaskInv'
  <2>1. t \in Tasks
    BY <1>19 DEF SetIdleState, OneTaskInv, At
  <2>2. t = started /\ state # "idle" /\ t \notin Callers
    BY <1>a, <1>19, <2>1 DEF SetIdleState, At
  <2>3. QED
    <3>1. pc' = [pc EXCEPT ![t] = "ended"] /\ started' = started
      BY <1>19, <2>2 DEF SetIdleState, Leave, Goto
    <3>2. \A k \in Tasks : k # t => pc[k] \in {"none", "ended"}
      BY <1>a, <2>2
    <3>3. \A k \in Tasks : pc'[k] \in {"none", "ended"}
      BY <1>0, <3>1, <3>2 DEF LocationsOK
    <3>4. QED
      BY <1>0, <2>1, <2>2, <3>1, <3>3 DEF LocationsOK, OneTaskInv, At
<1>20. CASE HostStop
  BY <1>20 DEF HostStop, OneTaskInv, At
<1>21. CASE UNCHANGED vars
  BY <1>21 DEF vars, OneTaskInv, At
<1>22. QED
  BY <1>1, <1>2, <1>3, <1>4, <1>5, <1>6, <1>7, <1>8, <1>9, <1>10, <1>11, <1>12,
     <1>13, <1>14, <1>15, <1>16, <1>17, <1>18, <1>19, <1>20, <1>21
     DEF Next, CallerStep, TaskStep, DisposeStep

(* As long as nobody disposes the pipeline from outside, every task starts *)
(* after the one before has ended, however often the pipeline is executed. *)
THEOREM OneTaskInvariance ==
    ASSUME "dispose" \notin Operations
    PROVE  Spec => []OneTaskInv
<1>1. Init => IInv /\ OneTaskInv
  BY InitImpliesIInv, InitImpliesOneTaskInv
<1>2. IInv /\ OneTaskInv /\ [Next]_vars => (IInv /\ OneTaskInv)'
  BY NextPreservesIInv, NextPreservesOneTaskInv
<1>3. QED
  BY <1>1, <1>2, PTL DEF Spec

(* Then one thread at most is inside the source block: a task lets the     *)
(* next execution in only when it has left the block.                      *)
THEOREM HandlerIsExclusive ==
    ASSUME "dispose" \notin Operations
    PROVE  Spec => []OneThreadInHandler
<1>1. IInv /\ OneTaskInv => OneThreadInHandler
  BY PipelineAssumption
     DEF IInv, TypeOK, TokenInv, OneTaskInv, OneThreadInHandler, At, Tasks
<1>2. QED
  BY <1>1, Invariance, OneTaskInvariance, PTL

-----------------------------------------------------------------------------
LEMMA LocationsFromIInv == IInv => LocationsOK /\ started \in Nat
  BY PipelineAssumption DEF IInv, TypeOK, LocationsOK

(* No execution has been shown in the monitor yet.                         *)
LEMMA InitImpliesMonitorInv == Init => MonitorInv
  BY PipelineAssumption, ThreadAssumption DEF Init, MonitorInv, Threads, At

(* The one task there is updates the monitor before it makes the pipeline  *)
(* idle, and ends.                                                         *)
LEMMA NextPreservesMonitorInv ==
    ASSUME "dispose" \notin Operations, IInv, OneTaskInv, MonitorInv,
           [Next]_vars
    PROVE  MonitorInv'
<1> USE PipelineAssumption, ThreadAssumption
    DEF Threads,
        IInv, TypeOK, LocationsOK, TransitionsAreExclusive, InTransition,
        Disposing, TokenInv, OneTaskInv, MonitorInv, At, Goto, Leave, Tasks
<1>0. LocationsOK /\ started \in Nat
  BY LocationsFromIInv
<1>1. ASSUME NEW c \in Callers, ExecuteAsync(c) PROVE MonitorInv'
  BY <1>0, <1>1 DEF ExecuteAsync
<1>2. ASSUME NEW c \in Callers, SetWorkingState(c) PROVE MonitorInv'
  BY <1>0, <1>2 DEF SetWorkingState
<1>3. ASSUME NEW c \in Callers, CallDispose(c) PROVE MonitorInv'
  BY <1>0, <1>3 DEF CallDispose
<1>4. ASSUME NEW k \in Tasks, Top(k) PROVE MonitorInv'
  BY <1>0, <1>4 DEF Top, IsCancellationRequested
<1>5. ASSUME NEW k \in Tasks, Work(k) PROVE MonitorInv'
  BY <1>0, <1>5 DEF Work
<1>6. ASSUME NEW k \in Tasks, HandlerExecute(k) PROVE MonitorInv'
  BY <1>0, <1>6 DEF HandlerExecute
<1>7. ASSUME NEW k \in Tasks, Consume(k) PROVE MonitorInv'
  BY <1>0, <1>7 DEF Consume
<1>8. ASSUME NEW k \in Tasks, HandlerLeave(k) PROVE MonitorInv'
  BY <1>0, <1>8 DEF HandlerLeave
<1>9. ASSUME NEW k \in Tasks, HandlerLeft(k) PROVE MonitorInv'
  BY <1>0, <1>9 DEF HandlerLeft
<1>10. ASSUME NEW k \in Tasks, Finish(k) PROVE MonitorInv'
  BY <1>0, <1>10 DEF Finish, IsCancellationRequested
<1>11. ASSUME NEW k \in Tasks, Sleep(k) PROVE MonitorInv'
  BY <1>0, <1>11 DEF Sleep
<1>12. ASSUME NEW k \in Tasks, Delay(k) PROVE MonitorInv'
  BY <1>0, <1>12 DEF Delay
<1>13. ASSUME NEW t \in Threads, DisposeEnter(t) PROVE MonitorInv'
  BY <1>0, <1>13 DEF DisposeEnter
<1>14. ASSUME NEW t \in Threads, DisposeCancel(t) PROVE MonitorInv'
  BY <1>0, <1>14 DEF DisposeCancel
<1>15. ASSUME NEW t \in Threads, DisposeClear(t) PROVE MonitorInv'
  BY <1>0, <1>15 DEF DisposeClear
<1>16. ASSUME NEW t \in Threads, DisposeHandler(t) PROVE MonitorInv'
  BY <1>0, <1>16 DEF DisposeHandler
<1>17. ASSUME NEW t \in Threads, DisposeReleased(t) PROVE MonitorInv'
  BY <1>0, <1>17 DEF DisposeReleased
<1>18. ASSUME NEW t \in Threads, DisposeMonitor(t) PROVE MonitorInv'
  BY <1>0, <1>18 DEF DisposeMonitor
<1>19. ASSUME NEW t \in Threads, SetIdleState(t) PROVE MonitorInv'
  BY <1>0, <1>19 DEF SetIdleState
<1>20. CASE HostStop
  BY <1>0, <1>20 DEF HostStop
<1>21. CASE UNCHANGED vars
  BY <1>21 DEF vars
<1>22. QED
  BY <1>1, <1>2, <1>3, <1>4, <1>5, <1>6, <1>7, <1>8, <1>9, <1>10, <1>11,
     <1>12, <1>13, <1>14, <1>15, <1>16, <1>17, <1>18, <1>19, <1>20, <1>21
     DEF Next, CallerStep, TaskStep, DisposeStep

(* Between the end of Dispose and the next execution the monitor says Idle.*)
THEOREM MonitorInvariance ==
    ASSUME "dispose" \notin Operations
    PROVE  Spec => []MonitorInv
<1>1. Init => IInv /\ OneTaskInv /\ MonitorInv
  BY InitImpliesIInv, InitImpliesOneTaskInv, InitImpliesMonitorInv
<1>2. IInv /\ OneTaskInv /\ MonitorInv /\ [Next]_vars
          => (IInv /\ OneTaskInv /\ MonitorInv)'
  BY NextPreservesIInv, NextPreservesOneTaskInv, NextPreservesMonitorInv
<1>3. QED
  BY <1>1, <1>2, PTL DEF Spec

(* Without a Dispose from outside, a pipeline that nobody executes is shown*)
(* as idle.  With one it need not be: a disposed pipeline is idle while its*)
(* task may still write its state to the monitor.                          *)
THEOREM IdleIsShownAsIdle ==
    ASSUME "dispose" \notin Operations
    PROVE  Spec => []MonitorTellsTheTruth
<1>1. MonitorInv => MonitorTellsTheTruth
  BY DEF MonitorInv, MonitorTellsTheTruth
<1>2. QED
  BY <1>1, MonitorInvariance, PTL

-----------------------------------------------------------------------------
(* Nothing has been started yet.                                           *)
LEMMA InitImpliesLifeInv == Init => LifeInv
<1> SUFFICES ASSUME Init PROVE LifeInv
  OBVIOUS
<1>1. \A t \in Threads : pc[t] \in {"free", "none"}
  BY DEF Init, Threads
<1>2. started = 0 /\ \A k \in Tasks : ~(k < started)
  BY PipelineAssumption DEF Init, Tasks
<1>3. QED
  BY <1>1, <1>2 DEF LifeInv, At, Disposing, Threads

(* A task is on its way to Dispose only with its own token cancelled, or   *)
(* after its only run.                                                     *)
LEMMA NextPreservesLifeInv ==
    ASSUME IInv, LifeInv, [Next]_vars
    PROVE  LifeInv'
<1> USE PipelineAssumption, ThreadAssumption
    DEF Threads,
        IInv, TypeOK, LocationsOK, TransitionsAreExclusive, InTransition,
        Disposing, TokenInv, LifeInv, At, Goto, Leave, Tasks
<1>0. LocationsOK /\ started \in Nat
  BY LocationsFromIInv
<1>1. ASSUME NEW c \in Callers, ExecuteAsync(c) PROVE LifeInv'
  <2>1. /\ started' = started + 1 /\ started' \in Tasks
        /\ state' = "starting" /\ awaits' = awaits
        /\ cancelled \subseteq cancelled'
        /\ pc' = [pc EXCEPT ![c] = "x.working", ![started'] = "top"]
    BY <1>0, <1>1 DEF ExecuteAsync
  <2>2. \A t \in Threads :
           /\ t \in {c, started'} => pc'[t] \in {"x.working", "top"}
           /\ t \notin {c, started'} => pc'[t] = pc[t]
    BY <1>0, <2>1
  <2>3. \A k \in Tasks : k < started' => k \in cancelled'
    BY <1>0, <1>1, <2>1 DEF ExecuteAsync
  <2>4. \A t \in Threads : pc'[t] \notin Disposing
    BY <1>1, <2>2 DEF ExecuteAsync
  <2>5. ASSUME NEW k \in Tasks
        PROVE  /\ At(k, "delay")' => awaits'[k] \in k..started'
               /\ pc'[k] \in {"d.enter"} \cup Disposing =>
                      RunOnce \/ k \in cancelled'
    <3>1. k \in Threads /\ c \notin Tasks
      OBVIOUS
    <3>2. CASE k = started'
      BY <2>2, <3>1, <3>2
    <3>3. CASE k # started'
      <4>1. pc'[k] = pc[k]
        BY <2>2, <3>1, <3>3
      <4>2. At(k, "delay") => awaits[k] \in k..started'
        BY <1>0, <2>1
      <4>3. QED
        BY <2>1, <4>1, <4>2
    <3>4. QED
      BY <3>2, <3>3
  <2>6. QED
    BY <2>1, <2>3, <2>4, <2>5
<1>2. ASSUME NEW c \in Callers, SetWorkingState(c) PROVE LifeInv'
  BY <1>0, <1>2 DEF SetWorkingState
<1>3. ASSUME NEW c \in Callers, CallDispose(c) PROVE LifeInv'
  BY <1>0, <1>3 DEF CallDispose
<1>4. ASSUME NEW k \in Tasks, Top(k) PROVE LifeInv'
  BY <1>0, <1>4 DEF Top, IsCancellationRequested
<1>5. ASSUME NEW k \in Tasks, Work(k) PROVE LifeInv'
  BY <1>0, <1>5 DEF Work
<1>6. ASSUME NEW k \in Tasks, HandlerExecute(k) PROVE LifeInv'
  <2>1. At(k, "execute") /\ \E l \in {"consume", "finish"} : Goto(k, l)
    BY <1>6 DEF HandlerExecute
  <2>2. UNCHANGED <<state, started, cancelled, awaits>>
    BY <1>6 DEF HandlerExecute
  <2>3. QED
    BY <1>0, <2>1, <2>2
<1>7. ASSUME NEW k \in Tasks, Consume(k) PROVE LifeInv'
  BY <1>0, <1>7 DEF Consume
<1>8. ASSUME NEW k \in Tasks, HandlerLeave(k) PROVE LifeInv'
  <2>1. At(k, "leave") /\ \E l \in {"left", "finish"} : Goto(k, l)
    BY <1>8 DEF HandlerLeave
  <2>2. UNCHANGED <<state, started, cancelled, awaits>>
    BY <1>8 DEF HandlerLeave
  <2>3. QED
    BY <1>0, <2>1, <2>2
<1>9. ASSUME NEW k \in Tasks, HandlerLeft(k) PROVE LifeInv'
  BY <1>0, <1>9 DEF HandlerLeft
<1>10. ASSUME NEW k \in Tasks, Finish(k) PROVE LifeInv'
  BY <1>0, <1>10 DEF Finish, IsCancellationRequested
<1>11. ASSUME NEW k \in Tasks, Sleep(k) PROVE LifeInv'
  BY <1>0, <1>11 DEF Sleep
<1>12. ASSUME NEW k \in Tasks, Delay(k) PROVE LifeInv'
  <2>1. UNCHANGED <<state, started, cancelled, awaits>>
    BY <1>12 DEF Delay
  <2>2. \/ Goto(k, "top")
        \/ k \in cancelled /\ Goto(k, "d.enter")
    <3>1. awaits[k] \in k..started /\ k \in Nat
      BY <1>12 DEF Delay
    <3>2. k \notin cancelled => awaits[k] = k
      BY <1>0, <3>1
    <3>3. QED
      BY <1>12, <3>2 DEF Delay
  <2>3. CASE Goto(k, "top")
    BY <1>0, <2>1, <2>3
  <2>4. CASE k \in cancelled /\ Goto(k, "d.enter")
    BY <1>0, <2>1, <2>4
  <2>5. QED
    BY <2>2, <2>3, <2>4
<1>13. ASSUME NEW t \in Threads, DisposeEnter(t) PROVE LifeInv'
  <2>1. UNCHANGED <<started, cancelled, awaits>> /\ At(t, "d.enter")
    BY <1>13 DEF DisposeEnter
  <2>2. CASE state' = "disposing" /\ Goto(t, "d.cancel")
    BY <1>0, <2>1, <2>2
  <2>3. CASE Leave(t) /\ UNCHANGED state
    BY <1>0, <2>1, <2>3
  <2>4. QED
    BY <1>13, <2>2, <2>3 DEF DisposeEnter
<1>14. ASSUME NEW t \in Threads, DisposeCancel(t) PROVE LifeInv'
  BY <1>0, <1>14 DEF DisposeCancel
<1>15. ASSUME NEW t \in Threads, DisposeClear(t) PROVE LifeInv'
  BY <1>0, <1>15 DEF DisposeClear
<1>16. ASSUME NEW t \in Threads, DisposeHandler(t) PROVE LifeInv'
  BY <1>0, <1>16 DEF DisposeHandler
<1>17. ASSUME NEW t \in Threads, DisposeReleased(t) PROVE LifeInv'
  BY <1>0, <1>17 DEF DisposeReleased
<1>18. ASSUME NEW t \in Threads, DisposeMonitor(t) PROVE LifeInv'
  BY <1>0, <1>18 DEF DisposeMonitor
<1>19. ASSUME NEW t \in Threads, SetIdleState(t) PROVE LifeInv'
  BY <1>0, <1>19 DEF SetIdleState
<1>20. CASE HostStop
  BY <1>0, <1>20 DEF HostStop
<1>21. CASE UNCHANGED vars
  BY <1>21 DEF vars
<1>22. QED
  BY <1>1, <1>2, <1>3, <1>4, <1>5, <1>6, <1>7, <1>8, <1>9, <1>10, <1>11,
     <1>12, <1>13, <1>14, <1>15, <1>16, <1>17, <1>18, <1>19, <1>20, <1>21
     DEF Next, CallerStep, TaskStep, DisposeStep

(* The first state of a pipeline is the first one of PipelineLife.         *)
LEMMA InitImplementsLife == Init => Life!Init
<1> SUFFICES ASSUME Init PROVE Life!Init
  OBVIOUS
<1>1. \A k \in Tasks : pc[k] = "none"
  BY ThreadAssumption DEF Init, Threads
<1>2. QED
  BY <1>1 DEF Init, Life!Init, Draining, At

(* A step that neither starts nor ends a task, cancels a token or frees the*)
(* pipeline is at most a Turn of tasks in the loop of the source block.    *)
LEMMA HiddenStep ==
    ASSUME UNCHANGED <<started, cancelled, stopped>>,
           state' = "idle" <=> state = "idle",
           \A k \in Tasks : pc'[k] \in {"none", "ended"}
                               <=> pc[k] \in {"none", "ended"}
    PROVE  Life!Next
<1>1. {k \in Tasks : pc[k] \notin {"none", "ended"}}'
        = {k \in Tasks : pc[k] \notin {"none", "ended"}}
  OBVIOUS
<1>2. {k \in Tasks : Draining(k)}'
        \subseteq {k \in Tasks : pc[k] \notin {"none", "ended"}}'
  BY DEF Draining, At
<1>3. Life!Turn
  BY <1>1, <1>2 DEF Life!Turn
<1>4. QED
  BY <1>3 DEF Life!Next

(* So are the steps of a task around the source block, and of a Dispose in *)
(* its middle.                                                             *)
LEMMA BlockStepsAreHidden ==
    ASSUME LocationsOK,
           \/ \E k \in Tasks : \/ HandlerExecute(k) \/ Consume(k)
                              \/ HandlerLeave(k) \/ HandlerLeft(k)
           \/ \E t \in Threads : DisposeHandler(t) \/ DisposeReleased(t)
    PROVE  Life!Next
<1> USE DEF LocationsOK, At, Goto, Threads, Tasks
<1>1. ASSUME NEW k \in Tasks, HandlerExecute(k) PROVE Life!Next
  BY <1>1, HiddenStep DEF HandlerExecute
<1>2. ASSUME NEW k \in Tasks, Consume(k) PROVE Life!Next
  BY <1>2, HiddenStep DEF Consume
<1>3. ASSUME NEW k \in Tasks, HandlerLeave(k) PROVE Life!Next
  BY <1>3, HiddenStep DEF HandlerLeave
<1>4. ASSUME NEW k \in Tasks, HandlerLeft(k) PROVE Life!Next
  BY <1>4, HiddenStep DEF HandlerLeft
<1>5. ASSUME NEW t \in Threads, DisposeHandler(t) PROVE Life!Next
  BY <1>5, HiddenStep DEF DisposeHandler
<1>6. ASSUME NEW t \in Threads, DisposeReleased(t) PROVE Life!Next
  BY <1>6, HiddenStep DEF DisposeReleased
<1>7. QED
  BY <1>1, <1>2, <1>3, <1>4, <1>5, <1>6

(* ExecuteAsync is Execute, DisposeCancel is Cancel, the end of Dispose is *)
(* Release or the End of the task that disposes, and HostStop is Stop: none*)
(* of them touches the source block or a task in its loop.  A task that    *)
(* finds the pipeline disposed ends without a change of phase; all the     *)
(* other steps are hidden.                                                 *)
LEMMA StepImplementsLife ==
    ASSUME IInv, LifeInv, [Next]_vars
    PROVE  [Life!Next]_(Life!lifeVars)
<1> USE PipelineAssumption, ThreadAssumption
    DEF Threads,
        IInv, TypeOK, LocationsOK, TransitionsAreExclusive, InTransition,
        Disposing, TokenInv, LifeInv, At, Goto, Leave, Tasks, Life!Next,
        Life!lifeVars, Life!Execute, Life!Cancel, Life!Release, Life!End,
        Life!Stop, Draining
<1>0. LocationsOK /\ started \in Nat
  BY LocationsFromIInv
<1>1. ASSUME NEW c \in Callers, ExecuteAsync(c) PROVE [Life!Next]_(Life!lifeVars)
  BY <1>0, <1>1 DEF ExecuteAsync
<1>2. ASSUME NEW c \in Callers, SetWorkingState(c) PROVE [Life!Next]_(Life!lifeVars)
  BY <1>0, <1>2 DEF SetWorkingState
<1>3. ASSUME NEW c \in Callers, CallDispose(c) PROVE [Life!Next]_(Life!lifeVars)
  BY <1>0, <1>3 DEF CallDispose
<1>4. ASSUME NEW k \in Tasks, Top(k) PROVE [Life!Next]_(Life!lifeVars)
  BY <1>0, <1>4 DEF Top, IsCancellationRequested
<1>5. ASSUME NEW k \in Tasks, Work(k) PROVE [Life!Next]_(Life!lifeVars)
  BY <1>0, <1>5 DEF Work
<1>6. ASSUME NEW k \in Tasks, HandlerExecute(k) PROVE [Life!Next]_(Life!lifeVars)
  BY <1>0, <1>6, BlockStepsAreHidden
<1>7. ASSUME NEW k \in Tasks, Consume(k) PROVE [Life!Next]_(Life!lifeVars)
  BY <1>0, <1>7, BlockStepsAreHidden
<1>8. ASSUME NEW k \in Tasks, HandlerLeave(k) PROVE [Life!Next]_(Life!lifeVars)
  BY <1>0, <1>8, BlockStepsAreHidden
<1>9. ASSUME NEW k \in Tasks, HandlerLeft(k) PROVE [Life!Next]_(Life!lifeVars)
  BY <1>0, <1>9, BlockStepsAreHidden
<1>10. ASSUME NEW k \in Tasks, Finish(k) PROVE [Life!Next]_(Life!lifeVars)
  BY <1>0, <1>10 DEF Finish, IsCancellationRequested
<1>11. ASSUME NEW k \in Tasks, Sleep(k) PROVE [Life!Next]_(Life!lifeVars)
  BY <1>0, <1>11 DEF Sleep
<1>12. ASSUME NEW k \in Tasks, Delay(k) PROVE [Life!Next]_(Life!lifeVars)
  BY <1>0, <1>12 DEF Delay
<1>13. ASSUME NEW t \in Threads, DisposeEnter(t) PROVE [Life!Next]_(Life!lifeVars)
  <2>1. UNCHANGED <<started, cancelled, stopped, handler>> /\ At(t, "d.enter")
    BY <1>13 DEF DisposeEnter
  <2>2. CASE state = "working" /\ state' = "disposing" /\ Goto(t, "d.cancel")
    BY <1>0, <2>1, <2>2, HiddenStep
  <2>3. CASE Leave(t) /\ UNCHANGED state
    <3>1. CASE t \in Callers
      BY <1>0, <2>1, <2>3, <3>1, HiddenStep
    <3>2. CASE t \in Tasks
      <4>1. Life!End(t)
        BY <1>0, <2>1, <2>3, <3>2
      <4>2. QED
        BY <4>1, <3>2
    <3>3. QED
      BY <3>1, <3>2
  <2>4. QED
    BY <1>13, <2>2, <2>3 DEF DisposeEnter
<1>14. ASSUME NEW t \in Threads, DisposeCancel(t) PROVE [Life!Next]_(Life!lifeVars)
  BY <1>0, <1>14 DEF DisposeCancel
<1>15. ASSUME NEW t \in Threads, DisposeClear(t) PROVE [Life!Next]_(Life!lifeVars)
  BY <1>0, <1>15 DEF DisposeClear
<1>16. ASSUME NEW t \in Threads, DisposeHandler(t) PROVE [Life!Next]_(Life!lifeVars)
  BY <1>0, <1>16, BlockStepsAreHidden
<1>17. ASSUME NEW t \in Threads, DisposeReleased(t) PROVE [Life!Next]_(Life!lifeVars)
  BY <1>0, <1>17, BlockStepsAreHidden
<1>18. ASSUME NEW t \in Threads, DisposeMonitor(t) PROVE [Life!Next]_(Life!lifeVars)
  BY <1>0, <1>18 DEF DisposeMonitor
<1>19. ASSUME NEW t \in Threads, SetIdleState(t) PROVE [Life!Next]_(Life!lifeVars)
  <2>1. UNCHANGED <<started, cancelled, stopped, handler>> /\ At(t, "d.idle")
    BY <1>19 DEF SetIdleState
  <2>2. state' = "idle" /\ Leave(t)
    BY <1>19 DEF SetIdleState
  <2>3. CASE t \in Callers
    <3>1. Life!Release
      BY <1>0, <2>1, <2>2, <2>3
    <3>2. QED
      BY <3>1
  <2>4. CASE t \in Tasks
    <3>1. Life!End(t)
      BY <1>0, <2>1, <2>2, <2>4
    <3>2. QED
      BY <3>1, <2>4
  <2>5. QED
    BY <2>3, <2>4
<1>20. CASE HostStop
  BY <1>0, <1>20 DEF HostStop
<1>21. CASE UNCHANGED vars
  BY <1>21 DEF vars
<1>22. QED
  BY <1>1, <1>2, <1>3, <1>4, <1>5, <1>6, <1>7, <1>8, <1>9, <1>10, <1>11,
     <1>12, <1>13, <1>14, <1>15, <1>16, <1>17, <1>18, <1>19, <1>20, <1>21
     DEF Next, CallerStep, TaskStep, DisposeStep

(* Whoever disposes the pipeline, and whichever token a task has read from *)
(* _token, a task that leaves its loop has its own token cancelled.        *)
THEOREM LifeInvariance == Spec => []LifeInv
<1>1. Init => IInv /\ LifeInv
  BY InitImpliesIInv, InitImpliesLifeInv
<1>2. IInv /\ LifeInv /\ [Next]_vars => (IInv /\ LifeInv)'
  BY NextPreservesIInv, NextPreservesLifeInv
<1>3. QED
  BY <1>1, <1>2, PTL DEF Spec

(* Pipeline implements PipelineLife, on which the pipeline manager is built*)
(* (without its fairness): a pipeline can be executed again only after the *)
(* latest token was cancelled, and a task ends only when its own token is  *)
(* cancelled, or after its only run.                                       *)
THEOREM PipelineLivesAsPromised == Spec => Life!Spec
<1>1. Init => Life!Init
  BY InitImplementsLife
<1>2. IInv /\ LifeInv /\ [Next]_vars => [Life!Next]_(Life!lifeVars)
  BY StepImplementsLife
<1>3. QED
  BY <1>1, <1>2, Invariance, LifeInvariance, PTL DEF Spec, Life!Spec
=============================================================================
