------------------------- MODULE RabbitConsumerProofs -------------------------
(***************************************************************************)
(* What RabbitConsumer guarantees for every number of messages and of      *)
(* failures, and whatever the heartbeat, the dispatcher and the host do at *)
(* the same time.  The subject is Spec: safety needs no fairness.          *)
(***************************************************************************)
EXTENDS RabbitConsumer, TLAPS

USE ConsumerAssumption DEF Threads

(* Where any of the threads may be.                                        *)
Places == StreamPlaces \cup TimerPlaces \cup HostPlaces

(* The fields that are Boolean, as a part of TypeOK.                       *)
BooleansOK ==
    /\ consumer \in BOOLEAN /\ connection \in BOOLEAN
    /\ up \in BOOLEAN /\ running \in BOOLEAN
    /\ fresh \in BOOLEAN /\ session \in BOOLEAN

(* The initial state satisfies the inductive invariant.                    *)
LEMMA InitImpliesIInv == Init => IInv
<1> SUFFICES ASSUME Init PROVE IInv
  OBVIOUS
<1> USE DEF Init
<1>1. BooleansOK
  BY DEF BooleansOK
<1>2. TypeOK
  BY <1>1 DEF BooleansOK, TypeOK, StreamPlaces, TimerPlaces, HostPlaces
<1>3. OwnerInv
  BY DEF OwnerInv, Owns, At, Repairing, Disposing
<1>4. ConnectionInv /\ MessageInv
  BY DEF ConnectionInv, MessageInv, NoLoss
<1>5. QED
  BY <1>2, <1>3, <1>4 DEF IInv

(* The steps of EnsureConsumerIsActive, and the two of DisposeConsumer that*)
(* the host shares with them.                                              *)
LEMMA RepairPreservesIInv ==
    ASSUME IInv, NEW t \in Threads, EnsureConsumerIsActive(t)
    PROVE  IInv'
<1> USE DEF IInv, At, Goto, Fault, Return, Accept, broker, link, target,
           ConsumerIsHealthy
<1>1. CASE CanAutoReset(t)
  BY <1>1 DEF CanAutoReset, TypeOK, StreamPlaces, TimerPlaces, HostPlaces,
     OwnerInv, Owns, Repairing, Disposing, ConnectionInv, MessageInv, NoLoss
<1>2. CASE CheckHealth(t)
  BY <1>2 DEF CheckHealth, TypeOK, StreamPlaces, TimerPlaces, HostPlaces,
     OwnerInv, Owns, Repairing, Disposing, ConnectionInv, MessageInv, NoLoss
<1>3. CASE CancelConsumer(t)
  <2> USE <1>3 DEF CancelConsumer
  <2>1. BooleansOK'
    BY DEF TypeOK, BooleansOK
  <2>2. TypeOK'
    BY <2>1 DEF BooleansOK, TypeOK, StreamPlaces, TimerPlaces, HostPlaces,
       Repairing, Disposing, OwnerInv, MessageInv
  <2>3. OwnerInv'
    BY DEF OwnerInv, Owns, Repairing, Disposing, TypeOK
  <2>4. ConnectionInv'
    BY DEF ConnectionInv, OwnerInv, Owns, Repairing, Disposing, TypeOK
  <2>5. MessageInv'
    BY DEF MessageInv, ConnectionInv, NoLoss, TypeOK
  <2>6. QED
    BY <2>2, <2>3, <2>4, <2>5
<1>4. CASE CloseConnection(t)
  <2> USE <1>4 DEF CloseConnection
  <2>1. BooleansOK'
    BY DEF TypeOK, BooleansOK
  <2>2. TypeOK'
    BY <2>1 DEF BooleansOK, TypeOK, StreamPlaces, TimerPlaces, HostPlaces,
       Repairing, Disposing, OwnerInv, MessageInv
  <2>3. OwnerInv'
    BY DEF OwnerInv, Owns, Repairing, Disposing, TypeOK
  <2>4. ConnectionInv'
    BY DEF ConnectionInv, OwnerInv, Owns, Repairing, Disposing, TypeOK
  <2>5. MessageInv'
    BY DEF MessageInv, ConnectionInv, NoLoss, TypeOK
  <2>6. QED
    BY <2>2, <2>3, <2>4, <2>5
<1>5. CASE Connect(t)
  <2> USE <1>5 DEF Connect
  <2>1. BooleansOK'
    BY DEF TypeOK, BooleansOK
  <2>2. TypeOK'
    BY <2>1 DEF BooleansOK, TypeOK, StreamPlaces, TimerPlaces, HostPlaces,
       Repairing, Disposing, OwnerInv, MessageInv
  <2>3. OwnerInv'
    BY DEF OwnerInv, Owns, Repairing, Disposing, TypeOK
  <2>4. ConnectionInv'
    BY DEF ConnectionInv, OwnerInv, Owns, Repairing, Disposing, TypeOK
  <2>5. MessageInv'
    BY DEF MessageInv, ConnectionInv, NoLoss, TypeOK
  <2>6. QED
    BY <2>2, <2>3, <2>4, <2>5
<1>6. CASE Subscribe(t)
  <2> USE <1>6 DEF Subscribe
  <2>1. BooleansOK'
    BY DEF TypeOK, BooleansOK
  <2>2. At(t, "subscribe") /\ (Goto(t, "active") \/ Goto(t, "f.cancel"))
    OBVIOUS
  <2>3. TypeOK'
    <3>0. UNCHANGED faults \/ Fault
      BY Zenon
    <3>1. faults' \in 0..MaxFaults
      BY <3>0 DEF TypeOK
    <3>2. /\ pc' \in [Threads -> Places]
          /\ pc'["stream"] \in StreamPlaces
          /\ pc'["timer"] \in TimerPlaces
          /\ pc'["host"] \in HostPlaces
      BY <2>2 DEF TypeOK, Places, StreamPlaces, TimerPlaces, HostPlaces,
         Repairing, Disposing
    <3>3. QED
      BY <2>1, <3>1, <3>2 DEF BooleansOK, TypeOK, Places
  <2>4. OwnerInv'
    <3>1. \A u \in Threads : Owns(u)' = Owns(u)
      BY <2>2 DEF Owns, Repairing, Disposing, TypeOK
    <3>2. UNCHANGED state
      OBVIOUS
    <3>3. QED
      BY <2>2, <3>1, <3>2 DEF OwnerInv, TypeOK
  <2>5. ConnectionInv'
    BY DEF ConnectionInv, OwnerInv, Owns, Repairing, Disposing, TypeOK
  <2>6. MessageInv'
    BY DEF MessageInv, ConnectionInv, NoLoss, TypeOK
  <2>7. QED
    BY <2>3, <2>4, <2>5, <2>6
<1>7. CASE ResetDone(t)
  BY <1>7 DEF ResetDone, TypeOK, StreamPlaces, TimerPlaces, HostPlaces,
     OwnerInv, Owns, Repairing, Disposing, ConnectionInv, MessageInv, NoLoss
<1>8. QED
  BY <1>1, <1>2, <1>3, <1>4, <1>5, <1>6, <1>7 DEF EnsureConsumerIsActive

(* ProcessMessage on the dispatcher.                                       *)
LEMMA HandlerPreservesIInv ==
    ASSUME IInv, HandlerStep
    PROVE  IInv'
<1> USE DEF IInv, At, Goto, Fault, Return, Accept, broker, link, target,
           ConsumerIsHealthy
<1>1. CASE ProcessNext
  <2> USE <1>1 DEF ProcessNext
  <2>1. BooleansOK'
    BY DEF TypeOK, BooleansOK
  <2>2. TypeOK'
    BY <2>1 DEF BooleansOK, TypeOK, StreamPlaces, TimerPlaces, HostPlaces,
       Repairing, Disposing, OwnerInv, MessageInv
  <2>3. OwnerInv'
    BY DEF OwnerInv, Owns, Repairing, Disposing, TypeOK
  <2>4. ConnectionInv'
    BY DEF ConnectionInv, OwnerInv, Owns, Repairing, Disposing, TypeOK
  <2>5. MessageInv'
    BY DEF MessageInv, ConnectionInv, NoLoss, TypeOK
  <2>6. QED
    BY <2>2, <2>3, <2>4, <2>5
<1>2. CASE SynchronizeNext
  <2> USE <1>2 DEF SynchronizeNext
  <2>1. BooleansOK'
    BY DEF TypeOK, BooleansOK
  <2>2. TypeOK'
    BY <2>1 DEF BooleansOK, TypeOK, StreamPlaces, TimerPlaces, HostPlaces,
       Repairing, Disposing, OwnerInv, MessageInv
  <2>3. OwnerInv'
    BY DEF OwnerInv, Owns, Repairing, Disposing, TypeOK
  <2>4. ConnectionInv'
    BY DEF ConnectionInv, OwnerInv, Owns, Repairing, Disposing, TypeOK
  <2>5. MessageInv'
    BY DEF MessageInv, ConnectionInv, NoLoss, TypeOK
  <2>6. QED
    BY <2>2, <2>3, <2>4, <2>5
<1>3. CASE Ack
  BY <1>3 DEF Ack, TypeOK, StreamPlaces, TimerPlaces, HostPlaces,
     OwnerInv, Owns, Repairing, Disposing, ConnectionInv, MessageInv, NoLoss
<1>4. CASE NackMessage
  BY <1>4 DEF NackMessage, TypeOK, StreamPlaces, TimerPlaces, HostPlaces,
     OwnerInv, Owns, Repairing, Disposing, ConnectionInv, MessageInv, NoLoss
<1>5. CASE BasicNack
  BY <1>5 DEF BasicNack, TypeOK, StreamPlaces, TimerPlaces, HostPlaces,
     OwnerInv, Owns, Repairing, Disposing, ConnectionInv, MessageInv, NoLoss
<1>6. QED
  BY <1>1, <1>2, <1>3, <1>4, <1>5 DEF HandlerStep

(* Process on the stream thread, around EnsureConsumerIsActive, and the    *)
(* tick of the timer.                                                      *)
LEMMA ProcessPreservesIInv ==
    ASSUME IInv,
           CanExecute \/ InitializeFails \/ CreateHeartbeat
           \/ ConfigureHeartbeat \/ CreateCancellation
           \/ StartHeartbeat \/ Wait \/ Tick
    PROVE  IInv'
<1> USE DEF IInv, At, Goto, Fault, Return, Accept, broker, link, target,
           ConsumerIsHealthy
<1>1. CASE CanExecute
  BY <1>1 DEF CanExecute, TypeOK, StreamPlaces, TimerPlaces, HostPlaces,
     OwnerInv, Owns, Repairing, Disposing, ConnectionInv, MessageInv, NoLoss
<1>2. CASE CreateHeartbeat
  BY <1>2 DEF CreateHeartbeat, TypeOK, StreamPlaces, TimerPlaces, HostPlaces,
     OwnerInv, Owns, Repairing, Disposing, ConnectionInv, MessageInv, NoLoss
<1>3. CASE CreateCancellation
  BY <1>3 DEF CreateCancellation, TypeOK, StreamPlaces, TimerPlaces, HostPlaces,
     OwnerInv, Owns, Repairing, Disposing, ConnectionInv, MessageInv, NoLoss
<1>4. CASE StartHeartbeat
  BY <1>4 DEF StartHeartbeat, TypeOK, StreamPlaces, TimerPlaces, HostPlaces,
     OwnerInv, Owns, Repairing, Disposing, ConnectionInv, MessageInv, NoLoss
<1>5. CASE Wait
  BY <1>5 DEF Wait, TypeOK, StreamPlaces, TimerPlaces, HostPlaces,
     OwnerInv, Owns, Repairing, Disposing, ConnectionInv, MessageInv, NoLoss
<1>6. CASE Tick
  BY <1>6 DEF Tick, TypeOK, StreamPlaces, TimerPlaces, HostPlaces,
     OwnerInv, Owns, Repairing, Disposing, ConnectionInv, MessageInv, NoLoss
<1>7. CASE InitializeFails
  BY <1>7 DEF InitializeFails, TypeOK, StreamPlaces, TimerPlaces, HostPlaces,
     OwnerInv, Owns, Repairing, Disposing, ConnectionInv, MessageInv, NoLoss
<1>8. CASE ConfigureHeartbeat
  BY <1>8 DEF ConfigureHeartbeat, TypeOK, StreamPlaces, TimerPlaces, HostPlaces,
     OwnerInv, Owns, Repairing, Disposing, ConnectionInv, MessageInv, NoLoss
<1>9. QED
  BY <1>1, <1>2, <1>3, <1>4, <1>5, <1>6, <1>7, <1>8

(* Dispose on the host thread, around DisposeConsumer.                     *)
LEMMA DisposePreservesIInv ==
    ASSUME IInv,
           CallDispose \/ Dispose \/ PollReset
           \/ DisposeHeartbeat \/ DisposeNext
           \/ SignalCancellation \/ NullCancellation \/ DisposeDone
    PROVE  IInv'
<1> USE DEF IInv, At, Goto, Fault, Return, Accept, broker, link, target,
           ConsumerIsHealthy
<1>1. CASE CallDispose
  BY <1>1 DEF CallDispose, TypeOK, StreamPlaces, TimerPlaces, HostPlaces,
     OwnerInv, Owns, Repairing, Disposing, ConnectionInv, MessageInv, NoLoss
<1>2. CASE Dispose
  BY <1>2 DEF Dispose, TypeOK, StreamPlaces, TimerPlaces, HostPlaces,
     OwnerInv, Owns, Repairing, Disposing, ConnectionInv, MessageInv, NoLoss
<1>3. CASE DisposeHeartbeat
  BY <1>3 DEF DisposeHeartbeat, TypeOK, StreamPlaces, TimerPlaces, HostPlaces,
     OwnerInv, Owns, Repairing, Disposing, ConnectionInv, MessageInv, NoLoss
<1>4. CASE DisposeNext
  <2> USE <1>4 DEF DisposeNext
  <2>1. BooleansOK'
    BY DEF TypeOK, BooleansOK
  <2>2. TypeOK'
    BY <2>1 DEF BooleansOK, TypeOK, StreamPlaces, TimerPlaces, HostPlaces,
       Repairing, Disposing, OwnerInv, MessageInv
  <2>3. OwnerInv'
    BY DEF OwnerInv, Owns, Repairing, Disposing, TypeOK
  <2>4. ConnectionInv'
    BY DEF ConnectionInv, OwnerInv, Owns, Repairing, Disposing, TypeOK
  <2>5. MessageInv'
    BY DEF MessageInv, ConnectionInv, NoLoss, TypeOK
  <2>6. QED
    BY <2>2, <2>3, <2>4, <2>5
<1>5. CASE SignalCancellation
  BY <1>5 DEF SignalCancellation, TypeOK, StreamPlaces, TimerPlaces, HostPlaces,
     OwnerInv, Owns, Repairing, Disposing, ConnectionInv, MessageInv, NoLoss
<1>6. CASE NullCancellation
  BY <1>6 DEF NullCancellation, TypeOK, StreamPlaces, TimerPlaces, HostPlaces,
     OwnerInv, Owns, Repairing, Disposing, ConnectionInv, MessageInv, NoLoss
<1>7. CASE DisposeDone
  BY <1>7 DEF DisposeDone, TypeOK, StreamPlaces, TimerPlaces, HostPlaces,
     OwnerInv, Owns, Repairing, Disposing, ConnectionInv, MessageInv, NoLoss
<1>8. CASE PollReset
  BY <1>8 DEF PollReset, TypeOK, StreamPlaces, TimerPlaces, HostPlaces,
     OwnerInv, Owns, Repairing, Disposing, ConnectionInv, MessageInv, NoLoss
<1>9. QED
  BY <1>1, <1>2, <1>3, <1>4, <1>5, <1>6, <1>7, <1>8

(* The broker, and the crash of the process.                               *)
LEMMA BrokerPreservesIInv ==
    ASSUME IInv, BrokerStep
    PROVE  IInv'
<1> USE DEF IInv, At, Goto, Fault, Return, Accept, broker, link, target,
           ConsumerIsHealthy
<1>1. CASE Deliver
  BY <1>1 DEF Deliver, TypeOK, StreamPlaces, TimerPlaces, HostPlaces,
     OwnerInv, Owns, Repairing, Disposing, ConnectionInv, MessageInv, NoLoss
<1>2. CASE Publish
  BY <1>2 DEF Publish, TypeOK, StreamPlaces, TimerPlaces, HostPlaces,
     OwnerInv, Owns, Repairing, Disposing, ConnectionInv, MessageInv, NoLoss
<1>3. CASE ConnectionLost
  <2> USE <1>3 DEF ConnectionLost
  <2>1. BooleansOK'
    BY DEF TypeOK, BooleansOK
  <2>2. TypeOK'
    BY <2>1 DEF BooleansOK, TypeOK, StreamPlaces, TimerPlaces, HostPlaces,
       Repairing, Disposing, OwnerInv, MessageInv
  <2>3. OwnerInv'
    BY DEF OwnerInv, Owns, Repairing, Disposing, TypeOK
  <2>4. ConnectionInv'
    BY DEF ConnectionInv, OwnerInv, Owns, Repairing, Disposing, TypeOK
  <2>5. MessageInv'
    BY DEF MessageInv, ConnectionInv, NoLoss, TypeOK
  <2>6. QED
    BY <2>2, <2>3, <2>4, <2>5
<1>4. CASE ConnectionRecovered
  BY <1>4 DEF ConnectionRecovered, TypeOK, StreamPlaces, TimerPlaces, HostPlaces,
     OwnerInv, Owns, Repairing, Disposing, ConnectionInv, MessageInv, NoLoss
<1>5. CASE ConsumerCancelled
  <2> USE <1>5 DEF ConsumerCancelled
  <2>1. BooleansOK'
    BY DEF TypeOK, BooleansOK
  <2>2. TypeOK'
    BY <2>1 DEF BooleansOK, TypeOK, StreamPlaces, TimerPlaces, HostPlaces,
       Repairing, Disposing, OwnerInv, MessageInv
  <2>3. OwnerInv'
    BY DEF OwnerInv, Owns, Repairing, Disposing, TypeOK
  <2>4. ConnectionInv'
    BY DEF ConnectionInv, OwnerInv, Owns, Repairing, Disposing, TypeOK
  <2>5. MessageInv'
    BY DEF MessageInv, ConnectionInv, NoLoss, TypeOK
  <2>6. QED
    BY <2>2, <2>3, <2>4, <2>5
<1>6. CASE Crash
  <2> USE <1>6 DEF Crash
  <2>1. BooleansOK'
    BY DEF TypeOK, BooleansOK
  <2>2. TypeOK'
    BY <2>1 DEF BooleansOK, TypeOK, StreamPlaces, TimerPlaces, HostPlaces,
       Repairing, Disposing, OwnerInv, MessageInv
  <2>3. OwnerInv'
    BY DEF OwnerInv, Owns, Repairing, Disposing, TypeOK
  <2>4. ConnectionInv'
    BY DEF ConnectionInv, OwnerInv, Owns, Repairing, Disposing, TypeOK
  <2>5. MessageInv'
    BY DEF MessageInv, ConnectionInv, NoLoss, TypeOK
  <2>6. QED
    BY <2>2, <2>3, <2>4, <2>5
<1>7. QED
  BY <1>1, <1>2, <1>3, <1>4, <1>5, <1>6 DEF BrokerStep

(* Every step preserves the inductive invariant.                           *)
LEMMA NextPreservesIInv == IInv /\ [Next]_vars => IInv'
<1> SUFFICES ASSUME IInv, [Next]_vars PROVE IInv'
  OBVIOUS
<1>1. CASE StreamStep
  BY <1>1, ProcessPreservesIInv, RepairPreservesIInv DEF StreamStep
<1>2. CASE TimerStep
  BY <1>2, ProcessPreservesIInv, RepairPreservesIInv DEF TimerStep
<1>3. CASE HandlerStep
  BY <1>3, HandlerPreservesIInv
<1>4. CASE BrokerStep
  BY <1>4, BrokerPreservesIInv
<1>5. CASE CallDispose
  BY <1>5, DisposePreservesIInv
<1>6. CASE HostStep
  BY <1>6, DisposePreservesIInv, RepairPreservesIInv
     DEF HostStep, EnsureConsumerIsActive
<1>7. CASE UNCHANGED vars
  BY <1>7 DEF vars, broker, link, target, IInv, TypeOK, OwnerInv, Owns, At,
     ConnectionInv, MessageInv, NoLoss
<1>8. QED
  BY <1>1, <1>2, <1>3, <1>4, <1>5, <1>6, <1>7 DEF Next, Run

(* The inductive invariant holds in every behaviour.                       *)
THEOREM Invariance == Spec => []IInv
<1>1. Init => IInv
  BY InitImpliesIInv
<1>2. IInv /\ [Next]_vars => IInv'
  BY NextPreservesIInv
<1>3. QED
  BY <1>1, <1>2, PTL DEF Spec

(* The variables keep their types.                                         *)
THEOREM TypeCorrect == Spec => []TypeOK
<1>1. IInv => TypeOK
  BY DEF IInv
<1>2. QED
  BY <1>1, Invariance, PTL

(* The stream thread, the heartbeat and Dispose never work on the          *)
(* connection at once, at most one is open at any time, and none is left   *)
(* when Dispose has returned: the exchanges of _state are enough.          *)
THEOREM ConnectionsDoNotLeak == Spec => []NoConnectionLeaks
<1>1. IInv => NoConnectionLeaks
  BY DEF IInv, OwnerInv, ConnectionInv, NoConnectionLeaks, At
<1>2. QED
  BY <1>1, Invariance, PTL

(* No message is acknowledged before the next processor has delivered it,  *)
(* with all the messages before it.                                        *)
THEOREM MessagesAreNotLost == Spec => []NoLoss
<1>1. IInv => NoLoss
  BY DEF IInv, MessageInv
<1>2. QED
  BY <1>1, Invariance, PTL

(* The initial states and the steps of the consumer are those of Delivery. *)
LEMMA InitImplementsDelivery == Init => Promise!Init
  BY DEF Init, Promise!Init

LEMMA StepImplementsDelivery ==
    IInv /\ [Next]_vars => [Promise!Next]_(Promise!deliveryVars)
<1> SUFFICES ASSUME IInv, [Next]_vars PROVE [Promise!Next]_(Promise!deliveryVars)
  OBVIOUS
<1> USE DEF broker, link, target
(* Messages are accepted while they are at the head of the queue.          *)
<1>1. CASE SynchronizeNext
  <2>1. message = gone + 1 /\ message \in (gone + 1)..Total
    BY <1>1 DEF SynchronizeNext, IInv, TypeOK, MessageInv
  <2>2. Accept \/ UNCHANGED inOrder
    BY <1>1 DEF SynchronizeNext
  <2>3. UNCHANGED gone
    BY <1>1 DEF SynchronizeNext
  <2>4. QED
    BY <2>1, <2>2, <2>3 DEF Accept, Promise!Next, Promise!Accept,
       Promise!deliveryVars
(* They leave the queue one by one, after that.                            *)
<1>2. CASE Ack
  <2>1. CASE up /\ fresh
    <3>1. gone' = message /\ UNCHANGED inOrder
      BY <1>2, <2>1 DEF Ack
    <3>2. message \in (gone + 1)..Total /\ message <= inOrder
      BY <1>2, <2>1 DEF Ack, IInv, TypeOK, MessageInv
    <3>3. QED
      BY <3>1, <3>2 DEF Promise!Next, Promise!Forget
  <2>2. CASE ~(up /\ fresh)
    BY <1>2, <2>2 DEF Ack, Promise!deliveryVars
  <2>3. QED
    BY <2>1, <2>2
<1>3. CASE HandlerStep /\ ~SynchronizeNext /\ ~Ack
  BY <1>3 DEF HandlerStep, ProcessNext, NackMessage, BasicNack,
     Promise!deliveryVars
<1>4. CASE StreamStep \/ TimerStep
  BY <1>4 DEF StreamStep, TimerStep, CanExecute, InitializeFails,
     CreateHeartbeat, ConfigureHeartbeat, CreateCancellation, StartHeartbeat, Wait, Tick, EnsureConsumerIsActive,
     CanAutoReset, CheckHealth, CancelConsumer, CloseConnection, Connect,
     Subscribe, ResetDone, Promise!deliveryVars
<1>5. CASE CallDispose \/ HostStep
  BY <1>5 DEF CallDispose, Dispose, PollReset, HostStep, DisposeHeartbeat,
     CancelConsumer, CloseConnection, DisposeNext, SignalCancellation,
     NullCancellation, DisposeDone, Promise!deliveryVars
<1>6. CASE BrokerStep \/ UNCHANGED vars
  BY <1>6 DEF BrokerStep, Deliver, Publish, ConnectionLost,
     ConnectionRecovered, ConsumerCancelled, Crash, vars, Promise!deliveryVars
<1>7. QED
  BY <1>1, <1>2, <1>3, <1>4, <1>5, <1>6 DEF Next, Run

(* The consumer implements Delivery: with PrefetchCount = 1 every message  *)
(* leaves the queue after it has been delivered, in the order of the queue.*)
THEOREM ConsumerKeepsItsPromise == Spec => DeliversAtLeastOnceInOrder
<1>1. Init => Promise!Init
  BY InitImplementsDelivery
<1>2. IInv /\ [Next]_vars => [Promise!Next]_(Promise!deliveryVars)
  BY StepImplementsDelivery
<1>3. QED
  BY <1>1, <1>2, Invariance, PTL DEF Spec, DeliversAtLeastOnceInOrder, Promise!Spec
=============================================================================
