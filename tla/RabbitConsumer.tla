---------------------------- MODULE RabbitConsumer ----------------------------
(***************************************************************************)
(* A script that consumes a RabbitMQ queue:                                *)
(*                                                                         *)
(*   CONSUME 'amqp://...' WITH QueueName = ... INTO @m   <statements>      *)
(*                                                                         *)
(* Class DaJet.Runtime.RabbitMQ.Consumer, with PrefetchCount = 1.  Four    *)
(* threads share the object: the stream thread runs Process and then waits *)
(* for the cancellation, the heartbeat timer repairs the connection, the   *)
(* client library's dispatcher raises Received (ProcessMessage), and the   *)
(* host calls Dispose.  The statements after CONSUME are the next          *)
(* processor, which here is all that the dispatcher and the host share:    *)
(* a session that Process opens, Synchronize delivers and Dispose drops.   *)
(*                                                                         *)
(* Messages 1..Total are published to the queue in that order.             *)
(***************************************************************************)
EXTENDS Integers

CONSTANTS
    Total,     \* messages ever published to the queue
    MaxFaults  \* bound on the failures of the environment

ASSUME ConsumerAssumption == Total \in Nat /\ MaxFaults \in Nat

Threads == {"stream", "timer", "host"}  \* and the dispatcher

VARIABLES
    state,         \* Consumer._state
    heartbeat,     \* Consumer._heartbeat: null, created or started
    cancellation,  \* Consumer._cancellation: null, or an event unset or set
    consumer,      \* is Consumer._consumer non-null
    connection,    \* is Consumer._connection non-null
    live,          \* connections opened and not yet closed by this process
    up,            \* the broker and the latest connection are connected
    running,       \* _consumer.IsRunning: the broker pushes messages to it
    arrived,       \* messages 1..arrived have been published
    gone,          \* messages 1..gone have been acknowledged and removed
    unacked,       \* delivered on the current channel, 0 is none
    message,       \* what ProcessMessage is working on
    fresh,         \* was it delivered on the current channel
    session,       \* has the next processor an open session
    inOrder,       \* the target's log: 1..inOrder is a subsequence of it
    pc,            \* where the stream, timer and host threads are
    handler,       \* where the dispatcher is in ProcessMessage
    faults         \* failures so far

broker == <<arrived, gone, unacked, fresh>>
link   == <<consumer, connection, live, up, running>>
target == <<session, inOrder>>
vars   == <<state, heartbeat, cancellation, link, broker, message, target, pc,
            handler, faults>>

Repairing    == {"reset", "check", "r.cancel", "r.close", "connect",
                 "subscribe", "f.cancel", "f.close", "active"}
StreamPlaces == {"start", "heartbeat", "configure", "cancellation", "timer",
                 "wait", "waiting", "exited", "crashed"} \cup Repairing
Disposing    == {"d.heartbeat", "d.cancel", "d.close", "d.next", "d.signal",
                 "d.null", "d.idle"}
TimerPlaces  == {"free"} \cup Repairing
HostPlaces   == {"free", "call", "poll", "done"} \cup Disposing

Init ==
    /\ state = "IDLE"
    /\ heartbeat = "null" /\ cancellation = "null"
    /\ consumer = FALSE /\ connection = FALSE
    /\ live = 0 /\ up = FALSE /\ running = FALSE
    /\ arrived = 0 /\ gone = 0 /\ unacked = 0
    /\ message = 0 /\ fresh = FALSE
    /\ session = FALSE /\ inOrder = 0
    /\ pc = [stream |-> "start", timer |-> "free", host |-> "free"]
    /\ handler = "free"
    /\ faults = 0

At(t, l)   == pc[t] = l
Goto(t, l) == pc' = [pc EXCEPT ![t] = l]

Fault == faults < MaxFaults /\ faults' = faults + 1

-----------------------------------------------------------------------------
(* Process on the stream thread.                                           *)

CanExecute ==
    /\ At("stream", "start")
    /\ IF state = "IDLE"
       THEN state' = "ACTIVE" /\ Goto("stream", "heartbeat")
       ELSE Goto("stream", "exited") /\ UNCHANGED state
    /\ UNCHANGED <<heartbeat, cancellation, link, broker, message, target,
                   handler, faults>>

(* InitializeUri and InitializeConsumer throw on options that are wrong,   *)
(* and nobody sets the state back.                                         *)
InitializeFails ==
    /\ At("stream", "heartbeat")
    /\ Fault
    /\ Goto("stream", "crashed")
    /\ UNCHANGED <<state, heartbeat, cancellation, link, broker, message, target,
                   handler>>

CreateHeartbeat ==
    /\ At("stream", "heartbeat")
    /\ heartbeat' = "created"
    /\ Goto("stream", "configure")
    /\ UNCHANGED <<state, cancellation, link, broker, message, target, handler,
                   faults>>

(* The properties of _heartbeat are set, which Dispose may have made null. *)
ConfigureHeartbeat ==
    /\ At("stream", "configure")
    /\ Goto("stream", IF heartbeat = "null" THEN "crashed" ELSE "cancellation")
    /\ UNCHANGED <<state, heartbeat, cancellation, link, broker, message, target,
                   handler, faults>>

CreateCancellation ==
    /\ At("stream", "cancellation")
    /\ cancellation' = "unset"
    /\ Goto("stream", "reset")
    /\ UNCHANGED <<state, heartbeat, link, broker, message, target, handler,
                   faults>>

(* _heartbeat.Start(): a null reference leaves Process with an exception.  *)
StartHeartbeat ==
    /\ At("stream", "timer")
    /\ IF heartbeat = "null"
       THEN Goto("stream", "crashed") /\ UNCHANGED heartbeat
       ELSE heartbeat' = "started" /\ Goto("stream", "wait")
    /\ UNCHANGED <<state, cancellation, link, broker, message, target, handler,
                   faults>>

(* _cancellation.WaitOne()                                                 *)
Wait ==
    /\ At("stream", "wait")
    /\ \/ cancellation = "null"  /\ Goto("stream", "crashed")
       \/ cancellation = "set"   /\ Goto("stream", "crashed")  \* disposed
       \/ cancellation = "set"   /\ Goto("stream", "exited")
       \/ cancellation = "unset" /\ Goto("stream", "waiting")
    /\ UNCHANGED <<state, heartbeat, cancellation, link, broker, message, target,
                   handler, faults>>

-----------------------------------------------------------------------------
(* EnsureConsumerIsActive, by the stream thread once and by the timer.     *)

Tick ==
    /\ heartbeat = "started"
    /\ At("timer", "free")
    /\ Goto("timer", "reset")
    /\ UNCHANGED <<state, heartbeat, cancellation, link, broker, message, target,
                   handler, faults>>

(* The stream thread goes on with Process, the timer waits for the next    *)
(* tick.                                                                   *)
Return(t) == Goto(t, IF t = "stream" THEN "timer" ELSE "free")

CanAutoReset(t) ==
    /\ At(t, "reset")
    /\ IF state = "ACTIVE"
       THEN state' = "AUTORESET" /\ Goto(t, "check")
       ELSE Return(t) /\ UNCHANGED state
    /\ UNCHANGED <<heartbeat, cancellation, link, broker, message, target,
                   handler, faults>>

(* Mutant: an open channel is taken for a running consumer.                *)
ChannelIsOpen == consumer /\ up

ConsumerIsHealthy == consumer /\ running /\ up

CheckHealth(t) ==
    /\ At(t, "check")
    /\ Goto(t, IF ConsumerIsHealthy THEN "active" ELSE "r.cancel")
    /\ UNCHANGED <<state, heartbeat, cancellation, link, broker, message, target,
                   handler, faults>>

(* DisposeConsumer: Received is unsubscribed and the broker is asked to    *)
(* stop; then the channel and the connection are closed, which puts an     *)
(* unacknowledged message back to the head of the queue.                   *)
CancelConsumer(t) ==
    /\ pc[t] \in {"r.cancel", "f.cancel", "d.cancel"}
    /\ consumer' = FALSE
    /\ running' = FALSE
    /\ Goto(t, CASE At(t, "r.cancel") -> "r.close"
                 [] At(t, "f.cancel") -> "f.close"
                 [] At(t, "d.cancel") -> "d.close")
    /\ UNCHANGED <<state, heartbeat, cancellation, connection, live, up, broker,
                   message, target, handler, faults>>

CloseConnection(t) ==
    /\ pc[t] \in {"r.close", "f.close", "d.close"}
    /\ IF connection
       THEN /\ live' = live - 1
            /\ up' = FALSE
            /\ unacked' = 0
            /\ fresh' = FALSE
       ELSE UNCHANGED <<live, up, unacked, fresh>>
    /\ connection' = FALSE
    /\ Goto(t, CASE At(t, "r.close") -> "connect"
                 [] At(t, "f.close") -> "active"
                 [] At(t, "d.close") -> "d.next")
    /\ UNCHANGED <<state, heartbeat, cancellation, consumer, running, arrived,
                   gone, message, target, handler, faults>>

(* CreateConsumer: an exception disposes what has been created.            *)
Connect(t) ==
    /\ At(t, "connect")
    /\ \/ /\ connection' = TRUE
          /\ live' = live + 1
          /\ up' = TRUE
          /\ Goto(t, "subscribe")
          /\ UNCHANGED faults
       \/ /\ Fault
          /\ Goto(t, "f.cancel")
          /\ UNCHANGED <<connection, live, up>>
    /\ UNCHANGED <<state, heartbeat, cancellation, consumer, running, broker,
                   message, target, handler>>

Subscribe(t) ==
    /\ At(t, "subscribe")
    /\ \/ /\ up
          /\ consumer' = TRUE /\ running' = TRUE
          /\ Goto(t, "active") /\ UNCHANGED faults
       \/ /\ (~up /\ UNCHANGED faults) \/ Fault
          /\ consumer' \in {consumer, TRUE}
          /\ Goto(t, "f.cancel") /\ UNCHANGED running
    /\ UNCHANGED <<state, heartbeat, cancellation, connection, live, up, broker,
                   message, target, handler>>

(* Mutant: the state is restored only when the reset has succeeded.        *)
ResetDoneOnSuccess(t) ==
    /\ At(t, "active")
    /\ state' = IF consumer THEN "ACTIVE" ELSE state
    /\ Return(t)
    /\ UNCHANGED <<heartbeat, cancellation, link, broker, message, target,
                   handler, faults>>

ResetDone(t) ==
    /\ At(t, "active")
    /\ state' = "ACTIVE"
    /\ Return(t)
    /\ UNCHANGED <<heartbeat, cancellation, link, broker, message, target,
                   handler, faults>>

EnsureConsumerIsActive(t) ==
    \/ CanAutoReset(t) \/ CheckHealth(t) \/ CancelConsumer(t)
    \/ CloseConnection(t) \/ Connect(t) \/ Subscribe(t) \/ ResetDone(t)

-----------------------------------------------------------------------------
(* ProcessMessage on the dispatcher, which raises one event at a time.     *)

(* With PrefetchCount = 1 the broker waits for the outcome of a message.   *)
Deliver ==
    /\ consumer /\ running /\ up
    /\ handler = "free"
    /\ unacked = 0 /\ gone < arrived
    /\ unacked' = gone + 1
    /\ message' = gone + 1
    /\ fresh' = TRUE
    /\ handler' = "process"
    /\ UNCHANGED <<state, heartbeat, cancellation, link, arrived, gone, target,
                   pc, faults>>

(* _next.Process(): an error in it disposes the session.                   *)
ProcessNext ==
    /\ handler = "process"
    /\ \/ session' = TRUE /\ handler' = "synchronize" /\ UNCHANGED faults
       \/ session' = FALSE /\ handler' = "nack" /\ Fault
    /\ UNCHANGED <<state, heartbeat, cancellation, link, broker, message,
                   inOrder, pc>>

Accept ==
    inOrder' = IF message = inOrder + 1 THEN message ELSE inOrder

(* _next.Synchronize(): without a session there is nothing to do.  It may  *)
(* fail before or after the target has accepted the message.               *)
SynchronizeNext ==
    /\ handler = "synchronize"
    /\ session' = FALSE
    /\ \/ ~session /\ handler' = "ack" /\ UNCHANGED <<inOrder, faults>>
       \/ session /\ Accept /\ handler' = "ack" /\ UNCHANGED faults
       \/ session /\ Fault /\ handler' = "nack" /\ (Accept \/ UNCHANGED inOrder)
    /\ UNCHANGED <<state, heartbeat, cancellation, link, broker, message, pc>>

(* BasicAck throws on a channel that is not open.  A delivery tag of before*)
(* a recovery is dropped by the client library.                            *)
Ack ==
    /\ handler = "ack"
    /\ \/ /\ up /\ fresh
          /\ gone' = message
          /\ unacked' = 0
          /\ handler' = "free"
       \/ /\ ~(up /\ fresh)
          /\ handler' \in IF up THEN {"free", "nack"} ELSE {"nack"}
          /\ UNCHANGED <<gone, unacked>>
    /\ UNCHANGED <<state, heartbeat, cancellation, link, arrived, message,
                   fresh, target, pc, faults>>

(* NackMessage gives the message up without an answer when the consumer is *)
(* already disposed.                                                       *)
NackMessage ==
    /\ handler = "nack"
    /\ handler' = IF cancellation = "null" THEN "free" ELSE "nackwait"
    /\ UNCHANGED <<state, heartbeat, cancellation, link, broker, message, target,
                   pc, faults>>

(* Mutant: BasicNack with requeue = false.                                 *)
BasicNackDropping ==
    /\ handler = "nackwait"
    /\ handler' = "free"
    /\ IF cancellation = "unset" /\ up /\ fresh
       THEN gone' = message /\ unacked' = 0
       ELSE UNCHANGED <<gone, unacked>>
    /\ UNCHANGED <<state, heartbeat, cancellation, link, arrived, message,
                   fresh, target, pc, faults>>

(* The wait for the cancellation ends by it, or after a heartbeat; then    *)
(* the message is put back, if it still can be.                            *)
BasicNack ==
    /\ handler = "nackwait"
    /\ handler' = "free"
    /\ unacked' = IF cancellation = "unset" /\ up /\ fresh THEN 0 ELSE unacked
    /\ UNCHANGED <<state, heartbeat, cancellation, link, arrived, gone, message,
                   fresh, target, pc, faults>>

HandlerStep ==
    \/ ProcessNext \/ SynchronizeNext \/ Ack \/ NackMessage \/ BasicNack

-----------------------------------------------------------------------------
(* Dispose on the host thread.  Only an active consumer is disposed.  When *)
(* it is not active, a second test looks for a reset in progress, which is *)
(* waited for by calling Dispose again; otherwise Dispose returns.  Each   *)
(* test is an operation of its own, and the reset may end in between.      *)

CallDispose ==
    /\ At("host", "free")
    /\ Goto("host", "call")
    /\ UNCHANGED <<state, heartbeat, cancellation, link, broker, message,
                   target, handler, faults>>

(* Mutant: a reset in progress is not waited for.                          *)
DisposeAtOnce ==
    /\ At("host", "call")
    /\ IF state \in {"ACTIVE", "AUTORESET"}
       THEN state' = "DISPOSING" /\ Goto("host", "d.heartbeat")
       ELSE Goto("host", "poll") /\ UNCHANGED state
    /\ UNCHANGED <<heartbeat, cancellation, link, broker, message, target,
                   handler, faults>>

Dispose ==
    /\ At("host", "call")
    /\ IF state = "ACTIVE"
       THEN state' = "DISPOSING" /\ Goto("host", "d.heartbeat")
       ELSE Goto("host", "poll") /\ UNCHANGED state
    /\ UNCHANGED <<heartbeat, cancellation, link, broker, message, target,
                   handler, faults>>

PollReset ==
    /\ At("host", "poll")
    /\ Goto("host", IF state = "AUTORESET" THEN "call" ELSE "done")
    /\ UNCHANGED <<state, heartbeat, cancellation, link, broker, message, target,
                   handler, faults>>

(* Mutant: the next processor is disposed before the channel.              *)
DisposeNextFirst ==
    /\ At("host", "d.heartbeat")
    /\ heartbeat' = "null"
    /\ session' = FALSE
    /\ Goto("host", "d.cancel")
    /\ UNCHANGED <<state, cancellation, link, broker, message, inOrder, handler,
                   faults>>

DisposeHeartbeat ==
    /\ At("host", "d.heartbeat")
    /\ heartbeat' = "null"
    /\ Goto("host", "d.cancel")
    /\ UNCHANGED <<state, cancellation, link, broker, message, target, handler,
                   faults>>

DisposeNext ==
    /\ At("host", "d.next")
    /\ session' = FALSE
    /\ Goto("host", "d.signal")
    /\ UNCHANGED <<state, heartbeat, cancellation, link, broker, message,
                   inOrder, handler, faults>>

(* Mutant: the event is dropped without having been set.                   *)
SignalForgotten ==
    /\ At("host", "d.signal")
    /\ Goto("host", "d.null")
    /\ UNCHANGED <<state, heartbeat, cancellation, link, broker, message, target,
                   handler, faults>>

(* _cancellation?.Set() and the two assignments after it.                  *)
SignalCancellation ==
    /\ At("host", "d.signal")
    /\ cancellation' = IF cancellation = "null" THEN "null" ELSE "set"
    /\ pc' = [pc EXCEPT !["host"] = "d.null",
                        !["stream"] = IF @ = "waiting" /\ cancellation # "null"
                                      THEN "exited" ELSE @]
    /\ UNCHANGED <<state, heartbeat, link, broker, message, target, handler,
                   faults>>

NullCancellation ==
    /\ At("host", "d.null")
    /\ cancellation' = "null"
    /\ Goto("host", "d.idle")
    /\ UNCHANGED <<state, heartbeat, link, broker, message, target, handler,
                   faults>>

DisposeDone ==
    /\ At("host", "d.idle")
    /\ state' = "IDLE"
    /\ Goto("host", "done")
    /\ UNCHANGED <<heartbeat, cancellation, link, broker, message, target,
                   handler, faults>>

-----------------------------------------------------------------------------
(* The broker and the process around the consumer.                         *)

Publish ==
    /\ arrived < Total
    /\ arrived' = arrived + 1
    /\ UNCHANGED <<state, heartbeat, cancellation, link, gone, unacked, fresh,
                   message, target, pc, handler, faults>>

ConnectionLost ==
    /\ up
    /\ Fault
    /\ up' = FALSE
    /\ unacked' = 0
    /\ fresh' = FALSE
    /\ UNCHANGED <<state, heartbeat, cancellation, consumer, connection, live,
                   running, arrived, gone, message, target, pc, handler>>

(* The client library restores the connection and the consumer by itself.  *)
ConnectionRecovered ==
    /\ connection /\ ~up
    /\ up' = TRUE
    /\ UNCHANGED <<state, heartbeat, cancellation, consumer, connection, live,
                   running, broker, message, target, pc, handler, faults>>

(* The broker cancels the consumer, because its queue has moved.           *)
ConsumerCancelled ==
    /\ running /\ up
    /\ Fault
    /\ running' = FALSE
    /\ UNCHANGED <<state, heartbeat, cancellation, consumer, connection, live,
                   up, broker, message, target, pc, handler>>

(* The process is killed and started again.                                *)
Crash ==
    /\ Fault
    /\ state' = "IDLE"
    /\ heartbeat' = "null" /\ cancellation' = "null"
    /\ consumer' = FALSE /\ connection' = FALSE
    /\ live' = 0 /\ up' = FALSE /\ running' = FALSE
    /\ unacked' = 0 /\ message' = 0 /\ fresh' = FALSE
    /\ session' = FALSE
    /\ pc' = [stream |-> "start", timer |-> "free", host |-> "free"]
    /\ handler' = "free"
    /\ UNCHANGED <<arrived, gone, inOrder>>

-----------------------------------------------------------------------------
StreamStep ==
    \/ CanExecute \/ InitializeFails \/ CreateHeartbeat
    \/ ConfigureHeartbeat \/ CreateCancellation \/ StartHeartbeat \/ Wait
    \/ EnsureConsumerIsActive("stream")

TimerStep == Tick \/ EnsureConsumerIsActive("timer")

HostStep ==
    \/ Dispose \/ PollReset
    \/ DisposeHeartbeat \/ CancelConsumer("host") \/ CloseConnection("host")
    \/ DisposeNext \/ SignalCancellation \/ NullCancellation \/ DisposeDone

BrokerStep ==
    \/ Deliver \/ Publish \/ ConnectionLost \/ ConnectionRecovered
    \/ ConsumerCancelled \/ Crash

Run  == StreamStep \/ TimerStep \/ HandlerStep \/ BrokerStep
Next == Run \/ CallDispose \/ HostStep

Spec == Init /\ [][Next]_vars

(* Threads run, the timer keeps firing while it exists and the broker      *)
(* pushes what is in the queue.  Dispose polls every millisecond and a     *)
(* reset is rare: its tests do not meet one for ever.                      *)
Fairness ==
    /\ WF_vars(StreamStep) /\ WF_vars(TimerStep) /\ WF_vars(HandlerStep)
    /\ WF_vars(HostStep) /\ WF_vars(Deliver)
    /\ SF_vars(state # "AUTORESET" /\ (Dispose \/ PollReset))

FairSpec == Spec /\ Fairness

-----------------------------------------------------------------------------
(* The types of the variables.                                             *)
TypeOK ==
    /\ state \in {"IDLE", "ACTIVE", "AUTORESET", "DISPOSING"}
    /\ heartbeat \in {"null", "created", "started"}
    /\ cancellation \in {"null", "unset", "set"}
    /\ consumer \in BOOLEAN /\ connection \in BOOLEAN
    /\ live \in Int
    /\ up \in BOOLEAN /\ running \in BOOLEAN
    /\ arrived \in 0..Total
    /\ gone \in 0..arrived
    /\ unacked \in 0..arrived
    /\ message \in 0..arrived
    /\ fresh \in BOOLEAN /\ session \in BOOLEAN
    /\ inOrder \in 0..arrived
    /\ pc \in [Threads -> StreamPlaces \cup TimerPlaces \cup HostPlaces]
    /\ pc["stream"] \in StreamPlaces
    /\ pc["timer"] \in TimerPlaces
    /\ pc["host"] \in HostPlaces
    /\ handler \in {"free", "process", "synchronize", "ack", "nack", "nackwait"}
    /\ faults \in 0..MaxFaults

(* Three threads create, repair and close the connection, one at a time,   *)
(* so that none is forgotten: after Dispose no connection is left open.    *)
Owns(t) == pc[t] \in (Repairing \ {"reset"}) \cup Disposing

NoConnectionLeaks ==
    /\ \A t, u \in Threads : Owns(t) /\ Owns(u) => t = u
    /\ live = IF connection THEN 1 ELSE 0
    /\ At("host", "done") /\ state = "IDLE" => live = 0

(* A message leaves the queue only when the next processor has delivered   *)
(* it, even if the host drops the session in the middle: Dispose closes    *)
(* the channel first, and an acknowledgement cannot pass after that.       *)
NoLoss == gone <= inOrder

(* PrefetchCount = 1 "guarantees at-least-once-in-order".                  *)
Promise ==
    INSTANCE Delivery WITH gone <- gone, inOrder <- inOrder, Total <- Total
DeliversAtLeastOnceInOrder == Promise!Spec

(* Whatever fails, the heartbeat repairs the consumer and every message is *)
(* delivered and acknowledged, unless the host disposes the consumer or it *)
(* could not be initialized.                                               *)
EventuallyDelivered ==
    \A m \in 1..Total :
        (arrived >= m) ~> \/ gone >= m
                          \/ ~At("host", "free")
                          \/ At("stream", "crashed")

(* The stream thread is not in Process.                                    *)
Ended == pc["stream"] \in {"start", "exited", "crashed"}

(* Dispose "exits current thread": the stream thread leaves Process.       *)
DisposeEndsTheThread == At("host", "d.heartbeat") ~> Ended

(* The stream thread leaves Process once Dispose is called, if there is a  *)
(* cancellation for Dispose to signal, unless a reset in                   *)
(* EnsureConsumerIsActive, which made the first test of Dispose fail, has  *)
(* ended before the second one.                                            *)
DisposeEndsARunningThread ==
    At("host", "call") /\ cancellation # "null"
        ~> Ended \/ (At("host", "poll") /\ state = "ACTIVE")

(* Dispose returns, whatever the heartbeat is doing.                       *)
DisposeReturns ==
    At("host", "call") ~> pc["host"] \in {"free", "done"}

-----------------------------------------------------------------------------
(* Why NoConnectionLeaks and NoLoss hold: an inductive invariant, in parts.*)

(* _state says who works on the connection: AUTORESET the one thread that  *)
(* repairs it, DISPOSING the host.  It is IDLE before Process and after    *)
(* Dispose.                                                                *)
OwnerInv ==
    /\ \A t, u \in Threads : Owns(t) /\ Owns(u) => t = u
    /\ state = "AUTORESET" <=> Owns("stream") \/ Owns("timer")
    /\ state = "DISPOSING" <=> Owns("host")
    /\ At("stream", "start") => state = "IDLE"
    /\ pc["host"] \in {"free", "call", "poll"} =>
           (state = "IDLE" <=> At("stream", "start"))

(* A connection is opened when there is none, and none is left when the    *)
(* host gets to the next processor.                                        *)
ConnectionInv ==
    /\ live = IF connection THEN 1 ELSE 0
    /\ up => connection
    /\ state = "IDLE" => ~connection
    /\ \A t \in Threads :
          pc[t] \in {"connect", "d.next", "d.signal", "d.null", "d.idle"} =>
              ~connection

(* The message in the handler's hands is the head of the queue, on this    *)
(* channel or an earlier one.  A session is dropped only when the message  *)
(* can no longer be acknowledged, and what is about to be acknowledged on  *)
(* this channel has been delivered.                                        *)
MessageInv ==
    /\ fresh => up
    /\ handler # "free" => message = gone + 1
    /\ handler = "synchronize" /\ ~session => ~fresh
    /\ handler = "ack" /\ fresh => message <= inOrder
    /\ NoLoss

IInv == TypeOK /\ OwnerInv /\ ConnectionInv /\ MessageInv
=============================================================================
