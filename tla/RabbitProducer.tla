---------------------------- MODULE RabbitProducer ----------------------------
(***************************************************************************)
(* The RabbitMQ producer of DaJet Script, class                            *)
(* DaJet.Runtime.RabbitMQ.Producer, and the broker behind it.              *)
(*                                                                         *)
(* One object is entered by two threads: the stream thread calls Process   *)
(* and Synchronize (and Dispose from their error paths), the host thread   *)
(* calls Dispose at any moment.  Two further threads belong to the client  *)
(* library and the broker: they raise the events and settle the messages.  *)
(* Every read or write of _state, _connection and _channel that another    *)
(* thread can observe is a step of its own.                                *)
(*                                                                         *)
(* The module has no Init/Next of its own: ConsumeProcessor drives it.     *)
(***************************************************************************)
EXTENDS Integers, Sequences

CONSTANT MaxFaults  \* bound on the failures of the environment

ASSUME FaultsAssumption == MaxFaults \in Nat

Threads == {"stream", "host"}

VARIABLES
    state,       \* Producer._state
    connection,  \* Producer._connection: null, or an open or closed object
    channel,     \* are Producer._channel and ._properties non-null
    live,        \* connections opened and not yet closed by this process
    up,          \* the broker and the latest connection are connected
    shut,        \* a shutdown event of that connection is not yet raised
    nacked,      \* the channel has seen a nack since WaitForConfirms
    wire,        \* published on the channel, not yet settled by the broker
    inOrder,     \* the broker's log: 1..inOrder is a subsequence of it
    current,     \* the message the script variable holds (0 is null)
    pp,          \* where each thread is inside the producer's code
    result,      \* how the stream thread's latest call ended
    faults       \* failures so far

producerVars == <<state, connection, channel, live, up, shut, nacked, wire,
                  inOrder, current, pp, result, faults>>

States    == {"IDLE", "ACTIVE", "BROKEN", "DISPOSING"}
Locations == {"out", "check", "begin", "connect", "open", "verify", "send",
              "confirm", "active", "wait", "recheck",
              "d.check", "d.enter", "d.channel", "d.connection", "d.null",
              "d.leave"}

ProducerInit ==
    /\ state = "IDLE"
    /\ connection = "null" /\ channel = FALSE /\ live = 0
    /\ up = FALSE /\ shut = FALSE /\ nacked = FALSE
    /\ wire = <<>> /\ inOrder = 0
    /\ current = 0
    /\ pp = [t \in Threads |-> "out"]
    /\ result = "ok"
    /\ faults = 0

-----------------------------------------------------------------------------
(* Control.                                                                *)

At(t, l)   == pp[t] = l
Goto(t, l) == pp' = [pp EXCEPT ![t] = l]

(* An exception in Process or Synchronize: both dispose and rethrow.       *)
Throw(t) == Goto(t, "d.check") /\ result' = "error"

Fault == faults < MaxFaults /\ faults' = faults + 1

session == <<connection, channel, live, up, shut, nacked, wire, inOrder>>

-----------------------------------------------------------------------------
(* Process: ThrowIfSessionIsBroken, BeginSessionOrThrow,                   *)
(* PublishMessageOrThrow.                                                  *)

ThrowIfSessionIsBroken(t) ==
    /\ At(t, "check")
    /\ IF state = "BROKEN"
       THEN Throw(t)
       ELSE Goto(t, "begin") /\ UNCHANGED result
    /\ UNCHANGED <<state, session, current, faults>>

(* Mutant: an idle session is not activated.                               *)
BeginSessionInactive(t) ==
    /\ At(t, "begin")
    /\ Goto(t, IF state = "IDLE" THEN "connect" ELSE "verify")
    /\ UNCHANGED <<state, session, current, result, faults>>

BeginSession(t) ==
    /\ At(t, "begin")
    /\ IF state = "IDLE"
       THEN state' = "ACTIVE" /\ Goto(t, "connect")
       ELSE Goto(t, "verify") /\ UNCHANGED state
    /\ UNCHANGED <<session, current, result, faults>>

InitializeConnection(t) ==
    /\ At(t, "connect")
    /\ \/ /\ connection' = "open"
          /\ live' = live + 1
          /\ up' = TRUE
          /\ shut' = FALSE
          /\ Goto(t, "open")
          /\ UNCHANGED <<result, faults>>
       \/ /\ Fault       \* the broker cannot be reached
          /\ Throw(t)
          /\ UNCHANGED <<connection, live, up, shut>>
    /\ UNCHANGED <<state, channel, nacked, wire, inOrder, current>>

InitializeChannel(t) ==
    /\ At(t, "open")
    /\ IF connection = "open" /\ up
       THEN /\ channel' = TRUE
            /\ nacked' = FALSE
            /\ Goto(t, "verify")
            /\ UNCHANGED result
       ELSE /\ Throw(t)  \* null reference, or the connection is closed
            /\ UNCHANGED <<channel, nacked>>
    /\ UNCHANGED <<state, connection, live, up, shut, wire, inOrder, current,
                   faults>>

VerifyActive(t) ==
    /\ At(t, "verify")
    /\ IF state = "ACTIVE"
       THEN Goto(t, "send") /\ UNCHANGED result
       ELSE Throw(t)
    /\ UNCHANGED <<state, session, current, faults>>

PublishMessage(t) ==
    /\ At(t, "send")
    /\ IF channel /\ up
       THEN /\ wire' = Append(wire, current)
            /\ Goto(t, "out")
            /\ result' = "ok"
       ELSE /\ Throw(t)
            /\ UNCHANGED wire
    /\ UNCHANGED <<state, connection, channel, live, up, shut, nacked,
                   inOrder, current, faults>>

-----------------------------------------------------------------------------
(* Synchronize: ThrowIfSessionIsBroken, ConfirmSessionOrThrow and, whatever*)
(* the outcome, Dispose.                                                   *)

SynchronizeThrowIfBroken(t) ==
    /\ At(t, "confirm")
    /\ IF state = "BROKEN"
       THEN Throw(t)
       ELSE Goto(t, "active") /\ UNCHANGED result
    /\ UNCHANGED <<state, session, current, faults>>

(* Only an ACTIVE session is confirmed; IDLE and DISPOSING pass silently.  *)
ConfirmSession(t) ==
    /\ At(t, "active")
    /\ IF state = "ACTIVE"
       THEN Goto(t, "wait") /\ UNCHANGED result
       ELSE Goto(t, "d.check") /\ result' = "ok"
    /\ UNCHANGED <<state, session, current, faults>>

(* Mutant: the answer of WaitForConfirms is ignored.                       *)
WaitForConfirmsUnchecked(t) ==
    /\ At(t, "wait")
    /\ \/ ~(channel /\ up) /\ Throw(t) /\ UNCHANGED nacked
       \/ /\ channel /\ up /\ wire = <<>>
          /\ nacked' = FALSE
          /\ Goto(t, "recheck")
          /\ UNCHANGED result
    /\ UNCHANGED <<state, connection, channel, live, up, shut, wire, inOrder,
                   current, faults>>

(* WaitForConfirms blocks until everything published on the channel is     *)
(* settled; it throws when the channel is null or closed, and returns      *)
(* FALSE when one of the messages was nacked.                              *)
WaitForConfirms(t) ==
    /\ At(t, "wait")
    /\ \/ /\ ~(channel /\ up)
          /\ Throw(t)
          /\ UNCHANGED nacked
       \/ /\ channel /\ up /\ wire = <<>>
          /\ nacked' = FALSE
          /\ IF nacked
             THEN Throw(t)
             ELSE Goto(t, "recheck") /\ UNCHANGED result
    /\ UNCHANGED <<state, connection, channel, live, up, shut, wire, inOrder,
                   current, faults>>

RecheckBroken(t) ==
    /\ At(t, "recheck")
    /\ Goto(t, "d.check")
    /\ result' = IF state = "BROKEN" THEN "error" ELSE "ok"
    /\ UNCHANGED <<state, session, current, faults>>

-----------------------------------------------------------------------------
(* Dispose, entered by either thread.  The test for DISPOSING and the      *)
(* assignment of DISPOSING are two separate interlocked operations.        *)

DisposeCheck(t) ==
    /\ At(t, "d.check")
    /\ Goto(t, IF state = "DISPOSING" THEN "out" ELSE "d.enter")
    /\ UNCHANGED <<state, session, current, result, faults>>

DisposeEnter(t) ==
    /\ At(t, "d.enter")
    /\ state' = "DISPOSING"
    /\ Goto(t, "d.channel")
    /\ UNCHANGED <<session, current, result, faults>>

(* Mutant: the channel is aborted, without a handshake.                    *)
DisposeChannelAborted(t) ==
    /\ At(t, "d.channel")
    /\ channel' = FALSE
    /\ nacked' = FALSE
    /\ Goto(t, "d.connection")
    /\ UNCHANGED <<state, connection, live, up, shut, wire, inOrder, current,
                   result, faults>>

(* Closing an open channel is a handshake: the broker answers after it has *)
(* settled everything published before.                                    *)
DisposeChannel(t) ==
    /\ At(t, "d.channel")
    /\ channel /\ up => wire = <<>>
    /\ channel' = FALSE
    /\ nacked' = FALSE
    /\ Goto(t, "d.connection")
    /\ UNCHANGED <<state, connection, live, up, shut, wire, inOrder, current,
                   result, faults>>

DisposeConnection(t) ==
    /\ At(t, "d.connection")
    /\ IF connection = "open"
       THEN /\ connection' = "closed"
            /\ live' = live - 1
            /\ up' = FALSE
            /\ shut' = FALSE
            /\ wire' = <<>>
       ELSE UNCHANGED <<connection, live, up, shut, wire>>
    /\ Goto(t, "d.null")
    /\ UNCHANGED <<state, channel, nacked, inOrder, current, result, faults>>

DisposeNull(t) ==
    /\ At(t, "d.null")
    /\ connection' = "null"
    /\ Goto(t, "d.leave")
    /\ UNCHANGED <<state, channel, live, up, shut, nacked, wire, inOrder,
                   current, result, faults>>

(* Mutant: the producer is not made idle again.                            *)
DisposeLeaveStuck(t) ==
    /\ At(t, "d.leave")
    /\ Goto(t, "out")
    /\ UNCHANGED <<state, session, current, result, faults>>

DisposeLeave(t) ==
    /\ At(t, "d.leave")
    /\ state' = "IDLE"
    /\ Goto(t, "out")
    /\ UNCHANGED <<session, current, result, faults>>

ProducerStep(t) ==
    \/ ThrowIfSessionIsBroken(t) \/ BeginSession(t)
    \/ InitializeConnection(t) \/ InitializeChannel(t)
    \/ VerifyActive(t) \/ PublishMessage(t)
    \/ SynchronizeThrowIfBroken(t) \/ ConfirmSession(t)
    \/ WaitForConfirms(t) \/ RecheckBroken(t)
    \/ DisposeCheck(t) \/ DisposeEnter(t) \/ DisposeChannel(t)
    \/ DisposeConnection(t) \/ DisposeNull(t) \/ DisposeLeave(t)

-----------------------------------------------------------------------------
(* The broker and the client library's connection thread.                  *)

SetSessionToBroken ==
    state' = IF state = "ACTIVE" THEN "BROKEN" ELSE state

(* The broker settles messages in the order of the channel.                *)
BrokerAck ==
    /\ wire # <<>>
    /\ wire' = Tail(wire)
    /\ inOrder' = IF Head(wire) = inOrder + 1 THEN Head(wire) ELSE inOrder
    /\ UNCHANGED <<state, connection, channel, live, up, shut, nacked,
                   current, pp, result, faults>>

BrokerNack ==
    /\ wire # <<>>
    /\ Fault
    /\ wire' = Tail(wire)
    /\ nacked' = TRUE
    /\ UNCHANGED <<state, connection, channel, live, up, shut, inOrder,
                   current, pp, result>>

(* An unroutable mandatory message is returned, then acknowledged.         *)
BasicReturn ==
    /\ wire # <<>>
    /\ Fault
    /\ wire' = Tail(wire)
    /\ SetSessionToBroken
    /\ UNCHANGED <<connection, channel, live, up, shut, nacked, inOrder,
                   current, pp, result>>

ConnectionBlocked ==
    /\ connection = "open" /\ up
    /\ Fault
    /\ SetSessionToBroken
    /\ UNCHANGED <<session, current, pp, result>>

(* The connection is lost, and with it every message not yet settled.      *)
ConnectionLost ==
    /\ connection = "open" /\ up
    /\ Fault
    /\ up' = FALSE
    /\ shut' = TRUE
    /\ wire' = <<>>
    /\ UNCHANGED <<state, connection, channel, live, nacked, inOrder,
                   current, pp, result>>

(* Only then does the client library raise the shutdown events.            *)
ConnectionShutdown ==
    /\ shut
    /\ shut' = FALSE
    /\ SetSessionToBroken
    /\ UNCHANGED <<connection, channel, live, up, nacked, wire, inOrder,
                   current, pp, result, faults>>

(* The client library reconnects by itself: the same objects are usable    *)
(* again, with no memory of the messages that were lost.                   *)
ConnectionRecovered ==
    /\ connection = "open" /\ ~up /\ ~shut
    /\ up' = TRUE
    /\ nacked' = FALSE
    /\ UNCHANGED <<state, connection, channel, live, shut, wire, inOrder,
                   current, pp, result, faults>>

BrokerStep ==
    \/ BrokerAck \/ BrokerNack \/ BasicReturn \/ ConnectionBlocked
    \/ ConnectionLost \/ ConnectionShutdown \/ ConnectionRecovered
=============================================================================
