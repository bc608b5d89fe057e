------------------------ MODULE ConsumeProcessorProofs ------------------------
(***************************************************************************)
(* What ConsumeProcessor guarantees for every number of rows, every batch  *)
(* size and every number of failures, proved from the inductive invariant  *)
(* IInv of that module.  The subject is the stream that nobody stops and   *)
(* whose session no event breaks between the two tests of Synchronize      *)
(* (QuietRunSpec): outside of it NoLoss is false.                          *)
(***************************************************************************)
EXTENDS ConsumeProcessor, TLAPS

(* What a step of the broker or inside the producer leaves alone.          *)
CallerUnchanged == UNCHANGED <<db, cstate, sleep, pc, hpc>>

-----------------------------------------------------------------------------
(* The initial state satisfies the inductive invariant.                    *)
LEMMA InitImpliesIInv == Init => IInv
  <1> SUFFICES ASSUME Init PROVE IInv
    OBVIOUS
  <1>1. pp \in [Threads -> Locations] /\ pp["stream"] = "out" /\ pp["host"] = "out"
    BY DEF Init, ProducerInit, Threads, Locations
  <1>2. wire \in Seq(1..Total) /\ Len(wire) = 0
    BY DEF Init, ProducerInit
  <1>3. channel \in BOOLEAN /\ up \in BOOLEAN /\ shut \in BOOLEAN /\ nacked \in BOOLEAN
    BY DEF Init, ProducerInit
  <1>4. TypeOK
    BY <1>1, <1>2, <1>3, FaultsAssumption, BatchAssumption
    DEF TypeOK, Init, ProducerInit, StreamLocations, HostLocations, States
  <1>5. QED
    BY <1>1, <1>2, <1>4, FaultsAssumption, BatchAssumption
    DEF Init, ProducerInit, IInv, TypeOK, ControlInv, CallInv, ConnectionInv,
        SessionInv, DeliveryInv, NoLoss, AtMostOneBatchTwice, Publishing, Confirming,
        Closing, Disposing, NoSession, InSession, Sent, StreamAt, At

(* Every step of the stream thread inside the producer preserves it.       *)
LEMMA ProducerPreservesIInv ==
  ASSUME IInv, ProducerStep("stream"), CallerUnchanged, Quiet
  PROVE  IInv'
  <1> USE FaultsAssumption, BatchAssumption
      DEF Publishing, Confirming, Closing, Disposing, StreamAt, At, Goto,
          Call, Finally, Throw, Fault, session, db, producerVars, Threads,
          Locations, StreamLocations, HostLocations, States,
          SetSessionToBroken, CallerUnchanged, IInv, TypeOK, ControlInv,
          CallInv, ConnectionInv, SessionInv, DeliveryInv, NoLoss,
          AtMostOneBatchTwice, Sent, NoSession, InSession, Quiet
  <1>1. CASE ThrowIfSessionIsBroken("stream")
    BY <1>1, SMTT(60) DEF ThrowIfSessionIsBroken
  <1>2. CASE BeginSession("stream")
    BY <1>2, SMTT(60) DEF BeginSession
  <1>3. CASE InitializeConnection("stream")
    <2>1. /\ channel' \in BOOLEAN /\ up' \in BOOLEAN
          /\ shut' \in BOOLEAN /\ nacked' \in BOOLEAN
      BY <1>3 DEF InitializeConnection
    <2>2. wire' \in Seq(1..Total)
      BY <1>3 DEF InitializeConnection
    <2>3. QED
      BY <1>3, <2>1, <2>2, SMTT(60) DEF InitializeConnection
  <1>4. CASE InitializeChannel("stream")
    <2>1. /\ channel' \in BOOLEAN /\ up' \in BOOLEAN
          /\ shut' \in BOOLEAN /\ nacked' \in BOOLEAN
      BY <1>4 DEF InitializeChannel
    <2>2. wire' \in Seq(1..Total)
      BY <1>4 DEF InitializeChannel
    <2>3. QED
      BY <1>4, <2>1, <2>2, SMTT(60) DEF InitializeChannel
  <1>5. CASE VerifyActive("stream")
    BY <1>5, SMTT(60) DEF VerifyActive
  <1>6. CASE PublishMessage("stream")
    <2> USE <1>6 DEF PublishMessage
    <2>1. CASE channel /\ up
      <3> DEFINE sent == Append(wire, current)
      <3>1. /\ wire' = sent /\ result' = "ok"
            /\ pp' = [pp EXCEPT !["stream"] = "out"]
        BY <2>1
      <3>2. current \in 1..Total /\ current = read
        OBVIOUS
      <3>3. sent \in Seq(1..Total)
        BY <3>2
      <3>4. /\ Len(sent) = Len(wire) + 1 /\ sent[Len(wire) + 1] = read
            /\ \A i \in 1..Len(wire) : sent[i] = wire[i]
        BY <3>2
      <3>5. Sent = read - 1 /\ Sent' = read
        BY <3>1
      <3>6. \A i \in 1..Len(sent) : i \in 1..Len(wire) \/ i = Len(wire) + 1
        BY <3>4
      <3>7. \A i \in 1..Len(sent) : sent[i] \in (gone + 1)..batch
        BY <3>4, <3>6
      <3> HIDE DEF sent
      <3>8. TypeOK'
        BY <3>1, <3>3, SMTT(60)
      <3>9. ControlInv' /\ ConnectionInv' /\ SessionInv'
        BY <2>1, <3>1, <3>4, SMTT(60)
      <3>10. DeliveryInv'
        <4>1. Sent' - Len(sent) = Sent - Len(wire)
          BY <3>4, <3>5
        <4>2. ASSUME pp'["stream"] \notin Disposing, state' = "ACTIVE",
                     channel', up', ~nacked'
              PROVE  /\ Sent' - Len(sent) <= inOrder'
                     /\ \A i \in 1..Len(sent) : sent[i] = Sent' - Len(sent) + i
          <5>1. /\ Sent - Len(wire) <= inOrder
                /\ \A i \in 1..Len(wire) : wire[i] = Sent - Len(wire) + i
            BY <4>2, SMTT(60)
          <5>2. ASSUME NEW i \in 1..Len(sent)
                PROVE  sent[i] = Sent' - Len(sent) + i
            <6>1. CASE i \in 1..Len(wire)
              BY <3>4, <4>1, <5>1, <6>1
            <6>2. CASE i = Len(wire) + 1
              BY <3>4, <3>5, <6>2
            <6>3. QED
              BY <3>6, <6>1, <6>2
          <5>3. inOrder' = inOrder
            OBVIOUS
          <5>4. QED
            BY <4>1, <5>1, <5>2, <5>3
        <4>3. /\ ~At("stream", "recheck")' /\ pc' = "process"
              /\ UNCHANGED <<gone, batch>> /\ batch <= gone + BatchSize
          BY <3>1
        <4>4. QED
          BY <3>1, <3>7, <4>2, <4>3
      <3>11. NoLoss' /\ AtMostOneBatchTwice'
        OBVIOUS
      <3>12. QED
        BY <3>8, <3>9, <3>10, <3>11
    <2>2. CASE ~(channel /\ up)
      BY <2>2, SMTT(60)
    <2>3. QED
      BY <2>1, <2>2
  <1>7. CASE SynchronizeThrowIfBroken("stream")
    BY <1>7, SMTT(60) DEF SynchronizeThrowIfBroken
  <1>8. CASE ConfirmSession("stream")
    BY <1>8, SMTT(60) DEF ConfirmSession
  <1>9. CASE WaitForConfirms("stream")
    <2>1. /\ channel' \in BOOLEAN /\ up' \in BOOLEAN
          /\ shut' \in BOOLEAN /\ nacked' \in BOOLEAN
      BY <1>9 DEF WaitForConfirms
    <2>2. wire' \in Seq(1..Total)
      BY <1>9 DEF WaitForConfirms
    <2>3. QED
      BY <1>9, <2>1, <2>2, SMTT(60) DEF WaitForConfirms
  <1>10. CASE RecheckBroken("stream")
    BY <1>10, SMTT(60) DEF RecheckBroken
  <1>11. CASE DisposeCheck("stream")
    BY <1>11, SMTT(60) DEF DisposeCheck
  <1>12. CASE DisposeEnter("stream")
    BY <1>12, SMTT(60) DEF DisposeEnter
  <1>13. CASE DisposeChannel("stream")
    <2>1. /\ channel' \in BOOLEAN /\ up' \in BOOLEAN
          /\ shut' \in BOOLEAN /\ nacked' \in BOOLEAN
      BY <1>13 DEF DisposeChannel
    <2>2. wire' \in Seq(1..Total)
      BY <1>13 DEF DisposeChannel
    <2>3. QED
      BY <1>13, <2>1, <2>2, SMTT(60) DEF DisposeChannel
  <1>14. CASE DisposeConnection("stream")
    <2>1. /\ channel' \in BOOLEAN /\ up' \in BOOLEAN
          /\ shut' \in BOOLEAN /\ nacked' \in BOOLEAN
      BY <1>14 DEF DisposeConnection
    <2>2. wire' \in Seq(1..Total)
      <3>1. wire' = wire \/ wire' = <<>>
        BY <1>14 DEF DisposeConnection
      <3>2. wire \in Seq(1..Total) /\ <<>> \in Seq(1..Total)
        OBVIOUS
      <3>3. QED
        BY <3>1, <3>2, Zenon
    <2>3. QED
      BY <1>14, <2>1, <2>2, SMTT(60) DEF DisposeConnection
  <1>15. CASE DisposeNull("stream")
    BY <1>15, SMTT(60) DEF DisposeNull
  <1>16. CASE DisposeLeave("stream")
    BY <1>16, SMTT(60) DEF DisposeLeave
  <1>17. QED
    BY <1>1, <1>2, <1>3, <1>4, <1>5, <1>6, <1>7, <1>8, <1>9, <1>10, <1>11,
          <1>12, <1>13, <1>14, <1>15, <1>16 DEF ProducerStep

(* Every step of the broker and of the connection thread preserves it.     *)
LEMMA BrokerPreservesIInv ==
  ASSUME IInv, BrokerStep, CallerUnchanged, Quiet
  PROVE  IInv'
  <1> USE FaultsAssumption, BatchAssumption
      DEF Publishing, Confirming, Closing, Disposing, StreamAt, At, Goto,
          Call, Finally, Throw, Fault, session, db, producerVars, Threads,
          Locations, StreamLocations, HostLocations, States,
          SetSessionToBroken, CallerUnchanged, IInv, TypeOK, ControlInv,
          CallInv, ConnectionInv, SessionInv, DeliveryInv, NoLoss,
          AtMostOneBatchTwice, Sent, NoSession, InSession, Quiet
  <1>1. CASE BrokerAck
    BY <1>1, SMTT(60) DEF BrokerAck
  <1>2. CASE BrokerNack
    BY <1>2, SMTT(60) DEF BrokerNack
  <1>3. CASE BasicReturn
    BY <1>3, SMTT(60) DEF BasicReturn
  <1>4. CASE ConnectionBlocked
    BY <1>4, SMTT(60) DEF ConnectionBlocked
  <1>5. CASE ConnectionLost
    <2>1. /\ channel' \in BOOLEAN /\ up' \in BOOLEAN
          /\ shut' \in BOOLEAN /\ nacked' \in BOOLEAN
      BY <1>5 DEF ConnectionLost
    <2>2. wire' \in Seq(1..Total)
      BY <1>5 DEF ConnectionLost
    <2>3. QED
      BY <1>5, <2>1, <2>2, SMTT(60) DEF ConnectionLost
  <1>6. CASE ConnectionShutdown
    <2>1. /\ channel' \in BOOLEAN /\ up' \in BOOLEAN
          /\ shut' \in BOOLEAN /\ nacked' \in BOOLEAN
      BY <1>6 DEF ConnectionShutdown
    <2>2. wire' \in Seq(1..Total)
      BY <1>6 DEF ConnectionShutdown
    <2>3. QED
      BY <1>6, <2>1, <2>2, SMTT(60) DEF ConnectionShutdown
  <1>7. CASE ConnectionRecovered
    <2>1. /\ channel' \in BOOLEAN /\ up' \in BOOLEAN
          /\ shut' \in BOOLEAN /\ nacked' \in BOOLEAN
      BY <1>7 DEF ConnectionRecovered
    <2>2. wire' \in Seq(1..Total)
      BY <1>7 DEF ConnectionRecovered
    <2>3. QED
      BY <1>7, <2>1, <2>2, SMTT(60) DEF ConnectionRecovered
  <1>8. QED
    BY <1>1, <1>2, <1>3, <1>4, <1>5, <1>6, <1>7 DEF BrokerStep

(* Every step of ConsumeProcessor on the stream thread preserves it.       *)
LEMMA StreamPreservesIInv ==
  ASSUME IInv, StreamStep, Quiet
  PROVE  IInv'
  <1> USE FaultsAssumption, BatchAssumption
      DEF Publishing, Confirming, Closing, Disposing, StreamAt, At, Goto,
          Call, Finally, Throw, Fault, session, db, producerVars, Threads,
          Locations, StreamLocations, HostLocations, States,
          SetSessionToBroken, CallerUnchanged, IInv, TypeOK, ControlInv,
          CallInv, ConnectionInv, SessionInv, DeliveryInv, NoLoss,
          AtMostOneBatchTwice, Sent, NoSession, InSession, Quiet
  <1>1. CASE CanExecute
    BY <1>1, SMTT(60) DEF CanExecute
  <1>2. CASE CreateSleep
    BY <1>2, SMTT(60) DEF CreateSleep
  <1>3. CASE Loop
    BY <1>3, SMTT(60) DEF Loop
  <1>4. CASE BeginTransaction
    BY <1>4, SMTT(60) DEF BeginTransaction
  <1>5. CASE ReadRow
    BY <1>5, SMTT(60) DEF ReadRow
  <1>6. CASE ProcessReturned
    BY <1>6, SMTT(60) DEF ProcessReturned
  <1>7. CASE SubmitBatch
    BY <1>7, SMTT(60) DEF SubmitBatch
  <1>8. CASE SynchronizeReturned
    BY <1>8, SMTT(60) DEF SynchronizeReturned
  <1>9. CASE Commit
    BY <1>9, SMTT(60) DEF Commit
  <1>10. CASE Again
    BY <1>10, SMTT(60) DEF Again
  <1>11. CASE Rollback
    BY <1>11, SMTT(60) DEF Rollback
  <1>12. CASE DisposeReturned
    BY <1>12, SMTT(60) DEF DisposeReturned
  <1>13. CASE Pause
    BY <1>13, SMTT(60) DEF Pause
  <1>14. CASE Wait
    BY <1>14, SMTT(60) DEF Wait
  <1>15. CASE Timeout
    BY <1>15, SMTT(60) DEF Timeout
  <1>16. CASE /\ ProducerStep("stream")
              /\ UNCHANGED <<db, cstate, sleep, pc, hpc>>
    BY <1>16, ProducerPreservesIInv
  <1>17. QED
    BY <1>1, <1>2, <1>3, <1>4, <1>5, <1>6, <1>7, <1>8, <1>9, <1>10, <1>11,
          <1>12, <1>13, <1>14, <1>15, <1>16 DEF StreamStep

(* The arrival of a row and a crash of the process preserve it.            *)
LEMMA WorldPreservesIInv ==
  ASSUME IInv, Arrive \/ Crash
  PROVE  IInv'
  <1> USE FaultsAssumption, BatchAssumption
      DEF Publishing, Confirming, Closing, Disposing, StreamAt, At, Goto,
          Call, Finally, Throw, Fault, session, db, producerVars, Threads,
          Locations, StreamLocations, HostLocations, States,
          SetSessionToBroken, CallerUnchanged, IInv, TypeOK, ControlInv,
          CallInv, ConnectionInv, SessionInv, DeliveryInv, NoLoss,
          AtMostOneBatchTwice, Sent, NoSession, InSession, Quiet
  <1>1. CASE Arrive
    BY <1>1, SMTT(60) DEF Arrive
  <1>2. CASE Crash
    <2>1. /\ pp' \in [Threads -> Locations]
          /\ pp'["stream"] = "out" /\ pp'["host"] = "out"
      BY <1>2 DEF Crash
    <2>2. /\ channel' \in BOOLEAN /\ up' \in BOOLEAN
          /\ shut' \in BOOLEAN /\ nacked' \in BOOLEAN
      BY <1>2 DEF Crash
    <2>3. wire' \in Seq(1..Total)
      BY <1>2 DEF Crash
    <2>4. QED
      BY <1>2, <2>1, <2>2, <2>3, SMTT(60) DEF Crash
  <1>3. QED
    BY <1>1, <1>2

(* So does every step of a quiet run, and stuttering.                      *)
LEMMA NextPreservesIInv == IInv /\ [Run /\ Quiet]_vars => IInv'
  <1> SUFFICES ASSUME IInv, [Run /\ Quiet]_vars PROVE IInv'
    OBVIOUS
  <1>1. CASE StreamStep /\ Quiet
    BY <1>1, StreamPreservesIInv
  <1>2. CASE Broker /\ Quiet
    BY <1>2, BrokerPreservesIInv DEF Broker, CallerUnchanged
  <1>3. CASE Arrive \/ Crash
    BY <1>3, WorldPreservesIInv
  <1>4. CASE UNCHANGED vars
    BY <1>4
    DEF vars, producerVars, IInv, TypeOK, ControlInv, CallInv, ConnectionInv,
        SessionInv, DeliveryInv, NoLoss, AtMostOneBatchTwice, NoSession, InSession, Sent,
        StreamAt, At
  <1>5. QED
    BY <1>1, <1>2, <1>3, <1>4 DEF Run

(* The inductive invariant holds of every quiet run.                       *)
THEOREM Invariance == QuietRunSpec => []IInv
  BY InitImpliesIInv, NextPreservesIInv, PTL DEF QuietRunSpec

-----------------------------------------------------------------------------
(* Every variable keeps its type, the session's fields included.           *)
THEOREM TypeCorrect == QuietRunSpec => []TypeOK
  <1>1. IInv => TypeOK
    BY DEF IInv
  <1>2. QED
    BY <1>1, Invariance, PTL

(* No row is deleted by a committed transaction of ConsumeProcessor.Consume*)
(* before the broker has accepted it and all its predecessors.             *)
THEOREM RowsAreNotLost == QuietRunSpec => []NoLoss
  <1>1. IInv => NoLoss
    BY DEF IInv
  <1>2. QED
    BY <1>1, Invariance, PTL

(* At most the rows of one batch are ever sent again.                      *)
THEOREM DuplicatesAreBounded == QuietRunSpec => []AtMostOneBatchTwice
  <1>1. IInv => AtMostOneBatchTwice
    BY DEF IInv
  <1>2. QED
    BY <1>1, Invariance, PTL

(* Whatever step of a batch fails, the producer is left without session,   *)
(* connection or messages before the stream thread pauses.                 *)
THEOREM ProducerIsReusable == QuietRunSpec => []ReusableBetweenBatches
  <1>1. IInv => ReusableBetweenBatches
    BY DEF IInv, SessionInv, NoSession, StreamAt, At, ReusableBetweenBatches
  <1>2. QED
    BY <1>1, Invariance, PTL

-----------------------------------------------------------------------------
(* A step of the stream changes nothing the promise speaks of, or is one of*)
(* its two actions.                                                        *)
LEMMA StepImplementsPromise ==
  ASSUME IInv, [Run /\ Quiet]_vars
  PROVE  [Promise!Next]_<<gone, inOrder>>
  <1>1. CASE Commit
    <2>1. gone' = gone \/ gone' = batch
      BY <1>1 DEF Commit
    <2>2. CASE gone' = batch /\ batch # gone
      <3>1. batch \in (gone + 1)..Total /\ batch <= inOrder /\ inOrder' = inOrder
        BY <1>1, <2>2, BatchAssumption
        DEF Commit, StreamAt, session, IInv, TypeOK, DeliveryInv
      <3>2. QED
        BY <2>2, <3>1 DEF Promise!Next, Promise!Forget
    <2>3. CASE gone' = gone
      BY <1>1, <2>3 DEF Commit, session
    <2>4. QED
      BY <2>1, <2>2, <2>3
  <1>2. CASE Broker /\ BrokerAck
    <2>1. Head(wire) = wire[1] /\ 1 \in 1..Len(wire)
      BY <1>2 DEF BrokerAck, IInv, TypeOK
    <2>2. Head(wire) \in (gone + 1)..Total
      BY <2>1, BatchAssumption DEF IInv, TypeOK, DeliveryInv
    <2>3. QED
      BY <1>2, <2>2
      DEF Broker, BrokerAck, db, Promise!Next, Promise!Accept
  <1>3. CASE Broker /\ ~BrokerAck
    BY <1>3
    DEF Broker, BrokerStep, db, BrokerNack, BasicReturn, ConnectionBlocked,
        ConnectionLost, ConnectionShutdown, ConnectionRecovered, session
  <1>4. CASE StreamStep /\ ~Commit
    <2>1. CASE ProducerStep("stream") /\ UNCHANGED <<db, cstate, sleep, pc, hpc>>
      BY <2>1
      DEF ProducerStep, db, session, ThrowIfSessionIsBroken, BeginSession,
          InitializeConnection, InitializeChannel, VerifyActive,
          PublishMessage, SynchronizeThrowIfBroken, ConfirmSession,
          WaitForConfirms, RecheckBroken, DisposeCheck, DisposeEnter,
          DisposeChannel, DisposeConnection, DisposeNull, DisposeLeave
    <2>2. CASE ~(ProducerStep("stream") /\ UNCHANGED <<db, cstate, sleep, pc, hpc>>)
      BY <1>4, <2>2
      DEF StreamStep, db, session, producerVars, CanExecute, CreateSleep, Loop,
          BeginTransaction, ReadRow, ProcessReturned, SubmitBatch,
          SynchronizeReturned, Again, Rollback, DisposeReturned, Pause, Wait,
          Timeout
    <2>3. QED
      BY <2>1, <2>2
  <1>5. CASE Arrive \/ Crash
    BY <1>5 DEF Arrive, Crash, producerVars
  <1>6. CASE UNCHANGED vars
    BY <1>6 DEF vars, producerVars
  <1>7. QED
    BY <1>1, <1>2, <1>3, <1>4, <1>5, <1>6 DEF Run

(* The stream delivers at least once and in order: it implements Delivery. *)
THEOREM StreamKeepsItsPromise == QuietRunSpec => DeliversAtLeastOnceInOrder
  <1>1. Init => Promise!Init
    BY DEF Init, ProducerInit, Promise!Init
  <1>2. QED
    BY <1>1, StepImplementsPromise, Invariance, PTL
    DEF QuietRunSpec, DeliversAtLeastOnceInOrder, Promise!Spec,
        Promise!deliveryVars
=============================================================================
