-------------------------- MODULE ConsumeStopProofs --------------------------
(***************************************************************************)
(* ConsumeProcessor with a host that disposes it at any moment, proved     *)
(* from the inductive invariant StopInv of that module for every number of *)
(* rows, every batch size and every bound on the failures.                 *)
(***************************************************************************)
EXTENDS ConsumeProcessorProofs

(* The two parts of StopInv: what holds whatever fails, and what holds     *)
(* while nothing fails.                                                    *)
CallsInv == TypeOK /\ CallInv /\ HostInv
FlowInv  == SoundInv /\ UndisturbedInv /\ CloseInv /\ OrderInv

-----------------------------------------------------------------------------
(* The stream thread inside the producer.                                  *)
LEMMA ProducerKeepsCalls ==
  ASSUME CallsInv, ProducerStep("stream"), CallerUnchanged
  PROVE  CallsInv'
  <1> USE FaultsAssumption, BatchAssumption
      DEF Publishing, Confirming, Closing, Disposing, StreamAt, At, Goto,
          Call, Finally, Throw, Fault, session, db, producerVars, Threads,
          Locations, StreamLocations, HostLocations, States,
          SetSessionToBroken, CallerUnchanged, CallsInv, TypeOK, CallInv,
          HostInv
  <1>1. CASE ThrowIfSessionIsBroken("stream")
    BY <1>1, SMTT(60) DEF ThrowIfSessionIsBroken
  <1>2. CASE BeginSession("stream")
    BY <1>2, SMTT(60) DEF BeginSession
  <1>3. CASE InitializeConnection("stream")
    <2>1. /\ channel' \in BOOLEAN /\ up' \in BOOLEAN
          /\ shut' \in BOOLEAN /\ nacked' \in BOOLEAN
      BY <1>3 DEF InitializeConnection
    <2>2. wire' \in Seq(1..Total)
      BY <1>3 DEF InitializeConnection
    <2>3. QED
      BY <1>3, <2>1, <2>2, SMTT(60) DEF InitializeConnection
  <1>4. CASE InitializeChannel("stream")
    <2>1. /\ channel' \in BOOLEAN /\ up' \in BOOLEAN
          /\ shut' \in BOOLEAN /\ nacked' \in BOOLEAN
      BY <1>4 DEF InitializeChannel
    <2>2. wire' \in Seq(1..Total)
      BY <1>4 DEF InitializeChannel
    <2>3. QED
      BY <1>4, <2>1, <2>2, SMTT(60) DEF InitializeChannel
  <1>5. CASE VerifyActive("stream")
    BY <1>5, SMTT(60) DEF VerifyActive
  <1>6. CASE PublishMessage("stream")
    <2>1. wire' \in Seq(1..Total)
      <3>1. current \in 1..Total /\ wire \in Seq(1..Total)
        BY <1>6 DEF PublishMessage
      <3>2. wire' \in {wire, Append(wire, current)}
        BY <1>6 DEF PublishMessage
      <3>3. QED
        BY <3>1, <3>2
    <2>2. CASE channel /\ up
      BY <1>6, <2>1, <2>2, SMTT(60) DEF PublishMessage
    <2>3. CASE ~(channel /\ up)
      BY <1>6, <2>1, <2>3, SMTT(60) DEF PublishMessage
    <2>4. QED
      BY <2>2, <2>3
  <1>7. CASE SynchronizeThrowIfBroken("stream")
    BY <1>7, SMTT(60) DEF SynchronizeThrowIfBroken
  <1>8. CASE ConfirmSession("stream")
    BY <1>8, SMTT(60) DEF ConfirmSession
  <1>9. CASE WaitForConfirms("stream")
    <2>1. /\ channel' \in BOOLEAN /\ up' \in BOOLEAN
          /\ shut' \in BOOLEAN /\ nacked' \in BOOLEAN
      BY <1>9 DEF WaitForConfirms
    <2>2. wire' \in Seq(1..Total)
      BY <1>9 DEF WaitForConfirms
    <2>3. QED
      BY <1>9, <2>1, <2>2, SMTT(60) DEF WaitForConfirms
  <1>10. CASE RecheckBroken("stream")
    BY <1>10, SMTT(60) DEF RecheckBroken
  <1>11. CASE DisposeCheck("stream")
    BY <1>11, SMTT(60) DEF DisposeCheck
  <1>12. CASE DisposeEnter("stream")
    BY <1>12, SMTT(60) DEF DisposeEnter
  <1>13. CASE DisposeChannel("stream")
    <2>1. /\ channel' \in BOOLEAN /\ up' \in BOOLEAN
          /\ shut' \in BOOLEAN /\ nacked' \in BOOLEAN
      BY <1>13 DEF DisposeChannel
    <2>2. wire' \in Seq(1..Total)
      BY <1>13 DEF DisposeChannel
    <2>3. QED
      BY <1>13, <2>1, <2>2, SMTT(60) DEF DisposeChannel
  <1>14. CASE DisposeConnection("stream")
    <2>1. /\ channel' \in BOOLEAN /\ up' \in BOOLEAN
          /\ shut' \in BOOLEAN /\ nacked' \in BOOLEAN
      BY <1>14 DEF DisposeConnection
    <2>2. wire' \in Seq(1..Total)
      <3>1. wire' = wire \/ wire' = <<>>
        BY <1>14 DEF DisposeConnection
      <3>2. wire \in Seq(1..Total) /\ <<>> \in Seq(1..Total)
        OBVIOUS
      <3>3. QED
        BY <3>1, <3>2, Zenon
    <2>3. QED
      BY <1>14, <2>1, <2>2, SMTT(60) DEF DisposeConnection
  <1>15. CASE DisposeNull("stream")
    BY <1>15, SMTT(60) DEF DisposeNull
  <1>16. CASE DisposeLeave("stream")
    BY <1>16, SMTT(60) DEF DisposeLeave
  <1>17. QED
    BY <1>1, <1>2, <1>3, <1>4, <1>5, <1>6, <1>7, <1>8, <1>9, <1>10, <1>11,
          <1>12, <1>13, <1>14, <1>15, <1>16 DEF ProducerStep

(* The host inside the producer: it only disposes.                         *)
LEMMA HostProducerKeepsCalls ==
  ASSUME CallsInv, ProducerStep("host"), CallerUnchanged
  PROVE  CallsInv'
  <1> USE FaultsAssumption, BatchAssumption
      DEF Publishing, Confirming, Closing, Disposing, StreamAt, At, Goto,
          Call, Finally, Throw, Fault, session, db, producerVars, Threads,
          Locations, StreamLocations, HostLocations, States,
          SetSessionToBroken, CallerUnchanged, CallsInv, TypeOK, CallInv,
          HostInv
  <1>1. CASE ThrowIfSessionIsBroken("host")
    BY <1>1, SMTT(60) DEF ThrowIfSessionIsBroken
  <1>2. CASE BeginSession("host")
    BY <1>2, SMTT(60) DEF BeginSession
  <1>3. CASE InitializeConnection("host")
    <2>1. /\ channel' \in BOOLEAN /\ up' \in BOOLEAN
          /\ shut' \in BOOLEAN /\ nacked' \in BOOLEAN
      BY <1>3 DEF InitializeConnection
    <2>2. wire' \in Seq(1..Total)
      BY <1>3 DEF InitializeConnection
    <2>3. QED
      BY <1>3, <2>1, <2>2, SMTT(60) DEF InitializeConnection
  <1>4. CASE InitializeChannel("host")
    <2>1. /\ channel' \in BOOLEAN /\ up' \in BOOLEAN
          /\ shut' \in BOOLEAN /\ nacked' \in BOOLEAN
      BY <1>4 DEF InitializeChannel
    <2>2. wire' \in Seq(1..Total)
      BY <1>4 DEF InitializeChannel
    <2>3. QED
      BY <1>4, <2>1, <2>2, SMTT(60) DEF InitializeChannel
  <1>5. CASE VerifyActive("host")
    BY <1>5, SMTT(60) DEF VerifyActive
  <1>6. CASE PublishMessage("host")
    BY <1>6, SMTT(60) DEF PublishMessage
  <1>7. CASE SynchronizeThrowIfBroken("host")
    BY <1>7, SMTT(60) DEF SynchronizeThrowIfBroken
  <1>8. CASE ConfirmSession("host")
    BY <1>8, SMTT(60) DEF ConfirmSession
  <1>9. CASE WaitForConfirms("host")
    <2>1. /\ channel' \in BOOLEAN /\ up' \in BOOLEAN
          /\ shut' \in BOOLEAN /\ nacked' \in BOOLEAN
      BY <1>9 DEF WaitForConfirms
    <2>2. wire' \in Seq(1..Total)
      BY <1>9 DEF WaitForConfirms
    <2>3. QED
      BY <1>9, <2>1, <2>2, SMTT(60) DEF WaitForConfirms
  <1>10. CASE RecheckBroken("host")
    BY <1>10, SMTT(60) DEF RecheckBroken
  <1>11. CASE DisposeCheck("host")
    BY <1>11, SMTT(60) DEF DisposeCheck
  <1>12. CASE DisposeEnter("host")
    BY <1>12, SMTT(60) DEF DisposeEnter
  <1>13. CASE DisposeChannel("host")
    <2>1. /\ channel' \in BOOLEAN /\ up' \in BOOLEAN
          /\ shut' \in BOOLEAN /\ nacked' \in BOOLEAN
      BY <1>13 DEF DisposeChannel
    <2>2. wire' \in Seq(1..Total)
      BY <1>13 DEF DisposeChannel
    <2>3. QED
      BY <1>13, <2>1, <2>2, SMTT(60) DEF DisposeChannel
  <1>14. CASE DisposeConnection("host")
    <2>1. /\ channel' \in BOOLEAN /\ up' \in BOOLEAN
          /\ shut' \in BOOLEAN /\ nacked' \in BOOLEAN
      BY <1>14 DEF DisposeConnection
    <2>2. wire' \in Seq(1..Total)
      <3>1. wire' = wire \/ wire' = <<>>
        BY <1>14 DEF DisposeConnection
      <3>2. wire \in Seq(1..Total) /\ <<>> \in Seq(1..Total)
        OBVIOUS
      <3>3. QED
        BY <3>1, <3>2, Zenon
    <2>3. QED
      BY <1>14, <2>1, <2>2, SMTT(60) DEF DisposeConnection
  <1>15. CASE DisposeNull("host")
    BY <1>15, SMTT(60) DEF DisposeNull
  <1>16. CASE DisposeLeave("host")
    BY <1>16, SMTT(60) DEF DisposeLeave
  <1>17. QED
    BY <1>1, <1>2, <1>3, <1>4, <1>5, <1>6, <1>7, <1>8, <1>9, <1>10, <1>11,
          <1>12, <1>13, <1>14, <1>15, <1>16 DEF ProducerStep

(* The broker and the connection thread.                                   *)
LEMMA BrokerKeepsCalls ==
  ASSUME CallsInv, BrokerStep, CallerUnchanged
  PROVE  CallsInv'
  <1> USE FaultsAssumption, BatchAssumption
      DEF Publishing, Confirming, Closing, Disposing, StreamAt, At, Goto,
          Call, Finally, Throw, Fault, session, db, producerVars, Threads,
          Locations, StreamLocations, HostLocations, States,
          SetSessionToBroken, CallerUnchanged, CallsInv, TypeOK, CallInv,
          HostInv
  <1>1. CASE BrokerAck
    BY <1>1, SMTT(60) DEF BrokerAck
  <1>2. CASE BrokerNack
    BY <1>2, SMTT(60) DEF BrokerNack
  <1>3. CASE BasicReturn
    BY <1>3, SMTT(60) DEF BasicReturn
  <1>4. CASE ConnectionBlocked
    BY <1>4, SMTT(60) DEF ConnectionBlocked
  <1>5. CASE ConnectionLost
    <2>1. /\ channel' \in BOOLEAN /\ up' \in BOOLEAN
          /\ shut' \in BOOLEAN /\ nacked' \in BOOLEAN
      BY <1>5 DEF ConnectionLost
    <2>2. wire' \in Seq(1..Total)
      BY <1>5 DEF ConnectionLost
    <2>3. QED
      BY <1>5, <2>1, <2>2, SMTT(60) DEF ConnectionLost
  <1>6. CASE ConnectionShutdown
    <2>1. /\ channel' \in BOOLEAN /\ up' \in BOOLEAN
          /\ shut' \in BOOLEAN /\ nacked' \in BOOLEAN
      BY <1>6 DEF ConnectionShutdown
    <2>2. wire' \in Seq(1..Total)
      BY <1>6 DEF ConnectionShutdown
    <2>3. QED
      BY <1>6, <2>1, <2>2, SMTT(60) DEF ConnectionShutdown
  <1>7. CASE ConnectionRecovered
    <2>1. /\ channel' \in BOOLEAN /\ up' \in BOOLEAN
          /\ shut' \in BOOLEAN /\ nacked' \in BOOLEAN
      BY <1>7 DEF ConnectionRecovered
    <2>2. wire' \in Seq(1..Total)
      BY <1>7 DEF ConnectionRecovered
    <2>3. QED
      BY <1>7, <2>1, <2>2, SMTT(60) DEF ConnectionRecovered
  <1>8. QED
    BY <1>1, <1>2, <1>3, <1>4, <1>5, <1>6, <1>7 DEF BrokerStep

(* ConsumeProcessor on the stream thread.                                  *)
LEMMA StreamKeepsCalls ==
  ASSUME CallsInv, StreamStep
  PROVE  CallsInv'
  <1> USE FaultsAssumption, BatchAssumption
      DEF Publishing, Confirming, Closing, Disposing, StreamAt, At, Goto,
          Call, Finally, Throw, Fault, session, db, producerVars, Threads,
          Locations, StreamLocations, HostLocations, States,
          SetSessionToBroken, CallerUnchanged, CallsInv, TypeOK, CallInv,
          HostInv
  <1>1. CASE CanExecute
    BY <1>1, SMTT(60) DEF CanExecute
  <1>2. CASE CreateSleep
    BY <1>2, SMTT(60) DEF CreateSleep
  <1>3. CASE Loop
    BY <1>3, SMTT(60) DEF Loop
  <1>4. CASE BeginTransaction
    BY <1>4, SMTT(60) DEF BeginTransaction
  <1>5. CASE ReadRow
    BY <1>5, SMTT(60) DEF ReadRow
  <1>6. CASE ProcessReturned
    BY <1>6, SMTT(60) DEF ProcessReturned
  <1>7. CASE SubmitBatch
    BY <1>7, SMTT(60) DEF SubmitBatch
  <1>8. CASE SynchronizeReturned
    BY <1>8, SMTT(60) DEF SynchronizeReturned
  <1>9. CASE Commit
    BY <1>9, SMTT(60) DEF Commit
  <1>10. CASE Again
    BY <1>10, SMTT(60) DEF Again
  <1>11. CASE Rollback
    BY <1>11, SMTT(60) DEF Rollback
  <1>12. CASE DisposeReturned
    BY <1>12, SMTT(60) DEF DisposeReturned
  <1>13. CASE Pause
    BY <1>13, SMTT(60) DEF Pause
  <1>14. CASE Wait
    BY <1>14, SMTT(60) DEF Wait
  <1>15. CASE Timeout
    BY <1>15, SMTT(60) DEF Timeout
  <1>16. CASE /\ ProducerStep("stream")
              /\ UNCHANGED <<db, cstate, sleep, pc, hpc>>
    BY <1>16, ProducerKeepsCalls
  <1>17. QED
    BY <1>1, <1>2, <1>3, <1>4, <1>5, <1>6, <1>7, <1>8, <1>9, <1>10, <1>11,
          <1>12, <1>13, <1>14, <1>15, <1>16 DEF StreamStep

(* ConsumeProcessor.Dispose on the host thread.                            *)
LEMMA HostKeepsCalls ==
  ASSUME CallsInv, Stop
  PROVE  CallsInv'
  <1> USE FaultsAssumption, BatchAssumption
      DEF Publishing, Confirming, Closing, Disposing, StreamAt, At, Goto,
          Call, Finally, Throw, Fault, session, db, producerVars, Threads,
          Locations, StreamLocations, HostLocations, States,
          SetSessionToBroken, CallerUnchanged, CallsInv, TypeOK, CallInv,
          HostInv
  <1>1. CASE HostDispose
    BY <1>1, SMTT(60) DEF HostDispose
  <1>2. CASE HostSet
    BY <1>2, SMTT(60) DEF HostSet
  <1>3. CASE HostNull
    BY <1>3, SMTT(60) DEF HostNull
  <1>4. CASE HostLeave
    BY <1>4, SMTT(60) DEF HostLeave
  <1>5. CASE ProducerStep("host") /\ UNCHANGED <<db, cstate, sleep, pc, hpc>>
    BY <1>5, HostProducerKeepsCalls
  <1>6. QED
    BY <1>1, <1>2, <1>3, <1>4, <1>5 DEF Stop, HostStep

(* The arrival of a row and a crash of the process.                        *)
LEMMA WorldKeepsCalls ==
  ASSUME CallsInv, Arrive \/ Crash
  PROVE  CallsInv'
  <1> USE FaultsAssumption, BatchAssumption
      DEF Publishing, Confirming, Closing, Disposing, StreamAt, At, Goto,
          Call, Finally, Throw, Fault, session, db, producerVars, Threads,
          Locations, StreamLocations, HostLocations, States,
          SetSessionToBroken, CallerUnchanged, CallsInv, TypeOK, CallInv,
          HostInv
  <1>1. CASE Arrive
    BY <1>1, SMTT(60) DEF Arrive
  <1>2. CASE Crash
    <2>1. /\ pp' \in [Threads -> Locations]
          /\ pp'["stream"] = "out" /\ pp'["host"] = "out"
      BY <1>2 DEF Crash
    <2>2. /\ channel' \in BOOLEAN /\ up' \in BOOLEAN
          /\ shut' \in BOOLEAN /\ nacked' \in BOOLEAN
      BY <1>2 DEF Crash
    <2>3. wire' \in Seq(1..Total)
      BY <1>2 DEF Crash
    <2>4. QED
      BY <1>2, <2>1, <2>2, <2>3, SMTT(60) DEF Crash
  <1>3. QED
    BY <1>1, <1>2

-----------------------------------------------------------------------------
(* The same while nothing fails: inside the producer, a row is appended to *)
(* the wire or the call fails, and then the host is in Dispose.            *)
LEMMA ProducerKeepsFlow ==
  ASSUME CallsInv, FlowInv, faults = 0, faults' = 0,
        ProducerStep("stream"), CallerUnchanged
  PROVE  FlowInv'
  <1> USE FaultsAssumption, BatchAssumption
      DEF Publishing, Confirming, Closing, Disposing, StreamAt, At, Goto,
          Call, Finally, Throw, Fault, session, db, producerVars, Threads,
          Locations, StreamLocations, HostLocations, States,
          SetSessionToBroken, CallerUnchanged, CallsInv, TypeOK, CallInv,
          HostInv, FlowInv, SoundInv, UndisturbedInv, CloseInv, OrderInv,
          MayPublish, Succeeding, Sent
  <1>1. CASE ThrowIfSessionIsBroken("stream")
    BY <1>1, SMTT(60) DEF ThrowIfSessionIsBroken
  <1>2. CASE BeginSession("stream")
    BY <1>2, SMTT(60) DEF BeginSession
  <1>3. CASE InitializeConnection("stream")
    BY <1>3, SMTT(60) DEF InitializeConnection
  <1>4. CASE InitializeChannel("stream")
    BY <1>4, SMTT(60) DEF InitializeChannel
  <1>5. CASE VerifyActive("stream")
    BY <1>5, SMTT(60) DEF VerifyActive
  <1>6. CASE PublishMessage("stream")
    <2> USE <1>6 DEF PublishMessage
    <2>1. SoundInv' /\ UndisturbedInv'
      BY SMTT(60)
    <2>2. CloseInv'
      BY SMTT(60)
    <2>3. CASE ~(channel /\ up)
      <3>1. /\ pc' = "process" /\ pp'["stream"] = "d.check"
            /\ result' = "error" /\ cstate' # "ACTIVE"
        BY <2>1, <2>3, SMTT(60)
      <3>2. QED
        BY <2>1, <2>2, <2>3, <3>1, SMTT(60)
    <2>4. CASE channel /\ up
      <3>1. /\ read - 1 = inOrder + Len(wire) /\ current = read
            /\ wire' = Append(wire, current) /\ inOrder' = inOrder
        BY <2>4, SMTT(60)
      <3>2. /\ Len(wire') = Len(wire) + 1
            /\ \A i \in 1..Len(wire') :
                  wire'[i] = IF i <= Len(wire) THEN wire[i] ELSE current
        BY <3>1, SMTT(60)
      <3>3. \A i \in 1..Len(wire') : wire'[i] = inOrder' + i
        BY <3>1, <3>2, SMTT(60)
      <3>4. Sent' = inOrder' + Len(wire') /\ pc' = "process"
        BY <2>4, <3>1, <3>2, SMTT(60)
      <3>5. gone' <= inOrder' + Len(wire')
        BY <2>4, <3>1, <3>2, SMTT(60)
      <3>6. QED
        BY <2>1, <2>2, <3>3, <3>4, <3>5 DEF FlowInv, OrderInv
    <2>5. QED
      BY <2>3, <2>4
  <1>7. CASE SynchronizeThrowIfBroken("stream")
    BY <1>7, SMTT(60) DEF SynchronizeThrowIfBroken
  <1>8. CASE ConfirmSession("stream")
    BY <1>8, SMTT(60) DEF ConfirmSession
  <1>9. CASE WaitForConfirms("stream")
    BY <1>9, SMTT(60) DEF WaitForConfirms
  <1>10. CASE RecheckBroken("stream")
    BY <1>10, SMTT(60) DEF RecheckBroken
  <1>11. CASE DisposeCheck("stream")
    BY <1>11, SMTT(60) DEF DisposeCheck
  <1>12. CASE DisposeEnter("stream")
    BY <1>12, SMTT(60) DEF DisposeEnter
  <1>13. CASE DisposeChannel("stream")
    BY <1>13, SMTT(60) DEF DisposeChannel
  <1>14. CASE DisposeConnection("stream")
    BY <1>14, SMTT(60) DEF DisposeConnection
  <1>15. CASE DisposeNull("stream")
    BY <1>15, SMTT(60) DEF DisposeNull
  <1>16. CASE DisposeLeave("stream")
    BY <1>16, SMTT(60) DEF DisposeLeave
  <1>17. QED
    BY <1>1, <1>2, <1>3, <1>4, <1>5, <1>6, <1>7, <1>8, <1>9, <1>10, <1>11,
          <1>12, <1>13, <1>14, <1>15, <1>16 DEF ProducerStep

(* The host closes the channel when the broker has settled the wire, and   *)
(* what it finds at the connection is a wire that is still empty.          *)
LEMMA HostProducerKeepsFlow ==
  ASSUME CallsInv, FlowInv, faults = 0, faults' = 0,
        ProducerStep("host"), CallerUnchanged
  PROVE  FlowInv'
  <1> USE FaultsAssumption, BatchAssumption
      DEF Publishing, Confirming, Closing, Disposing, StreamAt, At, Goto,
          Call, Finally, Throw, Fault, session, db, producerVars, Threads,
          Locations, StreamLocations, HostLocations, States,
          SetSessionToBroken, CallerUnchanged, CallsInv, TypeOK, CallInv,
          HostInv, FlowInv, SoundInv, UndisturbedInv, CloseInv, OrderInv,
          MayPublish, Succeeding, Sent
  <1>1. CASE ThrowIfSessionIsBroken("host")
    BY <1>1, SMTT(60) DEF ThrowIfSessionIsBroken
  <1>2. CASE BeginSession("host")
    BY <1>2, SMTT(60) DEF BeginSession
  <1>3. CASE InitializeConnection("host")
    BY <1>3, SMTT(60) DEF InitializeConnection
  <1>4. CASE InitializeChannel("host")
    BY <1>4, SMTT(60) DEF InitializeChannel
  <1>5. CASE VerifyActive("host")
    BY <1>5, SMTT(60) DEF VerifyActive
  <1>6. CASE PublishMessage("host")
    <2> USE <1>6 DEF PublishMessage
    <2>1. SoundInv' /\ UndisturbedInv'
      BY SMTT(60)
    <2>2. CloseInv'
      BY SMTT(60)
    <2>3. CASE ~(channel /\ up)
      <3>1. /\ pc' = "process" /\ pp'["stream"] = "d.check"
            /\ result' = "error" /\ cstate' # "ACTIVE"
        BY <2>1, <2>3, SMTT(60)
      <3>2. QED
        BY <2>1, <2>2, <2>3, <3>1, SMTT(60)
    <2>4. CASE channel /\ up
      <3>1. /\ read - 1 = inOrder + Len(wire) /\ current = read
            /\ wire' = Append(wire, current) /\ inOrder' = inOrder
        BY <2>4, SMTT(60)
      <3>2. /\ Len(wire') = Len(wire) + 1
            /\ \A i \in 1..Len(wire') :
                  wire'[i] = IF i <= Len(wire) THEN wire[i] ELSE current
        BY <3>1, SMTT(60)
      <3>3. \A i \in 1..Len(wire') : wire'[i] = inOrder' + i
        BY <3>1, <3>2, SMTT(60)
      <3>4. Sent' = inOrder' + Len(wire') /\ pc' = "process"
        BY <2>4, <3>1, <3>2, SMTT(60)
      <3>5. gone' <= inOrder' + Len(wire')
        BY <2>4, <3>1, <3>2, SMTT(60)
      <3>6. QED
        BY <2>1, <2>2, <3>3, <3>4, <3>5 DEF FlowInv, OrderInv
    <2>5. QED
      BY <2>3, <2>4
  <1>7. CASE SynchronizeThrowIfBroken("host")
    BY <1>7, SMTT(60) DEF SynchronizeThrowIfBroken
  <1>8. CASE ConfirmSession("host")
    BY <1>8, SMTT(60) DEF ConfirmSession
  <1>9. CASE WaitForConfirms("host")
    BY <1>9, SMTT(60) DEF WaitForConfirms
  <1>10. CASE RecheckBroken("host")
    BY <1>10, SMTT(60) DEF RecheckBroken
  <1>11. CASE DisposeCheck("host")
    BY <1>11, SMTT(60) DEF DisposeCheck
  <1>12. CASE DisposeEnter("host")
    BY <1>12, SMTT(60) DEF DisposeEnter
  <1>13. CASE DisposeChannel("host")
    BY <1>13, SMTT(60) DEF DisposeChannel
  <1>14. CASE DisposeConnection("host")
    BY <1>14, SMTT(60) DEF DisposeConnection
  <1>15. CASE DisposeNull("host")
    BY <1>15, SMTT(60) DEF DisposeNull
  <1>16. CASE DisposeLeave("host")
    BY <1>16, SMTT(60) DEF DisposeLeave
  <1>17. QED
    BY <1>1, <1>2, <1>3, <1>4, <1>5, <1>6, <1>7, <1>8, <1>9, <1>10, <1>11,
          <1>12, <1>13, <1>14, <1>15, <1>16 DEF ProducerStep

(* The broker takes the first row from the wire.  It does nothing else as  *)
(* long as nothing fails.                                                  *)
LEMMA BrokerKeepsFlow ==
  ASSUME CallsInv, FlowInv, faults = 0, faults' = 0,
        BrokerStep, CallerUnchanged
  PROVE  FlowInv'
  <1> USE FaultsAssumption, BatchAssumption
      DEF Publishing, Confirming, Closing, Disposing, StreamAt, At, Goto,
          Call, Finally, Throw, Fault, session, db, producerVars, Threads,
          Locations, StreamLocations, HostLocations, States,
          SetSessionToBroken, CallerUnchanged, CallsInv, TypeOK, CallInv,
          HostInv, FlowInv, SoundInv, UndisturbedInv, CloseInv, OrderInv,
          MayPublish, Succeeding, Sent
  <1>1. CASE BrokerAck
    BY <1>1, SMTT(60) DEF BrokerAck
  <1>2. CASE BrokerNack
    BY <1>2, SMTT(60) DEF BrokerNack
  <1>3. CASE BasicReturn
    BY <1>3, SMTT(60) DEF BasicReturn
  <1>4. CASE ConnectionBlocked
    BY <1>4, SMTT(60) DEF ConnectionBlocked
  <1>5. CASE ConnectionLost
    BY <1>5, SMTT(60) DEF ConnectionLost
  <1>6. CASE ConnectionShutdown
    BY <1>6, SMTT(60) DEF ConnectionShutdown
  <1>7. CASE ConnectionRecovered
    BY <1>7, SMTT(60) DEF ConnectionRecovered
  <1>8. QED
    BY <1>1, <1>2, <1>3, <1>4, <1>5, <1>6, <1>7 DEF BrokerStep

(* A batch that is committed has been sent.                                *)
LEMMA StreamKeepsFlow ==
  ASSUME CallsInv, FlowInv, faults = 0, faults' = 0,
        StreamStep
  PROVE  FlowInv'
  <1> USE FaultsAssumption, BatchAssumption
      DEF Publishing, Confirming, Closing, Disposing, StreamAt, At, Goto,
          Call, Finally, Throw, Fault, session, db, producerVars, Threads,
          Locations, StreamLocations, HostLocations, States,
          SetSessionToBroken, CallerUnchanged, CallsInv, TypeOK, CallInv,
          HostInv, FlowInv, SoundInv, UndisturbedInv, CloseInv, OrderInv,
          MayPublish, Succeeding, Sent
  <1>1. CASE CanExecute
    BY <1>1, SMTT(60) DEF CanExecute
  <1>2. CASE CreateSleep
    BY <1>2, SMTT(60) DEF CreateSleep
  <1>3. CASE Loop
    BY <1>3, SMTT(60) DEF Loop
  <1>4. CASE BeginTransaction
    BY <1>4, SMTT(60) DEF BeginTransaction
  <1>5. CASE ReadRow
    BY <1>5, SMTT(60) DEF ReadRow
  <1>6. CASE ProcessReturned
    BY <1>6, SMTT(60) DEF ProcessReturned
  <1>7. CASE SubmitBatch
    BY <1>7, SMTT(60) DEF SubmitBatch
  <1>8. CASE SynchronizeReturned
    BY <1>8, SMTT(60) DEF SynchronizeReturned
  <1>9. CASE Commit
    <2> USE <1>9 DEF Commit
    <2>1. SoundInv' /\ UndisturbedInv' /\ CloseInv'
      BY SMTT(60)
    <2>2. gone' = batch
      <3>1. faults' # faults + 1
        OBVIOUS
      <3>2. QED
        BY <3>1, Zenon
    <2>3. wire' = wire /\ inOrder' = inOrder /\ read' = read
      OBVIOUS
    <2>4. read = batch /\ read = inOrder + Len(wire)
      BY SMTT(60)
    <2>5. pc' \in {"again", "dispose"} /\ pp'["stream"] \in {"out", "d.check"}
      BY SMTT(60)
    <2>6. Sent' = read /\ gone' = inOrder' + Len(wire')
      BY <2>2, <2>3, <2>4, <2>5
    <2>7. OrderInv'
      BY <2>2, <2>3, <2>4, <2>5, <2>6 DEF OrderInv
    <2>8. QED
      BY <2>1, <2>7 DEF FlowInv
  <1>10. CASE Again
    BY <1>10, SMTT(60) DEF Again
  <1>11. CASE Rollback
    BY <1>11, SMTT(60) DEF Rollback
  <1>12. CASE DisposeReturned
    BY <1>12, SMTT(60) DEF DisposeReturned
  <1>13. CASE Pause
    BY <1>13, SMTT(60) DEF Pause
  <1>14. CASE Wait
    BY <1>14, SMTT(60) DEF Wait
  <1>15. CASE Timeout
    BY <1>15, SMTT(60) DEF Timeout
  <1>16. CASE /\ ProducerStep("stream")
              /\ UNCHANGED <<db, cstate, sleep, pc, hpc>>
    BY <1>16, ProducerKeepsFlow
  <1>17. QED
    BY <1>1, <1>2, <1>3, <1>4, <1>5, <1>6, <1>7, <1>8, <1>9, <1>10, <1>11,
          <1>12, <1>13, <1>14, <1>15, <1>16 DEF StreamStep

(* Dispose begins with the end of ACTIVE.                                  *)
LEMMA HostKeepsFlow ==
  ASSUME CallsInv, FlowInv, faults = 0, faults' = 0,
        Stop
  PROVE  FlowInv'
  <1> USE FaultsAssumption, BatchAssumption
      DEF Publishing, Confirming, Closing, Disposing, StreamAt, At, Goto,
          Call, Finally, Throw, Fault, session, db, producerVars, Threads,
          Locations, StreamLocations, HostLocations, States,
          SetSessionToBroken, CallerUnchanged, CallsInv, TypeOK, CallInv,
          HostInv, FlowInv, SoundInv, UndisturbedInv, CloseInv, OrderInv,
          MayPublish, Succeeding, Sent
  <1>1. CASE HostDispose
    BY <1>1, SMTT(60) DEF HostDispose
  <1>2. CASE HostSet
    BY <1>2, SMTT(60) DEF HostSet
  <1>3. CASE HostNull
    BY <1>3, SMTT(60) DEF HostNull
  <1>4. CASE HostLeave
    BY <1>4, SMTT(60) DEF HostLeave
  <1>5. CASE ProducerStep("host") /\ UNCHANGED <<db, cstate, sleep, pc, hpc>>
    BY <1>5, HostProducerKeepsFlow
  <1>6. QED
    BY <1>1, <1>2, <1>3, <1>4, <1>5 DEF Stop, HostStep

(* A row arrives.                                                          *)
LEMMA WorldKeepsFlow ==
  ASSUME CallsInv, FlowInv, faults = 0, faults' = 0,
        Arrive \/ Crash
  PROVE  FlowInv'
  <1> USE FaultsAssumption, BatchAssumption
      DEF Publishing, Confirming, Closing, Disposing, StreamAt, At, Goto,
          Call, Finally, Throw, Fault, session, db, producerVars, Threads,
          Locations, StreamLocations, HostLocations, States,
          SetSessionToBroken, CallerUnchanged, CallsInv, TypeOK, CallInv,
          HostInv, FlowInv, SoundInv, UndisturbedInv, CloseInv, OrderInv,
          MayPublish, Succeeding, Sent
  <1>1. CASE Arrive
    BY <1>1, SMTT(60) DEF Arrive
  <1>2. CASE Crash
    BY <1>2, SMTT(60) DEF Crash
  <1>3. QED
    BY <1>1, <1>2

-----------------------------------------------------------------------------
(* The initial state satisfies StopInv.                                    *)
LEMMA InitImpliesStopInv == Init => StopInv
  <1> SUFFICES ASSUME Init PROVE StopInv
    OBVIOUS
  <1>1. pp["stream"] = "out" /\ pp["host"] = "out" /\ Len(wire) = 0
    BY DEF Init, ProducerInit, Threads
  <1>2. TypeOK
    BY InitImpliesIInv DEF IInv
  <1>3. CallInv /\ HostInv
    BY <1>1 DEF Init, ProducerInit, CallInv, HostInv, Publishing, Confirming,
       Closing, Disposing, At
  <1>4. SoundInv /\ UndisturbedInv /\ CloseInv
    BY <1>1 DEF Init, ProducerInit, SoundInv, UndisturbedInv, CloseInv,
       MayPublish, Publishing, Closing, At, Threads
  <1>5. OrderInv
    BY <1>1 DEF Init, ProducerInit, OrderInv, Sent, Publishing
  <1>6. QED
    BY <1>2, <1>3, <1>4, <1>5 DEF StopInv

(* A failure is never taken back.                                          *)
LEMMA FaultsNeverFall ==
  ASSUME TypeOK, Next, faults' = 0
  PROVE  faults = 0
  <1> USE FaultsAssumption DEF TypeOK, Fault, session, producerVars
  <1>1. ASSUME NEW t \in Threads, ProducerStep(t) PROVE faults = 0
    BY <1>1
    DEF ProducerStep, ThrowIfSessionIsBroken, BeginSession,
        InitializeConnection, InitializeChannel, VerifyActive, PublishMessage,
        SynchronizeThrowIfBroken, ConfirmSession, WaitForConfirms,
        RecheckBroken, DisposeCheck, DisposeEnter, DisposeChannel,
        DisposeConnection, DisposeNull, DisposeLeave
  <1>2. CASE Broker
    BY <1>2
    DEF Broker, BrokerStep, BrokerAck, BrokerNack, BasicReturn,
        ConnectionBlocked, ConnectionLost, ConnectionShutdown,
        ConnectionRecovered
  <1>3. CASE StreamStep
    BY <1>1, <1>3
    DEF Threads, StreamStep, CanExecute, CreateSleep, Loop, BeginTransaction,
        ReadRow, ProcessReturned, SubmitBatch, SynchronizeReturned, Commit,
        Again, Rollback, DisposeReturned, Pause, Wait, Timeout
  <1>4. CASE Arrive \/ Crash \/ Stop
    BY <1>1, <1>4
    DEF Threads, Arrive, Crash, Stop, HostStep, HostDispose, HostSet, HostNull,
        HostLeave
  <1>5. QED
    BY <1>2, <1>3, <1>4 DEF Next, Run

(* Every step keeps it.  Failures are counted and never forgotten, so that *)
(* nothing has failed before a step if nothing has after it.               *)
LEMMA NextPreservesStopInv == StopInv /\ [Next]_vars => StopInv'
  <1> SUFFICES ASSUME StopInv, [Next]_vars PROVE StopInv'
    OBVIOUS
  <1>1. CallsInv
    BY DEF StopInv, CallsInv
  <1>2. CASE UNCHANGED vars
    BY <1>2
    DEF vars, producerVars, StopInv, TypeOK, CallInv, HostInv, SoundInv,
        UndisturbedInv, CloseInv, OrderInv, MayPublish, Succeeding, Sent, At
  <1>3. CASE Next
    <2>1. CallsInv'
      BY <1>1, <1>3, StreamKeepsCalls, BrokerKeepsCalls, WorldKeepsCalls,
         HostKeepsCalls DEF Next, Run, Broker, CallerUnchanged
    <2>2. ASSUME faults' = 0 PROVE FlowInv'
      <3>1. faults = 0
        BY <1>1, <1>3, <2>2, FaultsNeverFall DEF CallsInv
      <3>2. FlowInv
        BY <3>1 DEF StopInv, FlowInv
      <3>3. QED
        BY <1>1, <1>3, <2>2, <3>1, <3>2, StreamKeepsFlow, BrokerKeepsFlow,
           WorldKeepsFlow, HostKeepsFlow DEF Next, Run, Broker, CallerUnchanged
    <2>3. QED
      BY <2>1, <2>2 DEF StopInv, CallsInv, FlowInv
  <1>4. QED
    BY <1>2, <1>3

(* The inductive invariant holds of every behaviour.                       *)
THEOREM StopInvariance == Spec => []StopInv
  BY InitImpliesStopInv, NextPreservesStopInv, PTL DEF Spec

(* The variables keep their types also when the host disposes the stream   *)
(* in the middle of a batch and both threads are in the producer.          *)
THEOREM StopTypeCorrect == Spec => []TypeOK
  <1>1. StopInv => TypeOK
    BY DEF StopInv
  <1>2. QED
    BY <1>1, StopInvariance, PTL

(* As long as nothing fails, ConsumeProcessor.Dispose at any moment loses  *)
(* no row: what has left the table is at the broker or on its way there.   *)
THEOREM StopIsSafe == Spec => []StopLosesNothing
  <1>1. ASSUME StopInv PROVE StopLosesNothing
    <2>1. faults = 0 /\ wire = <<>> => gone <= inOrder + 0
      BY <1>1 DEF StopInv, OrderInv
    <2>2. QED
      BY <1>1, <2>1 DEF StopLosesNothing, NothingMissing, StopInv, TypeOK
  <1>2. QED
    BY <1>1, StopInvariance, PTL
==============================================================================
