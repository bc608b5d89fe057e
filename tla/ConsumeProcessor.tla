--------------------------- MODULE ConsumeProcessor ---------------------------
(***************************************************************************)
(* A script that moves a database table used as a queue to RabbitMQ:       *)
(*                                                                         *)
(*   CONSUME TOP n ... INTO @m FROM <table> ...  PRODUCE TO 'amqp://...'   *)
(*                                                                         *)
(* Class DaJet.Runtime.ConsumeProcessor on the stream thread, its Dispose  *)
(* on the host thread, the database behind it, and RabbitProducer as the   *)
(* next processor of the stream.                                           *)
(*                                                                         *)
(* A batch is one database transaction: the rows are deleted as they are   *)
(* read, every row is published, the publications are confirmed, and only  *)
(* then the transaction is committed.                                      *)
(***************************************************************************)
EXTENDS RabbitProducer

CONSTANTS
    Total,      \* the rows ever inserted into the queue, in order 1..Total
    BatchSize   \* CONSUME TOP n

ASSUME BatchAssumption == Total \in Nat /\ BatchSize \in Nat \ {0}

VARIABLES
    arrived,  \* rows 1..arrived have been inserted by the application
    gone,     \* rows 1..gone have been deleted by committed transactions
    batch,    \* the open transaction reads rows gone+1..batch
    read,     \* rows gone+1..read of it have been read (consumed > 0)
    cstate,   \* ConsumeProcessor._state
    sleep,    \* ConsumeProcessor._sleep: null, or an event unset or set
    pc,       \* where the stream thread is in ConsumeProcessor
    hpc       \* where the host thread is in ConsumeProcessor.Dispose

vars == <<producerVars, arrived, gone, batch, read, cstate, sleep, pc, hpc>>

db == <<arrived, gone, batch, read>>

StreamLocations == {"start", "sleep", "loop", "begin", "read", "process",
                    "synchronize", "commit", "rollback", "again", "dispose",
                    "pause", "wait", "waiting", "exited", "crashed"}
HostLocations   == {"idle", "dispose", "set", "null", "leave", "done"}

Init ==
    /\ ProducerInit
    /\ arrived = 0 /\ gone = 0 /\ batch = 0 /\ read = 0
    /\ cstate = "IDLE"
    /\ sleep = "null"
    /\ pc = "start"
    /\ hpc = "idle"

(* The stream thread is about to run ConsumeProcessor's own code.          *)
StreamAt(l) == pc = l /\ At("stream", "out")

(* The thread enters the producer's code.                                  *)
Call(t, l) == Goto(t, l)

(* Mutant: the producer is not disposed after a batch.                     *)
FinallyForgotten == UNCHANGED pp /\ pc' = "dispose"

(* finally { _next.Dispose(); }                                            *)
Finally == Call("stream", "d.check") /\ pc' = "dispose"

-----------------------------------------------------------------------------
(* ConsumeProcessor.Process                                                *)

CanExecute ==
    /\ StreamAt("start")
    /\ IF cstate = "IDLE"
       THEN cstate' = "ACTIVE" /\ pc' = "sleep"
       ELSE pc' = "exited" /\ UNCHANGED cstate
    /\ UNCHANGED <<producerVars, db, sleep, hpc>>

CreateSleep ==
    /\ StreamAt("sleep")
    /\ sleep' = IF sleep = "null" THEN "unset" ELSE sleep
    /\ pc' = "loop"
    /\ UNCHANGED <<producerVars, db, cstate, hpc>>

(* Mutant: the loop does not test the state.                               *)
LoopForever ==
    /\ StreamAt("loop")
    /\ pc' = "begin"
    /\ UNCHANGED <<producerVars, db, cstate, sleep, hpc>>

(* while (IsActive)                                                        *)
Loop ==
    /\ StreamAt("loop")
    /\ pc' = IF cstate = "ACTIVE" THEN "begin" ELSE "exited"
    /\ UNCHANGED <<producerVars, db, cstate, sleep, hpc>>

(* Mutant: the query has no TOP.                                           *)
BeginTransactionUnlimited ==
    /\ StreamAt("begin")
    /\ batch' = arrived
    /\ read' = gone
    /\ pc' = "read"
    /\ UNCHANGED <<producerVars, arrived, gone, cstate, sleep, hpc>>

(* Open the connection, begin the transaction, execute the reader.         *)
BeginTransaction ==
    /\ StreamAt("begin")
    /\ \/ /\ batch' = IF arrived < gone + BatchSize THEN arrived
                                                    ELSE gone + BatchSize
          /\ read' = gone
          /\ pc' = "read"
          /\ UNCHANGED faults
          /\ UNCHANGED pp
       \/ /\ Fault
          /\ Finally
          /\ UNCHANGED <<batch, read>>
    /\ UNCHANGED <<state, session, current, result, arrived, gone, cstate,
                   sleep, hpc>>

(* Mutant: the script variable keeps the value of the row before.          *)
ReadRowStale ==
    /\ StreamAt("read")
    /\ read < batch
    /\ read' = read + 1
    /\ Call("stream", "check")
    /\ pc' = "process"
    /\ UNCHANGED <<current, state, session, result, faults, arrived, gone, batch,
                   cstate, sleep, hpc>>

(* while (reader.Read()): the row becomes the value of the script variable *)
(* and the next processor processes it; after the last row the batch is    *)
(* submitted, unless it is empty.                                          *)
ReadRow ==
    /\ StreamAt("read")
    /\ read < batch
    /\ \/ /\ read' = read + 1
          /\ current' = read + 1
          /\ Call("stream", "check")
          /\ pc' = "process"
          /\ UNCHANGED faults
       \/ /\ Fault
          /\ pc' = "rollback"
          /\ UNCHANGED <<read, current, pp>>
    /\ UNCHANGED <<state, session, result, arrived, gone, batch, cstate, sleep,
                   hpc>>

ProcessReturned ==
    /\ StreamAt("process")
    /\ pc' = IF result = "ok" THEN "read" ELSE "rollback"
    /\ UNCHANGED <<producerVars, db, cstate, sleep, hpc>>

(* Mutant: the batch is committed without Synchronize.                     *)
SubmitBatchUnconfirmed ==
    /\ StreamAt("read")
    /\ read = batch
    /\ pc' = "commit"
    /\ UNCHANGED <<producerVars, db, cstate, sleep, hpc>>

SubmitBatch ==
    /\ StreamAt("read")
    /\ read = batch
    /\ IF read > gone
       THEN Call("stream", "confirm") /\ pc' = "synchronize"
       ELSE pc' = "commit" /\ UNCHANGED pp
    /\ UNCHANGED <<state, session, current, result, faults, db, cstate, sleep,
                   hpc>>

SynchronizeReturned ==
    /\ StreamAt("synchronize")
    /\ pc' = IF result = "ok" THEN "commit" ELSE "rollback"
    /\ UNCHANGED <<producerVars, db, cstate, sleep, hpc>>

(* The commit succeeds, fails, or succeeds in the database although the    *)
(* answer never arrives and the client takes the error path.               *)
Commit ==
    /\ StreamAt("commit")
    /\ \/ /\ gone' = batch
          /\ IF read > gone
             THEN pc' = "again" /\ UNCHANGED pp
             ELSE Finally
          /\ UNCHANGED faults
       \/ /\ Fault
          /\ gone' \in {gone, batch}
          /\ pc' = "rollback"
          /\ UNCHANGED pp
    /\ UNCHANGED <<state, session, current, result, arrived, batch, read,
                   cstate, sleep, hpc>>

(* while (consumed > 0 && IsActive)                                        *)
Again ==
    /\ StreamAt("again")
    /\ IF cstate = "ACTIVE"
       THEN pc' = "begin" /\ UNCHANGED pp
       ELSE Finally
    /\ current' = 0
    /\ UNCHANGED <<state, session, result, faults, db, cstate, sleep, hpc>>

(* transaction.Rollback(), and the exception leaves Consume.               *)
Rollback ==
    /\ StreamAt("rollback")
    /\ Finally
    /\ current' = 0
    /\ UNCHANGED <<state, session, result, faults, db, cstate, sleep, hpc>>

DisposeReturned ==
    /\ StreamAt("dispose")
    /\ pc' = "pause"
    /\ UNCHANGED <<producerVars, db, cstate, sleep, hpc>>

(* if (IsActive && _sleep is not null)                                     *)
Pause ==
    /\ StreamAt("pause")
    /\ pc' = IF cstate = "ACTIVE" /\ sleep # "null" THEN "wait" ELSE "loop"
    /\ UNCHANGED <<producerVars, db, cstate, sleep, hpc>>

(* _sleep.WaitOne(delay), outside of any try block.                        *)
Wait ==
    /\ StreamAt("wait")
    /\ \/ sleep = "null" /\ pc' = "crashed" /\ UNCHANGED sleep
       \/ sleep = "set" /\ pc' = "loop" /\ sleep' = "unset"
       \/ sleep = "set" /\ pc' = "crashed" /\ UNCHANGED sleep  \* disposed
       \/ sleep = "unset" /\ pc' = "waiting" /\ UNCHANGED sleep
    /\ UNCHANGED <<producerVars, db, cstate, hpc>>

Timeout ==
    /\ StreamAt("waiting")
    /\ pc' = "loop"
    /\ UNCHANGED <<producerVars, db, cstate, sleep, hpc>>

StreamStep ==
    \/ CanExecute \/ CreateSleep \/ Loop
    \/ BeginTransaction \/ ReadRow \/ ProcessReturned
    \/ SubmitBatch \/ SynchronizeReturned \/ Commit \/ Again \/ Rollback
    \/ DisposeReturned \/ Pause \/ Wait \/ Timeout
    \/ /\ ProducerStep("stream")
       /\ UNCHANGED <<db, cstate, sleep, pc, hpc>>

-----------------------------------------------------------------------------
(* The rest of the world while the stream runs.                            *)

Arrive ==
    /\ arrived < Total
    /\ arrived' = arrived + 1
    /\ UNCHANGED <<producerVars, gone, batch, read, cstate, sleep, pc, hpc>>

Broker ==
    /\ BrokerStep
    /\ UNCHANGED <<db, cstate, sleep, pc, hpc>>

(* The process is killed and started again: the database rolls back, and   *)
(* what the broker had not settled is lost with the connection.            *)
Crash ==
    /\ Fault
    /\ state' = "IDLE"
    /\ connection' = "null" /\ channel' = FALSE /\ live' = 0
    /\ up' = FALSE /\ shut' = FALSE /\ nacked' = FALSE
    /\ wire' = <<>>
    /\ current' = 0
    /\ pp' = [t \in Threads |-> "out"]
    /\ result' = "ok"
    /\ batch' = gone /\ read' = gone
    /\ cstate' = "IDLE"
    /\ sleep' = "null"
    /\ pc' = "start"
    /\ hpc' = "idle"
    /\ UNCHANGED <<inOrder, arrived, gone>>

-----------------------------------------------------------------------------
(* ConsumeProcessor.Dispose on the host thread: StreamManager stops the    *)
(* stream because the host stops or because the script file was removed.   *)

HostDispose ==
    /\ hpc = "idle"
    /\ IF cstate = "ACTIVE"
       THEN cstate' = "DISPOSING" /\ hpc' = "dispose" /\ Call("host", "d.check")
       ELSE hpc' = "done" /\ UNCHANGED <<cstate, pp>>
    /\ UNCHANGED <<state, session, current, result, faults, db, sleep, pc>>

(* _sleep.Set() releases a waiting thread; a null reference leaves Dispose *)
(* with the state still DISPOSING.                                         *)
HostSet ==
    /\ hpc = "dispose" /\ At("host", "out")
    /\ IF sleep = "null"
       THEN hpc' = "done" /\ UNCHANGED <<sleep, pc>>
       ELSE /\ hpc' = "null"
            /\ IF pc = "waiting"
               THEN pc' = "loop" /\ UNCHANGED sleep
               ELSE sleep' = "set" /\ UNCHANGED pc
    /\ UNCHANGED <<producerVars, db, cstate>>

HostNull ==
    /\ hpc = "null"
    /\ sleep' = "null"
    /\ hpc' = "leave"
    /\ UNCHANGED <<producerVars, db, cstate, pc>>

HostLeave ==
    /\ hpc = "leave"
    /\ cstate' = "IDLE"
    /\ hpc' = "done"
    /\ UNCHANGED <<producerVars, db, sleep, pc>>

HostStep ==
    \/ HostSet \/ HostNull \/ HostLeave
    \/ /\ ProducerStep("host")
       /\ UNCHANGED <<db, cstate, sleep, pc, hpc>>

-----------------------------------------------------------------------------
(* A stream that nobody stops, and one that the host may stop.             *)

Run  == StreamStep \/ Broker \/ Arrive \/ Crash
Stop == HostDispose \/ HostStep
Next == Run \/ Stop

RunSpec == Init /\ [][Run]_vars
Spec    == Init /\ [][Next]_vars

(* Synchronize tests for BROKEN first and for ACTIVE next.  In a quiet     *)
(* behaviour no event of the connection breaks the session between the two.*)
Quiet == At("stream", "active") => (state' = "BROKEN" => state = "BROKEN")

QuietRunSpec == Init /\ [][Run /\ Quiet]_vars
QuietSpec    == Init /\ [][Next /\ Quiet]_vars

(* Every thread keeps running, and a connected broker settles what it is   *)
(* sent (or its heartbeat gives the connection up).                        *)
Fairness ==
    /\ WF_vars(StreamStep)
    /\ WF_vars(HostStep)
    /\ WF_vars(BrokerAck /\ UNCHANGED <<db, cstate, sleep, pc, hpc>>)
    /\ WF_vars(ConnectionShutdown /\ UNCHANGED <<db, cstate, sleep, pc, hpc>>)

FairSpec    == Spec /\ Fairness

-----------------------------------------------------------------------------
(* The types of the variables of this module and of RabbitProducer.        *)
TypeOK ==
    /\ state \in States
    /\ connection \in {"null", "open", "closed"}
    /\ channel \in BOOLEAN
    /\ live \in Int
    /\ up \in BOOLEAN /\ shut \in BOOLEAN /\ nacked \in BOOLEAN
    /\ wire \in Seq(1..Total)
    /\ inOrder \in 0..Total
    /\ current \in 0..Total
    /\ pp \in [Threads -> Locations]
    /\ result \in {"ok", "error"}
    /\ faults \in 0..MaxFaults
    /\ arrived \in 0..Total
    /\ gone \in 0..arrived
    /\ batch \in gone..arrived
    /\ read \in 0..batch
    /\ cstate \in {"IDLE", "ACTIVE", "DISPOSING"}
    /\ sleep \in {"null", "unset", "set"}
    /\ pc \in StreamLocations
    /\ hpc \in HostLocations

(* A row leaves the table only when the broker has it, after all the rows  *)
(* before it: the transaction of ConsumeProcessor.Consume must never       *)
(* commit a row that Producer.Synchronize has not seen confirmed.          *)
NoLoss == gone <= inOrder

(* The same once the broker has settled everything it was sent: nothing    *)
(* that has left the table is missing at the target.                       *)
NothingMissing == wire = <<>> => gone <= inOrder

(* As long as nothing fails, ConsumeProcessor.Dispose at any moment of a   *)
(* batch loses nothing, although the stream thread may then publish the    *)
(* rest of the batch through a second session and commit all of it.        *)
StopLosesNothing == faults = 0 => NothingMissing

(* The broker is never ahead of the table by more than one batch: whatever *)
(* fails, at most the rows of the open transaction are sent again.         *)
AtMostOneBatchTwice == inOrder <= gone + BatchSize

(* Between two calls of Consume the producer holds nothing: no session, no *)
(* connection, no message on its way, whichever step of the last batch     *)
(* failed ("continuation processor must be reusable").                     *)
ReusableBetweenBatches ==
    StreamAt("pause") \/ StreamAt("waiting") \/ StreamAt("loop") =>
        /\ state = "IDLE" /\ ~channel /\ connection = "null"
        /\ live = 0 /\ wire = <<>>

-----------------------------------------------------------------------------
(* Why NoLoss holds in a quiet run: an inductive invariant, in parts.      *)

Publishing == {"check", "begin", "connect", "open", "verify", "send"}
Confirming == {"confirm", "active", "wait", "recheck"}
Closing    == {"d.channel", "d.connection", "d.null", "d.leave"}
Disposing  == {"d.check", "d.enter"} \cup Closing

NoSession ==
    /\ state = "IDLE" /\ ~channel /\ connection = "null"
    /\ live = 0 /\ wire = <<>>

InSession == state \in {"ACTIVE", "BROKEN"} /\ connection = "open" /\ channel

(* The last row handed to the channel.                                     *)
Sent == IF pp["stream"] \in Publishing THEN read - 1 ELSE read

(* Where the stream thread may be in the producer, seen from its caller.   *)
CallInv ==
    /\ pp["stream"] \in Publishing =>
          pc = "process" /\ read > gone /\ current = read
    /\ pp["stream"] \in Confirming => pc = "synchronize"
    /\ pp["stream"] \in Disposing => pc \in {"process", "synchronize", "dispose"}
    /\ pp["stream"] \in Disposing /\ pc = "process" => result = "error"
    /\ pc = "process" => read > gone
    /\ pc = "synchronize" => read = batch /\ read > gone
    /\ pc = "commit" => read = batch
    /\ pc = "read" => read >= gone

ControlInv == CallInv /\ hpc = "idle" /\ At("host", "out")

(* What the fields of the producer say about its connection.               *)
ConnectionInv ==
    /\ connection = "open" => live = 1
    /\ connection # "open" => ~up /\ ~shut /\ live = 0 /\ wire = <<>>
    /\ wire # <<>> => channel /\ up
    /\ shut => ~up
    /\ state = "ACTIVE" /\ connection = "open" /\ ~up => shut
    /\ pp["stream"] \in Closing <=> state = "DISPOSING"
    /\ pp["stream"] \in Closing \ {"d.channel"} => ~channel
    /\ pp["stream"] \in {"d.null", "d.leave"} => connection # "open"
    /\ At("stream", "d.leave") => connection = "null"

(* A session is opened by the first row of a batch and lasts until the     *)
(* batch is confirmed or given up.                                         *)
SessionInv ==
    /\ StreamAt(pc) /\ pc \notin {"read", "process", "rollback"} => NoSession
    /\ StreamAt("read") => IF read = gone THEN NoSession ELSE InSession
    /\ StreamAt("process") => IF result = "ok" THEN InSession ELSE NoSession
    /\ StreamAt("rollback") => NoSession \/ InSession
    /\ pp["stream"] \in {"check", "begin"} =>
          IF read = gone + 1 THEN NoSession ELSE InSession
    /\ At("stream", "connect") =>
          read = gone + 1 /\ state = "ACTIVE" /\ connection = "null" /\ ~channel
    /\ At("stream", "open") =>
          /\ read = gone + 1 /\ state \in {"ACTIVE", "BROKEN"}
          /\ connection = "open" /\ ~channel
    /\ pp["stream"] \in {"verify", "send"} \cup Confirming => InSession
    /\ At("stream", "active") => state = "ACTIVE"

(* While nothing has gone wrong in the session, the rows on the wire are   *)
(* the latest ones sent and the broker has all the rows before them.       *)
DeliveryInv ==
    /\ /\ pp["stream"] \notin Disposing
       /\ pc \in {"read", "process", "synchronize"}
       /\ state = "ACTIVE" /\ channel /\ up /\ ~nacked
       => /\ Sent - Len(wire) <= inOrder
          /\ \A i \in 1..Len(wire) : wire[i] = Sent - Len(wire) + i
    /\ \A i \in 1..Len(wire) : wire[i] \in (gone + 1)..batch
    /\ At("stream", "recheck") /\ state = "ACTIVE" => read <= inOrder
    /\ pc = "synchronize" /\ result = "ok"
       /\ (At("stream", "out") \/ pp["stream"] \in Disposing) => read <= inOrder
    /\ pc = "commit" => batch <= inOrder
    /\ batch <= gone + BatchSize

IInv ==
    /\ TypeOK
    /\ ControlInv
    /\ ConnectionInv
    /\ SessionInv
    /\ DeliveryInv
    /\ NoLoss
    /\ AtMostOneBatchTwice

-----------------------------------------------------------------------------
(* Why StopLosesNothing holds: an inductive invariant, in parts.           *)

(* The host is in the producer only while its Dispose has it disposed, and *)
(* from its first step to its last the stream is not ACTIVE.               *)
HostInv ==
    /\ pp["host"] \in {"out"} \cup Disposing
    /\ ~At("host", "out") => hpc = "dispose"
    /\ hpc \in {"dispose", "null", "leave"} => cstate = "DISPOSING" /\ pc # "start"
    /\ pc = "start" =>
          /\ cstate = "IDLE" /\ state = "IDLE"
          /\ At("stream", "out") /\ At("host", "out")

(* Nothing breaks the session by itself.                                   *)
SoundInv ==
    /\ ~shut /\ ~nacked /\ state # "BROKEN"
    /\ connection = "open" => up
    /\ wire # <<>> => channel /\ up

(* Until the host disposes it, the stream's calls of the producer succeed. *)
UndisturbedInv ==
    cstate = "ACTIVE" =>
        /\ pc # "rollback"
        /\ pc \in {"process", "synchronize"}
           /\ pp["stream"] \notin Publishing \cup Confirming => result = "ok"
        /\ pp["stream"] \in Closing <=> state = "DISPOSING"
        /\ pp["stream"] \in {"connect", "open", "verify", "send", "wait"} =>
              state = "ACTIVE"
        /\ state = "ACTIVE" /\ ~At("stream", "connect") =>
              connection = "open" /\ (channel \/ At("stream", "open"))

(* The stream thread may still publish a row of this batch.                *)
MayPublish ==
    \/ pc \in {"begin", "read"}
    \/ pc = "process" /\ pp["stream"] \in Publishing
    \/ pc = "process" /\ At("stream", "out") /\ result = "ok"

(* A connection is closed only when the broker has settled all it was      *)
(* sent: nothing is published from the close of the channel to that of the *)
(* connection, since DISPOSING does not pass VerifyActive.                 *)
CloseInv ==
    /\ \A t \in Threads : At(t, "d.connection") => wire = <<>>
    /\ pp["host"] \in Closing /\ MayPublish => state = "DISPOSING"
    /\ At("host", "d.connection") /\ At("stream", "send") => ~channel

(* No call of the batch has failed so far.                                 *)
Succeeding ==
    \/ pc \in {"start", "sleep", "begin", "read", "commit", "again"}
    \/ pc = "process" /\ (pp["stream"] \in Publishing \/ result = "ok")
    \/ pc = "synchronize" /\ (pp["stream"] \in Confirming \/ result = "ok")
    \/ cstate = "ACTIVE"

(* The rows sent are those the broker has and, after them and in order,    *)
(* those on the wire.  The rows that have left the table are among them.   *)
OrderInv ==
    /\ \A i \in 1..Len(wire) : wire[i] = inOrder + i
    /\ gone <= inOrder + Len(wire)
    /\ Succeeding => Sent = inOrder + Len(wire)
    /\ Succeeding /\ pc \notin {"read", "process", "synchronize", "commit"} =>
          read = gone

StopInv ==
    /\ TypeOK /\ CallInv /\ HostInv
    /\ faults = 0 => SoundInv /\ UndisturbedInv /\ CloseInv /\ OrderInv

-----------------------------------------------------------------------------
(* Every row inserted into the table is eventually delivered and deleted,  *)
(* whatever has failed before, unless the host stops the stream: the loop  *)
(* of ConsumeProcessor.WhileActiveDoWork survives every error.             *)
EventuallyDelivered ==
    \A m \in 1..Total : (arrived >= m) ~> (gone >= m \/ hpc # "idle")

(* Once the host has called ConsumeProcessor.Dispose on a running stream,  *)
(* the stream thread leaves Process, normally or with an exception, unless *)
(* the process is restarted first.                                         *)
StopEndsTheThread ==
    (hpc = "dispose") ~> (pc \in {"start", "exited", "crashed"})

(* The stream implements the promise of Delivery.                          *)
Promise ==
    INSTANCE Delivery WITH gone <- gone, inOrder <- inOrder, Total <- Total
DeliversAtLeastOnceInOrder == Promise!Spec
=============================================================================
