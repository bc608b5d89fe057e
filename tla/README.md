# DaJet: a TLA+ verification of its message streams and pipelines

DaJet moves messages between databases and message brokers.  It does so in two
ways: *DaJet Script* streams (`src/src/dajet-runtime`, run by the utility
`src/src/dajet`) and *DaJet Flow* pipelines (`src/src/dajet-flow*`, run by the
HTTP server).  Both promise delivery at least once and in order, and both are
stopped, restarted and repaired by threads other than the one that moves the
messages.  That is where this project looks: every module models classes of the
source, one action for each step that another thread can observe.

## 1. Inventory

| Component | State | Operations | Talks to |
|---|---|---|---|
| Database queue consumer, `ConsumeProcessor` | `_state` (IDLE, ACTIVE, DISPOSING), `_sleep`, the open transaction | `Process` (loop of `Consume`), `Dispose` | database; next processor: `Process` for a row, `Synchronize` for a batch, `Dispose` after it |
| RabbitMQ producer, `RabbitMQ.Producer` | `_state` (IDLE, ACTIVE, BROKEN, DISPOSING), `_connection`, `_channel` | `Process`, `Synchronize`, `Dispose`, event handlers | broker: publish, confirms, events |
| RabbitMQ consumer, `RabbitMQ.Consumer` | `_state` (IDLE, ACTIVE, AUTORESET, DISPOSING), `_heartbeat`, `_cancellation`, `_connection`, `_consumer` | `Process`, `EnsureConsumerIsActive`, `ProcessMessage`, `NackMessage`, `Dispose` | broker: deliveries, acks, nacks; next processor |
| Kafka adapters | `_state`, `_consumer` and its position, `_error`, `_produced` | `Process`, `Synchronize`, `Dispose`, callbacks of the client | Kafka; next processor |
| Stream host, `StreamManager`, `DaJetScriptService` | `_streams` by file name | `Serve` every few seconds, `Dispose` at shutdown | starts and disposes streams |
| Asynchronous calls, `ExecuteProcessor`, `WaitProcessor` | `_targets`, the task array variable | `Process`, `Dispose` | starts scripts as tasks, waits for them |
| Control flow processors | `_disposed`, `_cts`, `_streams` | `Process`, `Dispose` | next and nested processors |
| Flow pipeline, `Pipeline` | `_state` (idle, starting, working, disposing), `_token`, `_cts`, `_task` | `ExecuteAsync`, `ExecutePipeline`, `Dispose` | source block; the manager's monitor |
| Flow source block, `OneDbConsumer` | `_state` (IDLE, ACTIVE, DISPOSING), script and parameters in fields | `Execute`, `_Dispose` | database; next block |
| Pipeline manager, `PipelineManager`, `FlowController` | `_pipelines`, `_monitor` | activate, execute, dispose, restart, delete | pipelines; records in the database |
| Flow brokers' blocks, buffer block | channel, trackers, buffer | `Process`, `Synchronize`, `Dispose` | broker; next block |
| Metadata cache, `MetadataService` | cache entries with an expiry | get, add, remove | metadata readers |
| Script parser and transpiler, metadata parsers, data layer, HTTP, studio | none that outlives a call, or a user interface | - | - |

What is hard in them:

* **Two threads in one object.**  Every processor is entered by the stream
  thread and, at any moment, by `Dispose` on the host thread.  The states are
  changed by interlocked operations, but a decision often takes two of them.
* **Events of the client library.**  Lost, blocked and recovered connections,
  returned messages and cancelled consumers arrive on threads of their own
  between any two steps.
* **Failure in the middle of a batch** and the restart of the process between
  the broker's confirmation and the database's commit.
* **Fields shared across executions**: the pipeline's token, the block's state,
  the monitor.
* **Something that must happen eventually**: a dead consumer is repaired, a
  cancelled task ends, `Dispose` returns.

`PROJECT.json` lists every hazard at its line with the properties that cover it.

What makes each component correct: a message leaves its source only when the
target has it, in order (queue consumers and producers); one thread at a time
creates and closes a connection, and none is left behind (adapters); a stopped
stream or pipeline ends, and only then is another one started (pipelines,
stream host); the monitor and the dictionaries describe what runs (managers);
a wait returns with the tasks it waited for (asynchronous calls).

## 2. Modules

| Module | Models | Theorems |
|---|---|---|
| `Delivery` | the promise: at least once, in order, and nothing leaves the source before it is delivered | |
| `RabbitProducer` | `adapters/rabbitmq/Producer.cs`, the client library and the broker | |
| `ConsumeProcessor` | `database/ConsumeProcessor.cs`, composed with `RabbitProducer`; implements `Delivery` | `ConsumeProcessorProofs`, `ConsumeStopProofs` |
| `RabbitConsumer` | `adapters/rabbitmq/Consumer.cs`, the client library and the broker; implements `Delivery` | `RabbitConsumerProofs` |
| `PipelineLife` | what a pipeline promises to those who hold it: idle or working, one new task for an execution, a cancelled task ends unless it drains a queue for ever | |
| `Pipeline` | `dajet-flow/pipeline/Pipeline.cs` with `OneDbConsumer.cs`; implements `PipelineLife` | `PipelineProofs` |
| `PipelineManager` | `PipelineManager.cs`, `DaJetFlowService.cs`, `FlowController.cs`, composed with an array of `PipelineLife` | `PipelineManagerProofs` |
| `ScriptStream` | the threads that run scripts: control flow, `EXECUTE`, `EXECUTE TASK`, `WAIT`, and `Dispose` of the tree of processors | |
| `StreamHost` | `StreamManager.cs` and `DaJetScriptService.cs`, composed with `ScriptStream` | `StreamHostSteps`, `StreamHostProofs`, `StreamLoopProofs` |
| `MCStreamHost` | nine scripts and what happens to their files, for TLC | |

Two abstract specifications connect the modules. `Delivery` is implemented by
`ConsumeProcessor` and `RabbitConsumer` (`INSTANCE Delivery WITH` their own `gone`
and `inOrder`). `PipelineLife` is implemented by `Pipeline`, with its liveness,
under the mapping `phase <- IF state = "idle" THEN "idle" ELSE "working"`, `alive
<-` the tasks that have not ended, `busy <-` those in the loop of the source
block; `PipelineManager` uses it in place of `Pipeline` and checks that whatever
the manager does to an instance is a step of it.

### Delivery

`gone` is how many messages have left the source for good.  `inOrder` is the
largest k for which 1, ..., k is a subsequence of what the target accepted: a
repetition does not change it, a gap stops it.  `Forget` lets messages leave
only up to `inOrder`.

### RabbitProducer and ConsumeProcessor

The script is `CONSUME TOP n ... INTO @m FROM table ... PRODUCE TO 'amqp://...'`.
Rows are numbers in queue order.  A batch is a transaction that reads rows
`gone+1..batch`; `read` is the latest row read.

`pc` is where the stream thread is in `ConsumeProcessor`, `hpc` where the host
is in its `Dispose`, and `pp[t]` where either is in the producer.  A call sets
`pp[t]` to the callee's first location; when it is `"out"` again the caller goes
on.  `result` tells whether the stream thread's call returned or threw.  Each
location stands between two accesses to `_state`, `_connection` or `_channel`
that the other thread can see.  In particular `ThrowIfSessionIsBroken` and the
test for ACTIVE are two steps, as are the test for DISPOSING and its assignment.

The broker settles what is on the `wire` in the order of the channel: it
acknowledges (the message is then in its log), nacks, or returns a mandatory
message it cannot route.  A lost connection loses the wire; the shutdown event
is raised some time later; the client library may reconnect by itself, and then
the same channel object works again and remembers nothing.  Closing an open
channel is a handshake that the broker answers after what was sent before it.
`Crash` ends and restarts the process: the database rolls back, `inOrder` and
`gone` stay.  The commit may succeed although its answer is lost.

### RabbitConsumer

Messages are numbered in the order of the queue and `PrefetchCount` is 1, the
default.  `pc` has the places of the stream, timer and host threads, which share
the code of `EnsureConsumerIsActive` and `DisposeConsumer`; `handler` is where
the library's dispatcher is in `ProcessMessage`.  `fresh` says whether the
message was delivered on the channel that is open now: an acknowledgement of an
older delivery is dropped or throws.  The next processor is reduced to what the
two threads that call it share: a session that `Process` opens, that
`Synchronize` delivers, and that `Dispose` drops.  The model assumes of the
library that it raises one delivery event at a time, and nothing about whether
closing a channel waits for the event being handled.

`Dispose` tests for ACTIVE (`"call"`, `Consumer.cs:427`) and then for AUTORESET
(`"poll"`, line 439) in two operations, and a repair may end in between.  `Process` has
a place before each field it sets up: its options may be wrong
(`InitializeFails`), and `Dispose` may take `_heartbeat` away while it is being
configured or before it is started.

### Pipeline

Any number of callers call `ExecuteAsync` and `Dispose`; the k-th successful
execution starts task k with token k.  A task runs `ExecutePipeline` and ends
with `Dispose`.  The fields `_token` and `_cts` are read where the code reads
them: a task looks at whatever token is in the field at that moment.  Since the
cancellation handler is registered with a token that is cancelled already, it
runs on the disposing thread, and its steps follow there.  The update of the
monitor to Sleeping and the read of `_token` right after it are one step.
`handler` is `OneDbConsumer._state`; one transaction of it is one step.  It may be
the last for any reason (empty queue, error, state), but it need not be: the loop
(`OneDbConsumer.cs:97-157`) goes on while there are rows and the block is ACTIVE, and
reads no token.  `Draining(k)` says that task k is in such a loop.

### PipelineManager

`pipelines` and `monitor` are the two dictionaries, `records` the table of stored
pipelines: `POST /flow` stores a record (`"bare"`) and then its handlers
(`"whole"`). An instance `<<u, n>>` is the n-th object of class `Pipeline` made
for record `u`; it stays in the model when it leaves the dictionary, because it
goes on running. `svc` is where the service thread is in `ActivatePipelines` and
`CreatePipeline`, `pc[r]` where request `r` is, `host` where the host is in
`Dispose`. Each access to a dictionary is a step of its own, so a removal falls
between any two steps of an activation. An access itself is atomic: the
dictionaries are plain `Dictionary` objects, and what unsynchronised access does
inside of one is not modelled, with one exception. An addition during an
enumeration makes the enumeration throw; a removal or `Clear` does not, which is
what .NET does from version 3 on. A query that fails changes nothing and comes
again. `TaskDrains` is a task that, after the stop, drains a queue for ever; of
any other task the manager need only know that it has not ended (`alive`). The
host may dispose the manager before the service thread has ended, because it waits
no longer than its shutdown timeout.

### ScriptStream and StreamHost

A script is a tree of processors.  The constant `Script` gives each statement its
kind, the statement that follows and those of its blocks.  A thread is a `stack` of
frames: the processors whose `Process` it is in, the inner first.  A processor
calls the one that follows it as its last act, so that frame is replaced, not
pushed.  `raised` is the exception that unwinds the stack; BREAK, CONTINUE and
RETURN are exceptions in the code, too, and each processor catches what its
`catch` clauses name.  `marks[s]` is what `Dispose` and `Process` tell each other
through the fields of the processors: `_disposed` of WHILE, `_cts` of SLEEP, the
entry in `_targets` of EXECUTE.  `walk[d]` is what the thread `d` that disposes has
yet to visit; it goes through the same tree one processor at a time while the
script runs.  IF, WHILE, EXECUTE and the root pass a Dispose to their blocks, TRY,
CASE and FOR do not: that is how they are in the code.

An `EXECUTE TASK` starts a thread; its record in the array is read and written one
property at a time, as `UpdateTaskObjectValues` does.  A task whose script ends
with RETURN is a faulted task for .NET, and the record is corrected afterwards.

`StreamHost` adds the folder (`files`), the dictionary (`streams`), the scan
(`svc`, in the order of `ActivateStreams` and `DisposeStreams`) and the
shutdown (`stopped`, `host`).  `home[s]` remembers the file of a stream.  Three
constants, `Protected`, `Outside` and `Covered`, name scripts that should run for
ever and their statements; no action mentions them, and `ProtectedScriptsRun` is
about them.  A
file that is deleted between the listing and the read makes `Serve` throw, which
ends that scan; a script that does not compile is tried again in the next one.
Merged steps: the tests `File.Exists` of one pass of `DisposeStreams`, the delay
between two scans with the test of the token, and `Cancel`, `Dispose` and the
reset of `_cts` in SLEEP, between which the stream thread sees a cancelled token
either way.

## 3. Runs

All bounds are constants: `Total` messages, `BatchSize`, `MaxFaults` failures of
the environment (each database error, nack, returned message, blocked or lost
connection, failed connect, cancelled consumer and restart is one), `MaxStarts`
executions.

| Run | Specification | Bounds | Shows |
|---|---|---|---|
| `consume_quiet` | `QuietRunSpec` | 3 rows, batches of 2, 2 faults | no loss, at most one batch sent twice, a clean producer between batches, the inductive invariant, refinement of `Delivery` |
| `consume_live` | `FairSpec` | 3 rows, batches of 2, 2 faults | the queue drains; a stop ends the thread, and loses nothing while nothing fails (the inductive invariant is `StopInv`) |
| `consume_window_loss` | `RunSpec` | 2 rows, 1 fault | **violation** of `NoLoss` |
| `consume_stop_loss` | `QuietSpec` | 2 rows, 1 fault | **violation** of `NothingMissing` |
| `pipeline_dispose` | `FairSpec` | 2 callers, 2 executions, all operations | exclusive transitions, `Dispose` finds the token, the inductive invariants `IInv` and `LifeInv`, a cancelled task ends unless its token is replaced or it drains a queue for ever; refinement of `PipelineLife` |
| `pipeline_run_once` | `FairSpec` | 3 callers, 4 executions, run once | one thread in the block, a truthful monitor, and why: `OneTaskInv` |
| `pipeline_stuck` | `FairSpec` | 1 execution, run once | **violation** of `WorkingHasATask` |
| `pipeline_overlap` | `FairSpec` | 2 executions | **violation** of `DisposeEndsTheDrainedTask` |
| `rabbit_consumer` | `FairSpec` | 2 messages, 3 faults | no leak, no loss, the inductive invariant, refinement of `Delivery`, repair, `Dispose` returns and ends the thread unless a repair ends between its two tests |
| `rabbit_consumer_lost_stop` | `FairSpec` | 1 message, no fault | **violation** of `DisposeEndsTheThread` |
| `pipeline_manager` | `FairSpec` | 1 record, 3 requests of 1 thread, 2 executions of an instance | nothing runs unseen, the inductive invariant, one running instance beside the removed ones, stored pipelines start, a stop ends everything that does not drain a queue for ever |
| `stream_host` | `FairSpec` | 13 situations of 1 or 2 files, at most 3 threads | the loops of removed scripts end, and those of all scripts when the host stops, unless a thread stays in an inner loop for ever; new files start, WAIT tells the truth, FINALLY is not skipped, no error ends a protected loop, the inductive invariant |

Why the bounds are enough: three rows in batches of two give a full batch, a short
one and the change from one to the next, with rows before and after the one that
fails; two faults let the recovery from one failure meet another; two executions
are the first number at which tasks overlap, and 3 callers with 4 executions let
each start meet the end of the one before. In `pipeline_manager` one record,
posted by a request and started automatically, meets three requests (that one
included) that overlap with activations, tasks, a shutdown and the disposal; its
pipeline runs once, so that tasks also end by themselves, and is executed at most
twice. Requests that overlap each other take too long with liveness; the safety
properties are proved for any finite set of request threads (section 5), and a run
of two of them under `Spec` (905 583 states) agrees. Records do not interact,
except that one enumeration disposes them all. `MaxInstances` is derived from the
requests and never reached (`NoActivationIsHeldBack`). In `stream_host` a
situation is a script and what happens to its file: the nine scripts have each
statement at least once, a loop on each side of what `Dispose` reaches, and tasks
that return, end, fail and are waited for with and without a timeout, and a loop
inside of a loop. Two streams exist whenever a file is renamed, or written again
after a deletion. The end of the host's shutdown timeout is an event, `"timeout"`,
of a situation: without it the host disposes the streams only when the service
thread has ended. In one situation there are two files from the start, of which
one is deleted, before or after the first scan lists, tests or reads it. What the
situations do not contain is two deletions found by one scan. `MaxStreams` is
three because no situation asks for a fourth thread: none is refused one in any of
them. The safety results of section 5 hold for all values. The type invariant of
each module, `TypeOK`, is the first part of the inductive invariant `IInv` that
its run checks. A run has `CHECK_DEADLOCK FALSE` where the system really stops:
after a stop, or when the bounded executions are used up.

### What the violations show

* `consume_window_loss`: `Producer.Synchronize` first tests for BROKEN, then for
  ACTIVE, and treats everything else as idle or disposing
  (`Producer.cs:559`).  A connection event in between makes it return normally,
  and the batch is committed unconfirmed.
* `consume_stop_loss`: `ConsumeProcessor.Dispose` disposes the producer under
  the stream thread.  If rows of the batch remain, the next one opens a new
  session, `Synchronize` confirms that one only, and the whole batch is
  committed; if the first connection failed while it was being closed, its rows
  are lost.  `StopLosesNothing` shows that without a failure nothing is,
  and `StopIsSafe` proves it.
* `pipeline_stuck`: a run-once task may end before `ExecuteAsync` has set the
  state to working; nobody then resets it.
* `pipeline_overlap`: an execution after `Dispose` replaces `_token`; the old
  task, still in its transaction, never sees its cancellation and goes on, even
  if its queue runs dry.
* `rabbit_consumer_lost_stop`: `Dispose` before `_cancellation` exists signals
  nobody, and the stream thread waits for ever.

### What else the models show

These are not separate runs; they are why the properties are worded as they
are, and each can be reproduced by strengthening one of them.

* **Restart and delete dispose nothing** (`PipelineManager.cs:183-188`): the
  pipeline is removed from the dictionary before it is looked up.  The old
  instance goes on beside the new one, and a deleted one with nobody holding it:
  `OneRunningInstance` therefore counts the removals.  `StopEndsEverything` shows
  that a shutdown still reaches those instances through the linked token, unless
  they drain a queue for ever.
* **A task may drain a queue after its pipeline was disposed.**  A `Dispose` between
  the test of the token (`Pipeline.cs:78`) and `OneDbConsumer.Execute` finds the block
  idle; the task makes it ACTIVE afterwards, and the loop that follows tests that
  state and no token (`OneDbConsumer.cs:157`).  A shutdown cancels tokens only, so it
  does not end the loop of any pipeline that nobody disposes.
  `DisposeEndsTheLatestTask`, `StopEndsEverything` and `PipelineLife` except a task that
  stays there for ever (`[](Draining(k))`, `busy`), and it is the only exception.
* **A stop of the RabbitMQ consumer may be lost** although there is a cancellation to
  signal: if a repair is in progress when `Dispose` tests for ACTIVE
  (`Consumer.cs:427`) and ends before it tests for AUTORESET (line 439), both tests
  fail and `Dispose` returns.  `DisposeEndsARunningThread` excepts that moment.
* Wrong options make `InitializeUri` or `InitializeConsumer` throw and leave the
  consumer ACTIVE with nothing in it; a `Dispose` while `_heartbeat` is being set up
  ends the stream thread with a null reference.
* A record deleted after the activation has read it may leave an entry in the monitor
  and a running pipeline without a record.
* **A deleted script is not always stopped**, against
  `doc/dajet-utility/README.md:75`: not if a loop of it is in a TRY, CASE or FOR, nor if
  its thread has not entered its loops yet when `Dispose` passes, because `Process` sets
  `_disposed` back (`WhileProcessor.cs:41`), nor if it follows a loop that `Dispose` has
  passed.  `Stoppable` names the scripts and moments for which the promise holds:
  the thread is in every loop that is not inside of another one.  A loop
  inside of another one is entered again and again; if that happens between the
  disposal of both and the next test of the outer loop, the flag of the inner one is
  lost and only its condition or an exception ends it.  `ScriptsStop` excepts a thread
  that stays there for ever (`[]InInnerLoop(s)`); `stream_host` has such a script,
  and without the exception it is violated.
* A shutdown that begins while the service thread is in a scan may miss the
  stream it is about to add, or end its enumeration with an exception.  A scan
  that goes on after the shutdown timeout meets a cleared dictionary and starts
  the scripts again.
* FOR over an empty array returns without the statement that follows
  (`ForProcessor.cs:79-84`): in the service of
  `doc/dajet-script/simple-service-example` the `SLEEP` is skipped then.
* BREAK and CONTINUE in a TRY block are errors that CATCH handles, and a TRY
  without CATCH swallows them and every error (`TryProcessor.cs:54-59`).
* `EXECUTE` without `INTO` of a script that executes RETURN fails
  (`ExecuteProcessor.cs:129-132`).
* After a timeout WAIT ALL may leave a record whose `Status` is `Running` and
  whose `IsCompleted` is true; `RecordsTellTheTruth` is about the other answers.
* A script that ended with an error stays in the dictionary and is not started
  again while its file is there.

### The quiet hypothesis

`Quiet` excludes from a behaviour exactly the window of `consume_window_loss`: a
step that breaks the session while the stream thread is between the two tests
of `Synchronize`.  Everything else the environment does is kept.  `NoLoss`, its
refinement and their proofs hold under it, which also shows that this window is
the only way a stream nobody stops can lose a row.

## 4. Fairness

* Weak fairness of the stream thread, of the host's `Dispose` and of a task that
  runs: they are threads of their own and are not suspended for ever.  Every
  wait in them is an explicit location whose step is enabled only when the wait
  ends (`WaitForConfirms`, closing a channel, the polling of `Dispose`).
* The broker settles what it is sent while the connection lasts, pushes
  messages to a running consumer, and the library raises the shutdown event
  of a lost connection.  Nothing else of the environment is assumed to happen:
  rows need not arrive, connections need not recover, callers need not call.
* A transaction of a flow pipeline's source block ends, but the loop around it need
  not: fairness of a task's step does not apply while it is `Draining`.
* The two tests of `RabbitConsumer.Dispose` have strong fairness while the state is not
  AUTORESET: it polls every millisecond while a repair is in progress, repairs are a
  heartbeat (60 seconds by default) apart, so it does not miss every gap for ever.
* The service loops of both hosts go on (`WF` of `ServiceStep`), and a script
  or a pipeline that can be created is created sooner or later (`SF` of
  `CreateStream`, `CreatePipeline`): the failures are those of a database or a
  file that is not ready yet.  Nothing makes a request arrive, a file change or
  the host stop.
* In `PipelineManager` a cancelled task that does not drain a queue ends once the host
  has stopped: that is a part of what `Pipeline` is checked to do by the refinement
  (`Due`).  Before the stop nothing makes a task end.
* Every script thread runs, every timer expires, every command returns, with
  success or not.
* Faults are finite (`MaxFaults`): a broker that fails for ever prevents
  delivery in any system.

## 5. Proofs

`ConsumeProcessorProofs` proves, for all values of `Total`, `BatchSize` and
`MaxFaults` that satisfy `FaultsAssumption` and `BatchAssumption`, of
`QuietRunSpec`:

* `TypeCorrect`, `RowsAreNotLost` (`NoLoss`), `DuplicatesAreBounded`,
  `ProducerIsReusable`, and `StreamKeepsItsPromise`: the stream implements
  `Delivery!Spec`.

`NoLoss` is not inductive: that `gone <= inOrder` survives a commit follows from
what the thread knew when it came to it.  `IInv` says so in parts:
`ControlInv` (where the thread may be in the producer, seen from its caller),
`ConnectionInv` (what the fields say of the connection: a healthy-looking state
with a dead connection means that the shutdown event is still to come),
`SessionInv` (a session lasts from the first row of a batch to its end) and
`DeliveryInv` (while nothing has gone wrong, the wire holds the latest rows and
the broker has all before them; after the confirmation it has the batch).
`InitImpliesIInv`, then one lemma for the producer's steps, one for the
broker's, one for the stream's and one for the rest of the world; TLC checks
`IInv` in `consume_quiet`.  The refinement needs, for each step, either
`Accept`, `Forget` or a stutter, from `IInv`.

`ConsumeStopProofs` proves of `Spec`, where the host may call `Dispose` at any
moment, for all values of the same constants:

* `StopTypeCorrect` (`TypeOK`, whatever fails) and `StopIsSafe` (`StopLosesNothing`).

`StopInv` has a part that holds whatever fails (`CallInv`, `HostInv`: where the two
threads may be) and one that holds while nothing has.  The difficulty is that
both threads may be in `Dispose` at once, that one may set IDLE while the other is
still closing, and that the stream thread then publishes through a second session.
`OrderInv` says that the rows the broker has and those on the wire are in order and
without a gap, and are all that have been sent as long as no call of the batch has
failed; so whatever is committed has been sent.  What it needs is that a
connection is closed with an empty wire (`CloseInv`): between the close of the
channel and that of the connection nothing can be published, because the state
is DISPOSING unless the stream thread has been in `Dispose` itself, and then
its batch is at its end and, `_state` of `ConsumeProcessor` no longer being ACTIVE
(`UndisturbedInv`), it does not begin another.

`PipelineProofs` proves of `Spec`, for any set of callers and any number of
executions that satisfy `PipelineAssumption` and `ThreadAssumption`:

* `TypeCorrect`, `OneTransitionAtATime` (`TransitionsAreExclusive`) and
  `DisposeFindsTheToken` (`DisposeCancelsTheCurrentToken`), from `IInv`: the
  number of the latest execution is in `_token`, and in `_cts` from `ExecuteAsync`
  to `Dispose`;
* `HandlerIsExclusive`: if `"dispose"` is not among the operations, only one
  thread is ever in the source block.  `OneTaskInv` strengthens it (its own theorem
  is `OneTaskInvariance`): all tasks before the latest have ended;
* `PipelineLivesAsPromised`: `Spec => Life!Spec`, one case for each action of
  `Pipeline`, which is a step of `PipelineLife` under the mapping or a stutter
  (`HiddenStep`; the steps of the source block are `Turn`, `BlockStepsAreHidden`).  It
  needs `LifeInv`: a token is cancelled before the next one is made, so all but
  the latest are, and whichever token a task has waited for, its own is
  cancelled by the time it goes to `Dispose`;
* `IdleIsShownAsIdle` (`MonitorTellsTheTruth`), if `"dispose"` is not among the
  operations.  That hypothesis is needed: with a `Dispose` from outside the old
  task may write to the monitor after the pipeline has become idle.  `MonitorInv`
  is inductive together with `OneTaskInv`.

`RabbitConsumerProofs` proves of `Spec`, for all `Total` and `MaxFaults`:

* `TypeCorrect`, `ConnectionsDoNotLeak` (`NoConnectionLeaks`), `MessagesAreNotLost`
  (`NoLoss`) and `ConsumerKeepsItsPromise`: the stream implements `Delivery!Spec`.

The argument is ownership.  `OwnerInv`: `_state` tells who works on the connection,
AUTORESET the one thread that repairs it (the stream or the heartbeat, which share
the code), DISPOSING the host; so at most one thread is at a location of
`DisposeConsumer` or of a repair.  `ConnectionInv`: it opens a connection only
when there is none.  `MessageInv`: the message in the handler's hands is the head of
the queue, and if its channel is still the one that is open (`fresh`), then an
acknowledgement that is about to be sent is for a message the target has.  A
session that `Dispose` or a repair has dropped under the handler therefore costs
an acknowledgement, not a message.

`PipelineManagerProofs` proves of `Spec`, for any sets of records and any finite set
of request threads:

* `TypeCorrect`, `PipelinesAreMonitored` (`MonitoredPipelines`), `AddThrowsNothing`
  (`AddFindsNoPipeline`) and `NoMoreThanOneRuns` (`OneRunningInstance`);
* `InstancesArePipelines` (`EveryInstanceIsAPipeline`): every step of the manager
  is, for every instance, a step of `PipelineLife` or a stutter;
* `NoActivationIsHeldBack`: `created[u] < MaxInstances` at every activation, so
  the bound is no restriction.

`ServiceInv` says that from `ContainsKey` to `Add` the record has no pipeline,
because only the service thread adds one; `CountInv` that every instance but one
was removed by a request or by the host, and counts the requests that are about to
remove one.  That is where the cardinality of a set of threads is needed, and why
`ManagerAssumption` asks for finitely many.

The inductive invariant of `StreamHost` has two halves, `IInv == StateInv /\
LoopInv`.  `StreamHostProofs` proves the first (`StateInvariance`) of `Spec`, for any
script, any files and events, and any number of threads and items
(`ScriptAssumption`, `HostAssumption`), and from it

* `TypeCorrect`, `RecordsAreTrue` (`RecordsTellTheTruth`) and `FinallyRuns`
  (`FinallyIsNotSkipped`).

Its lemmas are in `StreamHostSteps`.  A step of a thread replaces the inner frame of
its stack by others and leaves those below alone (`Moves`); for each action it is
shown which frame it replaces by what, that this is allowed by the types and by
`FrameInv`, and that a frame of a TRY or CATCH block is replaced only by CATCH or
FINALLY (`Allowed`).  `FinallyRuns` follows, since everything that skips a frame
would have to be such a step.  For `RecordsAreTrue` the invariant follows a WAIT
through `UpdateTaskObjectValues` one property at a time: `HasRead(r, l)` says that
what has been read before location `l` was read after the thread had ended, so it
is true and stays so (`EndInv`: what a thread that has ended says never changes);
`WaitInv` that each record of the array is true or still to be read.
`ChildInv` and `KeyInv` (a record is of a thread that has started, a key of the
dictionary is the file of its stream) keep a fresh thread from being one that
somebody waits for.

`StreamLoopProofs` proves the second half, and with it

* `Invariance` (`IInv`) and `ProtectedRun` (`ProtectedScriptsRun`): a protected script
  whose stream is in the dictionary is alive, unless the host disposes.

Which scripts are protected is what `ProtectedAssumption` says, and nothing else
is assumed of a script: the body of the root is an endless WHILE; outside of its
TRYs there are only IF, CASE and work that do not fail, SLEEP, CONTINUE and further
TRYs (`Outside`); the block of a TRY may hold anything but RETURN (`Covered`), which
`TryProcessor` lets through.  The scripts that are called or started from there
are arbitrary: their RETURN ends with their own EXECUTE.  CATCH and FINALLY belong
to `Outside`.  The service, the host, the other scripts and the files do what
`Spec` allows.

The invariant says of every frame what it may be, given the frames below it
(`Fits`): the root, the loop, statements outside of the TRYs, at most one TRY whose
block the thread is in, statements of that block, and above an EXECUTE of it
anything.  So every exception is one that some frame below will catch (`Stays`): in
a called script any, in a block all but RETURN, and elsewhere CONTINUE only, which
the loop catches.  That is a property of each frame and those below, so a step
that replaces the inner frame has to be shown to fit only there.  Two more ways out
of a loop are signals of `Dispose`: the `_disposed` of the WHILE (`Unmarked`) and a
cancelled SLEEP (`HasToken`).  They concern other threads: `WalkInv` says that
whatever the service is disposing is not in the dictionary any more, and is no
stream that it is about to add, and that the host disposes nothing while it is
running.  `DisposeVisits`, a lemma of `StreamHostProofs`, confines a step of
`Dispose` to the stream that it visits.

What the theorems do not say, and TLC checks:

* Liveness under fairness (`EventuallyDelivered`, `StopEndsTheThread`,
  `DisposeEndsTheLatestTask`, `DisposeReturns` and `DisposeEndsARunningThread`,
  `StopEndsEverything`, `StoredPipelinesStart`, `ScriptsStop`,
  `ScriptsStart`, and the fairness in
  `ImplementsPipelineLife`, whose safety part is `PipelineLivesAsPromised`): out of
  the prover's reach.

## 6. Abstractions and what is not modelled

* Contents: bodies, headers, properties, routing keys, JSON and UTF-8 encoding,
  the pooled buffer.  A message is its number.
* Log messages, counters of processed messages, statistics of the monitor other
  than the state.
* Time: a delay may end at any moment, a heartbeat may tick at any moment.
* The order of the rows: `ORDER BY` with `STRICT ORDER`, and one consumer for a
  queue.  Two consumers of one queue with `READPAST` do not keep the order.
* Unroutable messages published without `mandatory`, which the broker drops by
  its protocol.
* Steps that are merged: `POST /flow` stores the handlers of a record in one step,
  though `FlowController.cs:171-182` creates them one by one and an activation may
  find some of them; EXECUTE looks its target up in `_targets`, or adds it, in the step
  that calls it; a script that calls itself shares the marks of its statements
  between its calls, as if they were the same objects.
* Files that never compile: a file that is there compiles sooner or later.
* A process that is stopped stays stopped: `Process` is not called again on a
  disposed stream, as `StreamManager` creates a new one.
* `FOR` with `MAXDOP` other than 1, `EXECUTE SYNC`, targets of `EXECUTE` that a
  variable selects, `DEFAULT`, and `Synchronize` through the statements of control flow.
  Two threads that dispose the same SLEEP at once.  `CONSUME` in a script of
  `StreamHost`: its thread and its Dispose are the module `ConsumeProcessor`.
* The Kafka adapters (section 7), the blocks of the earlier generation behind
  `OneDbConsumer`, and the metadata cache, whose entries have a lock of their
  own and whose values come from parsers that are not modelled.
* The JavaScript of the repository: the vendored Monaco editor and a context menu
  of the studio.
* Parsers, the transpiler, the data layer, HTTP and the user interface: sequential
  code or input and output, better served by tests.

## 7. Plan

1. *Done*: `Delivery`, `RabbitProducer`, `ConsumeProcessor`, `Pipeline`,
   `RabbitConsumer`.
2. *Done*: `PipelineLife`, implemented by `Pipeline`; `PipelineManager`;
   `ScriptStream` and `StreamHost`.
3. *Done*: the inductive invariants, safety properties and refinements of all five,
   for every value of the constants (section 5).
4. `KafkaStream`: `adapters/kafka/Consumer.cs` and `Producer.cs` with positions,
   committed offsets and delivery reports, against `Delivery`.
