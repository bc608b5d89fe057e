------------------------------ MODULE StreamHost ------------------------------
(***************************************************************************)
(* The script host (utility dajet).  The thread of DaJetScriptService      *)
(* scans the folder of scripts again and again: a file that is not in the  *)
(* dictionary _streams is compiled and started on a thread of its own, a   *)
(* stream whose file is gone is removed and disposed.  The files change at *)
(* any time, and at shutdown the host disposes all streams.                *)
(***************************************************************************)
EXTENDS ScriptStream

CONSTANTS
    Names,      \* the names a file with the extension .djs may have
    Contents,   \* the scripts that are written to files, by their root nodes
    Situations, \* the files the program finds when it starts, and what
                \* happens to the folder and the host after that, in order
    Protected,  \* scripts that are an endless loop and can only fail in a TRY
    Outside,    \* their statements that are not in the block of such a TRY
    Covered     \* and those that are

ASSUME HostAssumption ==
    /\ \A n \in Contents : n \in Nodes /\ Script[n].kind = "root"
    /\ \A i \in Situations :
          /\ i.files \in [Names -> Nodes \cup {Null}]
          /\ \A k \in DOMAIN i.events :
                i.events[k] \in {"write", "delete", "rename", "stop",
                                     "timeout"}
    /\ Disposers = {"service", "host"}

(* Outside of the TRYs there are only statements that do not fail, and     *)
(* CONTINUE, which the loop catches; a TRY catches everything but RETURN.  *)
ASSUME ProtectedAssumption ==
    /\ Protected \subseteq Nodes /\ Outside \subseteq Nodes
    /\ Covered \subseteq Nodes
    /\ \A n \in Protected :
          /\ Script[n].kind = "root" /\ Script[n].body # Null
          /\ LET loop == Script[Script[n].body]
             IN  /\ loop.kind = "while" /\ loop.flag
                 /\ loop.body \in Outside \cup {Null}
    /\ \A n \in Outside :
          LET m == Script[n]
          IN  /\ m.kind \in {"work", "if", "case", "sleep", "continue", "try"}
              /\ m.kind \in {"work", "if", "case"} => ~m.flag
              /\ {m.next, m.other, m.last} \subseteq Outside \cup {Null}
              /\ m.body \in (IF m.kind = "try" THEN Covered ELSE Outside)
                                \cup {Null}
    /\ \A n \in Covered :
          LET m == Script[n]
          IN  /\ m.kind # "return"
              /\ {m.next, m.other, m.last} \subseteq Covered \cup {Null}
              /\ m.kind \notin {"execute", "task"} =>
                    m.body \in Covered \cup {Null}

VARIABLES
    files,    \* the content of every file, Null if there is none
    events,   \* what will happen to them and to the host
    streams,  \* _streams: the stream of every file, Null if there is none
    home,     \* the file a stream was created from, by its root node
    svc,      \* where the service thread is
    todo,     \* the names it has yet to look at
    gone,     \* the keys it has found without a file
    current,  \* the file it is about and the stream it has created for it
    stopped,  \* the host has cancelled the token of the service
    host,     \* where the Dispose of the host is
    visited,  \* the keys it has enumerated
    added     \* a key was added while it enumerated

folder  == <<files, events>>
service == <<svc, todo, gone, current>>
hosting == <<stopped, host, visited, added>>

vars == <<scriptVars, folder, streams, home, service, hosting>>

None == <<Null, Null>>

Init == /\ ScriptInit
        /\ \E i \in Situations : files = i.files /\ events = i.events
        /\ streams = [f \in Names |-> Null]
        /\ home = [s \in Streams |-> None]
        /\ svc = "top" /\ todo = {} /\ gone = {} /\ current = None
        /\ stopped = FALSE /\ host = "running"
        /\ visited = {} /\ added = FALSE

-----------------------------------------------------------------------------
(* Somebody writes, deletes or renames a file.                             *)

Change(f, n) == files' = [files EXCEPT ![f] = n]

WriteFile  == \E f \in Names, n \in Contents : files[f] = Null /\ Change(f, n)
DeleteFile == \E f \in Names : files[f] # Null /\ Change(f, Null)
RenameFile == \E f, g \in Names :
                  /\ files[f] # Null /\ files[g] = Null
                  /\ files' = [files EXCEPT ![f] = Null, ![g] = files[f]]

Event(e) == events # <<>> /\ Head(events) = e /\ events' = Tail(events)

FileStep == /\ \/ Event("write") /\ WriteFile
               \/ Event("delete") /\ DeleteFile
               \/ Event("rename") /\ RenameFile
            /\ UNCHANGED <<scriptVars, streams, home, service, hosting>>

-----------------------------------------------------------------------------
(* The service thread.                                                     *)

Goto(l) == svc' = l

(* while (!_cancellationToken.IsCancellationRequested), with the delay     *)
(* between two scans.                                                      *)
Serve == /\ svc = "top"
         /\ IF stopped THEN Goto("exited") /\ UNCHANGED todo
                       ELSE Goto("activate") /\ todo' = Names
         /\ UNCHANGED <<scriptVars, folder, streams, home, gone, current,
                        hosting>>

(* ContainsKey, File.Exists.  Nothing happens for the names in between     *)
(* that are in the dictionary or have no file.                             *)
New == {f \in todo : streams[f] = Null /\ files[f] # Null}

Look(f) == /\ svc = "activate" /\ f \in New
           /\ todo' = todo \ {f}
           /\ Goto("read") /\ current' = <<f, Null>>
           /\ UNCHANGED <<scriptVars, folder, streams, home, gone, hosting>>

(* Mutant: the exception is caught outside of the loop of the service.     *)
ReadEndsService ==
    /\ svc = "read" /\ files[current[1]] = Null
    /\ Goto("exited") /\ current' = None /\ todo' = {}
    /\ UNCHANGED <<scriptVars, folder, streams, home, gone, hosting>>

(* The file was deleted since: the exception ends this call of Serve.      *)
ReadFails == /\ svc = "read" /\ files[current[1]] = Null
             /\ Goto("top") /\ current' = None /\ todo' = {}
             /\ UNCHANGED <<scriptVars, folder, streams, home, gone, hosting>>

(* The script does not compile: that is logged, and tried again next time. *)
CreateStreamFails ==
    /\ svc = "read" /\ files[current[1]] # Null
    /\ Goto("activate") /\ current' = None
    /\ UNCHANGED <<scriptVars, folder, streams, home, todo, gone, hosting>>

(* TryCreateStream, Task.Factory.StartNew.                                 *)
CreateStream ==
    /\ svc = "read" /\ files[current[1]] # Null /\ Unused # {}
    /\ Launch(Fresh, files[current[1]])
    /\ home' = [home EXCEPT ![Fresh] = <<current[1], files[current[1]]>>]
    /\ Goto("add") /\ current' = <<current[1], Fresh>>
    /\ UNCHANGED <<raised, marks, result, waiting, walk, folder, streams, todo,
                   gone, hosting>>

(* _streams.TryAdd(file, stream)                                           *)
TryAdd == /\ svc = "add"
          /\ streams' = [streams EXCEPT ![current[1]] = current[2]]
          /\ added' = (added \/ host = "dispose")
          /\ Goto("activate") /\ current' = None
          /\ UNCHANGED <<scriptVars, folder, home, todo, gone, stopped, host,
                         visited>>

(* foreach (var stream in _streams) if (!File.Exists(stream.Key))          *)
Activated ==
    /\ svc = "activate" /\ New = {}
    /\ todo' = {}
    /\ gone' = {f \in Names : streams[f] # Null /\ files[f] = Null}
    /\ Goto(IF gone' = {} THEN "top" ELSE "remove")
    /\ UNCHANGED <<scriptVars, folder, streams, home, current, hosting>>

(* if (_streams.Remove(file, out stream)) stream.Dispose();                *)
RemoveKey(f) ==
    /\ svc = "remove" /\ f \in gone
    /\ gone' = gone \ {f}
    /\ IF streams[f] # Null
       THEN /\ streams' = [streams EXCEPT ![f] = Null]
            /\ BeginDispose("service", streams[f], home[streams[f]][2])
            /\ Goto("dispose")
       ELSE UNCHANGED <<streams, walk, svc>>
    /\ UNCHANGED <<running, marks, ending, waiting, folder, home, todo,
                   current, hosting>>

Disposed == /\ svc = "dispose" /\ walk["service"] = <<>>
            /\ Goto("remove")
            /\ UNCHANGED <<scriptVars, folder, streams, home, todo, gone,
                           current, hosting>>

Removed == /\ svc = "remove" /\ gone = {}
           /\ Goto("top")
           /\ UNCHANGED <<scriptVars, folder, streams, home, todo, gone,
                          current, hosting>>

ServiceStep ==
    \/ Serve \/ Activated \/ Disposed \/ Removed
    \/ \E f \in Names : Look(f) \/ RemoveKey(f)
    \/ ReadFails \/ CreateStreamFails \/ CreateStream \/ TryAdd

-----------------------------------------------------------------------------
(* The host: it stops the service, waits for its thread or for the shutdown*)
(* timeout, whichever comes first, and disposes it.                        *)

Stop == /\ Event("stop")
        /\ stopped' = TRUE
        /\ UNCHANGED <<scriptVars, files, streams, home, service, host,
                       visited, added>>

HostDispose == /\ stopped /\ host = "running"
               /\ \/ svc = "exited" /\ UNCHANGED events
                  \/ Event("timeout")
               /\ host' = "dispose" /\ added' = FALSE
               /\ UNCHANGED <<scriptVars, files, streams, home, service,
                              stopped, visited>>

Left == {f \in Names : streams[f] # Null} \ visited

(* An addition makes MoveNext throw: the rest is neither disposed nor      *)
(* cleared.                                                                *)
HostDisposeFails == /\ host = "dispose" /\ walk["host"] = <<>> /\ added
                    /\ host' = "done"
                    /\ UNCHANGED <<scriptVars, folder, streams, home, service,
                                   stopped, visited, added>>

HostDisposeNext(f) ==
    /\ host = "dispose" /\ walk["host"] = <<>> /\ ~added
    /\ f \in Left /\ visited' = visited \cup {f}
    /\ BeginDispose("host", streams[f], home[streams[f]][2])
    /\ UNCHANGED <<running, marks, ending, waiting, folder, streams, home,
                   service, stopped, host, added>>

HostClear == /\ host = "dispose" /\ walk["host"] = <<>> /\ ~added /\ Left = {}
             /\ streams' = [f \in Names |-> Null]
             /\ host' = "done"
             /\ UNCHANGED <<scriptVars, folder, home, service, stopped,
                            visited, added>>

HostStep == \/ HostDispose \/ HostDisposeFails \/ HostClear
            \/ \E f \in Names : HostDisposeNext(f)

-----------------------------------------------------------------------------

OnStream(s)  == /\ StreamStep(s)
                /\ UNCHANGED <<folder, streams, home, service, hosting>>
OnDispose(d) == /\ DisposeStep(d)
                /\ UNCHANGED <<folder, streams, home, service, hosting>>

Next == \/ FileStep \/ ServiceStep \/ Stop \/ HostStep
        \/ \E s \in Streams : OnStream(s)
        \/ \E d \in Disposers : OnDispose(d)

Spec == Init /\ [][Next]_vars

ServiceThread == \/ ServiceStep
                 \/ OnDispose("service")
HostThread    == \/ HostStep
                 \/ OnDispose("host")

(* Every thread runs, every timer expires and every command returns, with  *)
(* success or not.  A script that compiles is compiled sooner or later.    *)
(* Nobody has to change a file or to stop the host.                        *)
Fairness == /\ WF_vars(ServiceThread) /\ SF_vars(CreateStream)
            /\ WF_vars(HostThread)
            /\ \A s \in Streams : WF_vars(OnStream(s))

FairSpec == Spec /\ Fairness

-----------------------------------------------------------------------------
(* Properties.                                                             *)

Updating == {"Status", "IsFaulted", "IsCompleted", "IsSucceeded", "Result"}

Places == {"enter", "after", "test", "leave", "token", "wait", "items", "tried",
           "caught", "finally", "called", "store", "answer"} \cup Updating

Frames == [node : Nodes, at : Places, keep : Raised \cup {"timeout"}, arg : Nat]

Visits == [stream : Streams, node : Nodes,
           at : {"enter", "foreach", "clear"}, seen : BOOLEAN]

TaskRecord == [child : Streams, Status : Ended \cup {"WaitingToRun", "Running"},
               IsFaulted : BOOLEAN, IsCompleted : BOOLEAN,
               IsSucceeded : BOOLEAN, Result : {"null", "value", "error"}]

(* The state of the threads, the processors and the host has the values    *)
(* the code can give it.                                                   *)
ScriptTypes ==
    /\ stack \in [Streams -> Seq(Frames)]
    /\ raised \in [Streams -> Raised]
    /\ marks \in [Streams -> SUBSET Nodes]
    /\ status \in [Streams -> Ended \cup {"unused", "WaitingToRun", "Running"}]
    /\ result \in [Streams -> {"null", "value", "error"}]
    /\ tasks \in [Streams -> Seq(TaskRecord)]
    /\ reading \in [Streams -> Seq(Nat)]
    /\ answer \in [Streams -> SUBSET TaskRecord]
    /\ walk \in [Disposers -> Seq(Visits)]

HostTypes ==
    /\ files \in [Names -> Nodes \cup {Null}]
    /\ streams \in [Names -> Streams \cup {Null}]
    /\ home \in [Streams -> (Names \X Nodes) \cup {None}]
    /\ svc \in {"top", "activate", "read", "add", "remove", "dispose", "exited"}
    /\ todo \subseteq Names /\ gone \subseteq Names
    /\ current \in (Names \X (Streams \cup {Null})) \cup {None}
    /\ stopped \in BOOLEAN /\ host \in {"running", "dispose", "done"}
    /\ visited \subseteq Names /\ added \in BOOLEAN

TypeOK == ScriptTypes /\ HostTypes

Alive(s) == status[s] \in {"WaitingToRun", "Running"}

OnStack(s) == {stack[s][i].node : i \in DOMAIN stack[s]}

(* What a Dispose of node n gets to, if nothing goes wrong.                *)
Reaches[n \in Nodes] ==
    {n} \cup UNION {Reaches[m] : m \in
        (CASE Script[n].kind \in {"root", "if", "while", "execute"} -> Children(n)
           [] OTHER -> {Script[n].next}) \ {Null}}

Roots == {n \in Nodes : Script[n].kind = "root"}

(* The loops of a script, those inside of another one, and whether Dispose *)
(* gets to all of them.                                                    *)
Loops(n)   == {m \in Within[n] : Script[m].kind = "while"}
Disposable == {n \in Roots : Loops(n) # {} /\ Loops(n) \subseteq Reaches[n]}
LoopsOf    == [n \in Disposable |-> Loops(n)]
InnerOf    == [n \in Disposable |->
                  UNION {Compiled(Script[m].body) : m \in Loops(n)} \cap Loops(n)]

(* The stream is in the dictionary; the file it was made from is gone.     *)
Stored(s)  == home[s] # None /\ streams[home[s][1]] = s
Deleted(s) == home[s] # None /\ files[home[s][1]] = Null

(* The thread is in all the loops of the script that are not inside of     *)
(* another one, so that it will enter none of them any more, and Dispose   *)
(* gets to all the loops.                                                  *)
Stoppable(s) ==
    /\ status[s] = "Running" /\ home[s][2] \in Disposable
    /\ LET outer == LoopsOf[home[s][2]] \ InnerOf[home[s][2]]
       IN  /\ outer \subseteq OnStack(s)
           /\ ~(IsAt(s, {"while"}, "enter") /\ Top(s).node \in outer)

(* The thread is in a loop inside of another one.  If it has passed the    *)
(* test of the outer loop and has yet to enter the inner one when both are *)
(* disposed, it sets the flag of the inner loop back: nothing but the      *)
(* condition of that loop or an exception ends it then.                    *)
InInnerLoop(s) ==
    /\ Alive(s) /\ home[s][2] \in Disposable
    /\ InnerOf[home[s][2]] \cap OnStack(s) # {}

(* The stream is in the dictionary; its file is gone, or the host stops    *)
(* and its Dispose has yet to come to it.                                  *)
DueToStop(s) ==
    /\ Stored(s)
    /\ IF stopped THEN host # "done" /\ home[s][1] \notin visited
                  ELSE Deleted(s)

(* A script that is in its loops when its file is deleted or renamed or    *)
(* the host stops is stopped, whether the service removes it or the host   *)
(* disposes it, with the service thread ended or still at work, unless the *)
(* file comes back, that thread adds a script in the middle of it or a loop*)
(* inside of another one never ends: the flag is looked at in every loop,  *)
(* and no SLEEP, call or exception gets around the test                    *)
(* (StreamManager.DisposeStreams and Dispose, WhileProcessor.Process).     *)
ScriptsStop ==
    \A s \in Streams :
        (DueToStop(s) /\ Stoppable(s))
            ~> \/ ~Alive(s)
               \/ ~stopped /\ ~Deleted(s)
               \/ added
               \/ []InInnerLoop(s)

(* Every new file is started at last, whatever fails or disappears         *)
(* meanwhile (StreamManager.ActivateStreams).                              *)
ScriptsStart ==
    \A f \in Names : (files[f] # Null /\ streams[f] = Null)
                        ~> (streams[f] # Null \/ files[f] = Null \/ stopped)

(* A script that has its whole work in a TRY with a CATCH block, in an     *)
(* endless loop, runs until it is disposed: no error, BREAK or CONTINUE of *)
(* the block ends it (TryProcessor.Process, WhileProcessor.Process).       *)
ProtectedScriptsRun ==
    \A f \in Names :
        (host = "running" /\ streams[f] # Null
            /\ home[streams[f]][2] \in Protected) => Alive(streams[f])

(* The records of a WAIT that did not time out say how the tasks ended:    *)
(* RETURN and the end of the script are success, everything else is not    *)
(* (the tables of doc/dajet-script/execute/async/README.md and             *)
(* WaitProcessor.UpdateTaskObjectValues).                                  *)
RecordsTellTheTruth ==
    \A s \in Streams : \A r \in answer[s] :
        /\ r.IsCompleted
        /\ r.Result = result[r.child]
        /\ r.IsSucceeded = (r.Result # "error")
        /\ r.IsFaulted = ~r.IsSucceeded
        /\ r.Status = IF r.IsFaulted THEN "Faulted" ELSE "RanToCompletion"

In(s, n, places) == \E i \in DOMAIN stack[s] :
                        stack[s][i].node = n /\ stack[s][i].at \in places

TryNodes == {n \in Nodes : Script[n].kind = "try"}

(* A thread leaves the TRY or CATCH block only for CATCH or FINALLY,       *)
(* whatever is raised in them and by whichever statement they call         *)
(* (TryProcessor.Process).                                                 *)
FinallyIsNotSkipped ==
    [][\A s \in Streams, n \in TryNodes :
          In(s, n, {"tried", "caught"}) =>
              In(s, n, {"tried", "caught", "finally"})']_vars

-----------------------------------------------------------------------------
(* Why RecordsTellTheTruth, FinallyIsNotSkipped and ProtectedScriptsRun    *)
(* hold: an inductive invariant, in parts.                                 *)

(* Only a running thread has processors to return to, and how it ended is  *)
(* what it gives to those who wait for it.                                 *)
EndInv ==
    \A s \in Streams :
        /\ status[s] \in Ended \cup {"unused"} =>
              stack[s] = <<>> /\ raised[s] = "no"
        /\ status[s] = "Faulted" <=> result[s] # "null"

Kind(f) == Script[f.node].kind

(* SLEEP, WAIT and EXECUTE TASK call no processor of their own, and FINALLY*)
(* lets nothing go on but exceptions.                                      *)
FrameInv ==
    \A s \in Streams : \A i \in DOMAIN stack[s] :
        LET kind == Script[stack[s][i].node].kind
        IN  /\ i > 1 => kind \notin {"task", "all", "any", "sleep"}
            /\ kind \notin {"all", "any"} => stack[s][i].keep \in Raised

(* A record is of a thread that has been started.                          *)
ChildInv(s) ==
    /\ \A i \in DOMAIN tasks[s] : status[tasks[s][i].child] # "unused"
    /\ stack[s] # <<>> /\ Code(s).kind = "task" /\ Top(s).at = "store" =>
          Top(s).arg \in Streams /\ status[Top(s).arg] # "unused"

(* What a record says of a thread that has ended.                          *)
IsTrue(r) ==
    /\ status[r.child] \in Ended /\ r.IsCompleted
    /\ r.Result = result[r.child]
    /\ r.IsSucceeded = (r.Result # "error")
    /\ r.IsFaulted = ~r.IsSucceeded
    /\ r.Status = IF r.IsFaulted THEN "Faulted" ELSE "RanToCompletion"

(* The properties that a WAIT at l has read since the thread ended.        *)
HasRead(r, l) ==
    /\ status[r.child] \in Ended
    /\ l # "Status" => r.Status = status[r.child]
    /\ l \notin {"Status", "IsFaulted"} =>
          r.IsFaulted = (status[r.child] = "Faulted")
    /\ l \in {"IsSucceeded", "Result"} => r.IsCompleted
    /\ l = "Result" => r.IsSucceeded = (status[r.child] = "RanToCompletion")

(* A WAIT without a timeout updates the records of tasks that have ended:  *)
(* what it is not going to read any more is true.                          *)
WaitInv(s) ==
    stack[s] # <<>> /\ Code(s).kind \in {"all", "any"} =>
        /\ Top(s).at \in {"enter", "wait", "answer"} \cup Updating
        /\ Top(s).at = "wait" => tasks[s] # <<>>
        /\ Top(s).at \in Updating \cup {"answer"} =>
              /\ Code(s).kind = "any" => Top(s).keep = "no"
              /\ reading[s] # <<>>
              /\ \A k \in DOMAIN reading[s] : reading[s][k] \in DOMAIN tasks[s]
        /\ Top(s).at \in Updating /\ Top(s).keep = "no" =>
              /\ HasRead(tasks[s][reading[s][1]], Top(s).at)
              /\ Code(s).kind = "any" => Len(reading[s]) = 1
              /\ Code(s).kind = "all" => \A i \in DOMAIN tasks[s] :
                    /\ Done(s, i)
                    /\ \/ IsTrue(tasks[s][i])
                       \/ \E k \in DOMAIN reading[s] : reading[s][k] = i
        /\ Top(s).at = "answer" /\ Top(s).keep = "no" =>
              /\ IsTrue(tasks[s][reading[s][1]])
              /\ Code(s).kind = "all" =>
                    \A i \in DOMAIN tasks[s] : IsTrue(tasks[s][i])

AnswerInv == \A s \in Streams : \A r \in answer[s] : IsTrue(r)

(* A key of the dictionary is the file of its stream.                      *)
KeyInv ==
    /\ svc \in {"read", "add"} => current[1] \in Names
    /\ svc = "add" => /\ current[2] \in Streams
                      /\ status[current[2]] # "unused"
                      /\ home[current[2]][1] = current[1]
    /\ \A f \in Names : streams[f] # Null =>
          /\ status[streams[f]] # "unused"
          /\ home[streams[f]][1] = f

(* Why ProtectedScriptsRun holds.  The frames of a protected script are its*)
(* root, its loop, statements outside of the TRYs, at most one TRY in whose*)
(* block the thread is, statements of that block, and above an EXECUTE of  *)
(* it anything.                                                            *)
IsTried(f)  == f.node \in Outside /\ Kind(f) = "try" /\ f.at = "tried"
IsCalled(f) == f.node \in Covered /\ Kind(f) = "execute" /\ f.at = "called"

Below(q, i)  == SubSeq(q, i + 1, Len(q))
Caught(q)    == \E i \in DOMAIN q : IsTried(q[i])
Contained(q) == \E i \in DOMAIN q : IsCalled(q[i]) /\ Caught(Below(q, i))

Fits(f, q, n) ==
    IF Len(q) = 0 THEN f.node = n
    ELSE IF Len(q) = 1
    THEN f.node = Script[n].body /\ f.at \in {"enter", "test"}
    ELSE \/ Contained(q)
         \/ /\ Caught(q)
            /\ f.node \in Covered /\ f.keep # "return"
         \/ /\ ~Caught(q)
            /\ f.node \in Outside /\ f.keep \in {"no", "continue"}

(* The exceptions that do not get out of the loop.                         *)
Stays(q, e) == \/ e = "no" \/ Contained(q)
               \/ Caught(q) /\ e # "return"
               \/ e = "continue" /\ Len(q) > 1

InLoop(q, e, n) ==
    /\ q # <<>> /\ Stays(q, e)
    /\ Len(q) = 1 => q[1].at = "enter" /\ e = "no"
    /\ \A i \in DOMAIN q : Fits(q[i], Below(q, i), n)

(* Nobody has disposed a stream that is in the dictionary.                 *)
Kept(s) == /\ host = "running"
           /\ \/ \E f \in Names : streams[f] = s
              \/ svc = "add" /\ current[2] = s

(* A SLEEP outside of the TRYs has its token, and the flag of the loop is  *)
(* not set.                                                                *)
HasToken(s) == Top(s).at = "token" /\ Kind(Top(s)) = "sleep"
                   /\ ~Caught(Tail(stack[s])) => Marked(s, Top(s).node)

Unmarked(s, n) ==
    /\ HasToken(s)
    /\ Marked(s, n) => \/ Len(stack[s]) = 1
                       \/ Len(stack[s]) = 2 /\ Top(s).at = "enter"

WalkInv ==
    /\ host = "running" => walk["host"] = <<>>
    /\ svc # "dispose" => walk["service"] = <<>>
    /\ \A i \in DOMAIN walk["service"] : ~Kept(walk["service"][i].stream)

LoopInv ==
    /\ WalkInv
    /\ \A s \in Streams :
          /\ status[s] = "unused" => home[s] = None
          /\ Kept(s) /\ home[s][2] \in Protected =>
                /\ Alive(s)
                /\ InLoop(stack[s], raised[s], home[s][2])
                /\ Unmarked(s, Script[home[s][2]].body)

StateInv ==
    /\ ScriptTypes /\ HostTypes
    /\ EndInv /\ FrameInv /\ AnswerInv /\ KeyInv
    /\ \A s \in Streams : ChildInv(s) /\ WaitInv(s)

IInv == StateInv /\ LoopInv

=============================================================================
