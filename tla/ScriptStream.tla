----------------------------- MODULE ScriptStream -----------------------------
(***************************************************************************)
(* The threads that run DaJet scripts.  A script is compiled to a tree of  *)
(* processors (StreamFactory.CreateStream): every processor does its own   *)
(* work in Process, calls the processors of its blocks, and then calls the *)
(* processor of the statement that follows it.  Dispose walks the same     *)
(* tree on another thread and leaves marks in the processors: that is how  *)
(* a script is told to stop.                                               *)
(*                                                                         *)
(* This module has the control flow (IF, CASE, WHILE, FOR, TRY, SLEEP,     *)
(* BREAK, CONTINUE, RETURN, THROW), the calls of other scripts (EXECUTE,   *)
(* EXECUTE TASK, WAIT) and the disposal.  All other statements are "work"  *)
(* that succeeds or fails.                                                 *)
(***************************************************************************)
EXTENDS Integers, Sequences, SequencesExt

CONSTANTS
    Script,     \* the statements, see Statement below
    MaxStreams, \* how many threads there may be: no run needs more
    MaxItems,   \* the longest array FOR iterates over
    Disposers   \* the threads that call Dispose

Nodes   == DOMAIN Script
Streams == 1..MaxStreams
Null    == 0

(* What is known of a statement: its processor, the processor that follows *)
(* it, and those of its blocks.                                            *)
(*   root     body: the script            if     body THEN, other ELSE     *)
(*   while    body                        case   body and other: branches  *)
(*   for      body                        try    body, other CATCH, last   *)
(*                                               FINALLY                   *)
(*   execute  body: the called script     task   body: the started script  *)
(*   work, sleep, break, continue, return, throw, all, any (WAIT)          *)
(* The flag says WHILE TRUE, INTO is present (execute, task), TIMEOUT (all,*)
(* any), or that the statement or its condition may fail (work, if, case). *)
Kinds == {"root", "work", "if", "case", "while", "for", "try", "sleep",
          "execute", "task", "all", "any",
          "break", "continue", "return", "throw"}

Statement == [kind : Kinds, next : Nodes \cup {Null}, body : Nodes \cup {Null},
              other : Nodes \cup {Null}, last : Nodes \cup {Null},
              flag : BOOLEAN]

ASSUME ScriptAssumption ==
    /\ Null \notin Nodes
    /\ Script \in [Nodes -> Statement]
    /\ \A n \in Nodes :
          Script[n].kind \in {"break", "continue", "return", "throw"} =>
              Script[n].next = Null
    /\ MaxStreams \in Nat /\ MaxItems \in Nat \ {0}

VARIABLES
    stack,    \* the processors in whose Process a thread is, the inner first
    raised,   \* the exception a thread is unwinding with, or "no"
    marks,    \* While._disposed is true; Sleep._cts is not null; Execute has
              \* its target in _targets
    status,   \* TaskStatus of the thread, or "unused"
    result,   \* Task.Exception: "null", "value" (ReturnException) or "error"
    tasks,    \* the array of task records of EXECUTE ... INTO and WAIT
    reading,  \* the records a WAIT has yet to update
    answer,   \* the records the last WAIT gave without a timeout
    walk      \* what a Dispose has yet to visit

scriptVars == <<stack, raised, marks, status, result, tasks, reading, answer,
                walk>>

running == <<stack, raised>>
ending  == <<status, result>>
waiting == <<tasks, reading, answer>>

Raised == {"no", "break", "continue", "return", "error"}
Ended  == {"RanToCompletion", "Faulted"}

-----------------------------------------------------------------------------
(* Calls.  A processor calls the next one last, so its own frame is gone   *)
(* by then; the frame below resumes at "at".                               *)

Frame(n) == [node |-> n, at |-> "enter", keep |-> "no", arg |-> 0]

Begin(n) == IF n = Null THEN <<>> ELSE <<Frame(n)>>

Top(s)  == Head(stack[s])
Code(s) == Script[Top(s).node]

IsAt(s, kinds, l) ==
    /\ stack[s] # <<>> /\ raised[s] = "no"
    /\ Code(s).kind \in kinds /\ Top(s).at = l

(* The thread goes on with frame f instead of the inner one.               *)
Resume(s, f) == stack' = [stack EXCEPT ![s] = <<f>> \o Tail(@)]

(* n.Process(), after which the inner processor goes on with frame f, or   *)
(* resumes at l.                                                           *)
Push(s, n, f)  == stack' = [stack EXCEPT ![s] = Begin(n) \o <<f>> \o Tail(@)]
Enter(s, n, l) == Push(s, n, [Top(s) EXCEPT !.at = l])

(* Process returns without _next?.Process().                               *)
Return(s) == stack' = [stack EXCEPT ![s] = Tail(@)]

(* _next?.Process();                                                       *)
GoNext(s) == stack' = [stack EXCEPT ![s] = Begin(Code(s).next) \o Tail(@)]

(* An exception leaves the inner processor.                                *)
Throw(s, e) == Return(s) /\ raised' = [raised EXCEPT ![s] = e]

Handled(s) == raised' = [raised EXCEPT ![s] = "no"]

Quiet == UNCHANGED raised

(* The processors that CreateStream makes for a script or a block.         *)
Children(n) == {Script[n].next, Script[n].body, Script[n].other,
                Script[n].last} \ {Null}

Within[n \in Nodes] ==
    {n} \cup UNION {Within[m] : m \in
                IF Script[n].kind = "task" THEN {Script[n].next} \ {Null}
                                           ELSE Children(n)}

Compiled(n) == IF n = Null THEN {} ELSE Within[n]

Mark(s, n)     == marks' = [marks EXCEPT ![s] = @ \cup {n}]
Unmark(s, n)   == marks' = [marks EXCEPT ![s] = @ \ {n}]
Marked(s, n)   == n \in marks[s]

-----------------------------------------------------------------------------
(* RootProcessor, IF, CASE and the statements that only work.              *)

Root(s) == /\ IsAt(s, {"root"}, "enter")
           /\ Enter(s, Code(s).body, "after") /\ Quiet
           /\ UNCHANGED <<marks, ending, waiting, walk>>

Work(s) == /\ IsAt(s, {"work"}, "enter")
           /\ \/ GoNext(s) /\ Quiet
              \/ Code(s).flag /\ Throw(s, "error")
           /\ UNCHANGED <<marks, ending, waiting, walk>>

Branch(s) == /\ IsAt(s, {"if", "case"}, "enter")
             /\ \/ /\ \E n \in {Code(s).body, Code(s).other} :
                          Enter(s, n, "after")
                   /\ Quiet
                \/ Code(s).flag /\ Throw(s, "error")
             /\ UNCHANGED <<marks, ending, waiting, walk>>

AfterBlock(s) == /\ IsAt(s, {"root", "if", "case"}, "after")
                 /\ GoNext(s) /\ Quiet
                 /\ UNCHANGED <<marks, ending, waiting, walk>>

Exception(kind) == IF kind = "throw" THEN "error" ELSE kind

Raise(s) == \E e \in {"break", "continue", "return", "throw"} :
                /\ IsAt(s, {e}, "enter")
                /\ Throw(s, Exception(e))
                /\ UNCHANGED <<marks, ending, waiting, walk>>

-----------------------------------------------------------------------------
(* WHILE and SLEEP, the two statements that Dispose speaks to.             *)

WhileEnter(s) == /\ IsAt(s, {"while"}, "enter")
                 /\ Unmark(s, Top(s).node)   \* _disposed = false
                 /\ Resume(s, [Top(s) EXCEPT !.at = "test"]) /\ Quiet
                 /\ UNCHANGED <<ending, waiting, walk>>

WhileTest(s) ==
    /\ IsAt(s, {"while"}, "test")
    /\ \/ /\ ~Marked(s, Top(s).node)
          /\ Enter(s, Code(s).body, "test") /\ Quiet
       \/ /\ Marked(s, Top(s).node) \/ ~Code(s).flag
          /\ Resume(s, [Top(s) EXCEPT !.at = "leave"])
          /\ Quiet
       \/ /\ ~Marked(s, Top(s).node) /\ ~Code(s).flag
          /\ Throw(s, "error")
    /\ UNCHANGED <<marks, ending, waiting, walk>>

WhileLeave(s) ==
    /\ IsAt(s, {"while"}, "leave")
    /\ IF Marked(s, Top(s).node) THEN Return(s) ELSE GoNext(s)
    /\ Quiet
    /\ UNCHANGED <<marks, ending, waiting, walk>>

(* _cts ??= new CancellationTokenSource();                                 *)
SleepEnter(s) == /\ IsAt(s, {"sleep"}, "enter")
                 /\ Mark(s, Top(s).node)
                 /\ Resume(s, [Top(s) EXCEPT !.at = "token"]) /\ Quiet
                 /\ UNCHANGED <<ending, waiting, walk>>

(* CancellationToken token = _cts.Token: a Dispose since has set _cts to   *)
(* null, and nothing here catches that.                                    *)
SleepToken(s) == /\ IsAt(s, {"sleep"}, "token")
                 /\ IF Marked(s, Top(s).node)
                    THEN Resume(s, [Top(s) EXCEPT !.at = "wait"]) /\ Quiet
                    ELSE Throw(s, "error")
                 /\ UNCHANGED <<marks, ending, waiting, walk>>

(* The time is over.                                                       *)
SleepElapses(s) == /\ IsAt(s, {"sleep"}, "wait") /\ Marked(s, Top(s).node)
                   /\ GoNext(s) /\ Quiet
                   /\ UNCHANGED <<marks, ending, waiting, walk>>

(* The token is cancelled: nobody but this thread makes a new one.         *)
SleepCancelled(s) == /\ IsAt(s, {"sleep"}, "wait") /\ ~Marked(s, Top(s).node)
                     /\ Return(s) /\ Quiet
                     /\ UNCHANGED <<marks, ending, waiting, walk>>

-----------------------------------------------------------------------------
(* FOR with one thread: an empty array ends the whole rest of the block,   *)
(* everything else that is not an array is an error.  The block is         *)
(* compiled anew every time.                                               *)

ForEnter(s) ==
    /\ IsAt(s, {"for"}, "enter")
    /\ \/ Throw(s, "error") /\ UNCHANGED marks
       \/ Return(s) /\ Quiet /\ UNCHANGED marks
       \/ /\ \E k \in 1..MaxItems :
                Resume(s, [Top(s) EXCEPT !.at = "items", !.arg = k])
          /\ marks' = [marks EXCEPT ![s] = @ \ Compiled(Code(s).body)]
          /\ Quiet
    /\ UNCHANGED <<ending, waiting, walk>>

ForItem(s) ==
    /\ IsAt(s, {"for"}, "items")
    /\ IF Top(s).arg = 0
       THEN GoNext(s)
       ELSE Push(s, Code(s).body, [Top(s) EXCEPT !.arg = @ - 1])
    /\ Quiet
    /\ UNCHANGED <<marks, ending, waiting, walk>>

(* TRY: at "tried" and "caught" a block has returned; "keep" is the        *)
(* exception that FINALLY lets go on.                                      *)

Try(s) == /\ IsAt(s, {"try"}, "enter")
          /\ Enter(s, Code(s).body, "tried") /\ Quiet
          /\ UNCHANGED <<marks, ending, waiting, walk>>

Finally(s, e) ==
    Push(s, Code(s).last, [Top(s) EXCEPT !.at = "finally", !.keep = e])

TryFinally(s) == /\ IsAt(s, {"try"}, "tried") \/ IsAt(s, {"try"}, "caught")
                 /\ Finally(s, "no") /\ Quiet
                 /\ UNCHANGED <<marks, ending, waiting, walk>>

TryLeave(s) == /\ IsAt(s, {"try"}, "finally")
               /\ IF Top(s).keep = "no" THEN GoNext(s) /\ Quiet
                                        ELSE Throw(s, Top(s).keep)
               /\ UNCHANGED <<marks, ending, waiting, walk>>

-----------------------------------------------------------------------------
(* An exception on its way through the processors.                         *)

Unwinding(s, kinds, l) ==
    /\ stack[s] # <<>> /\ raised[s] # "no"
    /\ Code(s).kind \in kinds /\ Top(s).at = l

(* catch (BreakException) { break; }  catch (ContinueException) { continue; } *)
WhileCatch(s) == /\ Unwinding(s, {"while"}, "test")
                 /\ raised[s] \in {"break", "continue"}
                 /\ Handled(s)
                 /\ Resume(s, [Top(s) EXCEPT
                        !.at = IF raised[s] = "break" THEN "leave" ELSE "test"])
                 /\ UNCHANGED <<marks, ending, waiting, walk>>

(* Mutant: BREAK goes on to the loop around the TRY.                       *)
TryCatchNoBreak(s) ==
    /\ Unwinding(s, {"try"}, "tried")
    /\ Handled(s)
    /\ IF raised[s] \in {"return", "break"}
       THEN Finally(s, raised[s])
       ELSE Enter(s, Code(s).other, "caught")
    /\ UNCHANGED <<marks, ending, waiting, walk>>

(* Everything but RETURN is caught, with or without a CATCH block.         *)
TryCatch(s) == /\ Unwinding(s, {"try"}, "tried")
               /\ Handled(s)
               /\ IF raised[s] = "return" THEN Finally(s, "return")
                                          ELSE Enter(s, Code(s).other, "caught")
               /\ UNCHANGED <<marks, ending, waiting, walk>>

(* Mutant: an exception of CATCH skips FINALLY.                            *)
CatchFailsAtOnce(s) ==
    /\ Unwinding(s, {"try"}, "caught")
    /\ Return(s) /\ Quiet
    /\ UNCHANGED <<marks, ending, waiting, walk>>

CatchFails(s) == /\ Unwinding(s, {"try"}, "caught")
                 /\ Handled(s) /\ Finally(s, raised[s])
                 /\ UNCHANGED <<marks, ending, waiting, walk>>

RootCatch(s) == /\ Unwinding(s, {"root"}, "after") /\ raised[s] = "return"
                /\ Handled(s) /\ Return(s)
                /\ UNCHANGED <<marks, ending, waiting, walk>>

(* catch (ReturnException): the value goes INTO a variable of the caller.  *)
ExecuteReturn(s) == /\ Unwinding(s, {"execute"}, "called")
                    /\ raised[s] = "return"
                    /\ IF Code(s).flag THEN GoNext(s) /\ Handled(s)
                                       ELSE Throw(s, "error")
                    /\ UNCHANGED <<marks, ending, waiting, walk>>

Catches(s) == \/ Code(s).kind = "while" /\ raised[s] \in {"break", "continue"}
              \/ Code(s).kind = "try" /\ Top(s).at # "finally"
              \/ Code(s).kind \in {"root", "execute"} /\ raised[s] = "return"

Unwind(s) == /\ stack[s] # <<>> /\ raised[s] # "no" /\ ~Catches(s)
             /\ Return(s) /\ Quiet
             /\ UNCHANGED <<marks, ending, waiting, walk>>

-----------------------------------------------------------------------------
(* EXECUTE: the called script is compiled once, kept in _targets, and runs *)
(* on the same thread.                                                     *)

CallTarget(s) ==
    /\ IsAt(s, {"execute"}, "enter")
    /\ \/ /\ marks' = [marks EXCEPT ![s] =
                        IF Marked(s, Top(s).node) THEN @
                        ELSE (@ \ Compiled(Code(s).body)) \cup {Top(s).node}]
          /\ \/ Enter(s, Code(s).body, "called") /\ Quiet
             \/ Throw(s, "error")      \* a parameter
       \/ /\ ~Marked(s, Top(s).node)   \* no such script
          /\ Throw(s, "error") /\ UNCHANGED marks
    /\ UNCHANGED <<ending, waiting, walk>>

CallReturns(s) == /\ IsAt(s, {"execute"}, "called")
                  /\ GoNext(s) /\ Quiet
                  /\ UNCHANGED <<marks, ending, waiting, walk>>

(* EXECUTE TASK | WORK: the called script runs on a thread of its own that *)
(* no Dispose reaches; only the parsed script is kept in _targets, even if *)
(* a parameter fails after that.                                           *)

Unused == {s \in Streams : status[s] = "unused"}
Fresh  == CHOOSE s \in Unused : \A t \in Unused : s <= t

StartTask(s) ==
    /\ IsAt(s, {"task"}, "enter") /\ Unused # {}
    /\ status' = [status EXCEPT ![Fresh] = "WaitingToRun"]
    /\ stack' = [stack EXCEPT
            ![s] = <<[Head(@) EXCEPT !.at = "store", !.arg = Fresh]>> \o Tail(@),
            ![Fresh] = Begin(Code(s).body)]
    /\ Mark(s, Top(s).node) /\ Quiet
    /\ UNCHANGED <<result, waiting, walk>>

StartTaskFails(s) == /\ IsAt(s, {"task"}, "enter")
                     /\ Throw(s, "error")
                     /\ UNCHANGED marks \/ Mark(s, Top(s).node)
                     /\ UNCHANGED <<ending, waiting, walk>>

Record(c) == [child |-> c, Status |-> status[c],
              IsFaulted |-> status[c] = "Faulted",
              IsCompleted |-> status[c] \in Ended,
              IsSucceeded |-> status[c] = "RanToCompletion",
              Result |-> "null"]

StoreTaskToWait(s) ==
    /\ IsAt(s, {"task"}, "store")
    /\ tasks' = [tasks EXCEPT ![s] =
                    IF Code(s).flag THEN Append(@, Record(Top(s).arg)) ELSE @]
    /\ GoNext(s) /\ Quiet
    /\ UNCHANGED <<marks, ending, reading, answer, walk>>

(* WAIT ALL | ANY.                                                         *)

Done(s, i) == status[tasks[s][i].child] \in Ended

WaitEnter(s) ==
    /\ IsAt(s, {"all", "any"}, "enter")
    /\ IF tasks[s] = <<>>
       THEN GoNext(s) /\ UNCHANGED answer
       ELSE /\ Resume(s, [Top(s) EXCEPT !.at = "wait"])
            /\ answer' = [answer EXCEPT ![s] = {}]
    /\ Quiet
    /\ UNCHANGED <<marks, ending, tasks, reading, walk>>

Update(s, indexes, keep) ==
    /\ Resume(s, [Top(s) EXCEPT !.at = "Status", !.keep = keep])
    /\ reading' = [reading EXCEPT ![s] = indexes]

(* Mutant: the answer of Task.WaitAll is not looked at.                    *)
WaitForAllIgnoresTimeout(s) ==
    /\ IsAt(s, {"all"}, "wait")
    /\ Code(s).flag \/ \A i \in DOMAIN tasks[s] : Done(s, i)
    /\ Update(s, [i \in DOMAIN tasks[s] |-> i], "no")
    /\ Quiet
    /\ UNCHANGED <<marks, ending, tasks, answer, walk>>

WaitForAll(s) ==
    /\ IsAt(s, {"all"}, "wait")
    /\ LET done == \A i \in DOMAIN tasks[s] : Done(s, i)
       IN  /\ done \/ Code(s).flag
           /\ Update(s, [i \in DOMAIN tasks[s] |-> i],
                     IF done THEN "no" ELSE "timeout")
    /\ Quiet
    /\ UNCHANGED <<marks, ending, tasks, answer, walk>>

WaitForAny(s) ==
    /\ IsAt(s, {"any"}, "wait")
    /\ \/ \E i \in DOMAIN tasks[s] : Done(s, i) /\ Update(s, <<i>>, "no")
       \/ /\ Code(s).flag /\ \A i \in DOMAIN tasks[s] : ~Done(s, i)
          /\ GoNext(s) /\ UNCHANGED reading
    /\ Quiet
    /\ UNCHANGED <<marks, ending, tasks, answer, walk>>

(* UpdateTaskObjectValues reads the task one property after the other: at  *)
(* l the record becomes r, and m is next.                                  *)
Reads(s, l, r, m) ==
    /\ IsAt(s, {"all", "any"}, l)
    /\ tasks' = [tasks EXCEPT ![s][Head(reading[s])] = r]
    /\ Resume(s, [Top(s) EXCEPT !.at = m]) /\ Quiet
    /\ UNCHANGED <<marks, ending, reading, answer, walk>>

UpdateProperty(s) ==
    LET r   == tasks[s][Head(reading[s])]
        now == Record(r.child)
    IN  \/ Reads(s, "Status", [r EXCEPT !.Status = now.Status], "IsFaulted")
        \/ Reads(s, "IsFaulted", [r EXCEPT !.IsFaulted = now.IsFaulted],
                 "IsCompleted")
        \/ Reads(s, "IsCompleted", [r EXCEPT !.IsCompleted = now.IsCompleted],
                 "IsSucceeded")
        \/ Reads(s, "IsSucceeded", [r EXCEPT !.IsSucceeded = now.IsSucceeded],
                 "Result")

WithResult(r) ==
    IF result[r.child] = "value"
    THEN [r EXCEPT !.Result = "value", !.Status = "RanToCompletion",
                   !.IsFaulted = FALSE, !.IsSucceeded = TRUE]
    ELSE [r EXCEPT !.Result = result[r.child]]

UpdateResult(s) ==
    /\ IsAt(s, {"all", "any"}, "Result")
    /\ LET i == Head(reading[s])
       IN  tasks' = [tasks EXCEPT ![s][i] = WithResult(@)]
    /\ IF Len(reading[s]) > 1
       THEN /\ reading' = [reading EXCEPT ![s] = Tail(@)]
            /\ Resume(s, [Top(s) EXCEPT !.at = "Status"])
       ELSE /\ Resume(s, [Top(s) EXCEPT !.at = "answer"])
            /\ UNCHANGED reading
    /\ Quiet
    /\ UNCHANGED <<marks, ending, answer, walk>>

(* The result variable: whether all are completed, or the task, which also *)
(* leaves the array.                                                       *)
Answer(s) ==
    /\ IsAt(s, {"all", "any"}, "answer")
    /\ LET i == Head(reading[s])
       IN  IF Code(s).kind = "all"
           THEN /\ answer' = [answer EXCEPT ![s] =
                        IF Top(s).keep = "no" THEN ToSet(tasks[s]) ELSE {}]
                /\ UNCHANGED tasks
           ELSE /\ answer' = [answer EXCEPT ![s] = {tasks[s][i]}]
                /\ tasks' = [tasks EXCEPT ![s] = RemoveAt(@, i)]
    /\ reading' = [reading EXCEPT ![s] = <<>>]
    /\ GoNext(s) /\ Quiet
    /\ UNCHANGED <<marks, ending, walk>>

-----------------------------------------------------------------------------
(* A thread from Task.Factory.StartNew to its end.                         *)

Launch(s, n) == /\ status' = [status EXCEPT ![s] = "WaitingToRun"]
                /\ stack' = [stack EXCEPT ![s] = Begin(n)]

Runs(s) == /\ status[s] = "WaitingToRun"
           /\ status' = [status EXCEPT ![s] = "Running"]
           /\ UNCHANGED <<running, marks, result, waiting, walk>>

Ends(s) ==
    /\ stack[s] = <<>>
    /\ status' = [status EXCEPT ![s] =
                    IF raised[s] = "no" THEN "RanToCompletion" ELSE "Faulted"]
    /\ result' = [result EXCEPT ![s] = CASE raised[s] = "no"     -> "null"
                                         [] raised[s] = "return" -> "value"
                                         [] OTHER                -> "error"]
    /\ Handled(s)
    /\ UNCHANGED <<stack, marks, waiting, walk>>

Unwinds(s) == \/ WhileCatch(s) \/ TryCatch(s) \/ CatchFails(s)
              \/ RootCatch(s) \/ ExecuteReturn(s) \/ Unwind(s)

Blocks(s)  == \/ Root(s) \/ Work(s) \/ Branch(s) \/ AfterBlock(s) \/ Raise(s)
Whiles(s)  == \/ WhileEnter(s) \/ WhileTest(s) \/ WhileLeave(s)
Sleeps(s)  == \/ SleepEnter(s) \/ SleepToken(s)
              \/ SleepElapses(s) \/ SleepCancelled(s)
Fors(s)    == \/ ForEnter(s) \/ ForItem(s)
Tries(s)   == \/ Try(s) \/ TryFinally(s) \/ TryLeave(s)
Calls(s)   == \/ CallTarget(s) \/ CallReturns(s)
Starts(s)  == \/ StartTask(s) \/ StartTaskFails(s) \/ StoreTaskToWait(s)
Waits(s)   == \/ WaitEnter(s) \/ WaitForAll(s) \/ WaitForAny(s)
              \/ UpdateProperty(s) \/ UpdateResult(s) \/ Answer(s)

(* One step of the inner processor: its kind selects the action.           *)
Processes(s) ==
    LET kind == Code(s).kind
    IN  \/ kind = "while" /\ Whiles(s)
        \/ kind = "sleep" /\ Sleeps(s)
        \/ kind = "for" /\ Fors(s)
        \/ kind = "try" /\ Tries(s)
        \/ kind = "execute" /\ Calls(s)
        \/ kind = "task" /\ Starts(s)
        \/ kind \in {"all", "any"} /\ Waits(s)
        \/ kind \in {"root", "work", "if", "case", "break", "continue",
                     "return", "throw"} /\ Blocks(s)

StreamStep(s) ==
    \/ Runs(s)
    \/ /\ status[s] = "Running"
       /\ \/ Ends(s)
          \/ /\ stack[s] # <<>>
             /\ IF raised[s] = "no" THEN Processes(s) ELSE Unwinds(s)

-----------------------------------------------------------------------------
(* Dispose, on the thread d: one processor after the other, a block before *)
(* the statement that follows.                                             *)

Visit(s, n) ==
    IF n = Null THEN <<>>
    ELSE <<[stream |-> s, node |-> n, at |-> "enter", seen |-> FALSE]>>

BeginDispose(d, s, n) == walk' = [walk EXCEPT ![d] = Visit(s, n)]

Visiting(d, kinds, l) == /\ walk[d] # <<>>
                         /\ Script[Head(walk[d]).node].kind \in kinds
                         /\ Head(walk[d]).at = l

(* What the inner Dispose calls, before it is done.                        *)
VisitNext(d, visits) == walk' = [walk EXCEPT ![d] = visits \o Tail(@)]

Here(d)    == Script[Head(walk[d]).node]
Then(d, n) == Visit(Head(walk[d]).stream, n)

(* Mutant: Dispose of IF and RootProcessor goes to the next one only.      *)
DisposeNextOnly(d) == /\ Visiting(d, {"root", "if"}, "enter")
                      /\ VisitNext(d, Then(d, Here(d).next))
                      /\ UNCHANGED marks

DisposeBlocks(d) ==
    /\ Visiting(d, {"root", "if"}, "enter")
    /\ VisitNext(d, Then(d, Here(d).body) \o Then(d, Here(d).other)
                        \o Then(d, Here(d).next))
    /\ UNCHANGED marks

(* _disposed = true; _body?.Dispose(); _next?.Dispose();                   *)
DisposeWhile(d) == /\ Visiting(d, {"while"}, "enter")
                   /\ Mark(Head(walk[d]).stream, Head(walk[d]).node)
                   /\ VisitNext(d, Then(d, Here(d).body)
                                       \o Then(d, Here(d).next))

(* _cts?.Cancel(); _cts?.Dispose(); _cts = null;                           *)
DisposeSleep(d) == /\ Visiting(d, {"sleep"}, "enter")
                   /\ Unmark(Head(walk[d]).stream, Head(walk[d]).node)
                   /\ VisitNext(d, Then(d, Here(d).next))

(* FOR with one thread, TRY, CASE, WAIT and the others dispose the next    *)
(* statement only, and BREAK, CONTINUE, RETURN and THROW have none.        *)
DisposeNext(d) ==
    /\ Visiting(d, {"work", "case", "for", "try", "all", "any",
                    "break", "continue", "return", "throw"}, "enter")
    /\ VisitNext(d, Then(d, Here(d).next))
    /\ UNCHANGED marks

(* foreach (... in _targets.Values): the enumerator is taken ...           *)
DisposeTargets(d) ==
    LET w == Head(walk[d])
    IN  /\ Visiting(d, {"execute", "task"}, "enter")
        /\ walk' = [walk EXCEPT ![d] =
                <<[w EXCEPT !.at = "foreach", !.seen = Marked(w.stream, w.node)]>>
                    \o Tail(@)]
        /\ UNCHANGED marks

(* ... and throws if the stream thread has added a target since, which     *)
(* ends the whole Dispose.                                                 *)
DisposeTarget(d) ==
    LET w == Head(walk[d])
        compiled == Marked(w.stream, w.node)
        target == IF compiled /\ Here(d).kind = "execute"
                  THEN Visit(w.stream, Here(d).body) ELSE <<>>
    IN  /\ Visiting(d, {"execute", "task"}, "foreach")
        /\ walk' = [walk EXCEPT ![d] =
                IF compiled /\ ~w.seen THEN <<>>
                ELSE target \o <<[w EXCEPT !.at = "clear"]>> \o Tail(@)]
        /\ UNCHANGED marks

(* _targets.Clear(); _next?.Dispose();                                     *)
ClearTargets(d) == /\ Visiting(d, {"execute", "task"}, "clear")
                   /\ Unmark(Head(walk[d]).stream, Head(walk[d]).node)
                   /\ VisitNext(d, Then(d, Here(d).next))

DisposeStep(d) ==
    /\ walk[d] # <<>>
    /\ \/ DisposeBlocks(d) \/ DisposeWhile(d) \/ DisposeSleep(d)
       \/ DisposeNext(d)
       \/ DisposeTargets(d) \/ DisposeTarget(d) \/ ClearTargets(d)
    /\ UNCHANGED <<running, ending, waiting>>

ScriptInit ==
    /\ stack = [s \in Streams |-> <<>>]
    /\ raised = [s \in Streams |-> "no"]
    /\ marks = [s \in Streams |-> {}]
    /\ status = [s \in Streams |-> "unused"]
    /\ result = [s \in Streams |-> "null"]
    /\ tasks = [s \in Streams |-> <<>>]
    /\ reading = [s \in Streams |-> <<>>]
    /\ answer = [s \in Streams |-> {}]
    /\ walk = [d \in Disposers |-> <<>>]

=============================================================================
