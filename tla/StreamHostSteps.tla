---------------------------- MODULE StreamHostSteps ----------------------------
(***************************************************************************)
(* The steps of the threads of StreamHost, for any scripts: lemmas for the *)
(* proofs in StreamHostProofs.                                             *)
(*                                                                         *)
(* Every step of a thread replaces its inner frame by others (Moves).  It  *)
(* is shown once what such a move has to satisfy (Allowed) to keep the     *)
(* invariant and not to skip FINALLY, and then of every action that its    *)
(* move does.  Most actions also move plainly: what they call is entered,  *)
(* not in the middle of an EXECUTE TASK or a WAIT.  The steps of these two *)
(* statements are the ones that change records.                            *)
(***************************************************************************)
EXTENDS StreamHost, SequenceTheorems, WellFoundedInduction, TLAPS

(* The parts of ScriptTypes.                                                *)
StackOK == stack \in [Streams -> Seq(Frames)]

(* What is known of a statement.                                            *)
LEMMA Statements ==
    ASSUME NEW n \in Nodes
    PROVE  /\ Script[n].kind \in Kinds
           /\ Script[n].next \in Nodes \cup {Null}
           /\ Script[n].body \in Nodes \cup {Null}
           /\ Script[n].other \in Nodes \cup {Null}
           /\ Script[n].last \in Nodes \cup {Null}
           /\ Script[n].flag \in BOOLEAN
  BY ScriptAssumption DEF Statement

(* A call puts at most one frame on the stack, that of the processor.       *)
LEMMA BeginType ==
    ASSUME NEW n \in Nodes \cup {Null}
    PROVE  /\ Begin(n) \in Seq(Frames)
           /\ \A i \in DOMAIN Begin(n) : i = 1 /\ Begin(n)[i] = Frame(n)
           /\ Len(Begin(n)) \in {0, 1}
<1>1. CASE n = Null
  BY <1>1 DEF Begin
<1>2. CASE n # Null
  <2>1. Frame(n) \in Frames
    <3>1. n \in Nodes /\ "enter" \in Places /\ "no" \in Raised /\ 0 \in Nat
      BY <1>2 DEF Raised, Places
    <3>2. QED
      BY <3>1 DEF Frame, Frames
  <2>2. Begin(n) = <<Frame(n)>>
    BY <1>2 DEF Begin
  <2>3. QED
    BY <2>1, <2>2
<1>3. QED
  BY <1>1, <1>2

(* The inner frame of a thread that runs, and the frames below it.          *)
LEMMA TopType ==
    ASSUME StackOK, NEW s \in Streams, stack[s] # <<>>
    PROVE  /\ Top(s) \in Frames /\ Top(s).node \in Nodes
           /\ Tail(stack[s]) \in Seq(Frames)
           /\ Len(Tail(stack[s])) = Len(stack[s]) - 1
           /\ Len(stack[s]) \in Nat \ {0}
           /\ Top(s) = stack[s][1]
           /\ \A i \in 1..Len(Tail(stack[s])) : Tail(stack[s])[i] = stack[s][i+1]
<1>1. stack[s] \in Seq(Frames)
  BY DEF StackOK
<1>2. /\ Len(stack[s]) \in Nat \ {0} /\ Head(stack[s]) = stack[s][1]
      /\ stack[s][1] \in Frames /\ Tail(stack[s]) \in Seq(Frames)
      /\ Len(Tail(stack[s])) = Len(stack[s]) - 1
      /\ \A i \in 1..Len(Tail(stack[s])) : Tail(stack[s])[i] = stack[s][i+1]
  BY <1>1
<1>3. QED
  BY <1>2 DEF Top, Frames

(* The thread t is started.                                                 *)
Launched(t) == /\ stack[t] = <<>>
               /\ status[t] = "unused" /\ status'[t] = "WaitingToRun"
               /\ \E n \in Nodes \cup {Null} : stack'[t] = Begin(n)

Others(s) == /\ stack' = [t \in Streams |-> stack'[t]]
             /\ \A t \in Streams \ {s} : stack'[t] = stack[t] \/ Launched(t)

(* The thread s goes on with the frames p instead of the inner one.         *)
Moves(s, p) == stack'[s] = p \o Tail(stack[s]) /\ Others(s)

(* A step that changes the frames of one thread only.                       *)
LEMMA OneMoves ==
    ASSUME StackOK, NEW s \in Streams, NEW p,
           stack' = [stack EXCEPT ![s] = p \o Tail(@)]
    PROVE  Moves(s, p)
  BY DEF StackOK, Moves, Others

(* Where the frames are after a step.                                       *)
LEMMA MovesType ==
    ASSUME StackOK, NEW s \in Streams, stack[s] # <<>>,
           NEW p \in Seq(Frames), Moves(s, p)
    PROVE  /\ StackOK'
           /\ stack'[s] = p \o Tail(stack[s])
           /\ Len(stack'[s]) = Len(p) + Len(stack[s]) - 1
           /\ \A i \in 1..Len(p) : stack'[s][i] = p[i]
           /\ \A i \in 1..Len(stack'[s]) :
                 i > Len(p) => stack'[s][i] = stack[s][i - Len(p) + 1]
<1> USE TopType
<1>1. stack'[s] = p \o Tail(stack[s])
  BY DEF Moves
<1>2. p \o Tail(stack[s]) \in Seq(Frames)
  OBVIOUS
<1>3. ASSUME NEW t \in Streams
      PROVE  stack'[t] \in Seq(Frames)
  <2>1. stack[t] \in Seq(Frames)
    BY DEF StackOK
  <2>2. CASE t # s /\ Launched(t)
    BY <2>2, BeginType DEF Launched
  <2>3. QED
    BY <1>1, <1>2, <2>1, <2>2 DEF Moves, Others
<1>4. StackOK'
  BY <1>3 DEF Moves, Others, StackOK
<1>5. QED
  BY <1>1, <1>2, <1>4

(* The statement of a frame; what FrameInv says of it; and that it is not in *)
(* the middle of an EXECUTE TASK or of a WAIT.                              *)
Good(f)  == Kind(f) \notin {"all", "any"} => f.keep \in Raised
Plain(f) == f.at = "enter" \/ Kind(f) \notin {"task", "all", "any"}

(* The thread is in a TRY or CATCH block that it has to leave by its frame. *)
Guarded(s) == Kind(Top(s)) = "try" /\ Top(s).at \in {"tried", "caught"}

Guards(s, g) == /\ g.node = Top(s).node
                /\ Guarded(s) => g.at \in {"caught", "finally"}

(* They call no processor of their own.                                     *)
Leaves == {"task", "all", "any", "sleep"}

(* Frames that may follow the inner one.                                    *)
Allowed(s, p) ==
    /\ p \in Seq(Frames)
    /\ \A i \in 1..Len(p) :
          Good(p[i]) /\ (i > 1 => Kind(p[i]) \notin Leaves)
    /\ Guarded(s) => Len(p) > 0 /\ Guards(s, p[Len(p)])

MovesPlainly(s) ==
    \E p : /\ Moves(s, p) /\ Allowed(s, p)
           /\ \A i \in 1..Len(p) : Plain(p[i])

(* Return, GoNext, Resume and Push move a thread from its inner frame to    *)
(* others that may follow it.                                               *)
LEMMA ReturnMoves ==
    ASSUME StackOK, NEW s \in Streams, stack[s] # <<>>, Return(s), ~Guarded(s)
    PROVE  MovesPlainly(s)
<1>1. /\ Tail(stack[s]) \in Seq(Frames)
  BY TopType
<1>2. <<>> \o Tail(stack[s]) = Tail(stack[s])
  BY <1>1
<1>3. Moves(s, <<>>)
  BY <1>2, OneMoves DEF Return
<1>4. Allowed(s, <<>>)
  BY DEF Allowed
<1>5. QED
  BY <1>3, <1>4 DEF MovesPlainly

(* ... _next?.Process() ...                                                 *)
LEMMA GoNextMoves ==
    ASSUME StackOK, NEW s \in Streams, stack[s] # <<>>, GoNext(s), ~Guarded(s)
    PROVE  MovesPlainly(s)
<1> DEFINE p == Begin(Code(s).next)
<1>1. Code(s).next \in Nodes \cup {Null}
  BY TopType, Statements DEF Code
<1>2. /\ p \in Seq(Frames)
      /\ \A i \in 1..Len(p) : i = 1 /\ p[i] = Frame(Code(s).next)
  BY <1>1, BeginType
<1>3. \A i \in 1..Len(p) : Good(p[i]) /\ Plain(p[i]) /\ i = 1
  BY <1>2 DEF Good, Plain, Frame, Raised
<1>4. Moves(s, p)
  BY OneMoves DEF GoNext
<1>5. QED
  BY <1>2, <1>3, <1>4 DEF MovesPlainly, Allowed

(* ... the inner processor goes on ...                                      *)
LEMMA ResumeMoves ==
    ASSUME StackOK, NEW s \in Streams, stack[s] # <<>>,
           NEW g \in Frames, Good(g), Guards(s, g), Resume(s, g)
    PROVE  Moves(s, <<g>>) /\ Allowed(s, <<g>>)
<1>1. stack' = [stack EXCEPT ![s] = <<g>> \o Tail(@)]
  BY DEF Resume
<1>2. Moves(s, <<g>>)
  BY <1>1, OneMoves
<1>3. Allowed(s, <<g>>)
  BY DEF Allowed
<1>4. QED
  BY <1>2, <1>3

(* ... or calls another one.                                                *)
LEMMA PushMoves ==
    ASSUME StackOK, NEW s \in Streams, stack[s] # <<>>,
           NEW g \in Frames, Good(g), Guards(s, g),
           Kind(g) \notin Leaves,
           NEW n \in Nodes \cup {Null},
           Push(s, n, g)
    PROVE  MovesPlainly(s)
<1> DEFINE p == Begin(n) \o <<g>>
<1>1. /\ Begin(n) \in Seq(Frames) /\ <<g>> \in Seq(Frames)
      /\ Len(Begin(n)) \in {0, 1}
      /\ \A i \in 1..Len(Begin(n)) : i = 1 /\ Begin(n)[i] = Frame(n)
  BY BeginType
<1>2. /\ p \in Seq(Frames) /\ Len(p) = Len(Begin(n)) + 1
      /\ p[Len(p)] = g
      /\ \A i \in 1..Len(p) : p[i] = g \/ (i = 1 /\ p[i] = Frame(n))
  BY <1>1
<1>3. Good(Frame(n)) /\ Plain(Frame(n))
  BY DEF Good, Plain, Frame, Raised
<1>4. \A i \in 1..Len(p) : /\ Good(p[i]) /\ Plain(p[i])
                           /\ i > 1 => Kind(p[i]) \notin Leaves
  BY <1>2, <1>3 DEF Plain, Leaves
<1>5. Moves(s, p)
  BY OneMoves DEF Push
<1>6. Len(p) > 0 /\ Guards(s, p[Len(p)])
  BY <1>1, <1>2
<1>7. QED
  BY <1>2, <1>4, <1>5, <1>6 DEF MovesPlainly, Allowed

(* The same for the forms of them that the actions are written in.          *)
LEMMA EnterMoves ==
    ASSUME StackOK, FrameInv, NEW s \in Streams, stack[s] # <<>>,
           Kind(Top(s)) \notin Leaves,
           NEW n \in Nodes \cup {Null}, NEW l \in Places,
           Guarded(s) => l \in {"caught", "finally"},
           Enter(s, n, l)
    PROVE  MovesPlainly(s)
<1> DEFINE g == [Top(s) EXCEPT !.at = l]
<1>1. g \in Frames /\ g.node = Top(s).node /\ g.at = l /\ g.keep = Top(s).keep
  BY TopType DEF Frames
<1>2. Good(Top(s))
  BY TopType DEF Good, Kind, FrameInv
<1>3. Good(g) /\ Guards(s, g) /\ Kind(g) \notin Leaves
  BY <1>1, <1>2 DEF Good, Kind, Guards
<1>4. Push(s, n, g)
  BY DEF Enter
<1>5. QED
  BY <1>1, <1>3, <1>4, PushMoves


(* A frame of the processor that is running already.                        *)
LEMMA ResumePlainly ==
    ASSUME StackOK, FrameInv, NEW s \in Streams, stack[s] # <<>>,
           Kind(Top(s)) \notin {"task", "all", "any"}, ~Guarded(s),
           NEW l \in Places, NEW k \in Nat,
           Resume(s, [Top(s) EXCEPT !.at = l, !.arg = k])
    PROVE  MovesPlainly(s)
<1> DEFINE g == [Top(s) EXCEPT !.at = l, !.arg = k]
<1>1. g \in Frames /\ g.node = Top(s).node /\ g.at = l /\ g.keep = Top(s).keep
  BY TopType DEF Frames
<1>2. Good(Top(s))
  BY TopType DEF Good, Kind, FrameInv
<1>3. Good(g) /\ Guards(s, g) /\ Plain(g)
  BY <1>1, <1>2 DEF Good, Kind, Guards, Plain
<1>4. Moves(s, <<g>>) /\ Allowed(s, <<g>>)
  BY <1>1, <1>3, ResumeMoves
<1>5. QED
  BY <1>3, <1>4 DEF MovesPlainly

(* The same, with no other change than the place.                           *)
LEMMA ResumeAt ==
    ASSUME StackOK, FrameInv, NEW s \in Streams, stack[s] # <<>>,
           Kind(Top(s)) \notin {"task", "all", "any"}, ~Guarded(s),
           NEW l \in Places, Resume(s, [Top(s) EXCEPT !.at = l])
    PROVE  MovesPlainly(s)
<1>1. /\ Top(s).arg \in Nat
      /\ [Top(s) EXCEPT !.at = l] = [Top(s) EXCEPT !.at = l,
                                                   !.arg = Top(s).arg]
  BY TopType DEF Frames
<1>2. QED
  BY <1>1, ResumePlainly

(* TRY and CATCH end with FINALLY.                                          *)
LEMMA FinallyMoves ==
    ASSUME StackOK, FrameInv, NEW s \in Streams, stack[s] # <<>>,
           Kind(Top(s)) = "try", NEW e \in Raised, Finally(s, e)
    PROVE  MovesPlainly(s)
<1> DEFINE g == [Top(s) EXCEPT !.at = "finally", !.keep = e]
<1>1. g \in Frames /\ g.node = Top(s).node /\ g.at = "finally" /\ g.keep = e
  BY TopType DEF Frames, Places
<1>2. Good(g) /\ Guards(s, g) /\ Kind(g) \notin Leaves
  BY <1>1 DEF Good, Kind, Guards, Leaves
<1>3. Code(s).last \in Nodes \cup {Null}
  BY TopType, Statements DEF Code
<1>4. Push(s, Code(s).last, g)
  BY DEF Finally
<1>5. QED
  BY <1>1, <1>2, <1>3, <1>4, PushMoves

(* An exception is raised in one thread only.                               *)
RaisedOK == raised \in [Streams -> Raised]

RaisesOnly(s) == /\ RaisedOK'
                 /\ \A t \in Streams \ {s} : raised'[t] = raised[t]

(* The statements without TRY: the thread moves plainly.                    *)
LEMMA BlockSteps ==
    ASSUME StackOK, FrameInv, RaisedOK, NEW s \in Streams, stack[s] # <<>>,
           Blocks(s) \/ Whiles(s) \/ Sleeps(s) \/ Fors(s)
    PROVE  MovesPlainly(s) /\ RaisesOnly(s)
<1> USE DEF IsAt, Kind, Code, Guarded, Leaves
<1>c. /\ Code(s).next \in Nodes \cup {Null} /\ Code(s).body \in Nodes \cup {Null}
      /\ Code(s).other \in Nodes \cup {Null} /\ Top(s).arg \in Nat
  BY TopType, Statements DEF Frames
<1>p. {"after", "test", "leave", "token", "wait", "items"} \subseteq Places
  BY DEF Places
<1>r. "error" \in Raised /\ {"break", "continue", "return"} \subseteq Raised
  BY DEF Raised
<1>1. CASE Root(s)
  BY <1>1, <1>c, <1>p, EnterMoves DEF Root, Quiet, RaisesOnly, RaisedOK
<1>2. CASE Work(s)
  BY <1>2, <1>r, GoNextMoves, ReturnMoves
  DEF Work, Quiet, RaisesOnly, RaisedOK, Throw
<1>3. CASE Branch(s)
  BY <1>3, <1>c, <1>p, <1>r, EnterMoves, ReturnMoves
  DEF Branch, Quiet, RaisesOnly, RaisedOK, Throw
<1>4. CASE AfterBlock(s)
  BY <1>4, GoNextMoves DEF AfterBlock, Quiet, RaisesOnly, RaisedOK
<1>5. CASE Raise(s)
  BY <1>5, <1>r, ReturnMoves DEF Raise, RaisesOnly, RaisedOK, Throw, Exception
<1>6. CASE WhileEnter(s)
  BY <1>6, <1>p, ResumeAt DEF WhileEnter, Quiet, RaisesOnly, RaisedOK
<1>7. CASE WhileTest(s)
  BY <1>7, <1>c, <1>p, <1>r, EnterMoves, ResumeAt, ReturnMoves
  DEF WhileTest, Quiet, RaisesOnly, RaisedOK, Throw
<1>8. CASE WhileLeave(s)
  BY <1>8, GoNextMoves, ReturnMoves
  DEF WhileLeave, Quiet, RaisesOnly, RaisedOK
<1>9. CASE Sleeps(s)
  BY <1>9, <1>p, <1>r, ResumeAt, ReturnMoves, GoNextMoves
  DEF Sleeps, SleepEnter, SleepToken, SleepElapses, SleepCancelled, Quiet,
     RaisesOnly, RaisedOK, Throw
<1>10. CASE ForEnter(s)
  <2>1. \A k \in 1..MaxItems : k \in Nat
    OBVIOUS
  <2>2. QED
    BY <1>10, <1>p, <1>r, <2>1, ResumePlainly, ReturnMoves
    DEF ForEnter, Quiet, RaisesOnly, RaisedOK, Throw
<1>11. CASE ForItem(s)
  <2>1. CASE Top(s).arg = 0
    BY <1>11, <2>1, GoNextMoves DEF ForItem, Quiet, RaisesOnly, RaisedOK
  <2>2. CASE Top(s).arg # 0
    <3> DEFINE g == [Top(s) EXCEPT !.arg = Top(s).arg - 1]
    <3>1. /\ g \in Frames /\ g.node = Top(s).node
          /\ g.at = Top(s).at /\ g.keep = Top(s).keep
      <4>1. Top(s) \in Frames
        BY TopType
      <4>2. Top(s).arg - 1 \in Nat
        BY <2>2, <4>1 DEF Frames
      <4>3. QED
        BY <4>1, <4>2 DEF Frames
    <3>2. Good(Top(s))
      BY TopType DEF Good, FrameInv
    <3>3. Good(g) /\ Guards(s, g) /\ Kind(g) \notin Leaves
      BY <1>11, <3>1, <3>2 DEF ForItem, Good, Guards
    <3>4. Push(s, Code(s).body, g)
      BY <1>11, <2>2 DEF ForItem
    <3>5. QED
      BY <1>11, <1>c, <3>1, <3>3, <3>4, PushMoves
      DEF ForItem, Quiet, RaisesOnly, RaisedOK
  <2>3. QED
    BY <2>1, <2>2
<1>12. QED
  BY <1>1, <1>2, <1>3, <1>4, <1>5, <1>6, <1>7, <1>8, <1>9, <1>10, <1>11
  DEF Blocks, Whiles, Fors

(* TRY, EXECUTE and the exceptions on their way.                            *)
LEMMA TrySteps ==
    ASSUME StackOK, FrameInv, RaisedOK, NEW s \in Streams, stack[s] # <<>>,
           Tries(s) \/ Calls(s) \/ Unwinds(s)
    PROVE  MovesPlainly(s) /\ RaisesOnly(s)
<1> USE DEF IsAt, Kind, Code, Guarded, Unwinding, Leaves
<1>c. /\ Code(s).next \in Nodes \cup {Null} /\ Code(s).body \in Nodes \cup {Null}
      /\ Code(s).other \in Nodes \cup {Null} /\ Top(s).arg \in Nat
  BY TopType, Statements DEF Frames
<1>p. {"tried", "caught", "finally", "called", "test"} \subseteq Places
  BY DEF Places
<1>r. {"no", "error"} \subseteq Raised /\ raised[s] \in Raised
  BY DEF Raised, RaisedOK
<1>k. Kind(Top(s)) = "try" => Top(s).keep \in Raised
  BY TopType DEF FrameInv
<1>1. CASE Try(s)
  BY <1>1, <1>c, <1>p, EnterMoves DEF Try, Quiet, RaisesOnly, RaisedOK
<1>2. CASE TryFinally(s)
  BY <1>2, <1>r, FinallyMoves DEF TryFinally, Quiet, RaisesOnly, RaisedOK
<1>3. CASE TryLeave(s)
  BY <1>3, <1>k, ReturnMoves, GoNextMoves
  DEF TryLeave, Quiet, RaisesOnly, RaisedOK, Throw
<1>4. CASE CallTarget(s)
  BY <1>4, <1>c, <1>p, <1>r, EnterMoves, ReturnMoves
  DEF CallTarget, Quiet, RaisesOnly, RaisedOK, Throw
<1>5. CASE CallReturns(s)
  BY <1>5, GoNextMoves DEF CallReturns, Quiet, RaisesOnly, RaisedOK
<1>6. CASE WhileCatch(s)
  <2>1. PICK l \in {"leave", "test"} : Resume(s, [Top(s) EXCEPT !.at = l])
    BY <1>6 DEF WhileCatch
  <2>2. l \in Places /\ ~Guarded(s)
    BY <1>6, <2>1 DEF WhileCatch, Places
  <2>3. MovesPlainly(s)
    BY <1>6, <2>1, <2>2, ResumeAt DEF WhileCatch
  <2>4. QED
    BY <1>6, <2>3, <1>r DEF WhileCatch, Handled, RaisesOnly, RaisedOK
<1>7. CASE TryCatch(s)
  BY <1>7, <1>c, <1>p, <1>r, EnterMoves, FinallyMoves
  DEF TryCatch, Handled, RaisesOnly, RaisedOK
<1>8. CASE CatchFails(s)
  BY <1>8, <1>r, FinallyMoves DEF CatchFails, Handled, RaisesOnly, RaisedOK
<1>9. CASE RootCatch(s)
  BY <1>9, <1>r, ReturnMoves DEF RootCatch, Handled, RaisesOnly, RaisedOK
<1>10. CASE ExecuteReturn(s)
  BY <1>10, <1>r, GoNextMoves, ReturnMoves
  DEF ExecuteReturn, Handled, RaisesOnly, RaisedOK, Throw
<1>11. CASE Unwind(s)
  BY <1>11, ReturnMoves DEF Unwind, Catches, Quiet, RaisesOnly, RaisedOK
<1>12. QED
  BY <1>1, <1>2, <1>3, <1>4, <1>5, <1>6, <1>7, <1>8, <1>9, <1>10, <1>11
  DEF Tries, Calls, Unwinds

(* What other threads and records may rely on.                              *)
StatusMoves ==
    \A c \in Streams :
        /\ status[c] \in Ended => status'[c] = status[c] /\ result'[c] = result[c]
        /\ status[c] # "unused" => status'[c] # "unused"

StatusOK ==
    /\ status \in [Streams -> Ended \cup {"unused", "WaitingToRun", "Running"}]
    /\ result \in [Streams -> {"null", "value", "error"}]

RecordsOK ==
    /\ tasks \in [Streams -> Seq(TaskRecord)]
    /\ reading \in [Streams -> Seq(Nat)]
    /\ answer \in [Streams -> SUBSET TaskRecord]

(* A thread that has ended does not change, so a record of it stays true.   *)
LEMMA TruthStays ==
    ASSUME StatusMoves, NEW r \in TaskRecord, IsTrue(r)
    PROVE  IsTrue(r)'
  BY DEF StatusMoves, IsTrue, TaskRecord

(* What has been read stays as it was read.                                 *)
LEMMA ReadStays ==
    ASSUME StatusMoves, NEW r \in TaskRecord, NEW l, HasRead(r, l)
    PROVE  HasRead(r, l)'
  BY DEF StatusMoves, HasRead, TaskRecord

(* What holds for a WAIT still holds after a step of another thread.        *)
LEMMA WaitStays ==
    ASSUME StackOK, RecordsOK, StatusMoves, NEW s \in Streams, WaitInv(s),
           stack'[s] = stack[s], tasks'[s] = tasks[s], reading'[s] = reading[s]
    PROVE  WaitInv(s)'
<1>1. \A i \in DOMAIN tasks[s] : /\ tasks[s][i] \in TaskRecord
                                 /\ tasks[s][i].child \in Streams
  <2>1. tasks[s] \in Seq(TaskRecord)
    BY DEF RecordsOK
  <2>2. \A r \in TaskRecord : r.child \in Streams
    BY DEF TaskRecord
  <2>3. QED
    BY <2>1, <2>2
<1>2. \A i \in DOMAIN tasks[s] : Done(s, i) => Done(s, i)'
  BY <1>1 DEF Done, StatusMoves
<1>3. \A i \in DOMAIN tasks[s] : IsTrue(tasks[s][i]) => IsTrue(tasks[s][i])'
  BY <1>1, TruthStays
<1>4. \A i \in DOMAIN tasks[s], l \in Places :
          HasRead(tasks[s][i], l) => HasRead(tasks[s][i], l)'
  BY <1>1, ReadStays
<1>5. stack[s] # <<>> => Top(s) \in Frames /\ Top(s).at \in Places
  BY TopType DEF Frames
<1>6. Top(s)' = Top(s) /\ Code(s)' = Code(s)
  BY DEF Top, Code
<1>7. SUFFICES ASSUME stack[s] # <<>>, Code(s).kind \in {"all", "any"}
              PROVE  WaitInv(s)'
  BY <1>6 DEF WaitInv
<1>8. Top(s).at \in Updating \cup {"answer"} => reading[s][1] \in DOMAIN tasks[s]
  BY <1>7 DEF WaitInv, RecordsOK
<1>9. QED
  BY <1>1, <1>2, <1>3, <1>4, <1>5, <1>6, <1>7, <1>8 DEF WaitInv

(* After a plain move the thread is not in the middle of an EXECUTE TASK or *)
(* of a WAIT: it enters one, or is in another processor.                    *)
LEMMA TopAfterBlock ==
    ASSUME StackOK, FrameInv, NEW s \in Streams, stack[s] # <<>>,
           MovesPlainly(s)
    PROVE  stack'[s] # <<>> => Plain(Top(s)')
<1>1. PICK p : /\ Moves(s, p) /\ Allowed(s, p)
               /\ \A i \in 1..Len(p) : Plain(p[i])
  BY DEF MovesPlainly
<1>2. p \in Seq(Frames)
  BY <1>1 DEF Allowed
<1>3. CASE Len(p) > 0
  <2>1. stack'[s] # <<>> => Top(s)' = p[1]
    BY <1>1, <1>2, <1>3, MovesType DEF Top
  <2>2. Plain(p[1])
    BY <1>1, <1>2, <1>3
  <2>3. QED
    BY <2>1, <2>2
<1>4. CASE Len(p) = 0
  <2>1. /\ Len(stack'[s]) = Len(stack[s]) - 1
        /\ \A i \in 1..Len(stack'[s]) : stack'[s][i] = stack[s][i + 1]
        /\ stack'[s] \in Seq(Frames)
    <3>1. /\ StackOK'
          /\ Len(stack'[s]) = Len(p) + Len(stack[s]) - 1
          /\ \A i \in 1..Len(stack'[s]) :
                i > Len(p) => stack'[s][i] = stack[s][i - Len(p) + 1]
          /\ Len(stack[s]) \in Nat
      BY <1>1, <1>2, MovesType, TopType
    <3>2. QED
      BY <1>4, <3>1 DEF StackOK
  <2>2. stack'[s] # <<>> => Top(s)' = stack[s][2] /\ 2 \in DOMAIN stack[s]
    BY <2>1, TopType DEF Top, StackOK
  <2>3. stack'[s] # <<>> => Kind(Top(s)') \notin {"task", "all", "any"}
    BY <2>2 DEF FrameInv, Kind
  <2>4. QED
    BY <2>3 DEF Plain
<1>5. QED
  BY <1>2, <1>3, <1>4

(* There is nothing to show of a WAIT that is not there, or is entered.     *)
LEMMA PlainWait ==
    ASSUME NEW s \in Streams, stack'[s] # <<>> => Plain(Top(s)')
    PROVE  WaitInv(s)'
  BY DEF WaitInv, Plain, Kind, Code, Updating

(* Whatever moves of this form do to a thread, they keep the frames below.  *)
LEMMA FramesKept ==
    ASSUME StackOK, FrameInv, NEW s \in Streams, stack[s] # <<>>,
           NEW p, Moves(s, p), Allowed(s, p)
    PROVE  StackOK' /\ FrameInv'
<1>1. p \in Seq(Frames)
  BY DEF Allowed
<1>2. StackOK'
  BY <1>1, MovesType
<1>3. ASSUME NEW t \in Streams \ {s}, NEW i \in DOMAIN stack'[t]
      PROVE  LET kind == Script[stack'[t][i].node].kind
             IN  /\ i > 1 => kind \notin Leaves
                 /\ kind \notin {"all", "any"} => stack'[t][i].keep \in Raised
  <2>1. CASE stack'[t] = stack[t]
    BY <1>3, <2>1 DEF FrameInv, Leaves
  <2>2. CASE Launched(t)
    <3>1. PICK n \in Nodes \cup {Null} : stack'[t] = Begin(n)
      BY <2>2 DEF Launched
    <3>2. i = 1 /\ stack'[t][i] = Frame(n)
      BY <1>3, <3>1, BeginType
    <3>3. QED
      BY <3>2 DEF Frame, Raised
  <2>3. QED
    BY <2>1, <2>2 DEF Moves, Others
<1>4. ASSUME NEW i \in DOMAIN stack'[s]
      PROVE  LET kind == Script[stack'[s][i].node].kind
             IN  /\ i > 1 => kind \notin Leaves
                 /\ kind \notin {"all", "any"} => stack'[s][i].keep \in Raised
  <2>1. stack'[s] \in Seq(Frames) /\ i \in 1..Len(stack'[s])
    BY <1>2, <1>4 DEF StackOK
  <2>2. CASE i <= Len(p)
    <3>1. stack'[s][i] = p[i] /\ i \in 1..Len(p)
      BY <1>1, <2>1, <2>2, MovesType
    <3>2. QED
      BY <3>1 DEF Allowed, Good, Kind
  <2>3. CASE i > Len(p)
    <3>1. /\ stack'[s][i] = stack[s][i - Len(p) + 1]
          /\ i - Len(p) + 1 \in 2..Len(stack[s])
      <4>1. /\ Len(stack'[s]) = Len(p) + Len(stack[s]) - 1
            /\ \A j \in 1..Len(stack'[s]) :
                  j > Len(p) => stack'[s][j] = stack[s][j - Len(p) + 1]
            /\ Len(stack[s]) \in Nat /\ Len(p) \in Nat
        BY <1>1, MovesType, TopType
      <4>2. stack'[s][i] = stack[s][i - Len(p) + 1]
        BY <2>1, <2>3, <4>1
      <4>3. i \in Nat /\ i <= Len(p) + Len(stack[s]) - 1
        BY <2>1, <4>1
      <4>4. i - Len(p) + 1 \in 2..Len(stack[s])
        BY <2>3, <4>1, <4>3
      <4>5. QED
        BY <4>2, <4>4
    <3>2. i - Len(p) + 1 \in DOMAIN stack[s] /\ i - Len(p) + 1 > 1
      BY <3>1, <1>1, <2>1 DEF StackOK
    <3>3. QED
      BY <3>1, <3>2 DEF FrameInv, Leaves
  <2>4. QED
    BY <1>1, <2>1, <2>2, <2>3
<1>5. QED
  BY <1>2, <1>3, <1>4 DEF FrameInv, Leaves

MarksOK == marks \in [Streams -> SUBSET Nodes]
WalkOK  == walk \in [Disposers -> Seq(Visits)]

(* The parts of ScriptTypes, which most steps change one at a time.         *)
LEMMA TypesParts ==
    ScriptTypes <=> /\ StackOK /\ RaisedOK /\ MarksOK
                    /\ StatusOK /\ RecordsOK /\ WalkOK
  BY DEF ScriptTypes, StackOK, RaisedOK, MarksOK, StatusOK, RecordsOK, WalkOK

(* The half of the invariant that is about the threads.                     *)
ScriptInv ==
    /\ ScriptTypes /\ EndInv /\ FrameInv /\ AnswerInv
    /\ \A s \in Streams : ChildInv(s) /\ WaitInv(s)

(* At most, a thread is started.                                            *)
EndMoves ==
    /\ result' = result
    /\ \A t \in Streams : \/ status'[t] = status[t]
                          \/ status[t] = "unused" /\ status'[t] = "WaitingToRun"

(* What has ended stays as it is.                                           *)
LEMMA EndsStay ==
    ASSUME StatusOK, EndMoves
    PROVE  StatusMoves
  BY DEF StatusOK, EndMoves, StatusMoves, Ended

(* A record of the array of a thread.                                       *)
LEMMA RecordTypes ==
    ASSUME RecordsOK, NEW s \in Streams, NEW i \in DOMAIN tasks[s]
    PROVE  tasks[s][i] \in TaskRecord /\ tasks[s][i].child \in Streams
<1>1. tasks[s] \in Seq(TaskRecord)
  BY DEF RecordsOK
<1>2. \A r \in TaskRecord : r.child \in Streams
  BY DEF TaskRecord
<1>3. QED
  BY <1>1, <1>2

(* The threads of the records stay started.                                 *)
LEMMA ChildStays ==
    ASSUME RecordsOK, StatusMoves, NEW s \in Streams, ChildInv(s),
           tasks'[s] = tasks[s],
           \/ stack'[s] = stack[s]
           \/ stack'[s] # <<>> => Plain(Top(s)')
    PROVE  ChildInv(s)'
<1>1. \A i \in DOMAIN tasks'[s] : status'[tasks'[s][i].child] # "unused"
  BY RecordTypes DEF ChildInv, StatusMoves
<1>2. CASE stack'[s] = stack[s]
  BY <1>1, <1>2 DEF ChildInv, StatusMoves, Top, Code
<1>3. CASE stack'[s] # <<>> => Plain(Top(s)')
  BY <1>1, <1>3 DEF ChildInv, Plain, Kind, Code
<1>4. QED
  BY <1>2, <1>3

(* A new thread enters the first processor of its script.                   *)
LEMMA LaunchedPlainly ==
    ASSUME NEW t \in Streams, Launched(t)
    PROVE  stack'[t] # <<>> => Plain(Top(t)')
<1>1. PICK n \in Nodes \cup {Null} : stack'[t] = Begin(n)
  BY DEF Launched
<1>2. stack'[t] # <<>> => Top(t)' = Frame(n)
  BY <1>1 DEF Begin, Top
<1>3. QED
  BY <1>2 DEF Plain, Frame

(* The other threads, the new one included.                                 *)
LEMMA OthersStay ==
    ASSUME ScriptInv, StatusMoves, NEW t \in Streams,
           stack'[t] = stack[t] \/ Launched(t),
           tasks'[t] = tasks[t] /\ reading'[t] = reading[t]
    PROVE  ChildInv(t)' /\ WaitInv(t)'
<1>1. ChildInv(t) /\ WaitInv(t) /\ RecordsOK /\ StackOK
  BY TypesParts DEF ScriptInv
<1>2. CASE stack'[t] = stack[t]
  BY <1>1, <1>2, ChildStays, WaitStays
<1>3. CASE Launched(t)
  BY <1>1, <1>3, LaunchedPlainly, ChildStays, PlainWait
<1>4. QED
  BY <1>2, <1>3

(* The answers that were given before.                                      *)
LEMMA AnswersStay ==
    ASSUME RecordsOK, AnswerInv, StatusMoves, NEW t \in Streams,
           answer'[t] = answer[t]
    PROVE  \A r \in answer'[t] : IsTrue(r)'
<1>1. \A r \in answer[t] : r \in TaskRecord /\ IsTrue(r)
  BY DEF RecordsOK, AnswerInv
<1>2. QED
  BY <1>1, TruthStays

(* What a step of one thread has to establish.                              *)
LEMMA ThreadMoves ==
    ASSUME ScriptInv, NEW s \in Streams, status[s] = "Running",
           stack[s] # <<>>, NEW p, Moves(s, p), Allowed(s, p),
           RaisesOnly(s), MarksOK', EndMoves, StatusOK', RecordsOK',
           UNCHANGED walk,
           \A t \in Streams \ {s} : /\ tasks'[t] = tasks[t]
                                    /\ reading'[t] = reading[t]
                                    /\ answer'[t] = answer[t],
           \A r \in answer'[s] : IsTrue(r)',
           ChildInv(s)', WaitInv(s)'
    PROVE  ScriptInv' /\ StatusMoves
<1>0. /\ StackOK /\ RaisedOK /\ MarksOK /\ StatusOK /\ RecordsOK /\ WalkOK
      /\ EndInv /\ FrameInv /\ AnswerInv
  BY TypesParts DEF ScriptInv
<1>1. StatusMoves
  BY <1>0, EndsStay
<1>2. StackOK' /\ FrameInv'
  BY <1>0, FramesKept
<1>3. ScriptTypes'
  <2>1. WalkOK'
    BY <1>0 DEF WalkOK
  <2>2. QED
    BY <1>2, <2>1, TypesParts DEF RaisesOnly, ScriptTypes, StackOK, RaisedOK,
       MarksOK, StatusOK, RecordsOK, WalkOK
<1>4. EndInv'
  <2> SUFFICES ASSUME NEW t \in Streams
               PROVE  /\ status'[t] \in Ended \cup {"unused"} =>
                            stack'[t] = <<>> /\ raised'[t] = "no"
                      /\ status'[t] = "Faulted" <=> result'[t] # "null"
    BY DEF EndInv
  <2>1. status'[t] = "Faulted" <=> result'[t] # "null"
    BY <1>0 DEF EndInv, EndMoves
  <2>2. ASSUME status'[t] \in Ended \cup {"unused"}
        PROVE  stack'[t] = <<>> /\ raised'[t] = "no"
    <3>1. status'[t] = status[t] /\ t # s /\ ~Launched(t)
      BY <2>2 DEF EndMoves, Ended, Launched
    <3>2. stack'[t] = stack[t] /\ raised'[t] = raised[t]
      BY <3>1 DEF Moves, Others, RaisesOnly
    <3>3. QED
      BY <1>0, <2>2, <3>1, <3>2 DEF EndInv
  <2>3. QED
    BY <2>1, <2>2
<1>5. AnswerInv'
  BY <1>0, <1>1, AnswersStay DEF AnswerInv
<1>6. \A t \in Streams : ChildInv(t)' /\ WaitInv(t)'
  BY <1>1, OthersStay DEF Moves, Others
<1>7. QED
  BY <1>1, <1>2, <1>3, <1>4, <1>5, <1>6 DEF ScriptInv

(* A step that only moves the thread plainly.                               *)
LEMMA PlainSteps ==
    ASSUME ScriptInv, NEW s \in Streams, status[s] = "Running",
           stack[s] # <<>>, MovesPlainly(s), RaisesOnly(s), MarksOK',
           UNCHANGED <<ending, waiting, walk>>
    PROVE  ScriptInv' /\ StatusMoves
<1>0. /\ StackOK /\ StatusOK /\ RecordsOK /\ FrameInv /\ AnswerInv /\ ChildInv(s)
  BY TypesParts DEF ScriptInv
<1>1. PICK p : Moves(s, p) /\ Allowed(s, p)
  BY DEF MovesPlainly
<1>2. EndMoves /\ StatusOK' /\ RecordsOK' /\ StatusMoves
  BY <1>0, EndsStay DEF EndMoves, ending, waiting, StatusOK, RecordsOK
<1>3. stack'[s] # <<>> => Plain(Top(s)')
  BY <1>0, TopAfterBlock
<1>4. ChildInv(s)' /\ WaitInv(s)'
  BY <1>0, <1>2, <1>3, ChildStays, PlainWait DEF waiting
<1>5. \A r \in answer'[s] : IsTrue(r)'
  BY <1>0, <1>2, AnswersStay DEF waiting
<1>6. QED
  BY <1>1, <1>2, <1>4, <1>5, ThreadMoves DEF waiting

(* The marks are on statements, whatever a thread does.                     *)
LEMMA MarksStay ==
    ASSUME MarksOK, StackOK, NEW s \in Streams, stack[s] # <<>>,
           \/ Processes(s)
           \/ Unwinds(s)
    PROVE  MarksOK'
<1> DEFINE Set == marks' = marks \/ \E m \in SUBSET Nodes :
                                       marks' = [marks EXCEPT ![s] = m]
<1>1. marks[s] \subseteq Nodes /\ Top(s).node \in Nodes
  BY TopType DEF MarksOK
<1>2. Set => MarksOK'
  BY DEF MarksOK
<1>3. Mark(s, Top(s).node) \/ Unmark(s, Top(s).node) => Set
  BY <1>1 DEF Mark, Unmark
<1>4. CASE Blocks(s) \/ Tries(s) \/ Unwinds(s)
  BY <1>4 DEF MarksOK, Blocks, Tries, Unwinds, Root, Work, Branch, AfterBlock,
     Raise, Try, TryFinally, TryLeave, WhileCatch, TryCatch, CatchFails,
     RootCatch, ExecuteReturn, Unwind
<1>5. CASE Whiles(s) \/ Sleeps(s) \/ Starts(s)
  BY <1>2, <1>3, <1>5 DEF Whiles, WhileEnter, WhileTest, WhileLeave, Sleeps,
     SleepEnter, SleepToken, SleepElapses, SleepCancelled, Starts, StartTask,
     StartTaskFails, StoreTaskToWait
<1>6. CASE Fors(s)
  BY <1>1, <1>2, <1>6 DEF Fors, ForEnter, ForItem
<1>7. CASE Calls(s)
  BY <1>1, <1>2, <1>7 DEF Calls, CallTarget, CallReturns
<1>8. CASE Waits(s)
  BY <1>2, <1>8 DEF Waits, WaitEnter, WaitForAll, WaitForAny, UpdateProperty,
     UpdateResult, Answer, Reads
<1>9. QED
  BY <1>4, <1>5, <1>6, <1>7, <1>8 DEF Processes

(* The statements that only move the thread plainly.                        *)
LEMMA PlainUnchanged ==
    ASSUME NEW s \in Streams,
           \/ Blocks(s) \/ Whiles(s) \/ Sleeps(s) \/ Fors(s) \/ Tries(s)
           \/ Calls(s) \/ Unwinds(s) \/ StartTaskFails(s)
    PROVE  UNCHANGED <<ending, waiting, walk>>
<1>1. CASE Blocks(s) \/ Tries(s) \/ Unwinds(s)
  BY <1>1 DEF Blocks, Tries, Unwinds, Root, Work, Branch, AfterBlock,
     Raise, Try, TryFinally, TryLeave, WhileCatch, TryCatch, CatchFails,
     RootCatch, ExecuteReturn, Unwind
<1>2. CASE Whiles(s) \/ Sleeps(s) \/ StartTaskFails(s)
  BY <1>2 DEF Whiles, WhileEnter, WhileTest, WhileLeave, Sleeps,
     SleepEnter, SleepToken, SleepElapses, SleepCancelled, StartTaskFails
<1>3. CASE Fors(s) \/ Calls(s)
  BY <1>3 DEF Fors, ForEnter, ForItem, Calls, CallTarget, CallReturns
<1>4. QED
  BY <1>1, <1>2, <1>3

(* A number is left for the new thread, and it has not been used.           *)
LEMMA FreshIsUnused ==
    ASSUME Unused # {}
    PROVE  Fresh \in Unused
<1>1. Unused \subseteq Nat
  BY DEF Unused, Streams
<1>2. PICK s \in Unused : \A t \in Unused : ~(<<t, s>> \in OpToRel(<, Nat))
  BY <1>1, NatLessThanWellFounded, WFMin, Zenon
<1>3. ASSUME NEW t \in Unused
      PROVE  s <= t
  <2>1. SUFFICES ASSUME t < s
                PROVE  FALSE
    BY <1>1
  <2>2. <<t, s>> \in Nat \X Nat /\ <<t, s>>[1] < <<t, s>>[2]
    BY <1>1, <2>1
  <2>3. QED
    BY <1>2, <2>2, Zenon DEF OpToRel
<1>4. QED
  BY <1>2, <1>3, Zenon DEF Fresh

(* The inner frame after Resume.                                            *)
LEMMA ResumedTop ==
    ASSUME StackOK, NEW s \in Streams, stack[s] # <<>>, NEW g \in Frames,
           Moves(s, <<g>>)
    PROVE  stack'[s] # <<>> /\ Top(s)' = g
<1>1. stack'[s] = <<g>> \o Tail(stack[s])
  BY DEF Moves
<1>2. Tail(stack[s]) \in Seq(Frames)
  BY TopType
<1>3. QED
  BY <1>1, <1>2 DEF Top

(* EXECUTE TASK | WORK: the new thread, the failure, the record.            *)
LEMMA StartTaskStep ==
    ASSUME ScriptInv, NEW s \in Streams, status[s] = "Running",
           stack[s] # <<>>, MarksOK', StartTask(s)
    PROVE  ScriptInv' /\ StatusMoves
           /\ \E p : Moves(s, p) /\ Allowed(s, p)
<1> DEFINE g == [Head(stack[s]) EXCEPT !.at = "store", !.arg = Fresh]
<1>0. /\ StackOK /\ RaisedOK /\ MarksOK /\ StatusOK /\ RecordsOK /\ WalkOK
      /\ EndInv /\ FrameInv /\ AnswerInv /\ ChildInv(s)
  BY TypesParts DEF ScriptInv
<1>1. /\ Fresh \in Streams /\ Fresh \in Nat /\ status[Fresh] = "unused"
      /\ Fresh # s
  BY FreshIsUnused DEF StartTask, Unused, Streams
<1>2. /\ Top(s) \in Frames /\ Top(s).node \in Nodes /\ Top(s) = Head(stack[s])
      /\ Kind(Top(s)) = "task" /\ Code(s).body \in Nodes \cup {Null}
  BY <1>0, TopType, Statements DEF StartTask, IsAt, Code, Kind, Top
<1>3. /\ g \in Frames /\ g.node = Top(s).node /\ g.at = "store"
      /\ g.keep = Top(s).keep /\ g.arg = Fresh
  BY <1>1, <1>2 DEF Frames, Places
<1>4. Good(g)
  <2>1. Top(s).keep \in Raised
    BY <1>0, <1>2, TopType DEF FrameInv, Kind
  <2>2. QED
    BY <1>3, <2>1 DEF Good
<1>5. Allowed(s, <<g>>)
  BY <1>2, <1>3, <1>4 DEF Allowed, Guarded
<1>6. stack[Fresh] = <<>>
  BY <1>0, <1>1 DEF EndInv
<1>7. Moves(s, <<g>>)
  <2>1. /\ stack' = [stack EXCEPT ![s] = <<g>> \o Tail(stack[s]),
                                  ![Fresh] = Begin(Code(s).body)]
        /\ status' = [status EXCEPT ![Fresh] = "WaitingToRun"]
    BY DEF StartTask
  <2>2. /\ stack'[s] = <<g>> \o Tail(stack[s])
        /\ stack'[Fresh] = Begin(Code(s).body)
        /\ \A t \in Streams \ {s, Fresh} : stack'[t] = stack[t]
        /\ stack' = [t \in Streams |-> stack'[t]]
    BY <1>0, <1>1, <2>1 DEF StackOK
  <2>3. Launched(Fresh)
    BY <1>0, <1>1, <1>2, <1>6, <2>1, <2>2 DEF Launched, StatusOK
  <2>4. QED
    BY <2>2, <2>3 DEF Moves, Others
<1>8. EndMoves /\ StatusOK' /\ RecordsOK' /\ UNCHANGED <<waiting, walk>>
  BY <1>0, <1>1 DEF StartTask, EndMoves, StatusOK, RecordsOK, waiting
<1>9. StatusMoves
  BY <1>0, <1>8, EndsStay
<1>10. RaisesOnly(s)
  BY <1>0 DEF StartTask, Quiet, RaisesOnly, RaisedOK
<1>11. stack'[s] # <<>> /\ Top(s)' = g /\ Code(s)'.kind = "task"
  BY <1>0, <1>2, <1>3, <1>7, ResumedTop DEF Code, Kind
<1>12. ChildInv(s)'
  <2>1. status'[Fresh] # "unused"
    BY <1>0, <1>1 DEF StartTask, StatusOK
  <2>2. \A i \in DOMAIN tasks'[s] : status'[tasks'[s][i].child] # "unused"
    BY <1>0, <1>8, <1>9, RecordTypes DEF ChildInv, StatusMoves, waiting
  <2>3. QED
    BY <1>1, <1>3, <1>11, <2>1, <2>2 DEF ChildInv
<1>13. WaitInv(s)'
  BY <1>11 DEF WaitInv
<1>14. \A r \in answer'[s] : IsTrue(r)'
  BY <1>0, <1>8, <1>9, AnswersStay DEF waiting
<1>15. QED
  BY <1>5, <1>7, <1>8, <1>9, <1>10, <1>12, <1>13, <1>14, ThreadMoves
  DEF waiting

(* A parameter or the script fails.                                         *)
LEMMA StartTaskFailsMoves ==
    ASSUME StackOK, RaisedOK, NEW s \in Streams, stack[s] # <<>>,
           StartTaskFails(s)
    PROVE  MovesPlainly(s) /\ RaisesOnly(s)
<1>1. ~Guarded(s)
  BY DEF StartTaskFails, IsAt, Code, Guarded, Kind
<1>2. MovesPlainly(s)
  BY <1>1, ReturnMoves DEF StartTaskFails, Throw
<1>3. QED
  BY <1>2 DEF StartTaskFails, Throw, RaisesOnly, RaisedOK, Raised

(* The record of the new thread is added to the array.                      *)
LEMMA StoreTaskStep ==
    ASSUME ScriptInv, NEW s \in Streams, status[s] = "Running",
           stack[s] # <<>>, MarksOK', StoreTaskToWait(s)
    PROVE  ScriptInv' /\ StatusMoves
           /\ \E p : Moves(s, p) /\ Allowed(s, p)
<1>0. /\ StackOK /\ RaisedOK /\ MarksOK /\ StatusOK /\ RecordsOK /\ WalkOK
      /\ EndInv /\ FrameInv /\ AnswerInv /\ ChildInv(s)
  BY TypesParts DEF ScriptInv
<1>1. ~Guarded(s)
  BY DEF StoreTaskToWait, IsAt, Code, Guarded, Kind
<1>2. MovesPlainly(s)
  BY <1>0, <1>1, GoNextMoves DEF StoreTaskToWait
<1>3. PICK p : Moves(s, p) /\ Allowed(s, p)
  BY <1>2 DEF MovesPlainly
<1>4. Top(s).arg \in Streams /\ status[Top(s).arg] # "unused"
  BY <1>0 DEF ChildInv, StoreTaskToWait, IsAt
<1>5. Record(Top(s).arg) \in TaskRecord /\ Record(Top(s).arg).child = Top(s).arg
  BY <1>0, <1>4 DEF Record, TaskRecord, StatusOK
<1>6. tasks'[s] = tasks[s] \/ tasks'[s] = Append(tasks[s], Record(Top(s).arg))
  BY <1>0 DEF StoreTaskToWait, RecordsOK
<1>7. /\ EndMoves /\ StatusOK' /\ UNCHANGED <<reading, answer, walk>>
      /\ \A t \in Streams \ {s} : tasks'[t] = tasks[t]
  BY <1>0 DEF StoreTaskToWait, EndMoves, StatusOK, ending, RecordsOK
<1>8. StatusMoves
  BY <1>0, <1>7, EndsStay
<1>9. RecordsOK'
  BY <1>0, <1>5, <1>7 DEF StoreTaskToWait, RecordsOK
<1>10. RaisesOnly(s)
  BY <1>0 DEF StoreTaskToWait, Quiet, RaisesOnly, RaisedOK
<1>11. stack'[s] # <<>> => Plain(Top(s)')
  BY <1>0, <1>2, TopAfterBlock
<1>12. ChildInv(s)'
  <2>1. \A i \in DOMAIN tasks'[s] : status[tasks'[s][i].child] # "unused"
                                    /\ tasks'[s][i].child \in Streams
    <3>1. \A i \in DOMAIN tasks[s] : status[tasks[s][i].child] # "unused"
                                     /\ tasks[s][i].child \in Streams
      BY <1>0, RecordTypes DEF ChildInv
    <3>2. tasks[s] \in Seq(TaskRecord)
      BY <1>0 DEF RecordsOK
    <3>3. CASE tasks'[s] = Append(tasks[s], Record(Top(s).arg))
      <4>1. \A i \in DOMAIN tasks'[s] :
                \/ i \in DOMAIN tasks[s] /\ tasks'[s][i] = tasks[s][i]
                \/ tasks'[s][i] = Record(Top(s).arg)
        BY <1>5, <3>2, <3>3
      <4>2. QED
        BY <1>4, <1>5, <3>1, <4>1
    <3>4. QED
      BY <1>6, <3>1, <3>3
  <2>2. \A i \in DOMAIN tasks'[s] : status'[tasks'[s][i].child] # "unused"
    BY <1>8, <2>1 DEF StatusMoves
  <2>3. QED
    BY <1>11, <2>2 DEF ChildInv, Plain, Kind, Code
<1>13. WaitInv(s)'
  BY <1>11, PlainWait
<1>14. \A r \in answer'[s] : IsTrue(r)'
  BY <1>0, <1>7, <1>8, AnswersStay
<1>15. QED
  BY <1>3, <1>7, <1>8, <1>9, <1>10, <1>12, <1>13, <1>14, ThreadMoves

(* The inner processor is a WAIT.                                           *)
Waiting(s) == Kind(Top(s)) \in {"all", "any"}

(* A WAIT that goes on is still the inner processor.                        *)
LEMMA WaitTop ==
    ASSUME StackOK, NEW s \in Streams, stack[s] # <<>>, Waiting(s),
           NEW g \in Frames, g.node = Top(s).node, Resume(s, g)
    PROVE  /\ stack'[s] # <<>> /\ Top(s)' = g /\ Code(s)' = Code(s)
           /\ Moves(s, <<g>>) /\ Allowed(s, <<g>>)
<1>1. Good(g) /\ Guards(s, g)
  BY DEF Waiting, Good, Guards, Guarded, Kind
<1>2. Moves(s, <<g>>) /\ Allowed(s, <<g>>)
  BY <1>1, ResumeMoves
<1>3. stack'[s] # <<>> /\ Top(s)' = g
  BY <1>2, ResumedTop
<1>4. QED
  BY <1>2, <1>3 DEF Code

(* A step of a WAIT that is not its last one.                               *)
LEMMA WaitResumes ==
    ASSUME ScriptInv, NEW s \in Streams, status[s] = "Running",
           stack[s] # <<>>, Waiting(s),
           NEW g \in Frames, g.node = Top(s).node, Resume(s, g),
           UNCHANGED <<raised, marks, ending, walk>>,
           RecordsOK',
           \A t \in Streams \ {s} : /\ tasks'[t] = tasks[t]
                                    /\ reading'[t] = reading[t]
                                    /\ answer'[t] = answer[t],
           answer'[s] \subseteq answer[s],
           \A i \in DOMAIN tasks'[s] : /\ i \in DOMAIN tasks[s]
                                       /\ tasks'[s][i].child = tasks[s][i].child,
           WaitInv(s)'
    PROVE  /\ ScriptInv' /\ StatusMoves
           /\ \E p : Moves(s, p) /\ Allowed(s, p)
<1>0. /\ StackOK /\ RaisedOK /\ MarksOK /\ StatusOK /\ RecordsOK /\ WalkOK
      /\ AnswerInv /\ ChildInv(s)
  BY TypesParts DEF ScriptInv
<1>1. /\ stack'[s] # <<>> /\ Top(s)' = g /\ Code(s)' = Code(s)
      /\ Moves(s, <<g>>) /\ Allowed(s, <<g>>)
  BY <1>0, WaitTop
<1>2. EndMoves /\ StatusOK' /\ RaisesOnly(s) /\ MarksOK'
  BY <1>0 DEF EndMoves, ending, StatusOK, RaisesOnly, RaisedOK, MarksOK
<1>3. StatusMoves
  BY <1>0, <1>2, EndsStay
<1>4. \A r \in answer'[s] : IsTrue(r)'
  <2>1. \A r \in answer[s] : r \in TaskRecord /\ IsTrue(r)
    BY <1>0 DEF RecordsOK, AnswerInv
  <2>2. QED
    BY <1>3, <2>1, TruthStays
<1>5. ChildInv(s)'
  BY <1>0, <1>1 DEF ChildInv, Waiting, Code, Kind, ending
<1>6. QED
  BY <1>1, <1>2, <1>3, <1>4, <1>5, ThreadMoves

(* WAIT ALL | ANY: the first step, with tasks and without.                  *)
LEMMA WaitEnterStep ==
    ASSUME ScriptInv, NEW s \in Streams, status[s] = "Running",
           stack[s] # <<>>, MarksOK', WaitEnter(s)
    PROVE  /\ ScriptInv' /\ StatusMoves
           /\ \E p : Moves(s, p) /\ Allowed(s, p)
<1>0. /\ StackOK /\ RaisedOK /\ RecordsOK
  BY TypesParts DEF ScriptInv
<1>1. Waiting(s) /\ ~Guarded(s)
  BY DEF WaitEnter, IsAt, Code, Kind, Waiting, Guarded
<1>2. CASE tasks[s] = <<>>
  <2>1. MovesPlainly(s)
    BY <1>0, <1>1, <1>2, GoNextMoves DEF WaitEnter
  <2>2. RaisesOnly(s) /\ UNCHANGED <<ending, waiting, walk>>
    BY <1>0, <1>2 DEF WaitEnter, Quiet, RaisesOnly, RaisedOK, waiting
  <2>3. QED
    BY <2>1, <2>2, PlainSteps DEF MovesPlainly
<1>3. CASE tasks[s] # <<>>
  <2> DEFINE g == [Top(s) EXCEPT !.at = "wait"]
  <2>1. g \in Frames /\ g.node = Top(s).node /\ g.at = "wait"
    BY <1>0, TopType DEF Frames, Places
  <2>2. Resume(s, g) /\ UNCHANGED <<raised, marks, ending, walk, tasks, reading>>
        /\ answer' = [answer EXCEPT ![s] = {}]
    BY <1>3 DEF WaitEnter, Quiet
  <2>3. RecordsOK'
    BY <1>0, <2>2 DEF RecordsOK
  <2>4. stack'[s] # <<>> /\ Top(s)' = g /\ Code(s)' = Code(s)
    BY <1>0, <1>1, <2>1, <2>2, WaitTop
  <2>5. WaitInv(s)'
    BY <1>3, <2>1, <2>2, <2>4 DEF WaitInv, Updating
  <2>6. /\ answer'[s] \subseteq answer[s]
        /\ \A t \in Streams \ {s} : answer'[t] = answer[t]
    BY <1>0, <2>2 DEF RecordsOK
  <2>7. QED
    BY <1>1, <2>1, <2>2, <2>3, <2>5, <2>6, WaitResumes
<1>4. QED
  BY <1>2, <1>3

(* The predicates of records do not depend on anything but the threads.     *)
LEMMA SameEnds ==
    ASSUME UNCHANGED ending
    PROVE  /\ \A r : IsTrue(r)' = IsTrue(r)
           /\ \A r, l : HasRead(r, l)' = HasRead(r, l)
           /\ \A s, i : Done(s, i)' = (status[tasks'[s][i].child] \in Ended)
  BY DEF ending, IsTrue, HasRead, Done

(* The wait is over: the records that are going to be updated.              *)
LEMMA UpdateStep ==
    ASSUME ScriptInv, NEW s \in Streams, status[s] = "Running",
           stack[s] # <<>>, Waiting(s), NEW keep \in {"no", "timeout"},
           NEW indexes \in Seq(Nat), indexes # <<>>,
           Update(s, indexes, keep),
           UNCHANGED <<raised, marks, ending, walk, tasks, answer>>,
           \A k \in DOMAIN indexes : indexes[k] \in DOMAIN tasks[s],
           Code(s).kind = "any" => keep = "no" /\ Len(indexes) = 1,
           keep = "no" =>
                /\ Done(s, indexes[1])
                /\ Code(s).kind = "all" => \A i \in DOMAIN tasks[s] :
                      Done(s, i) /\ \E k \in DOMAIN indexes : indexes[k] = i
    PROVE  /\ ScriptInv' /\ StatusMoves
           /\ \E p : Moves(s, p) /\ Allowed(s, p)
<1> DEFINE g == [Top(s) EXCEPT !.at = "Status", !.keep = keep]
<1>0. /\ StackOK /\ RaisedOK /\ RecordsOK
  BY TypesParts DEF ScriptInv
<1>1. /\ g \in Frames /\ g.node = Top(s).node /\ g.at = "Status"
      /\ g.keep = keep
  BY <1>0, TopType DEF Frames, Places, Updating, Raised
<1>2. Resume(s, g) /\ reading' = [reading EXCEPT ![s] = indexes]
  BY DEF Update
<1>3. RecordsOK' /\ reading'[s] = indexes
      /\ \A t \in Streams \ {s} : reading'[t] = reading[t]
  BY <1>0, <1>2 DEF RecordsOK
<1>4. stack'[s] # <<>> /\ Top(s)' = g /\ Code(s)' = Code(s)
  BY <1>0, <1>1, <1>2, WaitTop
<1>5. keep = "no" => HasRead(tasks[s][indexes[1]], "Status")
  BY DEF HasRead, Done
<1>6. WaitInv(s)'
  BY <1>1, <1>3, <1>4, <1>5, SameEnds DEF WaitInv, Updating, Done
<1>7. QED
  BY <1>1, <1>2, <1>3, <1>6, WaitResumes

(* WAIT ALL: everybody is done, or the time is over.                        *)
LEMMA WaitForAllStep ==
    ASSUME ScriptInv, NEW s \in Streams, status[s] = "Running",
           stack[s] # <<>>, WaitForAll(s)
    PROVE  /\ ScriptInv' /\ StatusMoves
           /\ \E p : Moves(s, p) /\ Allowed(s, p)
<1> DEFINE indexes == [i \in DOMAIN tasks[s] |-> i]
           done == \A i \in DOMAIN tasks[s] : Done(s, i)
           keep == IF done THEN "no" ELSE "timeout"
<1>0. /\ StackOK /\ RaisedOK /\ RecordsOK /\ WaitInv(s)
  BY TypesParts DEF ScriptInv
<1>1. Waiting(s) /\ Code(s).kind = "all" /\ tasks[s] # <<>>
  BY <1>0 DEF WaitForAll, IsAt, Code, Kind, Waiting, WaitInv
<1>2. tasks[s] \in Seq(TaskRecord)
  BY <1>0 DEF RecordsOK
<1>3. /\ indexes \in Seq(Nat) /\ indexes # <<>> /\ DOMAIN indexes = DOMAIN tasks[s]
      /\ \A k \in DOMAIN indexes : indexes[k] = k
      /\ 1 \in DOMAIN indexes
  <2>1. Len(tasks[s]) \in Nat \ {0} /\ DOMAIN tasks[s] = 1..Len(tasks[s])
    BY <1>1, <1>2
  <2>2. \A i \in DOMAIN tasks[s] : i \in Nat
    BY <2>1
  <2>3. indexes \in [1..Len(tasks[s]) -> Nat] /\ 1 \in DOMAIN tasks[s]
    BY <2>1, <2>2
  <2>4. indexes \in Seq(Nat)
    BY <2>1, <2>3, SeqDef
  <2>5. QED
    BY <2>1, <2>3, <2>4
<1>4. /\ Update(s, indexes, keep) /\ keep \in {"no", "timeout"}
      /\ UNCHANGED <<raised, marks, ending, walk, tasks, answer>>
      /\ keep = "no" => done
  BY DEF WaitForAll, Quiet
<1>5. QED
  BY <1>1, <1>3, <1>4, UpdateStep

(* WAIT ANY: one is done, or the time is over.                              *)
LEMMA WaitForAnyStep ==
    ASSUME ScriptInv, NEW s \in Streams, status[s] = "Running",
           stack[s] # <<>>, WaitForAny(s)
    PROVE  /\ ScriptInv' /\ StatusMoves
           /\ \E p : Moves(s, p) /\ Allowed(s, p)
<1>0. /\ StackOK /\ RaisedOK /\ RecordsOK /\ MarksOK
  BY TypesParts DEF ScriptInv
<1>1. Waiting(s) /\ Code(s).kind = "any" /\ ~Guarded(s)
  BY DEF WaitForAny, IsAt, Code, Kind, Waiting, Guarded
<1>2. UNCHANGED <<raised, marks, ending, walk, tasks, answer>>
  BY DEF WaitForAny, Quiet
<1>3. CASE GoNext(s) /\ UNCHANGED reading
  <2>1. MovesPlainly(s)
    BY <1>0, <1>1, <1>3, GoNextMoves
  <2>2. RaisesOnly(s) /\ UNCHANGED <<ending, waiting, walk>> /\ MarksOK'
    BY <1>0, <1>2, <1>3 DEF RaisesOnly, RaisedOK, waiting, MarksOK
  <2>3. QED
    BY <2>1, <2>2, PlainSteps DEF MovesPlainly
<1>4. ASSUME NEW i \in DOMAIN tasks[s], Done(s, i), Update(s, <<i>>, "no")
      PROVE  /\ ScriptInv' /\ StatusMoves
             /\ \E p : Moves(s, p) /\ Allowed(s, p)
  <2>1. i \in Nat
    BY <1>0 DEF RecordsOK
  <2>2. <<i>> \in Seq(Nat) /\ <<i>> # <<>> /\ Len(<<i>>) = 1
        /\ DOMAIN <<i>> = {1} /\ <<i>>[1] = i
    BY <2>1
  <2>3. \A k \in DOMAIN <<i>> : <<i>>[k] \in DOMAIN tasks[s]
    BY <1>4, <2>2
  <2>4. QED
    BY <1>1, <1>2, <1>4, <2>2, <2>3, UpdateStep
<1>5. QED
  BY <1>3, <1>4 DEF WaitForAny

(* The record that a WAIT is updating.                                      *)
LEMMA ReadingRecord ==
    ASSUME ScriptInv, NEW s \in Streams, stack[s] # <<>>, Waiting(s),
           Top(s).at \in Updating \cup {"answer"}
    PROVE  /\ reading[s] # <<>> /\ reading[s] \in Seq(Nat)
           /\ Head(reading[s]) = reading[s][1]
           /\ reading[s][1] \in DOMAIN tasks[s]
           /\ \A k \in DOMAIN reading[s] : reading[s][k] \in DOMAIN tasks[s]
           /\ tasks[s] \in Seq(TaskRecord)
           /\ tasks[s][reading[s][1]] \in TaskRecord
           /\ tasks[s][reading[s][1]].child \in Streams
           /\ status[tasks[s][reading[s][1]].child] \in
                 Ended \cup {"WaitingToRun", "Running"}
           /\ Code(s).kind = "any" => Top(s).keep = "no"
<1>0. RecordsOK /\ StatusOK /\ WaitInv(s) /\ ChildInv(s)
  BY TypesParts DEF ScriptInv
<1>1. /\ reading[s] # <<>> /\ reading[s] \in Seq(Nat)
      /\ \A k \in DOMAIN reading[s] : reading[s][k] \in DOMAIN tasks[s]
      /\ Code(s).kind = "any" => Top(s).keep = "no"
  BY <1>0 DEF RecordsOK, WaitInv, Waiting, Code, Kind
<1>2. Head(reading[s]) = reading[s][1] /\ 1 \in DOMAIN reading[s]
  BY <1>1
<1>3. reading[s][1] \in DOMAIN tasks[s]
  BY <1>1, <1>2
<1>4. /\ tasks[s][reading[s][1]] \in TaskRecord
      /\ tasks[s][reading[s][1]].child \in Streams
  BY <1>0, <1>3, RecordTypes
<1>5. status[tasks[s][reading[s][1]].child] # "unused"
  BY <1>0, <1>3 DEF ChildInv
<1>6. tasks[s] \in Seq(TaskRecord)
  BY <1>0 DEF RecordsOK
<1>7. QED
  BY <1>0, <1>1, <1>2, <1>3, <1>4, <1>5, <1>6 DEF StatusOK

(* A record of the array is replaced by another one of the same thread.     *)
LEMMA ChangedRecord ==
    ASSUME RecordsOK, NEW s \in Streams, NEW j \in DOMAIN tasks[s],
           NEW r \in TaskRecord, r.child = tasks[s][j].child,
           tasks' = [tasks EXCEPT ![s][j] = r],
           reading' \in [Streams -> Seq(Nat)], UNCHANGED answer
    PROVE  /\ RecordsOK'
           /\ \A t \in Streams \ {s} : tasks'[t] = tasks[t]
           /\ DOMAIN tasks'[s] = DOMAIN tasks[s]
           /\ tasks'[s][j] = r
           /\ \A i \in DOMAIN tasks[s] : i # j => tasks'[s][i] = tasks[s][i]
           /\ \A i \in DOMAIN tasks'[s] : /\ i \in DOMAIN tasks[s]
                                          /\ tasks'[s][i].child = tasks[s][i].child
<1>1. tasks[s] \in Seq(TaskRecord)
  BY DEF RecordsOK
<1>2. [tasks[s] EXCEPT ![j] = r] \in Seq(TaskRecord)
  BY <1>1
<1>3. tasks' = [tasks EXCEPT ![s] = [tasks[s] EXCEPT ![j] = r]]
  OBVIOUS
<1>4. RecordsOK'
  BY <1>2, <1>3 DEF RecordsOK
<1>5. tasks'[s] = [tasks[s] EXCEPT ![j] = r]
  BY <1>3 DEF RecordsOK
<1>6. \A t \in Streams \ {s} : tasks'[t] = tasks[t]
  BY <1>3 DEF RecordsOK
<1>7. QED
  BY <1>4, <1>5, <1>6

(* One property of a record is read.                                        *)
LEMMA ReadsStep ==
    ASSUME ScriptInv, NEW s \in Streams, status[s] = "Running",
           stack[s] # <<>>,
           NEW l \in Updating, NEW m \in Updating \ {"Status"},
           NEW r \in TaskRecord,
           Reads(s, l, r, m),
           r.child = tasks[s][reading[s][1]].child,
           HasRead(tasks[s][reading[s][1]], l) => HasRead(r, m)
    PROVE  /\ ScriptInv' /\ StatusMoves
           /\ \E p : Moves(s, p) /\ Allowed(s, p)
<1> DEFINE j == reading[s][1]
           g == [Top(s) EXCEPT !.at = m]
<1>0. /\ StackOK /\ RaisedOK /\ RecordsOK /\ WaitInv(s)
  BY TypesParts DEF ScriptInv
<1>1. Waiting(s) /\ Top(s).at = l
  BY DEF Reads, IsAt, Code, Kind, Waiting
<1>2. /\ j \in DOMAIN tasks[s] /\ Head(reading[s]) = j
      /\ reading[s] # <<>> /\ 1 \in DOMAIN reading[s]
      /\ \A k \in DOMAIN reading[s] : reading[s][k] \in DOMAIN tasks[s]
      /\ Code(s).kind = "any" => Top(s).keep = "no"
  BY <1>1, ReadingRecord
<1>3. /\ g \in Frames /\ g.node = Top(s).node /\ g.at = m
      /\ g.keep = Top(s).keep
  BY <1>0, TopType DEF Frames, Places
<1>4. /\ Resume(s, g) /\ tasks' = [tasks EXCEPT ![s][j] = r]
      /\ UNCHANGED <<raised, marks, ending, walk, reading, answer>>
  BY <1>2 DEF Reads, Quiet
<1>5. /\ RecordsOK'
      /\ \A t \in Streams \ {s} : tasks'[t] = tasks[t]
      /\ DOMAIN tasks'[s] = DOMAIN tasks[s]
      /\ tasks'[s][j] = r
      /\ \A i \in DOMAIN tasks[s] : i # j => tasks'[s][i] = tasks[s][i]
      /\ \A i \in DOMAIN tasks'[s] : /\ i \in DOMAIN tasks[s]
                                     /\ tasks'[s][i].child = tasks[s][i].child
  <2>1. reading' \in [Streams -> Seq(Nat)]
    BY <1>0, <1>4 DEF RecordsOK
  <2>2. QED
    BY <1>0, <1>2, <1>4, <2>1, ChangedRecord
<1>6. stack'[s] # <<>> /\ Top(s)' = g /\ Code(s)' = Code(s)
  BY <1>0, <1>1, <1>3, <1>4, WaitTop
<1>7. WaitInv(s)'
  <2>1. ASSUME Top(s).keep = "no"
        PROVE  /\ HasRead(r, m)
               /\ Code(s).kind = "any" => Len(reading[s]) = 1
               /\ Code(s).kind = "all" => \A i \in DOMAIN tasks[s] :
                     /\ Done(s, i)'
                     /\ \/ IsTrue(tasks'[s][i])
                        \/ \E k \in DOMAIN reading[s] : reading[s][k] = i
    <3>1. Code(s).kind \in {"all", "any"}
      BY <1>1 DEF Waiting, Code, Kind
    <3>2. /\ HasRead(tasks[s][j], l)
          /\ Code(s).kind = "any" => Len(reading[s]) = 1
          /\ Code(s).kind = "all" => \A i \in DOMAIN tasks[s] :
                /\ Done(s, i)
                /\ \/ IsTrue(tasks[s][i])
                   \/ \E k \in DOMAIN reading[s] : reading[s][k] = i
      BY <1>0, <1>1, <2>1, <3>1 DEF WaitInv
    <3>3. \A i \in DOMAIN tasks[s] : Done(s, i) => Done(s, i)'
      BY <1>4, <1>5 DEF Done, ending
    <3>4. QED
      BY <1>2, <1>5, <3>2, <3>3
  <2>2. \A q, v : IsTrue(q)' = IsTrue(q) /\ HasRead(q, v)' = HasRead(q, v)
    BY <1>4, SameEnds
  <2>3. m \notin {"wait", "answer"}
    BY DEF Updating
  <2>4. QED
    BY <1>2, <1>3, <1>4, <1>5, <1>6, <2>1, <2>2, <2>3 DEF WaitInv
<1>8. QED
  BY <1>1, <1>3, <1>4, <1>5, <1>7, WaitResumes

(* Status, IsFaulted, IsCompleted and IsSucceeded, in this order.           *)
LEMMA UpdatePropertyStep ==
    ASSUME ScriptInv, NEW s \in Streams, status[s] = "Running",
           stack[s] # <<>>, UpdateProperty(s)
    PROVE  /\ ScriptInv' /\ StatusMoves
           /\ \E p : Moves(s, p) /\ Allowed(s, p)
<1> DEFINE r == tasks[s][reading[s][1]]
           now == Record(r.child)
<1>1. Waiting(s) /\ Top(s).at \in Updating
  BY DEF UpdateProperty, Reads, IsAt, Waiting, Code, Kind, Updating
<1>2. /\ r \in TaskRecord /\ r.child \in Streams
      /\ Head(reading[s]) = reading[s][1]
      /\ status[r.child] \in Ended \cup {"WaitingToRun", "Running"}
  BY <1>1, ReadingRecord
<1>3. /\ now.Status = status[r.child]
      /\ now.IsFaulted = (status[r.child] = "Faulted")
      /\ now.IsCompleted = (status[r.child] \in Ended)
      /\ now.IsSucceeded = (status[r.child] = "RanToCompletion")
  BY DEF Record
<1>4. CASE Reads(s, "Status", [r EXCEPT !.Status = now.Status], "IsFaulted")
  <2> DEFINE q == [r EXCEPT !.Status = now.Status]
  <2>1. q \in TaskRecord /\ q.child = r.child /\ q.Status = status[r.child]
    BY <1>2, <1>3 DEF TaskRecord
  <2>2. HasRead(r, "Status") => HasRead(q, "IsFaulted")
    BY <2>1 DEF HasRead
  <2>3. "Status" \in Updating /\ "IsFaulted" \in Updating \ {"Status"}
    BY DEF Updating
  <2>4. QED
    BY <1>4, <2>1, <2>2, <2>3, ReadsStep
<1>5. CASE Reads(s, "IsFaulted", [r EXCEPT !.IsFaulted = now.IsFaulted],
                 "IsCompleted")
  <2> DEFINE q == [r EXCEPT !.IsFaulted = now.IsFaulted]
  <2>1. /\ q \in TaskRecord /\ q.child = r.child /\ q.Status = r.Status
        /\ q.IsFaulted = (status[r.child] = "Faulted")
    BY <1>2, <1>3 DEF TaskRecord
  <2>2. HasRead(r, "IsFaulted") => HasRead(q, "IsCompleted")
    BY <2>1 DEF HasRead
  <2>3. "IsFaulted" \in Updating /\ "IsCompleted" \in Updating \ {"Status"}
    BY DEF Updating
  <2>4. QED
    BY <1>5, <2>1, <2>2, <2>3, ReadsStep
<1>6. CASE Reads(s, "IsCompleted", [r EXCEPT !.IsCompleted = now.IsCompleted],
                 "IsSucceeded")
  <2> DEFINE q == [r EXCEPT !.IsCompleted = now.IsCompleted]
  <2>1. /\ q \in TaskRecord /\ q.child = r.child /\ q.Status = r.Status
        /\ q.IsFaulted = r.IsFaulted
        /\ q.IsCompleted = (status[r.child] \in Ended)
    <3>1. now.IsCompleted \in BOOLEAN
      BY <1>3
    <3>2. /\ q \in TaskRecord /\ q.child = r.child /\ q.Status = r.Status
          /\ q.IsFaulted = r.IsFaulted /\ q.IsCompleted = now.IsCompleted
      <4> HIDE DEF now
      <4>1. QED
        BY <1>2, <3>1 DEF TaskRecord
    <3>3. QED
      BY <1>3, <3>2
  <2>2. HasRead(r, "IsCompleted") => HasRead(q, "IsSucceeded")
    BY <2>1 DEF HasRead
  <2>3. "IsCompleted" \in Updating /\ "IsSucceeded" \in Updating \ {"Status"}
    BY DEF Updating
  <2>4. QED
    BY <1>6, <2>1, <2>2, <2>3, ReadsStep
<1>7. CASE Reads(s, "IsSucceeded", [r EXCEPT !.IsSucceeded = now.IsSucceeded],
                 "Result")
  <2> DEFINE q == [r EXCEPT !.IsSucceeded = now.IsSucceeded]
  <2>1. /\ q \in TaskRecord /\ q.child = r.child /\ q.Status = r.Status
        /\ q.IsFaulted = r.IsFaulted /\ q.IsCompleted = r.IsCompleted
        /\ q.IsSucceeded = (status[r.child] = "RanToCompletion")
    BY <1>2, <1>3 DEF TaskRecord
  <2>2. HasRead(r, "IsSucceeded") => HasRead(q, "Result")
    BY <2>1 DEF HasRead
  <2>3. "IsSucceeded" \in Updating /\ "Result" \in Updating \ {"Status"}
    BY DEF Updating
  <2>4. QED
    BY <1>7, <2>1, <2>2, <2>3, ReadsStep
<1>8. QED
  BY <1>2, <1>4, <1>5, <1>6, <1>7 DEF UpdateProperty

(* The result tells how the thread ended, and the rest of the record has    *)
(* been read already.                                                       *)
LEMMA ResultIsTrue ==
    ASSUME EndInv, StatusOK, NEW r \in TaskRecord, HasRead(r, "Result")
    PROVE  IsTrue(WithResult(r))
<1>1. /\ r.child \in Streams
      /\ WithResult(r).child = r.child
      /\ WithResult(r).IsCompleted = r.IsCompleted
  BY DEF TaskRecord, WithResult
<1>2. /\ status[r.child] \in Ended /\ r.Status = status[r.child]
      /\ r.IsFaulted = (status[r.child] = "Faulted") /\ r.IsCompleted
      /\ r.IsSucceeded = (status[r.child] = "RanToCompletion")
  BY DEF HasRead
<1>3. /\ status[r.child] = "Faulted" <=> result[r.child] # "null"
      /\ result[r.child] \in {"null", "value", "error"}
  BY <1>1 DEF EndInv, StatusOK
<1>4. CASE result[r.child] = "value"
  <2>1. /\ WithResult(r).Result = "value" /\ WithResult(r).IsSucceeded = TRUE
        /\ WithResult(r).IsFaulted = FALSE
        /\ WithResult(r).Status = "RanToCompletion"
    BY <1>4 DEF TaskRecord, WithResult
  <2>2. QED
    BY <1>1, <1>2, <1>4, <2>1 DEF IsTrue
<1>5. CASE result[r.child] # "value"
  <2>1. /\ WithResult(r).Result = result[r.child]
        /\ WithResult(r).IsSucceeded = r.IsSucceeded
        /\ WithResult(r).IsFaulted = r.IsFaulted
        /\ WithResult(r).Status = r.Status
    BY <1>5 DEF TaskRecord, WithResult
  <2>2. QED
    BY <1>1, <1>2, <1>3, <1>5, <2>1 DEF IsTrue, Ended
<1>6. QED
  BY <1>4, <1>5

(* The record with the result is a record of the same thread.               *)
LEMMA ResultType ==
    ASSUME StatusOK, NEW r \in TaskRecord
    PROVE  WithResult(r) \in TaskRecord /\ WithResult(r).child = r.child
<1>1. r.child \in Streams /\ result[r.child] \in {"null", "value", "error"}
  BY DEF TaskRecord, StatusOK
<1>2. QED
  BY <1>1 DEF TaskRecord, WithResult, Ended

(* The last property is read: the next record is due, or the answer.        *)
LEMMA UpdateResultStep ==
    ASSUME ScriptInv, NEW s \in Streams, status[s] = "Running",
           stack[s] # <<>>, UpdateResult(s)
    PROVE  /\ ScriptInv' /\ StatusMoves
           /\ \E p : Moves(s, p) /\ Allowed(s, p)
<1> DEFINE j == reading[s][1]
           r == WithResult(tasks[s][j])
           more == Len(reading[s]) > 1
           m == IF more THEN "Status" ELSE "answer"
           g == [Top(s) EXCEPT !.at = m]
<1>0. /\ StackOK /\ RaisedOK /\ RecordsOK /\ StatusOK /\ EndInv /\ WaitInv(s)
  BY TypesParts DEF ScriptInv
<1>1. Waiting(s) /\ Top(s).at = "Result" /\ Top(s).at \in Updating
  BY DEF UpdateResult, IsAt, Code, Kind, Waiting, Updating
<1>2. /\ j \in DOMAIN tasks[s] /\ Head(reading[s]) = j
      /\ reading[s] # <<>> /\ reading[s] \in Seq(Nat)
      /\ \A k \in DOMAIN reading[s] : reading[s][k] \in DOMAIN tasks[s]
      /\ Code(s).kind = "any" => Top(s).keep = "no"
      /\ tasks[s][j] \in TaskRecord
  BY <1>1, ReadingRecord
<1>3. /\ g \in Frames /\ g.node = Top(s).node /\ g.at = m
      /\ g.keep = Top(s).keep
  BY <1>0, TopType DEF Frames, Places, Updating
<1>4. /\ Resume(s, g) /\ tasks' = [tasks EXCEPT ![s][j] = r]
      /\ UNCHANGED <<raised, marks, ending, walk, answer>>
  BY <1>2 DEF UpdateResult, Quiet
<1>5. reading' = IF more THEN [reading EXCEPT ![s] = Tail(reading[s])] ELSE reading
  BY DEF UpdateResult
<1>6. /\ Len(reading[s]) \in Nat \ {0} /\ DOMAIN reading[s] = 1..Len(reading[s])
      /\ Tail(reading[s]) \in Seq(Nat)
      /\ Len(Tail(reading[s])) = Len(reading[s]) - 1
      /\ \A k \in 1..Len(Tail(reading[s])) : Tail(reading[s])[k] = reading[s][k + 1]
  BY <1>2
<1>7. /\ reading' \in [Streams -> Seq(Nat)]
      /\ reading'[s] = IF more THEN Tail(reading[s]) ELSE reading[s]
      /\ \A t \in Streams \ {s} : reading'[t] = reading[t]
  BY <1>0, <1>5, <1>6 DEF RecordsOK
<1>8. r \in TaskRecord /\ r.child = tasks[s][j].child
  BY <1>0, <1>2, ResultType
<1>9. /\ RecordsOK'
      /\ \A t \in Streams \ {s} : tasks'[t] = tasks[t]
      /\ DOMAIN tasks'[s] = DOMAIN tasks[s]
      /\ tasks'[s][j] = r
      /\ \A i \in DOMAIN tasks[s] : i # j => tasks'[s][i] = tasks[s][i]
      /\ \A i \in DOMAIN tasks'[s] : /\ i \in DOMAIN tasks[s]
                                     /\ tasks'[s][i].child = tasks[s][i].child
  BY <1>0, <1>2, <1>4, <1>7, <1>8, ChangedRecord
<1>10. stack'[s] # <<>> /\ Top(s)' = g /\ Code(s)' = Code(s)
  BY <1>0, <1>1, <1>3, <1>4, WaitTop
<1>11. WaitInv(s)'
  <2>1. \A q, v : IsTrue(q)' = IsTrue(q) /\ HasRead(q, v)' = HasRead(q, v)
    BY <1>4, SameEnds
  <2>2. /\ reading'[s] # <<>>
        /\ 1 \in DOMAIN reading'[s]
        /\ \A k \in DOMAIN reading'[s] : reading'[s][k] \in DOMAIN tasks'[s]
    <3>1. CASE more
      <4>1. /\ reading'[s] = Tail(reading[s]) /\ reading'[s] \in Seq(Nat)
            /\ DOMAIN reading'[s] = 1..(Len(reading[s]) - 1)
            /\ Len(reading[s]) - 1 > 0
        BY <1>6, <1>7, <3>1
      <4>2. \A k \in DOMAIN reading'[s] : /\ k + 1 \in DOMAIN reading[s]
                                          /\ reading'[s][k] = reading[s][k + 1]
        BY <1>6, <4>1
      <4>3. \A k \in DOMAIN reading'[s] : reading'[s][k] \in DOMAIN tasks[s]
        BY <1>2, <4>2
      <4>4. 1 \in DOMAIN reading'[s]
        BY <1>6, <4>1
      <4>5. QED
        BY <1>9, <4>3, <4>4
    <3>2. CASE ~more
      BY <1>2, <1>6, <1>7, <1>9, <3>2
    <3>3. QED
      BY <3>1, <3>2
  <2>3. \A i \in DOMAIN tasks[s] : Done(s, i) => Done(s, i)'
    BY <1>4, <1>9 DEF Done, ending
  <2>4. ASSUME Top(s).keep = "no"
        PROVE  /\ IsTrue(r)
               /\ Code(s).kind = "any" => ~more
               /\ Code(s).kind = "all" => \A i \in DOMAIN tasks[s] :
                     /\ Done(s, i)
                     /\ \/ IsTrue(tasks'[s][i])
                        \/ \E k \in DOMAIN reading[s] : k > 1 /\ reading[s][k] = i
    <3>1. Code(s).kind \in {"all", "any"}
      BY <1>1 DEF Waiting, Code, Kind
    <3>2. /\ HasRead(tasks[s][j], "Result")
          /\ Code(s).kind = "any" => Len(reading[s]) = 1
          /\ Code(s).kind = "all" => \A i \in DOMAIN tasks[s] :
                /\ Done(s, i)
                /\ \/ IsTrue(tasks[s][i])
                   \/ \E k \in DOMAIN reading[s] : reading[s][k] = i
      BY <1>0, <1>1, <2>4, <3>1 DEF WaitInv
    <3>3. IsTrue(r)
      BY <1>0, <1>2, <3>2, ResultIsTrue
    <3>4. \A k \in DOMAIN reading[s] : k > 1 \/ reading[s][k] = j
      BY <1>6
    <3>5. Code(s).kind = "any" => ~more
      <4>1. Len(reading[s]) = 1 => ~more
        OBVIOUS
      <4>2. Code(s).kind = "any" => Len(reading[s]) = 1
        BY <3>2
      <4>3. QED
        BY <4>1, <4>2
    <3>6. ASSUME NEW i \in DOMAIN tasks[s], Code(s).kind = "all"
          PROVE  \/ IsTrue(tasks'[s][i])
                 \/ \E k \in DOMAIN reading[s] : k > 1 /\ reading[s][k] = i
      <4>1. CASE i = j
        BY <1>9, <3>3, <4>1
      <4>2. CASE i # j
        BY <1>9, <3>2, <3>4, <3>6, <4>2
      <4>3. QED
        BY <4>1, <4>2
    <3>7. QED
      BY <3>2, <3>3, <3>5, <3>6
  <2>5. CASE more
    <3>1. ASSUME NEW k \in DOMAIN reading[s], k > 1
          PROVE  /\ k - 1 \in DOMAIN reading'[s]
                 /\ reading'[s][k - 1] = reading[s][k]
      <4>1. k - 1 \in 1..Len(Tail(reading[s])) /\ (k - 1) + 1 = k
        BY <1>6, <3>1
      <4>2. Tail(reading[s])[k - 1] = reading[s][(k - 1) + 1]
        BY <1>6, <4>1
      <4>3. reading'[s] = Tail(reading[s])
        BY <1>7, <2>5
      <4>4. QED
        BY <1>6, <4>1, <4>2, <4>3
    <3>2. /\ Top(s)'.at = "Status" /\ Top(s)'.keep = Top(s).keep
      BY <1>3, <1>10, <2>5
    <3>3. ASSUME Top(s).keep = "no"
          PROVE  /\ HasRead(tasks'[s][reading'[s][1]], "Status")
                 /\ Code(s).kind = "any" => Len(reading'[s]) = 1
                 /\ Code(s).kind = "all" => \A i \in DOMAIN tasks'[s] :
                       /\ Done(s, i)'
                       /\ \/ IsTrue(tasks'[s][i])
                          \/ \E k \in DOMAIN reading'[s] : reading'[s][k] = i
      <4>1. Code(s).kind = "all"
        BY <1>1, <2>4, <2>5, <3>3 DEF Waiting, Code, Kind
      <4>2. \A i \in DOMAIN tasks[s] : status[tasks'[s][i].child] \in Ended
        BY <1>9, <2>4, <3>3, <4>1 DEF Done
      <4>3. HasRead(tasks'[s][reading'[s][1]], "Status")
        BY <1>9, <2>2, <4>2 DEF HasRead
      <4>4. QED
        BY <1>9, <2>3, <2>4, <3>1, <3>3, <4>1, <4>3
    <3>4. QED
      BY <1>2, <1>10, <2>1, <2>2, <3>2, <3>3 DEF WaitInv, Updating
  <2>6. CASE ~more
    <3>1. \A k \in DOMAIN reading[s] : ~(k > 1)
      BY <1>6, <2>6
    <3>2. /\ Top(s)'.at = "answer" /\ Top(s)'.keep = Top(s).keep
          /\ reading'[s] = reading[s]
      BY <1>3, <1>7, <1>10, <2>6
    <3>3. ASSUME Top(s).keep = "no"
          PROVE  /\ IsTrue(tasks'[s][reading'[s][1]])
                 /\ Code(s).kind = "all" => \A i \in DOMAIN tasks'[s] :
                       IsTrue(tasks'[s][i])
      BY <1>9, <2>4, <3>1, <3>2, <3>3
    <3>4. QED
      BY <1>2, <1>10, <2>1, <2>2, <3>2, <3>3 DEF WaitInv, Updating
  <2>7. QED
    BY <2>5, <2>6
<1>12. QED
  BY <1>1, <1>3, <1>4, <1>7, <1>9, <1>11, WaitResumes

(* What is left of an array after a removal was there before.               *)
LEMMA RemoveAtType ==
    ASSUME NEW S, NEW t \in Seq(S), NEW j \in DOMAIN t
    PROVE  /\ RemoveAt(t, j) \in Seq(S)
           /\ \A i \in DOMAIN RemoveAt(t, j) : \E k \in DOMAIN t :
                 RemoveAt(t, j)[i] = t[k]
<1>1. j \in 1..Len(t) /\ Len(t) \in Nat /\ DOMAIN t = 1..Len(t)
  OBVIOUS
<1>2. PICK a : a = SubSeq(t, 1, j - 1)
  OBVIOUS
<1>3. PICK b : b = SubSeq(t, j + 1, Len(t))
  OBVIOUS
<1>4. a \in Seq(S) /\ \A i \in DOMAIN a : \E k \in DOMAIN t : a[i] = t[k]
  <2>1. a \in Seq(S) /\ Len(a) = j - 1
    BY <1>1, <1>2
  <2>2. \A i \in 1..(j - 1) : a[i] = t[i]
    BY <1>1, <1>2
  <2>3. QED
    BY <1>1, <2>1, <2>2
<1>5. b \in Seq(S) /\ \A i \in DOMAIN b : \E k \in DOMAIN t : b[i] = t[k]
  <2>1. j + 1 \in Int /\ Len(t) \in Int
       /\ \A i \in (j + 1)..Len(t) : t[i] \in S
    BY <1>1
  <2>2. /\ b \in Seq(S)
        /\ Len(b) = IF j + 1 <= Len(t) THEN Len(t) - (j + 1) + 1 ELSE 0
        /\ \A i \in 1..(Len(t) - (j + 1) + 1) : b[i] = t[j + 1 + i - 1]
    BY <1>1, <1>3, <2>1, SubSeqProperties
  <2>3. \A i \in 1..Len(b) : /\ j + 1 + i - 1 \in 1..Len(t)
                             /\ i \in 1..(Len(t) - (j + 1) + 1)
    BY <1>1, <2>2
  <2>4. ASSUME NEW i \in DOMAIN b
        PROVE  \E k \in DOMAIN t : b[i] = t[k]
    <3>1. i \in 1..Len(b)
      BY <2>2, <2>4
    <3>2. /\ b[i] = t[j + 1 + i - 1]
          /\ j + 1 + i - 1 \in DOMAIN t
      BY <1>1, <2>2, <2>3, <3>1
    <3>3. QED
      BY <3>2
  <2>5. QED
    BY <2>2, <2>4
<1>6. RemoveAt(t, j) = a \o b
  BY <1>2, <1>3 DEF RemoveAt
<1>7. /\ a \o b \in Seq(S)
      /\ \A i \in DOMAIN (a \o b) : \E k \in DOMAIN t : (a \o b)[i] = t[k]
  <2>1. a \o b \in Seq(S) /\ Len(a \o b) = Len(a) + Len(b)
    BY <1>4, <1>5
  <2>2. ASSUME NEW i \in 1..(Len(a) + Len(b))
        PROVE \E k \in DOMAIN t : (a \o b)[i] = t[k]
    <3>1. CASE i <= Len(a)
      BY <1>4, <1>5, <3>1
    <3>2. CASE i > Len(a)
      <4>1. (a \o b)[i] = b[i - Len(a)] /\ i - Len(a) \in DOMAIN b
        BY <1>4, <1>5, <3>2
      <4>2. QED
        BY <1>5, <4>1
    <3>3. QED
      BY <1>4, <3>1, <3>2
  <2>3. QED
    BY <2>1, <2>2
<1>8. QED
  BY <1>6, <1>7

(* The answer is given, and the WAIT is left.                               *)
LEMMA AnswerStep ==
    ASSUME ScriptInv, NEW s \in Streams, status[s] = "Running",
           stack[s] # <<>>, Answer(s)
    PROVE  /\ ScriptInv' /\ StatusMoves
           /\ \E p : Moves(s, p) /\ Allowed(s, p)
<1> DEFINE j == reading[s][1]
<1>0. /\ StackOK /\ RaisedOK /\ RecordsOK /\ StatusOK /\ MarksOK /\ FrameInv
      /\ AnswerInv /\ WaitInv(s) /\ ChildInv(s)
  BY TypesParts DEF ScriptInv
<1>1. Waiting(s) /\ Top(s).at = "answer" /\ ~Guarded(s)
  BY DEF Answer, IsAt, Code, Kind, Waiting, Guarded
<1>2. /\ j \in DOMAIN tasks[s] /\ Head(reading[s]) = j
      /\ Code(s).kind = "any" => Top(s).keep = "no"
      /\ tasks[s] \in Seq(TaskRecord)
      /\ tasks[s][j] \in TaskRecord
  BY <1>1, ReadingRecord
<1>3. MovesPlainly(s)
  BY <1>0, <1>1, GoNextMoves DEF Answer
<1>4. PICK p : Moves(s, p) /\ Allowed(s, p)
  BY <1>3 DEF MovesPlainly
<1>5. /\ RaisesOnly(s) /\ MarksOK' /\ EndMoves /\ StatusOK'
      /\ UNCHANGED <<ending, walk>>
  BY <1>0 DEF Answer, Quiet, RaisesOnly, RaisedOK, MarksOK, EndMoves, ending,
     StatusOK
<1>6. StatusMoves
  BY <1>0, <1>5, EndsStay
<1>7. /\ answer'[s] \subseteq TaskRecord /\ \A r \in answer'[s] : IsTrue(r)
      /\ answer' = [answer EXCEPT ![s] = answer'[s]]
  <2>1. CASE Code(s).kind = "all"
    <3>1. answer' = [answer EXCEPT ![s] =
                        IF Top(s).keep = "no" THEN ToSet(tasks[s]) ELSE {}]
      BY <2>1 DEF Answer
    <3>2. answer'[s] = IF Top(s).keep = "no" THEN ToSet(tasks[s]) ELSE {}
      BY <1>0, <3>1 DEF RecordsOK
    <3>3. Top(s).keep = "no" => \A i \in DOMAIN tasks[s] : IsTrue(tasks[s][i])
      BY <1>0, <1>1, <2>1 DEF WaitInv
    <3>4. \A i \in DOMAIN tasks[s] : tasks[s][i] \in TaskRecord
      BY <1>2
    <3>5. ToSet(tasks[s]) = {tasks[s][i] : i \in DOMAIN tasks[s]}
      BY DEF ToSet
    <3>6. /\ answer'[s] \subseteq TaskRecord
          /\ \A r \in answer'[s] : IsTrue(r)
      BY <3>2, <3>3, <3>4, <3>5
    <3>7. QED
      BY <3>1, <3>2, <3>6
  <2>2. CASE Code(s).kind = "any"
    <3>1. answer' = [answer EXCEPT ![s] = {tasks[s][j]}]
      BY <1>2, <2>2 DEF Answer
    <3>2. answer'[s] = {tasks[s][j]}
      BY <1>0, <3>1 DEF RecordsOK
    <3>3. IsTrue(tasks[s][j])
      BY <1>0, <1>1, <1>2, <2>2 DEF WaitInv
    <3>4. QED
      BY <1>2, <3>1, <3>2, <3>3
  <2>3. QED
    BY <1>1, <2>1, <2>2 DEF Waiting, Code, Kind
<1>8. /\ tasks' = [tasks EXCEPT ![s] = tasks'[s]]
      /\ tasks'[s] \in Seq(TaskRecord)
      /\ \A i \in DOMAIN tasks'[s] : \E k \in DOMAIN tasks[s] :
            tasks'[s][i] = tasks[s][k]
  <2>1. CASE Code(s).kind = "all"
    BY <1>0, <1>2, <2>1 DEF Answer, RecordsOK
  <2>2. CASE Code(s).kind = "any"
    <3>1. tasks' = [tasks EXCEPT ![s] = RemoveAt(tasks[s], j)]
      BY <1>2, <2>2 DEF Answer
    <3>2. tasks'[s] = RemoveAt(tasks[s], j)
      BY <1>0, <3>1 DEF RecordsOK
    <3>3. /\ RemoveAt(tasks[s], j) \in Seq(TaskRecord)
          /\ \A i \in DOMAIN RemoveAt(tasks[s], j) : \E k \in DOMAIN tasks[s] :
                RemoveAt(tasks[s], j)[i] = tasks[s][k]
      BY <1>2, RemoveAtType
    <3>4. QED
      BY <3>1, <3>2, <3>3
  <2>3. QED
    BY <1>1, <2>1, <2>2 DEF Waiting, Code, Kind
<1>9. reading' = [reading EXCEPT ![s] = <<>>]
  BY DEF Answer
<1>10. /\ RecordsOK'
       /\ \A t \in Streams \ {s} : /\ tasks'[t] = tasks[t]
                                   /\ reading'[t] = reading[t]
                                   /\ answer'[t] = answer[t]
  <2>1. tasks' \in [Streams -> Seq(TaskRecord)]
    BY <1>0, <1>8 DEF RecordsOK
  <2>2. reading' \in [Streams -> Seq(Nat)]
    BY <1>0, <1>9 DEF RecordsOK
  <2>3. answer' \in [Streams -> SUBSET TaskRecord]
    BY <1>0, <1>7 DEF RecordsOK
  <2>4. QED
    BY <1>0, <1>7, <1>8, <1>9, <2>1, <2>2, <2>3 DEF RecordsOK
<1>11. \A r \in answer'[s] : IsTrue(r)'
  BY <1>6, <1>7, TruthStays
<1>12. stack'[s] # <<>> => Plain(Top(s)')
  BY <1>0, <1>3, TopAfterBlock
<1>13. ChildInv(s)'
  <2>1. \A i \in DOMAIN tasks'[s] : status[tasks'[s][i].child] # "unused"
    BY <1>0, <1>8 DEF ChildInv
  <2>2. \A i \in DOMAIN tasks'[s] : status'[tasks'[s][i].child] # "unused"
    BY <1>5, <2>1 DEF ending
  <2>3. QED
    BY <1>12, <2>2 DEF ChildInv, Plain, Kind, Code
<1>14. WaitInv(s)'
  BY <1>12, PlainWait
<1>15. QED
  BY <1>4, <1>5, <1>6, <1>10, <1>11, <1>13, <1>14, ThreadMoves

(* The steps of a thread, and what they do to its frames.                   *)
LEMMA RunsStep ==
    ASSUME ScriptInv, NEW s \in Streams, Runs(s)
    PROVE  ScriptInv' /\ StatusMoves /\ UNCHANGED stack
<1>0. /\ StackOK /\ RaisedOK /\ MarksOK /\ StatusOK /\ RecordsOK /\ WalkOK
      /\ EndInv /\ FrameInv /\ AnswerInv
  BY TypesParts DEF ScriptInv
<1>1. /\ status[s] = "WaitingToRun"
      /\ status' = [status EXCEPT ![s] = "Running"]
      /\ UNCHANGED <<stack, raised, marks, result, tasks, reading, answer, walk>>
  BY DEF Runs, running, waiting
<1>2. StatusMoves
  BY <1>0, <1>1 DEF StatusMoves, StatusOK, Ended
<1>3. ScriptTypes'
  BY <1>0, <1>1 DEF ScriptTypes, StackOK, RaisedOK, MarksOK, StatusOK,
     RecordsOK, WalkOK
<1>4. EndInv'
  BY <1>0, <1>1 DEF EndInv, StatusOK, Ended
<1>5. FrameInv'
  BY <1>0, <1>1 DEF FrameInv
<1>6. AnswerInv'
  BY <1>0, <1>1, <1>2, AnswersStay DEF AnswerInv
<1>7. \A t \in Streams : ChildInv(t)' /\ WaitInv(t)'
  BY <1>1, <1>2, OthersStay
<1>8. QED
  BY <1>1, <1>2, <1>3, <1>4, <1>5, <1>6, <1>7 DEF ScriptInv

(* A thread ends, with an exception or without.                             *)
LEMMA EndsStep ==
    ASSUME ScriptInv, NEW s \in Streams, status[s] = "Running", Ends(s)
    PROVE  ScriptInv' /\ StatusMoves /\ UNCHANGED stack
<1>0. /\ StackOK /\ RaisedOK /\ MarksOK /\ StatusOK /\ RecordsOK /\ WalkOK
      /\ EndInv /\ FrameInv /\ AnswerInv
  BY TypesParts DEF ScriptInv
<1>1. /\ stack[s] = <<>>
      /\ status' = [status EXCEPT ![s] =
                       IF raised[s] = "no" THEN "RanToCompletion" ELSE "Faulted"]
      /\ raised' = [raised EXCEPT ![s] = "no"]
      /\ UNCHANGED <<stack, marks, tasks, reading, answer, walk>>
  BY DEF Ends, Handled, waiting
<1>2. PICK e \in {"null", "value", "error"} :
          /\ result' = [result EXCEPT ![s] = e]
          /\ raised[s] = "no" <=> e = "null"
  <2>1. CASE raised[s] = "no"
    BY <2>1 DEF Ends
  <2>2. CASE raised[s] = "return"
    BY <2>2 DEF Ends
  <2>3. CASE raised[s] \notin {"no", "return"}
    BY <2>3 DEF Ends
  <2>4. QED
    BY <2>1, <2>2, <2>3
<1>3. StatusMoves
  BY <1>0, <1>1, <1>2 DEF StatusMoves, StatusOK, Ended
<1>4. ScriptTypes'
  <2>1. RaisedOK'
    BY <1>0, <1>1 DEF RaisedOK, Raised
  <2>2. StatusOK'
    BY <1>0, <1>1, <1>2 DEF StatusOK, Ended
  <2>3. QED
    BY <1>0, <1>1, <2>1, <2>2 DEF ScriptTypes, StackOK, RaisedOK, MarksOK,
       StatusOK, RecordsOK, WalkOK
<1>5. EndInv'
  BY <1>0, <1>1, <1>2 DEF EndInv, StatusOK, RaisedOK, Ended
<1>6. FrameInv'
  BY <1>0, <1>1 DEF FrameInv
<1>7. AnswerInv'
  BY <1>0, <1>1, <1>3, AnswersStay DEF AnswerInv
<1>8. \A t \in Streams : ChildInv(t)' /\ WaitInv(t)'
  BY <1>1, <1>3, OthersStay
<1>9. QED
  BY <1>1, <1>3, <1>4, <1>5, <1>6, <1>7, <1>8 DEF ScriptInv

(* All steps of a thread: the invariant, and how its frames move.           *)
LEMMA StreamSteps ==
    ASSUME ScriptInv, NEW s \in Streams, StreamStep(s)
    PROVE  /\ ScriptInv' /\ StatusMoves
           /\ \/ UNCHANGED stack
              \/ /\ stack[s] # <<>>
                 /\ \E p : Moves(s, p) /\ Allowed(s, p)
<1>0. /\ StackOK /\ RaisedOK /\ MarksOK /\ FrameInv
  BY TypesParts DEF ScriptInv
<1>1. CASE Runs(s)
  BY <1>1, RunsStep
<1>2. CASE status[s] = "Running" /\ Ends(s)
  BY <1>2, EndsStep
<1>3. CASE /\ status[s] = "Running" /\ stack[s] # <<>>
           /\ IF raised[s] = "no" THEN Processes(s) ELSE Unwinds(s)
  <2>1. Processes(s) \/ Unwinds(s)
    BY <1>3
  <2>2. MarksOK'
    BY <1>0, <1>3, <2>1, MarksStay
  <2>3. CASE Blocks(s) \/ Whiles(s) \/ Sleeps(s) \/ Fors(s) \/ Tries(s)
             \/ Calls(s) \/ Unwinds(s) \/ StartTaskFails(s)
    <3>1. MovesPlainly(s) /\ RaisesOnly(s)
      BY <1>0, <1>3, <2>3, BlockSteps, TrySteps, StartTaskFailsMoves
    <3>2. UNCHANGED <<ending, waiting, walk>>
      BY <2>3, PlainUnchanged
    <3>3. QED
      BY <1>3, <2>2, <3>1, <3>2, PlainSteps DEF MovesPlainly
  <2>4. CASE StartTask(s) \/ StoreTaskToWait(s)
    BY <1>3, <2>2, <2>4, StartTaskStep, StoreTaskStep
  <2>5. CASE Waits(s)
    BY <1>3, <2>2, <2>5, WaitEnterStep, WaitForAllStep, WaitForAnyStep,
       UpdatePropertyStep, UpdateResultStep, AnswerStep DEF Waits
  <2>6. QED
    BY <2>1, <2>3, <2>4, <2>5 DEF Processes, Starts
<1>4. QED
  BY <1>1, <1>2, <1>3 DEF StreamStep

=============================================================================
