--------------------------- MODULE StreamHostProofs ---------------------------
(***************************************************************************)
(* Proofs about StreamHost, for any scripts, files, threads and items: the *)
(* first half StateInv of the inductive invariant, the truth of the       *)
(* records that WAIT gives, and that FINALLY is not skipped.              *)
(***************************************************************************)
EXTENDS StreamHostSteps

(* A step that leaves the threads alone.                                    *)
LEMMA ScriptUntouched ==
    ASSUME ScriptInv, UNCHANGED <<running, ending, waiting>>, MarksOK', WalkOK'
    PROVE  ScriptInv' /\ StatusMoves /\ UNCHANGED stack
<1>0. /\ StackOK /\ RaisedOK /\ StatusOK /\ RecordsOK
      /\ EndInv /\ FrameInv /\ AnswerInv
  BY TypesParts DEF ScriptInv
<1>1. UNCHANGED <<stack, raised, status, result, tasks, reading, answer>>
  BY DEF running, ending, waiting
<1>2. StatusMoves
  BY <1>1 DEF StatusMoves
<1>3. ScriptTypes'
  BY <1>0, <1>1 DEF ScriptTypes, StackOK, RaisedOK, MarksOK, StatusOK,
     RecordsOK, WalkOK
<1>4. EndInv' /\ FrameInv'
  BY <1>0, <1>1 DEF EndInv, FrameInv
<1>5. AnswerInv'
  BY <1>0, <1>1, <1>2, AnswersStay DEF AnswerInv
<1>6. \A t \in Streams : ChildInv(t)' /\ WaitInv(t)'
  BY <1>1, <1>2, OthersStay
<1>7. QED
  BY <1>1, <1>2, <1>3, <1>4, <1>5, <1>6 DEF ScriptInv

(* What a Dispose of one of the streams S may have yet to visit.            *)
VisitsOf(S) == {v \in Visits : v.stream \in S}

LEMMA VisitType ==
    ASSUME NEW S \in SUBSET Streams, NEW s \in S, NEW n \in Nodes \cup {Null}
    PROVE  Visit(s, n) \in Seq(VisitsOf(S))
<1>1. n # Null =>
          [stream |-> s, node |-> n, at |-> "enter", seen |-> FALSE]
              \in VisitsOf(S)
  BY DEF Visits, VisitsOf
<1>2. QED
  BY <1>1 DEF Visit

(* Dispose goes from one processor of a stream to another one of it.        *)
LEMMA DisposeVisits ==
    ASSUME WalkOK, NEW S \in SUBSET Streams, NEW d \in Disposers,
           walk[d] \in Seq(VisitsOf(S)), DisposeStep(d)
    PROVE  \E s \in S, n \in Nodes, v \in Seq(VisitsOf(S)) :
              /\ walk' = [walk EXCEPT ![d] = v]
              /\ UNCHANGED marks \/ Mark(s, n) \/ Unmark(s, n)
<1> DEFINE V == VisitsOf(S)
           w == Head(walk[d])
<1>1. /\ walk[d] # <<>> /\ w \in V /\ Tail(walk[d]) \in Seq(V)
  BY DEF DisposeStep
<1>2. w.stream \in S /\ w.stream \in Streams /\ w.node \in Nodes /\ w \in Visits
  BY <1>1 DEF VisitsOf, Visits
<1>3. /\ Here(d).next \in Nodes \cup {Null} /\ Here(d).body \in Nodes \cup {Null}
      /\ Here(d).other \in Nodes \cup {Null}
  BY <1>2, Statements DEF Here
<1>4. /\ Then(d, Here(d).next) \in Seq(V)
      /\ Then(d, Here(d).body) \in Seq(V)
      /\ Then(d, Here(d).other) \in Seq(V)
  BY <1>2, <1>3, VisitType DEF Then
<1> HIDE DEF V
<1>5. ASSUME NEW v \in Seq(V), VisitNext(d, v)
      PROVE  \E x \in Seq(V) : walk' = [walk EXCEPT ![d] = x]
  <2>1. v \o Tail(walk[d]) \in Seq(V)
    BY <1>1
  <2>2. QED
    BY <1>5, <2>1 DEF VisitNext
<1>6. \E x \in Seq(V) : walk' = [walk EXCEPT ![d] = x]
  <2>1. CASE DisposeBlocks(d)
    <3>1. Then(d, Here(d).body) \o Then(d, Here(d).other) \o Then(d, Here(d).next)
              \in Seq(V)
      BY <1>4
    <3>2. QED
      BY <1>5, <2>1, <3>1 DEF DisposeBlocks
  <2>2. CASE DisposeWhile(d)
    <3>1. Then(d, Here(d).body) \o Then(d, Here(d).next) \in Seq(V)
      BY <1>4
    <3>2. QED
      BY <1>5, <2>2, <3>1 DEF DisposeWhile
  <2>3. CASE DisposeSleep(d) \/ DisposeNext(d) \/ ClearTargets(d)
    BY <1>4, <1>5, <2>3 DEF DisposeSleep, DisposeNext, ClearTargets
  <2>4. CASE DisposeTargets(d)
    <3> DEFINE v == [w EXCEPT !.at = "foreach",
                             !.seen = Marked(w.stream, w.node)]
    <3>1. v \in V
      <4> DEFINE b == Marked(w.stream, w.node)
      <4>1. b \in BOOLEAN
        BY DEF Marked
      <4>2. v = [w EXCEPT !.at = "foreach", !.seen = b]
        OBVIOUS
      <4> HIDE DEF b
      <4>3. QED
        BY <1>2, <4>1, <4>2 DEF Visits, VisitsOf, V
    <3>2. <<v>> \o Tail(walk[d]) \in Seq(V)
      BY <1>1, <3>1
    <3>3. walk' = [walk EXCEPT ![d] = <<v>> \o Tail(walk[d])]
      BY <2>4 DEF DisposeTargets
    <3>4. QED
      BY <3>2, <3>3
  <2>5. CASE DisposeTarget(d)
    <3> DEFINE v == [w EXCEPT !.at = "clear"]
               compiled == Marked(w.stream, w.node)
               target == IF compiled /\ Here(d).kind = "execute"
                         THEN Visit(w.stream, Here(d).body) ELSE <<>>
    <3>1. v \in V
      BY <1>2 DEF Visits, VisitsOf, V
    <3>2. target \in Seq(V)
      BY <1>2, <1>3, VisitType DEF V
    <3>3. target \o <<v>> \o Tail(walk[d]) \in Seq(V)
      <4> HIDE DEF target, v
      <4>1. QED
        BY <1>1, <3>1, <3>2
    <3>4. walk' = [walk EXCEPT ![d] = IF compiled /\ ~w.seen THEN <<>>
                                      ELSE target \o <<v>> \o Tail(walk[d])]
      BY <2>5 DEF DisposeTarget
    <3>5. CASE compiled /\ ~w.seen
      <4>1. walk' = [walk EXCEPT ![d] = <<>>] /\ <<>> \in Seq(V)
        BY <3>4, <3>5
      <4>2. QED
        BY <4>1
    <3>6. CASE ~(compiled /\ ~w.seen)
      <4>1. walk' = [walk EXCEPT ![d] = target \o <<v>> \o Tail(walk[d])]
        BY <3>4, <3>6
      <4> HIDE DEF target, v
      <4>2. QED
        BY <3>3, <4>1
    <3>7. QED
      BY <3>5, <3>6
  <2>6. QED
    BY <2>1, <2>2, <2>3, <2>4, <2>5 DEF DisposeStep
<1>7. UNCHANGED marks \/ Mark(w.stream, w.node) \/ Unmark(w.stream, w.node)
  BY DEF DisposeStep, DisposeBlocks, DisposeWhile, DisposeSleep, DisposeNext,
     DisposeTargets, DisposeTarget, ClearTargets
<1>8. QED
  BY <1>2, <1>6, <1>7 DEF V

(* Dispose leaves marks, and nothing else.                                  *)
LEMMA DisposeSteps ==
    ASSUME ScriptInv, NEW d \in Disposers, DisposeStep(d)
    PROVE  ScriptInv' /\ StatusMoves /\ UNCHANGED stack
<1>0. MarksOK /\ WalkOK
  BY TypesParts DEF ScriptInv
<1>1. VisitsOf(Streams) = Visits
  BY DEF VisitsOf, Visits
<1>2. PICK s \in Streams, n \in Nodes, v \in Seq(Visits) :
          /\ walk' = [walk EXCEPT ![d] = v]
          /\ UNCHANGED marks \/ Mark(s, n) \/ Unmark(s, n)
  <2>1. walk[d] \in Seq(Visits)
    BY <1>0 DEF WalkOK
  <2>2. QED
    BY <1>0, <1>1, <2>1, DisposeVisits
<1>3. WalkOK' /\ MarksOK'
  BY <1>0, <1>2 DEF WalkOK, MarksOK, Mark, Unmark
<1>4. QED
  BY <1>3, ScriptUntouched DEF DisposeStep

(* A Dispose begins.                                                        *)
LEMMA BeginDisposeStep ==
    ASSUME ScriptInv, NEW d \in Disposers, NEW s \in Streams,
           NEW n \in Nodes \cup {Null}, BeginDispose(d, s, n),
           UNCHANGED <<running, marks, ending, waiting>>
    PROVE  ScriptInv' /\ StatusMoves /\ UNCHANGED stack
<1>0. MarksOK /\ WalkOK
  BY TypesParts DEF ScriptInv
<1>1. VisitsOf(Streams) = Visits
  BY DEF VisitsOf, Visits
<1>2. MarksOK' /\ WalkOK'
  BY <1>0, <1>1, VisitType DEF BeginDispose, MarksOK, WalkOK
<1>3. QED
  BY <1>2, ScriptUntouched

(* The service starts a thread.                                             *)
LEMMA LaunchStep ==
    ASSUME ScriptInv, Unused # {}, NEW n \in Nodes, Launch(Fresh, n),
           UNCHANGED <<raised, marks, result, waiting, walk>>
    PROVE  /\ ScriptInv' /\ StatusMoves
           /\ Fresh \in Streams /\ status[Fresh] = "unused"
           /\ status'[Fresh] # "unused"
           /\ \A t \in Streams : stack'[t] = stack[t] \/ stack[t] = <<>>
<1>0. /\ StackOK /\ RaisedOK /\ MarksOK /\ StatusOK /\ RecordsOK /\ WalkOK
      /\ EndInv /\ FrameInv /\ AnswerInv
  BY TypesParts DEF ScriptInv
<1>1. Fresh \in Streams /\ status[Fresh] = "unused"
  BY FreshIsUnused DEF Unused
<1>2. /\ status' = [status EXCEPT ![Fresh] = "WaitingToRun"]
      /\ stack' = [stack EXCEPT ![Fresh] = Begin(n)]
      /\ UNCHANGED <<raised, marks, result, tasks, reading, answer, walk>>
  BY DEF Launch, waiting
<1>3. stack[Fresh] = <<>>
  BY <1>0, <1>1 DEF EndInv
<1>4. /\ Begin(n) \in Seq(Frames)
      /\ \A i \in DOMAIN Begin(n) : i = 1 /\ Begin(n)[i] = Frame(n)
  BY BeginType
<1>5. \A t \in Streams : stack'[t] = stack[t] \/ Launched(t)
  BY <1>0, <1>1, <1>2, <1>3 DEF Launched, StackOK, StatusOK
<1>6. EndMoves /\ StatusOK'
  BY <1>0, <1>1, <1>2 DEF EndMoves, StatusOK
<1>7. StatusMoves
  BY <1>0, <1>6, EndsStay
<1>8. StackOK'
  BY <1>0, <1>2, <1>4 DEF StackOK
<1>9. ScriptTypes'
  BY <1>0, <1>2, <1>6, <1>8 DEF ScriptTypes, StackOK, RaisedOK, MarksOK,
     StatusOK, RecordsOK, WalkOK
<1>10. EndInv'
  BY <1>0, <1>1, <1>2 DEF EndInv, StatusOK, StackOK, Ended
<1>11. FrameInv'
  <2>1. \A t \in Streams \ {Fresh} : stack'[t] = stack[t]
    BY <1>0, <1>2 DEF StackOK
  <2>2. stack'[Fresh] = Begin(n)
    BY <1>0, <1>1, <1>2 DEF StackOK
  <2>3. Frame(n).keep \in Raised
    BY DEF Frame, Raised
  <2>4. QED
    BY <1>0, <1>4, <2>1, <2>2, <2>3 DEF FrameInv
<1>12. AnswerInv'
  BY <1>0, <1>2, <1>7, AnswersStay DEF AnswerInv
<1>13. \A t \in Streams : ChildInv(t)' /\ WaitInv(t)'
  BY <1>2, <1>5, <1>7, OthersStay
<1>14. QED
  BY <1>0, <1>1, <1>2, <1>3, <1>5, <1>7, <1>9, <1>10, <1>11, <1>12, <1>13
  DEF ScriptInv, StatusOK, Launched

(* The half of the invariant that is about the files and the dictionary.    *)
HostInv == HostTypes /\ KeyInv

(* A step of a script leaves the host alone.                                *)
LEMMA HostKept ==
    ASSUME HostInv, StatusMoves,
           UNCHANGED <<folder, streams, home, service, hosting>>
    PROVE  HostInv'
<1>1. UNCHANGED <<files, streams, home, svc, todo, gone, current, stopped,
                  host, visited, added>>
  BY DEF folder, service, hosting
<1>2. HostTypes'
  BY <1>1 DEF HostInv, HostTypes
<1>3. KeyInv'
  BY <1>1 DEF HostInv, HostTypes, KeyInv, StatusMoves
<1>4. QED
  BY <1>2, <1>3 DEF HostInv

(* A step of the host that leaves the scripts alone.                        *)
LEMMA ScriptKept ==
    ASSUME ScriptInv, UNCHANGED scriptVars
    PROVE  ScriptInv' /\ StatusMoves /\ UNCHANGED stack
<1>1. UNCHANGED <<running, ending, waiting, marks, walk>>
  BY DEF scriptVars, running, ending, waiting
<1>2. MarksOK' /\ WalkOK'
  BY <1>1, TypesParts DEF ScriptInv, MarksOK, WalkOK
<1>3. QED
  BY <1>1, <1>2, ScriptUntouched

(* The frames of a thread change one at a time, or the thread starts.       *)
FramesMove == \A t \in Streams :
                  \/ stack'[t] = stack[t] \/ stack[t] = <<>>
                  \/ \E p : Moves(t, p) /\ Allowed(t, p)

(* The files change.                                                        *)
LEMMA FileSteps ==
    ASSUME ScriptInv, HostInv, FileStep
    PROVE  ScriptInv' /\ HostInv' /\ FramesMove
<1>1. ScriptInv' /\ StatusMoves /\ UNCHANGED stack
  BY ScriptKept DEF FileStep
<1>2. files' \in [Names -> Nodes \cup {Null}]
  <2>1. CASE WriteFile
    BY <2>1, HostAssumption DEF WriteFile, Change, HostInv, HostTypes
  <2>2. CASE DeleteFile
    BY <2>2 DEF DeleteFile, Change, HostInv, HostTypes
  <2>3. CASE RenameFile
    BY <2>3 DEF RenameFile, HostInv, HostTypes
  <2>4. QED
    BY <2>1, <2>2, <2>3 DEF FileStep
<1>3. UNCHANGED <<streams, home, svc, todo, gone, current, stopped, host,
                  visited, added>>
  BY DEF FileStep, service, hosting
<1>4. HostTypes'
  BY <1>2, <1>3 DEF HostInv, HostTypes
<1>5. KeyInv'
  BY <1>1, <1>3 DEF HostInv, HostTypes, KeyInv, StatusMoves
<1>6. QED
  BY <1>1, <1>4, <1>5 DEF HostInv, FramesMove

(* The service thread: what it adds to the dictionary has been started from *)
(* this file.                                                               *)
LEMMA ServiceSteps ==
    ASSUME ScriptInv, HostInv, ServiceStep
    PROVE  ScriptInv' /\ HostInv' /\ FramesMove
<1> USE DEF Goto
<1>0. HostTypes /\ KeyInv /\ StatusOK
  BY TypesParts DEF HostInv, ScriptInv
<1>1. CASE Serve \/ Activated \/ Disposed \/ Removed \/ ReadFails
           \/ CreateStreamFails \/ \E f \in Names : Look(f)
  <2>1. /\ UNCHANGED <<scriptVars, files, streams, home, stopped, host, visited,
                       added>>
    BY <1>1 DEF Serve, Activated, Disposed, Removed, ReadFails,
       CreateStreamFails, Look, folder, hosting
  <2>2. ScriptInv' /\ StatusMoves /\ UNCHANGED stack
    BY <2>1, ScriptKept
  <2>3. /\ svc' \in {"top", "activate", "read", "remove", "exited"}
        /\ todo' \subseteq Names /\ gone' \subseteq Names
        /\ current' \in (Names \X (Streams \cup {Null})) \cup {None}
        /\ svc' = "read" => current'[1] \in Names
    <3>1. CASE Serve \/ Disposed \/ Removed
      BY <1>0, <3>1 DEF Serve, Disposed, Removed, HostTypes
    <3>2. CASE Activated
      BY <1>0, <3>2 DEF Activated, HostTypes
    <3>3. CASE ReadFails \/ CreateStreamFails
      BY <1>0, <3>3 DEF ReadFails, CreateStreamFails, HostTypes
    <3>4. ASSUME NEW f \in Names, Look(f)
          PROVE  /\ svc' = "read" /\ todo' \subseteq Names /\ gone' = gone
                 /\ current' = <<f, Null>>
      BY <1>0, <3>4 DEF Look, HostTypes
    <3>5. QED
      BY <1>0, <1>1, <3>1, <3>2, <3>3, <3>4 DEF HostTypes
  <2>4. HostTypes'
    BY <1>0, <2>1, <2>3 DEF HostTypes
  <2>5. KeyInv'
    BY <1>0, <2>1, <2>2, <2>3 DEF KeyInv, HostTypes, StatusMoves
  <2>6. QED
    BY <2>2, <2>4, <2>5 DEF HostInv, FramesMove
<1>2. CASE CreateStream
  <2>1. /\ current[1] \in Names /\ files[current[1]] \in Nodes
    BY <1>0, <1>2 DEF CreateStream, KeyInv, HostTypes
  <2>2. /\ ScriptInv' /\ StatusMoves
        /\ Fresh \in Streams /\ status[Fresh] = "unused"
        /\ status'[Fresh] # "unused"
        /\ \A t \in Streams : stack'[t] = stack[t] \/ stack[t] = <<>>
    BY <1>2, <2>1, LaunchStep DEF CreateStream
  <2>3. /\ home' = [home EXCEPT ![Fresh] = <<current[1], files[current[1]]>>]
        /\ svc' = "add" /\ current' = <<current[1], Fresh>>
        /\ UNCHANGED <<files, streams, todo, gone, stopped, host, visited, added>>
    BY <1>2 DEF CreateStream, folder, hosting
  <2>4. HostTypes'
    BY <1>0, <2>1, <2>2, <2>3 DEF HostTypes
  <2>5. \A f \in Names : streams'[f] # Null =>
            status'[streams'[f]] # "unused" /\ home'[streams'[f]][1] = f
    <3> TAKE f \in Names
    <3> HAVE streams'[f] # Null
    <3>1. streams[f] \in Streams /\ status[streams[f]] # "unused"
          /\ home[streams[f]][1] = f
      BY <1>0, <2>3 DEF KeyInv, HostTypes
    <3>2. home'[streams[f]] = home[streams[f]]
      BY <1>0, <2>2, <2>3, <3>1 DEF HostTypes
    <3>3. QED
      BY <2>2, <2>3, <3>1, <3>2 DEF StatusMoves
  <2>6. KeyInv'
    BY <1>0, <2>1, <2>2, <2>3, <2>5 DEF KeyInv, HostTypes
  <2>7. QED
    BY <2>2, <2>4, <2>6 DEF HostInv, FramesMove
<1>3. CASE TryAdd
  <2>1. /\ svc = "add" /\ streams' = [streams EXCEPT ![current[1]] = current[2]]
        /\ added' = (added \/ host = "dispose")
        /\ svc' = "activate" /\ current' = None
        /\ UNCHANGED <<scriptVars, files, home, todo, gone, stopped, host, visited>>
    BY <1>3 DEF TryAdd, folder
  <2>2. ScriptInv' /\ StatusMoves /\ UNCHANGED stack /\ UNCHANGED status
    BY <2>1, ScriptKept DEF scriptVars
  <2>3. /\ current[1] \in Names /\ current[2] \in Streams
        /\ status[current[2]] # "unused" /\ home[current[2]][1] = current[1]
    BY <1>0, <2>1 DEF KeyInv
  <2>4. streams' \in [Names -> Streams \cup {Null}] /\ added' \in BOOLEAN
    BY <1>0, <2>1, <2>3 DEF HostTypes
  <2>5. HostTypes'
    BY <1>0, <2>1, <2>4 DEF HostTypes
  <2>6. KeyInv'
    BY <1>0, <2>1, <2>2, <2>3 DEF KeyInv, HostTypes
  <2>7. QED
    BY <2>2, <2>5, <2>6 DEF HostInv, FramesMove
<1>4. ASSUME NEW f \in Names, RemoveKey(f)
      PROVE  ScriptInv' /\ HostInv' /\ FramesMove
  <2>1. /\ svc = "remove" /\ gone' = gone \ {f}
        /\ UNCHANGED <<running, marks, ending, waiting, files, home, todo,
                       current, stopped, host, visited, added>>
    BY <1>4 DEF RemoveKey, folder, hosting
  <2>2. CASE streams[f] = Null
    <3>1. UNCHANGED <<streams, walk, svc>>
      BY <1>4, <2>2 DEF RemoveKey
    <3>2. ScriptInv' /\ StatusMoves /\ UNCHANGED stack
      BY <2>1, <3>1, TypesParts, ScriptUntouched
      DEF ScriptInv, MarksOK, WalkOK
    <3>3. HostTypes'
      BY <1>0, <2>1, <3>1 DEF HostTypes
    <3>4. KeyInv'
      BY <1>0, <2>1, <3>1, <3>2 DEF KeyInv, HostTypes, StatusMoves
    <3>5. QED
      BY <3>2, <3>3, <3>4 DEF HostInv, FramesMove
  <2>3. CASE streams[f] # Null
    <3>1. /\ streams' = [streams EXCEPT ![f] = Null]
          /\ BeginDispose("service", streams[f], home[streams[f]][2])
          /\ svc' = "dispose"
      BY <1>4, <2>3 DEF RemoveKey
    <3>2. /\ streams[f] \in Streams /\ home[streams[f]][2] \in Nodes \cup {Null}
      BY <1>0, <2>3 DEF HostTypes, None
    <3>3. "service" \in Disposers
      BY HostAssumption
    <3>4. ScriptInv' /\ StatusMoves /\ UNCHANGED stack
      BY <2>1, <3>1, <3>2, <3>3, BeginDisposeStep
    <3>5. HostTypes'
      BY <1>0, <2>1, <3>1 DEF HostTypes
    <3>6. KeyInv'
      BY <1>0, <2>1, <3>1, <3>4 DEF KeyInv, HostTypes, StatusMoves
    <3>7. QED
      BY <3>4, <3>5, <3>6 DEF HostInv, FramesMove
  <2>4. QED
    BY <2>2, <2>3
<1>5. QED
  BY <1>1, <1>2, <1>3, <1>4 DEF ServiceStep

(* The host stops and disposes.                                             *)
LEMMA HostSteps ==
    ASSUME ScriptInv, HostInv, HostStep \/ Stop
    PROVE  ScriptInv' /\ HostInv' /\ FramesMove
<1>0. HostTypes /\ KeyInv
  BY DEF HostInv
<1>1. CASE Stop \/ HostDispose \/ HostDisposeFails
  <2>1. /\ UNCHANGED <<scriptVars, files, streams, home, svc, todo, gone,
                       current, visited>>
        /\ stopped' \in BOOLEAN /\ host' \in {"running", "dispose", "done"}
        /\ added' \in BOOLEAN
    BY <1>0, <1>1 DEF Stop, HostDispose, HostDisposeFails, folder, service,
       HostTypes
  <2>2. ScriptInv' /\ StatusMoves /\ UNCHANGED stack
    BY <2>1, ScriptKept
  <2>3. HostTypes'
    BY <1>0, <2>1 DEF HostTypes
  <2>4. KeyInv'
    BY <1>0, <2>1, <2>2 DEF KeyInv, HostTypes, StatusMoves
  <2>5. QED
    BY <2>2, <2>3, <2>4 DEF HostInv, FramesMove
<1>2. CASE HostClear
  <2>1. /\ UNCHANGED <<scriptVars, files, home, svc, todo, gone, current,
                       stopped, visited, added>>
        /\ streams' = [f \in Names |-> Null] /\ host' = "done"
    BY <1>2 DEF HostClear, folder, service
  <2>2. ScriptInv' /\ StatusMoves /\ UNCHANGED stack
    BY <2>1, ScriptKept
  <2>3. HostTypes'
    BY <1>0, <2>1 DEF HostTypes
  <2>4. KeyInv'
    BY <1>0, <2>1, <2>2 DEF KeyInv, HostTypes, StatusMoves
  <2>5. QED
    BY <2>2, <2>3, <2>4 DEF HostInv, FramesMove
<1>3. ASSUME NEW f \in Names, HostDisposeNext(f)
      PROVE  ScriptInv' /\ HostInv' /\ FramesMove
  <2>1. /\ UNCHANGED <<running, marks, ending, waiting, files, streams, home,
                       svc, todo, gone, current, stopped, host, added>>
        /\ visited' = visited \cup {f} /\ streams[f] # Null
        /\ BeginDispose("host", streams[f], home[streams[f]][2])
    BY <1>3 DEF HostDisposeNext, folder, service, Left
  <2>2. /\ streams[f] \in Streams /\ home[streams[f]][2] \in Nodes \cup {Null}
    BY <1>0, <2>1 DEF HostTypes, None
  <2>3. "host" \in Disposers
    BY HostAssumption
  <2>4. ScriptInv' /\ StatusMoves /\ UNCHANGED stack
    BY <2>1, <2>2, <2>3, BeginDisposeStep
  <2>5. HostTypes'
    BY <1>0, <2>1 DEF HostTypes
  <2>6. KeyInv'
    BY <1>0, <2>1, <2>4 DEF KeyInv, HostTypes, StatusMoves
  <2>7. QED
    BY <2>4, <2>5, <2>6 DEF HostInv, FramesMove
<1>4. QED
  BY <1>1, <1>2, <1>3 DEF HostStep

(* A thread or a Dispose goes on, and the host has its part unchanged.      *)
LEMMA OnStreamStep ==
    ASSUME ScriptInv, HostInv, NEW s \in Streams, OnStream(s)
    PROVE  ScriptInv' /\ HostInv' /\ FramesMove
<1>1. /\ ScriptInv' /\ StatusMoves
      /\ \/ UNCHANGED stack
         \/ stack[s] # <<>> /\ \E p : Moves(s, p) /\ Allowed(s, p)
  BY StreamSteps DEF OnStream
<1>2. HostInv'
  BY <1>1, HostKept DEF OnStream
<1>3. FramesMove
  BY <1>1 DEF FramesMove, Moves, Others, Launched
<1>4. QED
  BY <1>1, <1>2, <1>3

(* A Dispose goes on.                                                      *)
LEMMA OnDisposeStep ==
    ASSUME ScriptInv, HostInv, NEW d \in Disposers, OnDispose(d)
    PROVE  ScriptInv' /\ HostInv' /\ FramesMove
<1>1. ScriptInv' /\ StatusMoves /\ UNCHANGED stack
  BY DisposeSteps DEF OnDispose
<1>2. HostInv'
  BY <1>1, HostKept DEF OnDispose
<1>3. QED
  BY <1>1, <1>2 DEF FramesMove

(* The two halves of the invariant.                                         *)
LEMMA InvParts == StateInv <=> ScriptInv /\ HostInv
  BY DEF StateInv, ScriptInv, HostInv

(* Every step keeps the invariant and moves the frames of every thread in   *)
(* one of the allowed ways.                                                 *)
LEMMA NextKeeps ==
    ASSUME StateInv, [Next]_vars
    PROVE  StateInv' /\ FramesMove
<1>1. ScriptInv /\ HostInv
  BY InvParts
<1>2. CASE Next
  <2>1. ScriptInv' /\ HostInv' /\ FramesMove
    BY <1>1, <1>2, FileSteps, ServiceSteps, HostSteps, OnStreamStep,
       OnDisposeStep DEF Next
  <2>2. QED
    BY <2>1 DEF StateInv, ScriptInv, HostInv
<1>3. CASE UNCHANGED vars
  <2>1. ScriptInv' /\ StatusMoves /\ UNCHANGED stack
    BY <1>1, <1>3, ScriptKept DEF vars
  <2>2. HostInv'
    BY <1>1, <1>3, <2>1, HostKept DEF vars
  <2>3. QED
    BY <2>1, <2>2 DEF FramesMove, StateInv, ScriptInv, HostInv
<1>4. QED
  BY <1>2, <1>3

(* The invariant holds at the start.                                        *)
LEMMA InitStateInv == Init => StateInv
<1> SUFFICES ASSUME Init
             PROVE  StateInv
  OBVIOUS
<1>1. /\ stack = [s \in Streams |-> <<>>] /\ raised = [s \in Streams |-> "no"]
      /\ marks = [s \in Streams |-> {}] /\ status = [s \in Streams |-> "unused"]
      /\ result = [s \in Streams |-> "null"]
      /\ tasks = [s \in Streams |-> <<>>] /\ reading = [s \in Streams |-> <<>>]
      /\ answer = [s \in Streams |-> {}] /\ walk = [d \in Disposers |-> <<>>]
  BY DEF Init, ScriptInit
<1>2. ScriptTypes
  BY <1>1 DEF ScriptTypes, Raised
<1>3. HostTypes
  BY HostAssumption DEF Init, HostTypes
<1>4. EndInv /\ FrameInv /\ AnswerInv
  BY <1>1 DEF EndInv, FrameInv, AnswerInv, Ended
<1>5. KeyInv
  BY DEF Init, KeyInv
<1>6. \A s \in Streams : ChildInv(s) /\ WaitInv(s)
  BY <1>1 DEF ChildInv, WaitInv
<1>7. QED
  BY <1>2, <1>3, <1>4, <1>5, <1>6 DEF StateInv

(* The threads, the records, the answers and the dictionary are in the states *)
(* that StateInv describes, whatever the scripts and the files are.             *)
THEOREM StateInvariance == Spec => []StateInv
<1>1. StateInv /\ [Next]_vars => StateInv'
  BY NextKeeps
<1>2. QED
  BY <1>1, InitStateInv, PTL DEF Spec

(* The values of TypeOK are all there are.                                 *)
THEOREM TypeCorrect == Spec => []TypeOK
<1>1. StateInv => TypeOK
  BY DEF StateInv, TypeOK
<1>2. QED
  BY <1>1, StateInvariance, PTL

(* WAIT gives no record that says anything but how the task ended, however  *)
(* its reads are mixed with the end of the task (WaitProcessor              *)
(* .UpdateTaskObjectValues).                                                *)
THEOREM RecordsAreTrue == Spec => []RecordsTellTheTruth
<1>1. StateInv => RecordsTellTheTruth
  BY DEF StateInv, AnswerInv, IsTrue, RecordsTellTheTruth
<1>2. QED
  BY <1>1, StateInvariance, PTL

(* A frame of a TRY or CATCH block is not lost, only replaced by CATCH or   *)
(* FINALLY of the same statement.                                           *)
LEMMA TryIsKept ==
    ASSUME StackOK, NEW s \in Streams, NEW n \in TryNodes,
           \/ stack'[s] = stack[s] \/ stack[s] = <<>>
           \/ \E p : Moves(s, p) /\ Allowed(s, p),
           In(s, n, {"tried", "caught"})
    PROVE  In(s, n, {"tried", "caught", "finally"})'
<1>1. PICK i \in DOMAIN stack[s] :
          stack[s][i].node = n /\ stack[s][i].at \in {"tried", "caught"}
  BY DEF In
<1>2. CASE stack'[s] = stack[s]
  BY <1>1, <1>2 DEF In
<1>3. ASSUME NEW p, Moves(s, p), Allowed(s, p)
      PROVE  In(s, n, {"tried", "caught", "finally"})'
  <2>1. stack[s] # <<>> /\ p \in Seq(Frames) /\ stack[s] \in Seq(Frames)
    BY <1>1, <1>3 DEF Allowed, StackOK
  <2>2. /\ stack'[s] \in Seq(Frames)
        /\ Len(stack'[s]) = Len(p) + Len(stack[s]) - 1
        /\ \A k \in 1..Len(p) : stack'[s][k] = p[k]
        /\ \A k \in 1..Len(stack'[s]) :
              k > Len(p) => stack'[s][k] = stack[s][k - Len(p) + 1]
    BY <1>3, <2>1, MovesType DEF StackOK
  <2>3. /\ i \in 1..Len(stack[s]) /\ Len(stack[s]) \in Nat /\ Len(p) \in Nat
        /\ DOMAIN stack'[s] = 1..Len(stack'[s])
    BY <2>1, <2>2
  <2>4. CASE i = 1
    <3>1. Guarded(s) /\ Top(s).node = n
      BY <1>1, <2>1, <2>4, TopType DEF Guarded, Kind, TryNodes
    <3>2. /\ Len(p) > 0 /\ p[Len(p)].node = n
          /\ p[Len(p)].at \in {"caught", "finally"}
      BY <1>3, <3>1 DEF Allowed, Guards
    <3>3. Len(p) \in DOMAIN stack'[s] /\ stack'[s][Len(p)] = p[Len(p)]
      BY <2>2, <2>3, <3>2
    <3>4. QED
      BY <3>2, <3>3 DEF In
  <2>5. CASE i # 1
    <3> DEFINE k == i - 1 + Len(p)
    <3>1. k \in 1..Len(stack'[s]) /\ k > Len(p) /\ k - Len(p) + 1 = i
      BY <2>2, <2>3, <2>5
    <3>2. stack'[s][k] = stack[s][k - Len(p) + 1]
      BY <2>2, <3>1
    <3>3. k \in DOMAIN stack'[s] /\ stack'[s][k] = stack[s][i]
      BY <2>3, <3>1, <3>2
    <3>4. QED
      BY <1>1, <3>3 DEF In
  <2>6. QED
    BY <2>4, <2>5
<1>4. QED
  BY <1>1, <1>2, <1>3

(* No thread leaves TRY or CATCH without FINALLY, whatever is raised and from *)
(* whichever depth (TryProcessor.Process).                                  *)
THEOREM FinallyRuns == Spec => FinallyIsNotSkipped
<1>1. ASSUME StateInv, [Next]_vars
      PROVE  [\A s \in Streams, n \in TryNodes :
                 In(s, n, {"tried", "caught"}) =>
                     In(s, n, {"tried", "caught", "finally"})']_vars
  <2>1. FramesMove /\ StackOK
    BY <1>1, NextKeeps, TypesParts DEF StateInv
  <2>2. QED
    BY <2>1, TryIsKept DEF FramesMove
<1>2. QED
  BY <1>1, StateInvariance, PTL DEF Spec, FinallyIsNotSkipped

=============================================================================
