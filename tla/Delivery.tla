------------------------------- MODULE Delivery -------------------------------
(***************************************************************************)
(* What a DaJet stream promises between a source and a target: every       *)
(* message of the source reaches the target at least once and in the order *)
(* of the source, and a message leaves the source only after that.         *)
(* The components that move messages are shown to implement this module.   *)
(*                                                                         *)
(* Messages are numbered 1, 2, 3, ... in source order.                     *)
(***************************************************************************)
EXTENDS Integers

CONSTANT Total     \* how many messages the source ever holds

VARIABLES gone,    \* messages 1..gone have left the source for good
          inOrder  \* the largest k such that <<1, ..., k>> is a subsequence
                   \* of what the target has durably accepted

deliveryVars == <<gone, inOrder>>

Init ==
    /\ gone = 0
    /\ inOrder = 0

(* The target accepts a message that is still in the source.  It extends   *)
(* the ordered prefix only if it is the next one; a repetition, or one     *)
(* that overtakes its predecessors, does not.                              *)
Accept ==
    \E m \in (gone + 1)..Total :
        /\ inOrder' = IF m = inOrder + 1 THEN m ELSE inOrder
        /\ UNCHANGED gone

(* The source forgets some messages: only ones the target has, in order.   *)
Forget ==
    \E k \in (gone + 1)..Total :
        /\ k <= inOrder
        /\ gone' = k
        /\ UNCHANGED inOrder

Next == Accept \/ Forget

Spec == Init /\ [][Next]_deliveryVars
=============================================================================
