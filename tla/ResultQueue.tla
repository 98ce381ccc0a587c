----------------------------- MODULE ResultQueue -----------------------------
(***************************************************************************)
(* What a result cluster FIFO promises: a queue of at most Depth results.  *)
(* In one clock a result may be taken from the front and another one put   *)
(* at the back; a full queue takes a result only while one is taken out;   *)
(* and the queue may be emptied.                                           *)
(***************************************************************************)
EXTENDS Integers, Sequences

CONSTANTS Depth, Item
VARIABLE q

Init == q = <<>>

Push(x) == Len(q) < Depth /\ q' = Append(q, x)
Pop == q # <<>> /\ q' = Tail(q)
PushPop(x) == q # <<>> /\ q' = Append(Tail(q), x)
Empty == q' = <<>>

Next == Pop \/ Empty \/ \E x \in Item : Push(x) \/ PushPop(x)
Spec == Init /\ [][Next]_q
=============================================================================
