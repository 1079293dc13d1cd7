---------------------------- MODULE BoundedQueue ----------------------------
(* What a ring buffer promises: a first-in first-out queue that never holds *)
(* more than Capacity objects; putting one more in either fails or drops    *)
(* the oldest.                                                              *)
EXTENDS Integers, Sequences

CONSTANTS Objs, Capacity

VARIABLE queue

Init == queue = <<>>

Put(o) == Len(queue) < Capacity /\ queue' = Append(queue, o)

Get == queue # <<>> /\ queue' = Tail(queue)

Replace(o) ==
  /\ Len(queue) = Capacity /\ queue # <<>>
  /\ queue' = Append(Tail(queue), o)

Next == Get \/ \E o \in Objs : Put(o) \/ Replace(o)

Spec == Init /\ [][Next]_queue
=============================================================================
