---------------------------- MODULE RingBuffers ----------------------------
(***************************************************************************)
(* The three kinds of ring buffer of lib/luaw_data_structs_lib.lua and the *)
(* threads that use one.  offer and take of a plain buffer (the            *)
(* scheduler's threadPool) never wait; an overwriting buffer (the log      *)
(* lines) makes room by taking the oldest object; on a blocking one a      *)
(* thread yields and tries again whenever it is resumed.                   *)
(***************************************************************************)
EXTENDS DataStructs, Sequences

CONSTANT Threads

VARIABLES
  kind,     \* which constructor made the buffer
  rb,       \* the ring buffer
  waits     \* Threads -> "no", "take", or the object the thread is offering

ring_vars == <<kind, rb, waits>>

\* newRingBuffer, newOverwrittingRingBuffer and newBlockingRingBuffer differ
\* only in the functions they install.
RingInit ==
  /\ kind \in {"plain", "overwriting", "blocking"}
  /\ rb = newRingBuffer
  /\ waits = [t \in Threads |-> "no"]

\* rb:offer(obj) by thread t; a thread that yielded inside offerWithWait
\* starts again with the same object.
Offer(t, obj) ==
  /\ waits[t] \in {"no", obj}
  /\ CanOffer(rb)
  /\ rb' = offer(rb, obj)
  /\ waits' = [waits EXCEPT ![t] = "no"]
  /\ UNCHANGED kind

\* offer() on a full buffer fails; offerWithWait yields.
OfferFull(t, obj) ==
  /\ waits[t] = "no"
  /\ ~CanOffer(rb) /\ kind # "overwriting"
  /\ waits' = IF kind = "blocking" THEN [waits EXCEPT ![t] = obj] ELSE waits
  /\ UNCHANGED <<kind, rb>>

\* Mutation: the new object is stored without taking the oldest one out.
Overwrite_in_place(t, obj) ==
  /\ waits[t] = "no"
  /\ ~CanOffer(rb) /\ CanTake(rb) /\ kind = "overwriting"
  /\ rb' = [rb EXCEPT !.slot[rb.writer] = obj, !.writer = NextPos(@)]
  /\ UNCHANGED <<kind, waits>>

\* offerWithOverwrite(obj) on a full buffer.
Overwrite(t, obj) ==
  /\ waits[t] = "no"
  /\ ~CanOffer(rb) /\ CanTake(rb) /\ kind = "overwriting"
  /\ rb' = offer(take(rb), obj)
  /\ UNCHANGED <<kind, waits>>

\* rb:take() by thread t.
Take(t) ==
  /\ waits[t] \in {"no", "take"}
  /\ CanTake(rb)
  /\ rb' = take(rb)
  /\ waits' = [waits EXCEPT ![t] = "no"]
  /\ UNCHANGED kind

\* take() on an empty buffer finds nothing; takeWithWait yields.
TakeEmpty(t) ==
  /\ waits[t] = "no"
  /\ ~CanTake(rb)
  /\ waits' = IF kind = "blocking" THEN [waits EXCEPT ![t] = "take"] ELSE waits
  /\ UNCHANGED <<kind, rb>>

RingNext ==
  \E t \in Threads :
    \/ Take(t)
    \/ TakeEmpty(t)
    \/ \E obj \in Objs : Offer(t, obj) \/ OfferFull(t, obj) \/ Overwrite(t, obj)

RingSpec == RingInit /\ [][RingNext]_ring_vars

-----------------------------------------------------------------------------
(* Properties *)

\* The buffer and the waiting threads have their types.
RingTypeOK ==
  /\ kind \in {"plain", "overwriting", "blocking"}
  /\ rb \in RingBuffer
  /\ waits \in [Threads -> {"no", "take"} \cup Objs]

\* The position of the i-th oldest object.
Position(i) ==
  LET k == rb.reader + i - 1 IN IF k > Size THEN k - Size ELSE k

Contents == [i \in 1 .. rb.filled |-> rb.slot[Position(i)]]

\* reader, writer and filled agree, across the wrap at the end: the objects
\* are in the `filled' positions from reader on, writer is the position after
\* them, and take() left nothing behind in the others (a coroutine left there
\* would never be collected).
WindowExact ==
  /\ rb.filled <= Size
  /\ Size > 0 => rb.writer = Position(rb.filled + 1)
  /\ \A p \in 1 .. Size :
       rb.slot[p] # Nil <=> \E i \in 1 .. rb.filled : Position(i) = p

\* Every kind of ring buffer implements a bounded first-in first-out queue:
\* nothing is lost, repeated or reordered by offer, take and overwriting.
Queue == INSTANCE BoundedQueue WITH Capacity <- Size, queue <- Contents

RefinesQueue == Queue!Spec
=============================================================================
