------------------------- MODULE RingBuffersProofs -------------------------
(***************************************************************************)
(* The three kinds of ring buffer implement a bounded first-in first-out   *)
(* queue, for every size and every set of objects and threads.             *)
(***************************************************************************)
EXTENDS RingBuffers, SequenceTheorems, TLAPS

-----------------------------------------------------------------------------
(* Ring buffers as values.  Position and Contents of RingBuffers are these  *)
(* operators applied to the variable rb.                                    *)

Pos(b, i) == LET k == b.reader + i - 1 IN IF k > Size THEN k - Size ELSE k

Items(b) == [i \in 1 .. b.filled |-> b.slot[Pos(b, i)]]

Exact(b) ==
  /\ b.filled <= Size
  /\ Size > 0 => b.reader \in 1 .. Size /\ b.writer = Pos(b, b.filled + 1)
  /\ \A p \in 1 .. Size : b.slot[p] # Nil <=> \E i \in 1 .. b.filled : Pos(b, i) = p

Sound(b) == b \in RingBuffer /\ Exact(b)

IndInv == RingTypeOK /\ Exact(rb)

\* The positions of one turn of the buffer lie in it and differ.
LEMMA Positions ==
  ASSUME NEW b, b.reader \in 1 .. Size
  PROVE  /\ \A i \in 1 .. Size : Pos(b, i) \in 1 .. Size
         /\ \A i, j \in 1 .. Size : Pos(b, i) = Pos(b, j) => i = j
         /\ Pos(b, 1) = b.reader
         /\ Pos(b, Size + 1) = b.reader
         /\ \A i \in 1 .. Size : Pos(b, i + 1) = NextPos(Pos(b, i))
<1>1. PICK r \in 1 .. Size : r = b.reader
  OBVIOUS
<1>2. Size \in Nat
  BY DataAssumption
<1> QED BY <1>1, <1>2 DEF Pos, NextPos

\* What is in the buffer is a sequence of objects.
LEMMA ItemsSeq ==
  ASSUME NEW b, Sound(b)
  PROVE  /\ Items(b) \in Seq(Objs)
         /\ Len(Items(b)) = b.filled
         /\ b.filled \in 0 .. Size
<1>1. b.filled \in 0 .. Size /\ Size \in Nat
  BY DataAssumption DEF Sound, Exact, RingBuffer
<1>2. \A i \in 1 .. b.filled : Pos(b, i) \in 1 .. Size /\ b.slot[Pos(b, i)] \in Objs
  <2> SUFFICES ASSUME NEW i \in 1 .. b.filled
               PROVE  Pos(b, i) \in 1 .. Size /\ b.slot[Pos(b, i)] \in Objs
    OBVIOUS
  <2>1. i \in 1 .. Size /\ b.reader \in 1 .. Size
    BY <1>1 DEF Sound, Exact
  <2>2. Pos(b, i) \in 1 .. Size
    BY <2>1, Positions
  <2>3. b.slot[Pos(b, i)] # Nil
    BY <2>2 DEF Sound, Exact
  <2> QED BY <2>2, <2>3 DEF Sound, RingBuffer
<1> DEFINE f == [i \in 1 .. b.filled |-> b.slot[Pos(b, i)]]
<1>3. f \in [1 .. b.filled -> Objs] /\ b.filled \in Nat
  BY <1>1, <1>2
<1>4. f \in Seq(Objs)
  BY <1>3, IsASeq
<1>5. Len(f) = b.filled
  BY <1>3, <1>4, LenProperties
<1> QED BY <1>1, <1>4, <1>5 DEF Items

\* offer() puts the object behind the others.
LEMMA OfferLemma ==
  ASSUME NEW b, Sound(b), CanOffer(b), NEW obj \in Objs
  PROVE  /\ Sound(offer(b, obj))
         /\ Items(offer(b, obj)) = Append(Items(b), obj)
<1>1. /\ Size \in Nat /\ b.filled \in 0 .. Size - 1
      /\ b.reader \in 1 .. Size /\ b.writer = Pos(b, b.filled + 1)
      /\ Nil \notin Objs
  BY DataAssumption DEF Sound, Exact, RingBuffer, CanOffer
<1>2. b.writer \in 1 .. Size /\ b.filled + 1 \in 1 .. Size
  BY <1>1, Positions
<1> DEFINE c == offer(b, obj)
<1>3. /\ c.reader = b.reader /\ c.filled = b.filled + 1 /\ c.writer = NextPos(b.writer)
      /\ c.slot \in [1 .. Size -> Objs \cup {Nil}]
      /\ c.slot[b.writer] = obj /\ \A p \in 1 .. Size \ {b.writer} : c.slot[p] = b.slot[p]
  BY <1>2 DEF offer, Sound, RingBuffer
<1>4. c \in RingBuffer
  <2>1. NextPos(b.writer) \in Nat \ {0}
    BY <1>1, <1>2 DEF NextPos
  <2> QED BY <1>1, <1>2, <1>3, <2>1 DEF offer, Sound, RingBuffer
<1>5. \A i \in Int : Pos(c, i) = Pos(b, i)
  BY <1>3 DEF Pos
<1>6. Exact(c)
  <2>1. c.filled <= Size
    BY <1>1, <1>3
  <2>2. c.reader \in 1 .. Size /\ c.writer = Pos(c, c.filled + 1)
    <3>1. Pos(b, b.filled + 1 + 1) = NextPos(Pos(b, b.filled + 1))
      BY <1>1, <1>2, Positions
    <3> QED BY <1>1, <1>3, <1>5, <3>1
  <2>3. ASSUME NEW p \in 1 .. Size
        PROVE  c.slot[p] # Nil <=> \E i \in 1 .. c.filled : Pos(c, i) = p
    <3>1. CASE p = b.writer
      BY <1>1, <1>2, <1>3, <1>5, <3>1
    <3>2. CASE p # b.writer
      <4>1. c.slot[p] # Nil <=> \E i \in 1 .. b.filled : Pos(b, i) = p
        BY <1>3, <3>2 DEF Sound, Exact
      <4>2. \A i \in 1 .. c.filled : Pos(b, i) = p => i \in 1 .. b.filled
        BY <1>1, <1>3, <3>2
      <4>3. \A i \in 1 .. b.filled : i \in 1 .. c.filled
        BY <1>1, <1>3
      <4> QED BY <1>1, <1>3, <1>5, <4>1, <4>2, <4>3
    <3> QED BY <3>1, <3>2
  <2> HIDE DEF c
  <2> QED BY <2>1, <2>2, <2>3 DEF Exact
<1>7. Sound(c)
  BY <1>4, <1>6 DEF Sound
<1>8. Items(c) = Append(Items(b), obj)
  <2>1. /\ Items(b) \in Seq(Objs) /\ Len(Items(b)) = b.filled
        /\ Items(c) \in Seq(Objs) /\ Len(Items(c)) = b.filled + 1
    BY <1>3, <1>7, ItemsSeq
  <2>2. Append(Items(b), obj) \in Seq(Objs) /\ Len(Append(Items(b), obj)) = b.filled + 1
    BY <2>1, AppendProperties
  <2>3. ASSUME NEW i \in 1 .. b.filled + 1
        PROVE  Items(c)[i] = Append(Items(b), obj)[i]
    <3>1. Items(c)[i] = c.slot[Pos(b, i)]
      BY <1>1, <1>3, <1>5 DEF Items
    <3>2. CASE i = b.filled + 1
      BY <1>1, <1>3, <2>1, <3>1, <3>2, AppendProperties
    <3>3. CASE i # b.filled + 1
      <4>1. i \in 1 .. b.filled /\ i \in 1 .. Size
        BY <1>1, <3>3
      <4>2. Pos(b, i) # b.writer /\ Pos(b, i) \in 1 .. Size
        BY <1>1, <1>2, <3>3, <4>1, Positions
      <4>3. Items(c)[i] = Items(b)[i]
        BY <1>3, <3>1, <4>1, <4>2 DEF Items
      <4> QED BY <2>1, <4>1, <4>3, AppendProperties
    <3> QED BY <3>2, <3>3
  <2> HIDE DEF c
  <2> QED BY <2>1, <2>2, <2>3, SeqEqual
<1> QED BY <1>7, <1>8

\* take() removes the oldest object and returns it.
LEMMA TakeLemma ==
  ASSUME NEW b, Sound(b), CanTake(b)
  PROVE  /\ Sound(take(b))
         /\ CanOffer(take(b))
         /\ Items(b) # <<>>
         /\ Items(take(b)) = Tail(Items(b))
         /\ taken(b) = Head(Items(b))
<1>1. /\ Size \in Nat /\ b.filled \in 1 .. Size
      /\ b.reader \in 1 .. Size /\ b.writer = Pos(b, b.filled + 1)
  BY DataAssumption DEF Sound, Exact, RingBuffer, CanTake
<1> DEFINE c == take(b)
<1>2. /\ c.reader = NextPos(b.reader) /\ c.filled = b.filled - 1 /\ c.writer = b.writer
      /\ c.slot \in [1 .. Size -> Objs \cup {Nil}]
      /\ c.slot[b.reader] = Nil /\ \A p \in 1 .. Size \ {b.reader} : c.slot[p] = b.slot[p]
  BY <1>1 DEF take, Sound, RingBuffer
<1>3. c.reader \in 1 .. Size
  BY <1>1, <1>2 DEF NextPos
<1>4. c \in RingBuffer
  BY <1>1, <1>2, <1>3 DEF take, Sound, RingBuffer
<1>5. \A i \in 1 .. Size : Pos(c, i) = Pos(b, i + 1)
  <2>1. PICK r \in 1 .. Size, q \in 1 .. Size : r = b.reader /\ q = c.reader /\ q = NextPos(r)
    BY <1>1, <1>2, <1>3
  <2> HIDE DEF c
  <2> QED BY <1>1, <2>1 DEF Pos, NextPos
<1>6. Exact(c)
  <2>1. c.filled <= Size
    BY <1>1, <1>2
  <2>2. c.writer = Pos(c, c.filled + 1)
    BY <1>1, <1>2, <1>5
  <2>3. ASSUME NEW p \in 1 .. Size
        PROVE  c.slot[p] # Nil <=> \E i \in 1 .. c.filled : Pos(c, i) = p
    <3>1. CASE p = b.reader
      <4>1. \A i \in 1 .. c.filled : i + 1 \in 1 .. Size /\ i + 1 # 1 /\ i \in 1 .. Size /\ 1 \in 1 .. Size
        BY <1>1, <1>2
      <4>2. \A i \in 1 .. c.filled : Pos(c, i) # p
        BY <1>1, <1>5, <3>1, <4>1, Positions
      <4> QED BY <1>2, <3>1, <4>2
    <3>2. CASE p # b.reader
      <4>1. c.slot[p] # Nil <=> \E i \in 1 .. b.filled : Pos(b, i) = p
        BY <1>2, <3>2 DEF Sound, Exact
      <4>2. ASSUME NEW i \in 1 .. b.filled, Pos(b, i) = p
            PROVE  \E j \in 1 .. c.filled : Pos(c, j) = p
        <5>1. i # 1
          BY <1>1, <3>2, <4>2, Positions
        <5>2. i - 1 \in 1 .. c.filled /\ i - 1 \in 1 .. Size /\ (i - 1) + 1 = i
          BY <1>1, <1>2, <5>1
        <5> QED BY <1>5, <4>2, <5>2
      <4>3. ASSUME NEW i \in 1 .. c.filled, Pos(c, i) = p
            PROVE  \E j \in 1 .. b.filled : Pos(b, j) = p
        <5>1. i + 1 \in 1 .. b.filled /\ i \in 1 .. Size
          BY <1>1, <1>2
        <5> QED BY <1>5, <4>3, <5>1
      <4> QED BY <4>1, <4>2, <4>3
    <3> QED BY <3>1, <3>2
  <2> HIDE DEF c
  <2> QED BY <1>3, <2>1, <2>2, <2>3 DEF Exact
<1>7. Sound(c)
  BY <1>4, <1>6 DEF Sound
<1>8. /\ Items(b) \in Seq(Objs) /\ Len(Items(b)) = b.filled
      /\ Items(c) \in Seq(Objs) /\ Len(Items(c)) = b.filled - 1
  BY <1>2, <1>7, ItemsSeq
<1>9. Items(b) # <<>>
  BY <1>1, <1>8
<1>10. Items(c) = Tail(Items(b))
  <2>1. Tail(Items(b)) \in Seq(Objs) /\ Len(Tail(Items(b))) = b.filled - 1
    BY <1>8, <1>9, HeadTailProperties
  <2>2. ASSUME NEW i \in 1 .. b.filled - 1
        PROVE  Items(c)[i] = Tail(Items(b))[i]
    <3>1. i \in 1 .. Size /\ i + 1 \in 1 .. Size /\ i + 1 # 1 /\ 1 \in 1 .. Size /\ i + 1 \in 1 .. b.filled
      BY <1>1
    <3>2. Items(c)[i] = c.slot[Pos(b, i + 1)]
      BY <1>2, <1>5, <3>1 DEF Items
    <3>3. Pos(b, i + 1) # b.reader /\ Pos(b, i + 1) \in 1 .. Size
      BY <1>1, <3>1, Positions
    <3>4. Items(c)[i] = Items(b)[i + 1]
      BY <1>2, <3>1, <3>2, <3>3 DEF Items
    <3> QED BY <1>8, <1>9, <3>4, HeadTailProperties
  <2> HIDE DEF c
  <2> QED BY <1>8, <2>1, <2>2, SeqEqual
<1>11. taken(b) = Head(Items(b))
  <2>1. Items(b)[1] = b.slot[b.reader]
    <3>1. 1 \in 1 .. b.filled /\ Pos(b, 1) = b.reader
      BY <1>1, Positions
    <3> QED BY <3>1 DEF Items
  <2> QED BY <1>8, <1>9, <2>1, HeadTailProperties DEF taken
<1>12. CanOffer(c)
  BY <1>1, <1>2 DEF CanOffer
<1> QED BY <1>7, <1>9, <1>10, <1>11, <1>12

-----------------------------------------------------------------------------
(* The specification *)

LEMMA Abbreviations ==
  /\ Contents = Items(rb)
  /\ Exact(rb) => WindowExact
BY DEF Contents, Items, Position, Pos, Exact, WindowExact

LEMMA InitInd == RingInit => IndInv /\ Contents = <<>>
<1> SUFFICES ASSUME RingInit PROVE IndInv /\ Contents = <<>>
  OBVIOUS
<1>1. /\ rb.slot = [i \in 1 .. Size |-> Nil]
      /\ rb.reader = 1 /\ rb.writer = 1 /\ rb.filled = 0 /\ Size \in Nat
  BY DataAssumption DEF RingInit, newRingBuffer
<1>2. RingTypeOK
  BY DataAssumption DEF RingInit, RingTypeOK, newRingBuffer, RingBuffer
<1>3. Exact(rb)
  BY <1>1 DEF Exact, Pos
<1>4. Contents = <<>>
  <2>1. Sound(rb)
    BY <1>2, <1>3 DEF Sound, RingTypeOK
  <2>2. Items(rb) \in Seq(Objs) /\ Len(Items(rb)) = 0
    BY <1>1, <2>1, ItemsSeq
  <2> QED BY <2>2, EmptySeq, Abbreviations
<1> QED BY <1>2, <1>3, <1>4 DEF IndInv

\* Every step of the buffer is a step of the queue, or leaves the queue alone.
LEMMA StepInd ==
  IndInv /\ [RingNext]_ring_vars =>
    /\ IndInv'
    /\ [Queue!Next]_Contents
<1> SUFFICES ASSUME IndInv, [RingNext]_ring_vars
             PROVE  IndInv' /\ [Queue!Next]_Contents
  OBVIOUS
<1>1. Sound(rb) /\ Contents = Items(rb) /\ (Contents)' = Items(rb')
  <2>1. Sound(rb)
    BY DEF IndInv, RingTypeOK, Sound
  <2>2. (Contents)' = Items(rb')
    BY DEF Contents, Items, Position, Pos
  <2> QED BY <2>1, <2>2, Abbreviations
<1>2. Contents \in Seq(Objs) /\ Len(Contents) = rb.filled /\ rb.filled \in 0 .. Size /\ Size \in Nat
  BY <1>1, ItemsSeq, DataAssumption
<1>3. ASSUME Sound(rb'), waits' \in [Threads -> {"no", "take"} \cup Objs], kind' = kind
      PROVE  IndInv'
  BY <1>3 DEF IndInv, RingTypeOK, Sound, Exact, Pos
<1>4. ASSUME NEW t \in Threads, Take(t)
      PROVE  IndInv' /\ Queue!Next
  <2>1. Sound(rb') /\ Contents # <<>> /\ (Contents)' = Tail(Contents)
    BY <1>1, <1>4, TakeLemma DEF Take
  <2>2. IndInv'
    BY <1>3, <1>4, <2>1 DEF Take, IndInv, RingTypeOK
  <2> QED BY <2>1, <2>2 DEF Queue!Next, Queue!Get
<1>5. ASSUME NEW t \in Threads, NEW obj \in Objs, Offer(t, obj)
      PROVE  IndInv' /\ Queue!Next
  <2>1. Sound(rb') /\ (Contents)' = Append(Contents, obj)
    BY <1>1, <1>5, OfferLemma DEF Offer
  <2>2. IndInv'
    BY <1>3, <1>5, <2>1 DEF Offer, IndInv, RingTypeOK
  <2>3. Len(Contents) < Size
    BY <1>2, <1>5 DEF Offer, CanOffer
  <2> QED BY <2>1, <2>2, <2>3 DEF Queue!Next, Queue!Put
<1>6. ASSUME NEW t \in Threads, NEW obj \in Objs, Overwrite(t, obj)
      PROVE  IndInv' /\ Queue!Next
  <2>1. /\ Sound(take(rb)) /\ CanOffer(take(rb)) /\ Contents # <<>>
        /\ Items(take(rb)) = Tail(Contents)
    BY <1>1, <1>6, TakeLemma DEF Overwrite
  <2>2. Sound(rb') /\ (Contents)' = Append(Tail(Contents), obj)
    BY <1>1, <1>6, <2>1, OfferLemma DEF Overwrite
  <2>3. IndInv'
    BY <1>3, <1>6, <2>2 DEF Overwrite, IndInv, RingTypeOK
  <2>4. Len(Contents) = Size
    BY <1>2, <1>6 DEF Overwrite, CanOffer
  <2> QED BY <2>1, <2>2, <2>3, <2>4 DEF Queue!Next, Queue!Replace
<1>7. ASSUME rb' = rb, kind' = kind, waits' \in [Threads -> {"no", "take"} \cup Objs]
      PROVE  IndInv' /\ UNCHANGED Contents
  BY <1>1, <1>3, <1>7
<1>8. ASSUME NEW t \in Threads, TakeEmpty(t) \/ \E obj \in Objs : OfferFull(t, obj)
      PROVE  IndInv' /\ UNCHANGED Contents
  BY <1>7, <1>8 DEF TakeEmpty, OfferFull, IndInv, RingTypeOK
<1>9. CASE UNCHANGED ring_vars
  BY <1>7, <1>9 DEF ring_vars, IndInv, RingTypeOK
<1> QED BY <1>4, <1>5, <1>6, <1>8, <1>9 DEF RingNext

\* The types of the buffer and of what its threads wait for.
THEOREM RingBufferTypes == RingSpec => []RingTypeOK
<1>1. IndInv => RingTypeOK
  BY DEF IndInv
<1> QED BY <1>1, InitInd, StepInd, PTL DEF RingSpec

\* offer(), take() and overwriting keep reader, writer and filled in agreement
\* with the slots in use, across every wrap, and leave no object in a free slot.
THEOREM WindowIsExact == RingSpec => []WindowExact
<1>1. IndInv => WindowExact
  BY Abbreviations DEF IndInv
<1> QED BY <1>1, InitInd, StepInd, PTL DEF RingSpec

\* Every kind of ring buffer of luaw_data_structs_lib.lua is a bounded queue.
THEOREM ImplementsQueue == RingSpec => RefinesQueue
<1>1. RingInit => Queue!Init
  BY InitInd DEF Queue!Init
<1> QED BY <1>1, InitInd, StepInd, PTL DEF RingSpec, RefinesQueue, Queue!Spec
=============================================================================
