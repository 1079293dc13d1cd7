----------------------------- MODULE DataStructs -----------------------------
(***************************************************************************)
(* The two containers of lib/luaw_data_structs_lib.lua as operators on     *)
(* their values: registries, which hand out small integers for objects,    *)
(* and ring buffers.  A missing key of a Lua table is Nil.                 *)
(***************************************************************************)
EXTENDS Integers

CONSTANTS
  Objs,     \* what is stored
  Nil,
  MaxRef,   \* bound: slots of a registry
  Size      \* the size a ring buffer was made with

ASSUME DataAssumption ==
  /\ Nil \notin Objs \cup Int
  /\ Objs \cap Int = {}
  /\ MaxRef \in Nat
  /\ Size \in Nat

-----------------------------------------------------------------------------
(* Registry: reg[0] is `head', the first slot of the free list; a free slot  *)
(* holds the next one, or nothing if it is the last.                         *)

Slots == 1 .. MaxRef

Registry ==
  [ slot : [Slots -> Objs \cup Slots \cup {Nil}],
    head : Slots \cup {Nil},
    size : Int ]

newRegistry == [slot |-> [i \in Slots |-> Nil], head |-> Nil, size |-> 0]

\* Lua's #reg: any n with reg[n] present (or n = 0) and reg[n + 1] missing.
Borders(reg) ==
  {n \in 0 .. MaxRef : /\ n > 0 => reg.slot[n] # Nil
                       /\ n < MaxRef => reg.slot[n + 1] = Nil}

\* The values ref() may return: the head of the free list, or #reg + 1.
NextRefs(reg) ==
  Slots \cap IF reg.head # Nil THEN {reg.head} ELSE {n + 1 : n \in Borders(reg)}

\* Mutation: the free list's head is not advanced.
ref_keep_head(reg, obj, r) ==
  [slot |-> [reg.slot EXCEPT ![r] = obj], head |-> reg.head, size |-> reg.size + 1]

\* ref(obj) returning r.
ref(reg, obj, r) ==
  [ slot |-> [reg.slot EXCEPT ![r] = obj],
    head |-> IF reg.head # Nil THEN reg.slot[reg.head] ELSE Nil,
    size |-> reg.size + 1 ]

unref(reg, r) ==
  [slot |-> [reg.slot EXCEPT ![r] = reg.head], head |-> r, size |-> reg.size - 1]

-----------------------------------------------------------------------------
(* Ring buffer: positions 1 .. Size, `filled' of them in use from `reader'. *)

RingBuffer ==
  [ slot   : [1 .. Size -> Objs \cup {Nil}],
    reader : Nat \ {0},
    writer : Nat \ {0},
    filled : Nat ]

newRingBuffer ==
  [slot |-> [i \in 1 .. Size |-> Nil], reader |-> 1, writer |-> 1, filled |-> 0]

NextPos(i) == IF i = Size THEN 1 ELSE i + 1

\* offer() succeeds.
CanOffer(rb) == rb.filled < Size

\* offer(obj) when it succeeds; when it fails it changes nothing.
offer(rb, obj) ==
  [ slot   |-> [rb.slot EXCEPT ![rb.writer] = obj],
    reader |-> rb.reader,
    writer |-> NextPos(rb.writer),
    filled |-> rb.filled + 1 ]

\* take() finds something.
CanTake(rb) == rb.filled > 0

\* take() when it finds something, and what it returns.
take(rb) ==
  [ slot   |-> [rb.slot EXCEPT ![rb.reader] = Nil],
    reader |-> NextPos(rb.reader),
    writer |-> rb.writer,
    filled |-> rb.filled - 1 ]

taken(rb) == rb.slot[rb.reader]

=============================================================================
