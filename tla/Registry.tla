------------------------------ MODULE Registry ------------------------------
(***************************************************************************)
(* A registry of lib/luaw_data_structs_lib.lua and its clients.  The       *)
(* scheduler's threadRegistry is one: newThread calls ref for a new thread *)
(* and resumeThread calls unref when the thread is over.                   *)
(***************************************************************************)
EXTENDS DataStructs, FiniteSets

VARIABLES
  reg,   \* the registry
  out    \* <<ref, obj>>: the refs that clients hold, with what each stands for

vars == <<reg, out>>

Init == reg = newRegistry /\ out = {}

\* A client registers an object (a thread context just made) and keeps the
\* ref it gets.
Ref(obj) ==
  /\ \A q \in Slots : <<q, obj>> \notin out
  /\ \E r \in NextRefs(reg) :
       /\ reg' = ref(reg, obj, r)
       /\ out' = out \cup {<<r, obj>>}

\* The client that holds r for obj gives it back.
Unref(r, obj) ==
  /\ <<r, obj>> \in out
  /\ reg' = unref(reg, r)
  /\ out' = out \ {<<r, obj>>}

Next == \E obj \in Objs : Ref(obj) \/ \E r \in Slots : Unref(r, obj)

Spec == Init /\ [][Next]_vars

-----------------------------------------------------------------------------
(* Properties *)

\* The registry and the refs held have their types.
TypeOK == reg \in Registry /\ out \subseteq Slots \X Objs

\* Whatever was registered and given back before, reg[r] is the object r was
\* handed out for, for every ref still held (so no two clients hold the same
\* ref), and no other slot holds an object.
HeldRefsFindTheirObject ==
  \A r \in Slots, obj \in Objs : reg.slot[r] = obj <=> <<r, obj>> \in out

\* reg.size is the number of refs held.
SizeExact == reg.size = Cardinality(out)

\* ref() reuses a slot that was given back before it adds one: the table
\* never has more slots than refs were held at one time.
GrowsOnlyWhenFull ==
  [][\A r \in Slots :
       (reg.slot[r] = Nil /\ reg'.slot[r] \in Objs /\ reg.head # r)
         => \A q \in 1 .. r - 1 : reg.slot[q] \in Objs]_vars

\* The registry implements the abstract allocator.
Allocator == INSTANCE IdAllocator WITH
  Ids <- Slots,
  owner <- [r \in {q \in Slots : reg.slot[q] \in Objs} |-> reg.slot[r]]

RefinesAllocator == Allocator!Spec
=============================================================================
