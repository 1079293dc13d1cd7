---------------------------- MODULE IdAllocator ----------------------------
(* What a registry promises: an id that is in use names one object, the one *)
(* it was handed out for, until it is given back.                           *)
EXTENDS Integers

CONSTANTS Ids, Objs

VARIABLE owner  \* the ids in use -> their objects

Init == owner = [i \in {} |-> {}]

Allocate(o) ==
  \E i \in Ids \ DOMAIN owner :
    owner' = [j \in DOMAIN owner \cup {i} |-> IF j = i THEN o ELSE owner[j]]

Release(i) ==
  /\ i \in DOMAIN owner
  /\ owner' = [j \in DOMAIN owner \ {i} |-> owner[j]]

Next == (\E o \in Objs : Allocate(o)) \/ (\E i \in Ids : Release(i))

Spec == Init /\ [][Next]_owner
=============================================================================
