---------------------------- MODULE MCDataStructs ----------------------------
(***************************************************************************)
(* A registry and a ring buffer of lib/luaw_data_structs_lib.lua with      *)
(* their clients.  The two have nothing in common, so that it is enough to *)
(* use one of them in a behaviour: the one used first.                     *)
(***************************************************************************)
EXTENDS Registry, RingBuffers

allVars == <<vars, ring_vars>>

BothInit == Init /\ RingInit

UseRegistry ==
  /\ rb = newRingBuffer /\ \A t \in Threads : waits[t] = "no"
  /\ Next
  /\ UNCHANGED ring_vars

UseRingBuffer == reg = newRegistry /\ RingNext /\ UNCHANGED vars

BothNext == UseRegistry \/ UseRingBuffer

BothSpec == BothInit /\ [][BothNext]_allVars
==============================================================================
