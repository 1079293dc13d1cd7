---------------------------- MODULE MCConnection ----------------------------
(* Small instances of Connection for TLC. *)
EXTENDS Connection, TLC

\* Connections and threads are interchangeable in Connection's actions.
Symmetry == Permutations(Conns) \cup Permutations(Tids)
=============================================================================
