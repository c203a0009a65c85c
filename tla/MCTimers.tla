------------------------------ MODULE MCTimers ------------------------------
(* Small instances of Timers for TLC. *)
EXTENDS Timers

Symm == Permutations(Nodes) \cup Permutations(Groups)
=============================================================================
