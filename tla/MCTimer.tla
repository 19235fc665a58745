------------------------------ MODULE MCTimer ------------------------------
(* A small instance of Timer for TLC. *)
EXTENDS Timer

Symmetry == Permutations(Threads) \cup Permutations(CPUs) \cup Permutations(Timers)

=============================================================================
