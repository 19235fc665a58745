------------------------------ MODULE MCFutex ------------------------------
(* A small instance of Futex for TLC. *)
EXTENDS Futex, TLC

Symmetry == Permutations(Tasks) \cup Permutations(Wakers) \cup Permutations(Futexes)

=============================================================================
