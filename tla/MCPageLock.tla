----------------------------- MODULE MCPageLock -----------------------------
(* Small instances of PageLock for TLC. *)
EXTENDS PageLock, TLC

Symmetry == Permutations(Tasks)

=============================================================================
