------------------------------ MODULE MCRwsem ------------------------------
(* A small instance of Rwsem for TLC. *)
EXTENDS Rwsem

=============================================================================
