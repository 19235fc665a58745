----------------------------- MODULE MCTasklet -----------------------------
(* A small instance of Tasklet for TLC. *)
EXTENDS Tasklet

=============================================================================
