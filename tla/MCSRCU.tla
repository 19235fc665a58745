------------------------------ MODULE MCSRCU ------------------------------
(* A small instance of SRCU for TLC. *)
EXTENDS SRCU, TLC

CONSTANTS u1, u2

EachOwnCpu == u1 :> 0 @@ u2 :> 1

=============================================================================
