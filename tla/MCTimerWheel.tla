---------------------------- MODULE MCTimerWheel ----------------------------
(* A small instance of TimerWheel for TLC. *)
EXTENDS TimerWheel, TLC

MCBits == <<1, 1, 1, 1, 2>>
MCOffsets == {-1, 2, 10}
MCCallTimes == {61}
MCSlacks == {-1, 3}

Symmetry == Permutations(Timers)

=============================================================================
