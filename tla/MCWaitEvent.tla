---------------------------- MODULE MCWaitEvent ----------------------------
(* A small instance of WaitEvent for TLC: two waiters and a waker. *)
EXTENDS WaitEvent

CONSTANTS t1, t2, t3

MCUses ==
  [t \in {t1, t2} |->
     IF t = t1 THEN {"wait_event", "interruptible", "interruptible_timeout", "killable"}
               ELSE {"wait_event", "wait_event_timeout", "interruptible", "interruptible_exclusive"}]

=============================================================================
