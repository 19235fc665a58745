---------------------------- MODULE BlockingLock ----------------------------
(***************************************************************************)
(* What a sleeping mutual-exclusion lock promises its callers: a call ends *)
(* with the lock, which nobody else has, or fails because of a signal that *)
(* its kind of wait listens to; a lock is given up only by the task that   *)
(* has it.  How callers wait is left open.                                 *)
(***************************************************************************)
CONSTANT Tasks

VARIABLES
  st,         \* each task is "out", in a call ("wait"), or has the lock ("in")
  mayFail     \* the tasks with a signal pending that ends their kind of wait

lockVars == <<st, mayFail>>

Free == \A t \in Tasks : st[t] # "in"

Move(t, from, to) == st[t] = from /\ st' = [st EXCEPT ![t] = to]

Call(t)    == Move(t, "out", "wait")
TryLock(t) == Free /\ Move(t, "out", "in")
Acquire(t) == Free /\ Move(t, "wait", "in")
Fail(t)    == t \in mayFail /\ Move(t, "wait", "out")
Release(t) == Move(t, "in", "out")

LockInit == st = [t \in Tasks |-> "out"] /\ mayFail = {}

LockNext ==
  \/ \E t \in Tasks : Call(t) \/ TryLock(t) \/ Acquire(t) \/ Fail(t) \/ Release(t)
  \/ UNCHANGED st

LockSpec == LockInit /\ [][LockNext]_lockVars

=============================================================================
