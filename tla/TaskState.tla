----------------------------- MODULE TaskState -----------------------------
(***************************************************************************)
(* How a task goes to sleep and is woken: task_struct.state, its place on  *)
(* the run queue, its pending signal and the timer of schedule_timeout().  *)
(* Every blocking primitive of the project extends this module and shares  *)
(* these variables with the scheduler, the signal code and the timer       *)
(* interrupt, which act on a task whatever it is doing.                    *)
(*                                                                         *)
(* The states are sets of bits, as in include/linux/sched.h, so that       *)
(* "p->state & mask" is an intersection.  The runs of the code that hold   *)
(* the run-queue lock are single steps.                                    *)
(***************************************************************************)
EXTENDS FiniteSets

CONSTANT Tasks

ASSUME TasksAssumption == IsFiniteSet(Tasks)

VARIABLES
  pc,      \* where each task is in the primitive it calls
  state,   \* task_struct.state, a set of the bits below
  on_rq,   \* task_struct.se.on_rq: FALSE once schedule() deactivated the task
  sig,     \* TIF_SIGPENDING: "none", a plain signal, or a fatal one
  timer    \* the on-stack timer of schedule_timeout()

taskVars == <<pc, state, on_rq, sig, timer>>

TASK_RUNNING         == {}
TASK_INTERRUPTIBLE   == {"INTERRUPTIBLE"}
TASK_UNINTERRUPTIBLE == {"UNINTERRUPTIBLE"}
TASK_KILLABLE        == {"WAKEKILL", "UNINTERRUPTIBLE"}
TASK_NORMAL          == {"INTERRUPTIBLE", "UNINTERRUPTIBLE"}

States == {TASK_RUNNING, TASK_INTERRUPTIBLE, TASK_UNINTERRUPTIBLE, TASK_KILLABLE}

TaskTypeOK(labels) ==
  /\ pc \in [Tasks -> labels]
  /\ state \in [Tasks -> States]
  /\ on_rq \in [Tasks -> BOOLEAN]
  /\ sig \in [Tasks -> {"none", "plain", "fatal"}]
  /\ timer \in [Tasks -> {"none", "armed", "expired"}]

TaskInit ==
  /\ pc = [t \in Tasks |-> "idle"]
  /\ state = [t \in Tasks |-> TASK_RUNNING]
  /\ on_rq = [t \in Tasks |-> TRUE]
  /\ sig = [t \in Tasks |-> "none"]
  /\ timer = [t \in Tasks |-> "none"]

(* Does a pending signal end a sleep in state s? *)
signal_pending_state(s, t) ==
  /\ s \cap {"INTERRUPTIBLE", "WAKEKILL"} # {}
  /\ sig[t] # "none"
  /\ "INTERRUPTIBLE" \in s \/ sig[t] = "fatal"

-----------------------------------------------------------------------------
(* try_to_wake_up() of every task of W whose state is in the mask: the     *)
(* task is runnable and TASK_RUNNING again.  The call returns 1 only when  *)
(* the task had really left the run queue.                                 *)
WakesUp(p, mask) == state[p] \cap mask # {}

ttwu_success(p, mask) == WakesUp(p, mask) /\ ~on_rq[p]

try_to_wake_up(W, mask) ==
  /\ state' = [p \in Tasks |->
                 IF p \in W /\ WakesUp(p, mask) THEN TASK_RUNNING ELSE state[p]]
  /\ on_rq' = [p \in Tasks |-> on_rq[p] \/ (p \in W /\ WakesUp(p, mask))]

(* wake_up_process() uses TASK_ALL; no task of these models is stopped or  *)
(* traced, so TASK_NORMAL has the same effect.                             *)
wake_up_process(p) == try_to_wake_up({p}, TASK_NORMAL)

(* __set_current_state(), and the return to TASK_RUNNING. *)
set_task_state(t, s) == state' = [state EXCEPT ![t] = s] /\ UNCHANGED on_rq

-----------------------------------------------------------------------------
(* schedule(), called at label "schedule".  A task that is not TASK_RUNNING *)
(* and has no signal to take leaves the run queue, and runs again only     *)
(* after a wakeup; otherwise the call returns, at label "resumed".         *)
deactivate_task(t) ==
  /\ pc[t] = "schedule" /\ on_rq[t]
  /\ state[t] # TASK_RUNNING /\ ~signal_pending_state(state[t], t)
  /\ on_rq' = [on_rq EXCEPT ![t] = FALSE]
  /\ UNCHANGED <<pc, state, sig, timer>>

schedule_returns(t) ==
  /\ pc[t] = "schedule" /\ on_rq[t]
  /\ state[t] = TASK_RUNNING \/ signal_pending_state(state[t], t)
  /\ state' = [state EXCEPT ![t] = TASK_RUNNING]
  /\ pc' = [pc EXCEPT ![t] = "resumed"]
  /\ UNCHANGED <<on_rq, sig, timer>>

schedule(t) == deactivate_task(t) \/ schedule_returns(t)

(* The timer of schedule_timeout() fires, at any time until the sleeper    *)
(* has run again and deleted it.                                           *)
process_timeout(t) ==
  /\ timer[t] = "armed"
  /\ timer' = [timer EXCEPT ![t] = "expired"]
  /\ wake_up_process(t)
  /\ UNCHANGED <<pc, sig>>

(* signal_wake_up(): flag the signal, then wake the task if its sleep can  *)
(* be ended by it.  A later fatal signal overrides a plain one.            *)
signal_wake_up(t, kind) ==
  /\ pc[t] # "dead"
  /\ sig[t] = "none" \/ (sig[t] = "plain" /\ kind = "fatal")
  /\ sig' = [sig EXCEPT ![t] = kind]
  /\ try_to_wake_up({t}, IF kind = "fatal" THEN {"INTERRUPTIBLE", "WAKEKILL"}
                                           ELSE {"INTERRUPTIBLE"})
  /\ UNCHANGED <<pc, timer>>

(* On its way back to user space a task takes its signal: a handler runs   *)
(* and the flag is cleared, or the task dies.                              *)
do_signal(t) ==
  /\ pc[t] = "idle" /\ sig[t] # "none"
  /\ IF sig[t] = "fatal"
       THEN pc' = [pc EXCEPT ![t] = "dead"] /\ UNCHANGED sig
       ELSE sig' = [sig EXCEPT ![t] = "none"] /\ UNCHANGED pc
  /\ UNCHANGED <<state, on_rq, timer>>

=============================================================================
