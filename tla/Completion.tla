----------------------------- MODULE Completion -----------------------------
(***************************************************************************)
(* Completions (kernel/sched.c, include/linux/completion.h): a counter of  *)
(* events, and a wait queue of tasks waiting for one each.                 *)
(*                                                                         *)
(* x->wait.lock is held over every access to done and to the queue, so a   *)
(* stretch of code between taking and dropping it is one action.  Unlike a *)
(* semaphore, complete() gives the event to nobody in particular: it wakes *)
(* a waiter, which stays on the queue until it runs, and a newcomer may    *)
(* take the event first.                                                   *)
(***************************************************************************)
EXTENDS Naturals, KList, TaskState

CONSTANTS
  UINT_MAX,      \* the width of x->done
  MaxCompletes,  \* bound on the complete() calls between two initializations
  SignalKinds    \* the signals that are sent: plain ones, fatal ones or both

ASSUME CompletionAssumption ==
  /\ UINT_MAX \in Nat /\ MaxCompletes \in Nat
  /\ MaxCompletes + UINT_MAX \div 2 <= UINT_MAX
  /\ SignalKinds \subseteq {"plain", "fatal"}

VARIABLES
  done,        \* x->done
  task_list,   \* x->wait.task_list, by the task of each wait_queue_t
  wait_mode,   \* do_wait_for_common()'s state argument while the task is in it
  completes,   \* history: complete() calls since the last initialization
  all,         \* history: was complete_all() called since then?
  taken        \* history: the waits since then that consumed an event

compVars == <<done, task_list, wait_mode, completes, all, taken>>
completionVars == <<taskVars, compVars>>

CompletionLabels == {"idle", "schedule", "resumed", "dead"}

CompletionTypeOK ==
  /\ TaskTypeOK(CompletionLabels)
  /\ done \in 0..UINT_MAX
  /\ task_list \in Seq(Tasks)
  /\ wait_mode \in [Tasks -> States]
  /\ completes \in 0..MaxCompletes
  /\ all \in BOOLEAN
  /\ taken \in Nat

CompletionInit ==
  /\ TaskInit
  /\ done = 0
  /\ task_list = <<>>
  /\ wait_mode = [t \in Tasks |-> TASK_RUNNING]
  /\ completes = 0
  /\ all = FALSE
  /\ taken = 0

Uint(n) == n % (UINT_MAX + 1)

-----------------------------------------------------------------------------
(* __wake_up_common(), with every entry of the queue exclusive and woken   *)
(* by default_wake_function(): walk the queue and stop after the first     *)
(* nr = 1 task that really slept, or never with nr = 0.  A task on its way *)
(* into schedule() is made runnable and does not count.                    *)
Walked(nr) ==
  {task_list[i] : i \in {j \in 1..Len(task_list) :
     nr = 0 \/ \A k \in 1..(j - 1) : ~ttwu_success(task_list[k], TASK_NORMAL)}}

__wake_up_common(nr) == try_to_wake_up(Walked(nr), TASK_NORMAL)

complete_MutIdle ==              \* no wakeup when an event is already pending
  /\ completes < MaxCompletes /\ completes' = completes + 1
  /\ done' = Uint(done + 1)
  /\ IF done = 0 THEN __wake_up_common(1) ELSE UNCHANGED <<state, on_rq>>
  /\ UNCHANGED <<pc, sig, timer, task_list, wait_mode, all, taken>>

complete ==
  /\ completes < MaxCompletes /\ completes' = completes + 1
  /\ done' = Uint(done + 1)
  /\ __wake_up_common(1)
  /\ UNCHANGED <<pc, sig, timer, task_list, wait_mode, all, taken>>

(* complete_all() is followed by an initialization before it is called     *)
(* again: a second one would leave done two events short of wrapping.      *)
complete_all ==
  /\ ~all /\ all' = TRUE
  /\ done' = Uint(done + UINT_MAX \div 2)
  /\ __wake_up_common(0)
  /\ UNCHANGED <<pc, sig, timer, task_list, wait_mode, completes, taken>>

(* INIT_COMPLETION() of a completion nobody waits for. *)
INIT_COMPLETION ==
  /\ list_empty(task_list)
  /\ done' = 0
  /\ completes' = 0 /\ all' = FALSE /\ taken' = 0
  /\ UNCHANGED <<taskVars, task_list, wait_mode>>

-----------------------------------------------------------------------------
Take ==
  /\ done > 0
  /\ done' = Uint(done + UINT_MAX)   \* done - 1 in the unsigned word
  /\ taken' = taken + 1
  /\ UNCHANGED <<completes, all>>

LeaveWait_MutNoDel(t, q) ==      \* a signal or a timeout leaves the entry queued
  /\ task_list' = q
  /\ pc' = [pc EXCEPT ![t] = "idle"]
  /\ timer' = [timer EXCEPT ![t] = "none"]
  /\ wait_mode' = [wait_mode EXCEPT ![t] = TASK_RUNNING]
  /\ UNCHANGED <<state, on_rq>>

(* __remove_wait_queue() and the return. *)
LeaveWait(t, q) ==
  /\ task_list' = list_del(t, q)
  /\ pc' = [pc EXCEPT ![t] = "idle"]
  /\ timer' = [timer EXCEPT ![t] = "none"]
  /\ wait_mode' = [wait_mode EXCEPT ![t] = TASK_RUNNING]
  /\ UNCHANGED <<state, on_rq>>

SleepInWait(t, q, s, tm) ==
  /\ task_list' = q
  /\ pc' = [pc EXCEPT ![t] = "schedule"]
  /\ timer' = [timer EXCEPT ![t] = tm]
  /\ wait_mode' = [wait_mode EXCEPT ![t] = s]
  /\ set_task_state(t, s)

(* One turn of the loop of do_wait_for_common() with nothing done yet. *)
wait_loop(t, q, s, tm) ==
  /\ done = 0
  /\ IF signal_pending_state(s, t) THEN LeaveWait(t, q) ELSE SleepInWait(t, q, s, tm)
  /\ UNCHANGED <<sig, done, completes, all, taken>>

do_wait_for_common(t, s, tm) ==
  /\ pc[t] = "idle"
  /\ \/ Take /\ UNCHANGED <<taskVars, task_list, wait_mode>>
     \/ wait_loop(t, list_add_tail(t, task_list), s, tm)

wait_for_completion(t)               == do_wait_for_common(t, TASK_UNINTERRUPTIBLE, "none")
wait_for_completion_interruptible(t) == do_wait_for_common(t, TASK_INTERRUPTIBLE, "none")
wait_for_completion_killable(t)      == do_wait_for_common(t, TASK_KILLABLE, "none")

(* The three timed calls.  The timer may fire at any time, so a timeout of *)
(* 0 jiffies is among the behaviours.                                      *)
wait_for_completion_timeout(t)               == do_wait_for_common(t, TASK_UNINTERRUPTIBLE, "armed")
wait_for_completion_interruptible_timeout(t) == do_wait_for_common(t, TASK_INTERRUPTIBLE, "armed")
wait_for_completion_killable_timeout(t)      == do_wait_for_common(t, TASK_KILLABLE, "armed")

wait_resumed_MutTimeout(t) ==    \* a timed-out waiter consumes the event and reports 0
  /\ pc[t] = "resumed"
  /\ \/ /\ done > 0 /\ done' = Uint(done + UINT_MAX)
        /\ taken' = IF timer[t] = "expired" THEN taken ELSE taken + 1
        /\ UNCHANGED <<completes, all>>
        /\ LeaveWait(t, task_list) /\ UNCHANGED sig
     \/ /\ done = 0 /\ timer[t] = "expired"
        /\ LeaveWait(t, task_list)
        /\ UNCHANGED <<sig, done, completes, all, taken>>
     \/ timer[t] # "expired" /\ wait_loop(t, task_list, wait_mode[t], timer[t])

(* The lock is taken again: an event ends the wait even if the time is up  *)
(* or a signal is pending; without one, the timeout or the signal does.    *)
wait_resumed(t) ==
  /\ pc[t] = "resumed"
  /\ \/ Take /\ LeaveWait(t, task_list) /\ UNCHANGED sig
     \/ /\ done = 0 /\ timer[t] = "expired"
        /\ LeaveWait(t, task_list)
        /\ UNCHANGED <<sig, done, completes, all, taken>>
     \/ timer[t] # "expired" /\ wait_loop(t, task_list, wait_mode[t], timer[t])

(* try_wait_for_completion() that fails changes nothing. *)
try_wait_for_completion(t) ==
  /\ pc[t] = "idle"
  /\ Take
  /\ UNCHANGED <<taskVars, task_list, wait_mode>>

completion_done == done # 0

-----------------------------------------------------------------------------
CompletionSignals(t) ==
  /\ (\E kind \in SignalKinds : signal_wake_up(t, kind)) \/ do_signal(t)
  /\ UNCHANGED compVars

CompletionScheduling(t) == schedule(t) /\ UNCHANGED compVars

Timers(t) == process_timeout(t) /\ UNCHANGED compVars

Calls(t) ==
  \/ wait_for_completion(t) \/ wait_for_completion_timeout(t)
  \/ wait_for_completion_interruptible(t) \/ wait_for_completion_interruptible_timeout(t)
  \/ wait_for_completion_killable(t) \/ wait_for_completion_killable_timeout(t)
  \/ try_wait_for_completion(t)

CompletionNext ==
  \/ \E t \in Tasks : \/ Calls(t) \/ wait_resumed(t)
                      \/ CompletionScheduling(t) \/ Timers(t) \/ CompletionSignals(t)
  \/ complete \/ complete_all \/ INIT_COMPLETION

CompletionSpec == CompletionInit /\ [][CompletionNext]_completionVars

-----------------------------------------------------------------------------
InWait == {t \in Tasks : pc[t] \in {"schedule", "resumed"}}

Asleep(t) == pc[t] = "schedule" /\ state[t] # TASK_RUNNING

(* No event is lost, made or counted twice, in the width the counter has:  *)
(* done is what was completed less what the successful waits took.  A wait *)
(* that timed out or was interrupted has taken nothing.                    *)
DoneIsBalance ==
  done + taken = completes + (IF all THEN UINT_MAX \div 2 ELSE 0)

(* The wait_queue_t of a waiter is on its stack: the queue holds exactly   *)
(* the tasks inside do_wait_for_common(), once each.                       *)
NoDanglingEntry == LinkedOnce(task_list) /\ Entries(task_list) = InWait

(* Each event wakes somebody: while a waiter still sleeps, there are at    *)
(* least as many waiters awake as there are events to take, whether it was *)
(* complete(), a signal or a timer that woke them, so that no event sits   *)
(* there with everybody asleep after one wakeup too few.                   *)
EachEventWakes ==
  (\E t \in InWait : Asleep(t)) => Cardinality({t \in InWait : ~Asleep(t)}) >= done

=============================================================================
