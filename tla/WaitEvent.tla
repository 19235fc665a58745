----------------------------- MODULE WaitEvent -----------------------------
(***************************************************************************)
(* The wait_event() family of include/linux/wait.h, on the wait queues of  *)
(* module WaitQueue: sleep until a condition is true, with or without a    *)
(* timeout, interruptible or not, exclusive or not.                        *)
(*                                                                         *)
(* The condition is read without any lock.  Whoever changes it calls       *)
(* wake_up() or wake_up_all() afterwards; tasks may make it false again at *)
(* any time, as the consumer of an event does.                             *)
(***************************************************************************)
EXTENDS WaitQueue

CONSTANTS
  Wakers,        \* the tasks that change the condition; the others wait for it
  Uses,          \* the calls with which each of the others waits
  SignalKinds    \* the signals that are sent: plain ones, fatal ones or both

CallNames == {"wait_event", "wait_event_timeout", "interruptible", "interruptible_timeout",
              "interruptible_exclusive", "killable"}

ASSUME WaitEventAssumption ==
  /\ Wakers \subseteq Tasks /\ SignalKinds \subseteq {"plain", "fatal"}
  /\ Uses \in [Tasks \ Wakers -> SUBSET CallNames]

VARIABLES
  condition,   \* the condition the tasks wait for
  ret          \* what a task returns: "true", "timeout" or "intr"

eventVars == <<condition, mode, ret>>
vars == <<taskVars, wqVars, eventVars>>

WaitLabels == {"prep", "test", "schedule", "resumed", "finish", "finish_del", "abort"}

Labels == {"idle", "dead", "wake"} \cup WaitLabels \cup WalkLabels

TypeOK ==
  /\ TaskTypeOK(Labels)
  /\ WaitQueueTypeOK
  /\ nr <= 1
  /\ condition \in BOOLEAN
  /\ mode \in [Tasks -> States]
  /\ ret \in [Tasks -> {"true", "timeout", "intr"}]

Init ==
  /\ TaskInit
  /\ WaitQueueInit
  /\ condition = FALSE
  /\ mode = [t \in Tasks |-> TASK_RUNNING]
  /\ ret = [t \in Tasks |-> "true"]

-----------------------------------------------------------------------------
(* The first look at the condition; if it is true, nothing else is done.   *)
StartWait(t, call, s, tm, x) ==
  /\ t \notin Wakers /\ call \in Uses[t]
  /\ ~condition
  /\ Goto(t, "idle", "prep")
  /\ mode' = [mode EXCEPT ![t] = s]
  /\ timer' = [timer EXCEPT ![t] = tm]
  /\ excl' = [excl EXCEPT ![t] = x]
  /\ ret' = [ret EXCEPT ![t] = "true"]
  /\ UNCHANGED <<state, on_rq, sig, task_list, wq_lock, link, walkVars, condition>>

wait_event(t) == StartWait(t, "wait_event", TASK_UNINTERRUPTIBLE, "none", FALSE)
wait_event_timeout(t) ==
  StartWait(t, "wait_event_timeout", TASK_UNINTERRUPTIBLE, "armed", FALSE)
wait_event_interruptible(t) ==
  StartWait(t, "interruptible", TASK_INTERRUPTIBLE, "none", FALSE)
wait_event_interruptible_timeout(t) ==
  StartWait(t, "interruptible_timeout", TASK_INTERRUPTIBLE, "armed", FALSE)
wait_event_interruptible_exclusive(t) ==
  StartWait(t, "interruptible_exclusive", TASK_INTERRUPTIBLE, "none", TRUE)
wait_event_killable(t) == StartWait(t, "killable", TASK_KILLABLE, "none", FALSE)

wait_prepare(t) ==
  /\ Goto(t, "prep", "test")
  /\ prepare_to_wait(t, mode[t])
  /\ UNCHANGED eventVars

wait_test_MutBlind(t) ==         \* the first look at the condition is the only one
  /\ \/ /\ ~signal_pending_state(mode[t], t)
        /\ Goto(t, "test", "schedule") /\ UNCHANGED ret
     \/ /\ signal_pending_state(mode[t], t)
        /\ Goto(t, "test", IF excl[t] THEN "abort" ELSE "finish")
        /\ ret' = [ret EXCEPT ![t] = "intr"]
  /\ timer' = [timer EXCEPT ![t] = IF pc'[t] = "schedule" THEN timer[t] ELSE "none"]
  /\ UNCHANGED <<state, on_rq, sig, wqVars, condition, mode>>

(* Queued and in its sleeping state, the task looks at the condition       *)
(* again, and then, if its kind of wait listens to signals, for one.       *)
wait_test(t) ==
  /\ \/ condition /\ Goto(t, "test", "finish") /\ UNCHANGED ret
     \/ /\ ~condition /\ ~signal_pending_state(mode[t], t)
        /\ Goto(t, "test", "schedule") /\ UNCHANGED ret
     \/ /\ ~condition /\ signal_pending_state(mode[t], t)
        /\ Goto(t, "test", IF excl[t] THEN "abort" ELSE "finish")
        /\ ret' = [ret EXCEPT ![t] = "intr"]
  /\ timer' = [timer EXCEPT ![t] = IF pc'[t] = "schedule" THEN timer[t] ELSE "none"]
  /\ UNCHANGED <<state, on_rq, sig, wqVars, condition, mode>>

(* schedule_timeout() returned: no time left ends the wait. *)
wait_resumed(t) ==
  /\ \/ /\ timer[t] # "expired" /\ Goto(t, "resumed", "prep")
        /\ UNCHANGED <<timer, ret>>
     \/ /\ timer[t] = "expired" /\ Goto(t, "resumed", "finish")
        /\ timer' = [timer EXCEPT ![t] = "none"]
        /\ ret' = [ret EXCEPT ![t] = "timeout"]
  /\ UNCHANGED <<state, on_rq, sig, wqVars, condition, mode>>

(* The call returns: its entry and its locals are gone. *)
Forget(t) ==
  /\ UNCHANGED condition
  /\ IF pc'[t] = "idle"
       THEN /\ mode' = [mode EXCEPT ![t] = TASK_RUNNING]
                      /\ ret' = [ret EXCEPT ![t] = "true"]
       ELSE UNCHANGED <<mode, ret>>

wait_finish(t) ==
  /\ finish_wait(t, "idle") \/ finish_wait_del(t, "idle")
  /\ Forget(t)

wait_abort(t) == abort_exclusive_wait(t, TASK_INTERRUPTIBLE) /\ Forget(t)

-----------------------------------------------------------------------------
(* The condition becomes true, and a wakeup follows; or it becomes false.  *)
Post(t) ==
  /\ t \in Wakers
  /\ Goto(t, "idle", "wake")
  /\ condition' = TRUE
  /\ UNCHANGED <<state, on_rq, sig, timer, wqVars, mode, ret>>

Consume(t) ==
  /\ t \in Wakers /\ pc[t] = "idle" /\ condition
  /\ condition' = FALSE
  /\ UNCHANGED <<taskVars, wqVars, mode, ret>>

wake_up(t) == __wake_up(t, TASK_NORMAL, 1) /\ UNCHANGED eventVars
wake_up_all(t) == __wake_up(t, TASK_NORMAL, 0) /\ UNCHANGED eventVars

(* autoremove_wake_function() has no key to compare. *)
Walk(t) ==
  /\ walk_visit(t, TRUE) \/ walk_del(t) \/ walk_del2(t)
  /\ UNCHANGED eventVars

-----------------------------------------------------------------------------
(* Time passes for a timed wait until the task has left schedule(). *)
Timeout(t) ==
  /\ pc[t] = "schedule"
  /\ process_timeout(t)
  /\ UNCHANGED <<wqVars, eventVars>>

Signals(t) ==
  /\ t \notin Wakers
  /\ (\E kind \in SignalKinds : signal_wake_up(t, kind)) \/ do_signal(t)
  /\ UNCHANGED <<wqVars, eventVars>>

Scheduling(t) == schedule(t) /\ UNCHANGED <<wqVars, eventVars>>

Calls(t) ==
  \/ wait_event(t) \/ wait_event_timeout(t)
  \/ wait_event_interruptible(t) \/ wait_event_interruptible_timeout(t)
  \/ wait_event_interruptible_exclusive(t) \/ wait_event_killable(t)

Steps(t) == wait_test(t) \/ wait_resumed(t) \/ Walk(t)

Lockers(t) ==
  wait_prepare(t) \/ wait_finish(t) \/ wait_abort(t) \/ wake_up(t) \/ wake_up_all(t)

Next ==
  \E t \in Tasks : \/ Calls(t) \/ Steps(t) \/ Lockers(t) \/ Post(t) \/ Consume(t)
                   \/ Timeout(t) \/ Scheduling(t) \/ Signals(t)

Spec == Init /\ [][Next]_vars

(* A runnable task runs, and the ticket spinlock of the queue is fair: a   *)
(* task that finds it free again and again gets it.  Nobody else disables  *)
(* the other steps of a task, for which this is weak fairness.             *)
Fairness == \A t \in Tasks : SF_vars(Scheduling(t) \/ Steps(t) \/ Lockers(t))

FairSpec == Spec /\ Fairness

-----------------------------------------------------------------------------
Inside == {t \in Tasks : pc[t] \in WaitLabels}

Waking(t) ==
  \E w \in Tasks : pc[w] = "wake" \/ (pc[w] \in WalkLabels /\ t \in Entries(rest))

(* A waker never stores to the stack of a task that has returned, although *)
(* finish_wait() skips the lock when its entry is off the queue.           *)
NoStackScribble == StackSafe(Inside)

(* No wakeup falls between a waiter's look at the condition and its sleep, *)
(* nor past a waiter behind an exclusive one: if the condition is true,    *)
(* every non-exclusive waiter is awake or will be visited by a waker.      *)
NoLostWakeup ==
  \A t \in Tasks : Asleep(t) /\ ~excl[t] /\ condition => Waking(t)

(* A task in wait_event() comes back, or else sees the condition become    *)
(* false again: it cannot go on sleeping while the condition stays true.   *)
StableConditionReturns ==
  \A t \in Tasks \ Wakers : (t \in Inside /\ ~excl[t]) ~> (pc[t] = "idle" \/ ~condition)

=============================================================================
