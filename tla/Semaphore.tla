----------------------------- MODULE Semaphore -----------------------------
(***************************************************************************)
(* The counting semaphore of kernel/semaphore.c.                           *)
(*                                                                         *)
(* sem->lock is held over every access to count, wait_list and waiter.up,  *)
(* so each stretch of code between taking and dropping it is one action.   *)
(* Sleeping happens with the lock dropped: there, wakeups, signals and     *)
(* timer expiry interleave with everything else (module TaskState).        *)
(*                                                                         *)
(* A task holds at most one permit at a time.  up() is called by a holder, *)
(* or from a context that never called down() (an interrupt), which adds a *)
(* permit; the number of those is bounded by MaxPermits.                   *)
(***************************************************************************)
EXTENDS Naturals, KList, TaskState

CONSTANTS
  InitCount,   \* the value given to sema_init()
  MaxPermits   \* bound on InitCount plus the permits added by interrupts

ASSUME SemaphoreAssumption ==
  InitCount \in Nat /\ MaxPermits \in Nat /\ InitCount <= MaxPermits

VARIABLES
  count,       \* sem->count
  wait_list,   \* sem->wait_list, by the task of each semaphore_waiter
  up_,         \* waiter.up of the task's on-stack semaphore_waiter
  mode,        \* __down_common()'s state argument while the task is in it
  holders,     \* history: the tasks whose down() succeeded and that did not up()
  permits      \* history: InitCount plus the permits added by interrupts

semVars == <<count, wait_list, up_, mode, holders, permits>>
vars == <<taskVars, semVars>>

Labels == {"idle", "schedule", "resumed", "dead"}

TypeOK ==
  /\ TaskTypeOK(Labels)
  /\ count \in Nat
  /\ wait_list \in Seq(Tasks)
  /\ up_ \in [Tasks -> BOOLEAN]
  /\ mode \in [Tasks -> States]
  /\ holders \in SUBSET Tasks
  /\ permits \in Nat

Init ==
  /\ TaskInit
  /\ count = InitCount
  /\ wait_list = <<>>
  /\ up_ = [t \in Tasks |-> FALSE]
  /\ mode = [t \in Tasks |-> TASK_RUNNING]
  /\ holders = {}
  /\ permits = InitCount

-----------------------------------------------------------------------------
Leave_MutNoDel(t, q) ==          \* timed_out/interrupted without list_del()
  /\ wait_list' = q
  /\ pc' = [pc EXCEPT ![t] = "idle"]
  /\ timer' = [timer EXCEPT ![t] = "none"]
  /\ mode' = [mode EXCEPT ![t] = TASK_RUNNING]
  /\ UNCHANGED <<state, on_rq>>

(* __down_common() from the top of its loop, with the caller already on    *)
(* list q and s the state to sleep in: give up on a signal, give up when   *)
(* no time is left, or sleep.                                              *)
Leave(t, q) ==
  /\ wait_list' = list_del(t, q)
  /\ pc' = [pc EXCEPT ![t] = "idle"]
  /\ timer' = [timer EXCEPT ![t] = "none"]
  /\ mode' = [mode EXCEPT ![t] = TASK_RUNNING]
  /\ UNCHANGED <<state, on_rq>>

Sleep(t, q, s, tm) ==
  /\ wait_list' = q
  /\ pc' = [pc EXCEPT ![t] = "schedule"]
  /\ timer' = [timer EXCEPT ![t] = tm]
  /\ mode' = [mode EXCEPT ![t] = s]
  /\ set_task_state(t, s)

down_loop(t, q, s, tm) ==
  /\ IF signal_pending_state(s, t) \/ tm = "expired"
       THEN Leave(t, q)
       ELSE Sleep(t, q, s, tm)
  /\ UNCHANGED <<sig, count, up_, holders, permits>>

(* The contended path: queue at the tail, then the loop. *)
__down_common(t, s, tm) ==
  down_loop(t, list_add_tail(t, wait_list), s, tm)

(* A caller of down_*() that finds a permit takes it at once. *)
TakeCount(t) ==
  /\ count > 0
  /\ count' = count - 1
  /\ holders' = holders \cup {t}
  /\ UNCHANGED <<taskVars, wait_list, up_, mode, permits>>

Caller(t) == pc[t] = "idle" /\ t \notin holders

down_with(t, s, tm) ==
  /\ Caller(t)
  /\ TakeCount(t) \/ (count = 0 /\ __down_common(t, s, tm))

down(t)               == down_with(t, TASK_UNINTERRUPTIBLE, "none")
down_interruptible(t) == down_with(t, TASK_INTERRUPTIBLE, "none")
down_killable(t)      == down_with(t, TASK_KILLABLE, "none")
down_timeout(t)       == \E tm \in {"armed", "expired"} :   \* jiffies > 0, or <= 0
                           down_with(t, TASK_UNINTERRUPTIBLE, tm)

(* down_trylock() that fails changes nothing. *)
down_trylock(t) == Caller(t) /\ TakeCount(t)

down_resumed_MutTimeoutFirst(t) ==   \* the timeout is tested before waiter.up
  /\ pc[t] = "resumed"
  /\ \/ /\ up_[t]
        /\ pc' = [pc EXCEPT ![t] = "idle"]
        /\ timer' = [timer EXCEPT ![t] = "none"]
        /\ up_' = [up_ EXCEPT ![t] = FALSE]
        /\ mode' = [mode EXCEPT ![t] = TASK_RUNNING]
        /\ holders' = IF timer[t] = "expired" THEN holders ELSE holders \cup {t}
        /\ UNCHANGED <<state, on_rq, sig, count, wait_list, permits>>
     \/ /\ ~up_[t]
        /\ down_loop(t, wait_list, mode[t], timer[t])

(* The rest of __down_common()'s loop, after schedule_timeout() returned   *)
(* and sem->lock was taken again.                                          *)
down_resumed(t) ==
  /\ pc[t] = "resumed"
  /\ \/ /\ up_[t]
        /\ pc' = [pc EXCEPT ![t] = "idle"]
        /\ timer' = [timer EXCEPT ![t] = "none"]
        /\ up_' = [up_ EXCEPT ![t] = FALSE]
        /\ mode' = [mode EXCEPT ![t] = TASK_RUNNING]
        /\ holders' = holders \cup {t}
        /\ UNCHANGED <<state, on_rq, sig, count, wait_list, permits>>
     \/ /\ ~up_[t]
        /\ down_loop(t, wait_list, mode[t], timer[t])

-----------------------------------------------------------------------------
(* Mutants of this section, for the properties below. *)
up_MutNoWake ==                  \* __up() forgets wake_up_process()
  LET w == list_first_entry(wait_list)
  IN  /\ wait_list' = list_del(w, wait_list)
      /\ up_' = [up_ EXCEPT ![w] = TRUE]
      /\ UNCHANGED <<count, state, on_rq>>

up_MutCount ==                   \* up() bumps the count and wakes, as a mutex does
  LET w == list_first_entry(wait_list)
  IN  /\ count' = count + 1
      /\ wake_up_process(w)
      /\ UNCHANGED <<wait_list, up_>>

(* __up(): hand the permit to the first waiter and wake it. *)
__up ==
  LET w == list_first_entry(wait_list)
  IN  /\ wait_list' = list_del(w, wait_list)
      /\ up_' = [up_ EXCEPT ![w] = TRUE]
      /\ wake_up_process(w)
      /\ UNCHANGED count

up ==
  /\ \/ /\ list_empty(wait_list)
        /\ count' = count + 1
        /\ UNCHANGED <<wait_list, up_, state, on_rq>>
     \/ /\ ~list_empty(wait_list)
        /\ __up
  /\ UNCHANGED <<pc, sig, timer, mode>>

up_holder(t) ==
  /\ t \in holders
  /\ holders' = holders \ {t}
  /\ UNCHANGED permits
  /\ up

up_interrupt ==
  /\ permits < MaxPermits
  /\ permits' = permits + 1
  /\ UNCHANGED holders
  /\ up

-----------------------------------------------------------------------------
(* A holder is inside the kernel: it does not return to user space. *)
Signals(t) ==
  /\ \/ \E kind \in {"plain", "fatal"} : signal_wake_up(t, kind)
     \/ t \notin holders /\ do_signal(t)
  /\ UNCHANGED semVars

Scheduling(t) == (schedule(t) \/ process_timeout(t)) /\ UNCHANGED semVars

Next ==
  \/ \E t \in Tasks :
       \/ down(t) \/ down_interruptible(t) \/ down_killable(t)
       \/ down_timeout(t) \/ down_trylock(t) \/ down_resumed(t)
       \/ up_holder(t) \/ Scheduling(t) \/ Signals(t)
  \/ up_interrupt

Spec == Init /\ [][Next]_vars

-----------------------------------------------------------------------------
(* A runnable task is run, the code after a sleep is executed, and whoever *)
(* holds a permit calls up() in the end.  Nothing is assumed of new calls, *)
(* of signals or of interrupts.                                            *)
Fairness ==
  \A t \in Tasks :
    /\ WF_vars(schedule(t) /\ UNCHANGED semVars)
    /\ WF_vars(process_timeout(t) /\ UNCHANGED semVars)
    /\ WF_vars(down_resumed(t))
    /\ WF_vars(up_holder(t))

FairSpec == Spec /\ Fairness

-----------------------------------------------------------------------------
Granted == {t \in Tasks : up_[t]}

Waiting == {t \in Tasks : pc[t] \in {"schedule", "resumed"} /\ ~up_[t]}

(* No permit is lost or made twice, however up(), timeout and signal race: *)
(* each one is in the count, with a holder, or already given to a waiter   *)
(* that has not run yet.                                                   *)
PermitsConserved ==
  count + Cardinality(holders) + Cardinality(Granted) = permits

(* semaphore_waiter lives on the stack of its task.  The list holds        *)
(* exactly the waiters still inside __down_common() and not yet given the  *)
(* semaphore: an entry left behind by a timeout or a signal would be a     *)
(* dangling pointer for the next up().                                     *)
NoDanglingWaiter ==
  LinkedOnce(wait_list) /\ Entries(wait_list) = Waiting

(* The count is positive only when nobody waits: a newcomer never takes a  *)
(* permit past a queued task.                                              *)
NoBarging == count > 0 => list_empty(wait_list)

(* A waiter that was given the semaphore is never left asleep, and it is   *)
(* in __down_common(), where it will find waiter.up set.                   *)
GrantIsAwake ==
  \A t \in Granted : /\ state[t] = TASK_RUNNING /\ on_rq[t]
                     /\ pc[t] \in {"schedule", "resumed"}
                     /\ t \notin holders

(* A waiter that was given the semaphore returns 0 and holds it, even when *)
(* a signal is pending or its time ran out before it could run.            *)
GrantNeverRefused ==
  [][\A t \in Tasks : up_[t] /\ ~up_'[t] => t \in holders']_vars

(* down() returns with the semaphore in the end: the queue is first in,    *)
(* first out, so no stream of other callers, timeouts or signals starves a *)
(* waiter.                                                                 *)
DownSucceeds ==
  \A t \in Tasks :
    (pc[t] = "schedule" /\ mode[t] = TASK_UNINTERRUPTIBLE /\ timer[t] = "none")
      ~> (t \in holders)

=============================================================================
