------------------------------- MODULE Mutex -------------------------------
(***************************************************************************)
(* The sleeping mutex of kernel/mutex.c, with the x86-32 fast paths of     *)
(* asm/mutex_32.h and the optimistic spinning of an SMP build.             *)
(*                                                                         *)
(* lock->count is changed by single atomic instructions, with or without   *)
(* lock->wait_lock, so each of them is an action of its own; wait_list is  *)
(* changed only under wait_lock.  A holder leaves the mutex in two or more *)
(* steps (clear the owner, increment the count, take wait_lock, set the    *)
(* count, wake the first waiter) and any other task may run between them.  *)
(***************************************************************************)
EXTENDS Integers, KList, TaskState

CONSTANTS
  NoTask,        \* the NULL of lock->owner, and of a free wait_lock
  HaveCmpxchg,   \* __HAVE_ARCH_CMPXCHG: which mutex_trylock() is built
  SignalKinds    \* the signals that are sent: plain ones, fatal ones or both

ASSUME MutexAssumption ==
  /\ NoTask \notin Tasks /\ HaveCmpxchg \in BOOLEAN
  /\ SignalKinds \subseteq {"plain", "fatal"}

VARIABLES
  count,       \* lock->count: 1 unlocked, 0 locked, < 0 locked, maybe waiters
  owner,       \* lock->owner, written without any lock
  wait_list,   \* lock->wait_list, by the task of each mutex_waiter
  wait_lock,   \* the holder of lock->wait_lock
  spin,        \* the owner a spinner read at the top of its loop
  mode,        \* __mutex_lock_common()'s state argument
  held         \* history: the tasks between getting and giving up the mutex

mutexVars == <<count, owner, wait_list, wait_lock, spin, mode, held>>
vars == <<taskVars, mutexVars>>

Labels == {"idle", "spin", "spin_on", "cmpxchg", "slow", "try", "schedule", "resumed",
           "done", "set_owner", "critical", "unlock", "unlock_slow", "unlock_wake",
           "trylock_slow", "dead"}

TypeOK ==
  /\ TaskTypeOK(Labels)
  /\ count \in Int /\ count <= 1
  /\ owner \in Tasks \cup {NoTask}
  /\ wait_list \in Seq(Tasks)
  /\ wait_lock \in Tasks \cup {NoTask}
  /\ spin \in [Tasks -> Tasks \cup {NoTask}]
  /\ mode \in [Tasks -> States]
  /\ held \in SUBSET Tasks

Init ==
  /\ TaskInit
  /\ count = 1
  /\ owner = NoTask
  /\ wait_list = <<>>
  /\ wait_lock = NoTask
  /\ spin = [t \in Tasks |-> NoTask]
  /\ mode = [t \in Tasks |-> TASK_RUNNING]
  /\ held = {}

Goto(t, from, to) == pc[t] = from /\ pc' = [pc EXCEPT ![t] = to]

-----------------------------------------------------------------------------
fastpath_lock_MutSign(t, s) ==   \* "jns" tests the value before the decrement
  /\ count' = count - 1
  /\ \/ count >= 0 /\ Goto(t, "idle", "set_owner") /\ held' = held \cup {t} /\ UNCHANGED mode
     \/ /\ count < 0 /\ Goto(t, "idle", "spin")
        /\ mode' = [mode EXCEPT ![t] = s] /\ UNCHANGED held
  /\ UNCHANGED <<state, on_rq, sig, timer, owner, wait_list, wait_lock, spin>>

(* The lock fast path: decrement the count; 0 or more means the mutex was  *)
(* free.  Otherwise s is the state the slow path may sleep in.             *)
__mutex_fastpath_lock(t, s) ==
  /\ count' = count - 1
  /\ \/ /\ count - 1 >= 0
        /\ Goto(t, "idle", "set_owner")
        /\ held' = held \cup {t}
        /\ UNCHANGED mode
     \/ /\ count - 1 < 0
        /\ Goto(t, "idle", "spin")
        /\ mode' = [mode EXCEPT ![t] = s]
        /\ UNCHANGED held
  /\ UNCHANGED <<state, on_rq, sig, timer, owner, wait_list, wait_lock, spin>>

mutex_lock(t)               == __mutex_fastpath_lock(t, TASK_UNINTERRUPTIBLE)
mutex_lock_interruptible(t) == __mutex_fastpath_lock(t, TASK_INTERRUPTIBLE)
mutex_lock_killable(t)      == __mutex_fastpath_lock(t, TASK_KILLABLE)

(* The store after the mutex was taken, whichever way that happened. *)
mutex_set_owner(t) ==
  /\ Goto(t, "set_owner", "critical")
  /\ owner' = t
  /\ mode' = [mode EXCEPT ![t] = TASK_RUNNING]
  /\ UNCHANGED <<state, on_rq, sig, timer, count, wait_list, wait_lock, spin, held>>

-----------------------------------------------------------------------------
(* Optimistic spinning.  A task that owns the BKL does not start it.       *)
spin_start(t) ==
  /\ \/ spin' = [spin EXCEPT ![t] = owner]
        /\ Goto(t, "spin", IF owner = NoTask THEN "cmpxchg" ELSE "spin_on")
     \/ Goto(t, "spin", "slow") /\ UNCHANGED spin
  /\ UNCHANGED <<state, on_rq, sig, timer, count, owner, wait_list, wait_lock, mode, held>>

(* The owner is no longer the one that was read: try to take the mutex if  *)
(* it has none now, stop spinning if somebody else got it first.           *)
mutex_spin_on_owner(t) ==
  /\ owner # spin[t]
  /\ Goto(t, "spin_on", IF owner = NoTask THEN "cmpxchg" ELSE "slow")
  /\ UNCHANGED <<state, on_rq, sig, timer, mutexVars>>

(* The owner is not running, or need_resched(), or its CPU field is stale: *)
(* any of them may be so at any time.                                      *)
spin_stop(t) ==
  /\ Goto(t, "spin_on", "slow")
  /\ UNCHANGED <<state, on_rq, sig, timer, mutexVars>>

(* cmpxchg(count, 1, 0).  A spinner that failed and had seen no owner      *)
(* stops if it has to reschedule or is a real-time task.                   *)
spin_cmpxchg(t) ==
  /\ \/ /\ count = 1
        /\ count' = 0
        /\ held' = held \cup {t}
        /\ Goto(t, "cmpxchg", "set_owner")
     \/ /\ count # 1
        /\ \/ Goto(t, "cmpxchg", "spin")
           \/ spin[t] = NoTask /\ Goto(t, "cmpxchg", "slow")
        /\ UNCHANGED <<count, held>>
  /\ spin' = [spin EXCEPT ![t] = NoTask]
  /\ UNCHANGED <<state, on_rq, sig, timer, owner, wait_list, wait_lock, mode>>

-----------------------------------------------------------------------------
(* The slow path.  xchg(count, -1) both takes the mutex, if it returns 1,  *)
(* and tells the holder that there is somebody to wake.                    *)
Xchg(t) ==
  /\ count' = -1
  /\ held' = IF count = 1 THEN held \cup {t} ELSE held

slow_enqueue(t) ==
  /\ wait_lock = NoTask /\ wait_lock' = t
  /\ wait_list' = list_add_tail(t, wait_list)
  /\ Xchg(t)
  /\ Goto(t, "slow", IF count = 1 THEN "done" ELSE "try")
  /\ UNCHANGED <<state, on_rq, sig, timer, owner, spin, mode>>

SlowTake(t) ==
  /\ count = 1 /\ Xchg(t)
  /\ pc' = [pc EXCEPT ![t] = "done"]
  /\ wait_lock' = t
  /\ UNCHANGED <<state, on_rq, mode, wait_list>>

SlowInterrupted_MutFirst(t) ==   \* the signal is tested before the xchg
  /\ signal_pending_state(mode[t], t)
  /\ pc' = [pc EXCEPT ![t] = "idle"]
  /\ mode' = [mode EXCEPT ![t] = TASK_RUNNING]
  /\ wait_list' = list_del(t, wait_list)
  /\ wait_lock' = NoTask
  /\ UNCHANGED <<state, on_rq, count, held>>

SlowInterrupted_MutAny(t) ==     \* any signal ends any wait
  /\ count # 1 /\ Xchg(t)
  /\ sig[t] # "none"
  /\ pc' = [pc EXCEPT ![t] = "idle"]
  /\ mode' = [mode EXCEPT ![t] = TASK_RUNNING]
  /\ wait_list' = list_del(t, wait_list)
  /\ wait_lock' = NoTask
  /\ UNCHANGED <<state, on_rq>>

SlowInterrupted(t) ==
  /\ count # 1 /\ Xchg(t)
  /\ signal_pending_state(mode[t], t)
  /\ pc' = [pc EXCEPT ![t] = "idle"]
  /\ mode' = [mode EXCEPT ![t] = TASK_RUNNING]
  /\ wait_list' = list_del(t, wait_list)
  /\ wait_lock' = NoTask
  /\ UNCHANGED <<state, on_rq>>

SlowSleep(t) ==
  /\ count # 1 /\ Xchg(t)
  /\ ~signal_pending_state(mode[t], t)
  /\ pc' = [pc EXCEPT ![t] = "schedule"]
  /\ set_task_state(t, mode[t])
  /\ wait_lock' = NoTask
  /\ UNCHANGED <<mode, wait_list>>

(* One turn of the loop, at its top or after schedule() returned and       *)
(* wait_lock was taken again: take the mutex, give up, or sleep.           *)
slow_try(t) ==
  /\ \/ pc[t] = "try" /\ wait_lock = t
     \/ pc[t] = "resumed" /\ wait_lock = NoTask
  /\ SlowTake(t) \/ SlowInterrupted(t) \/ SlowSleep(t)
  /\ UNCHANGED <<sig, timer, owner, spin>>

(* The mutex was taken under wait_lock: leave the list, and drop the count *)
(* to plain "locked" when nobody else waits.                               *)
slow_done(t) ==
  /\ Goto(t, "done", "set_owner")
  /\ wait_list' = list_del(t, wait_list)
  /\ owner' = t
  /\ count' = IF list_empty(wait_list') THEN 0 ELSE count
  /\ wait_lock' = NoTask
  /\ UNCHANGED <<state, on_rq, sig, timer, spin, mode, held>>

-----------------------------------------------------------------------------
(* mutex_trylock(): cmpxchg(count, 1, 0), or, without that instruction, an *)
(* xchg under wait_lock that is taken back when nobody waits.              *)
mutex_trylock(t) ==
  /\ HaveCmpxchg
  /\ count = 1 /\ count' = 0
  /\ held' = held \cup {t}
  /\ Goto(t, "idle", "set_owner")
  /\ UNCHANGED <<state, on_rq, sig, timer, owner, wait_list, wait_lock, spin, mode>>

trylock_xchg(t) ==
  /\ ~HaveCmpxchg
  /\ wait_lock = NoTask /\ wait_lock' = t
  /\ Xchg(t)
  /\ owner' = IF count = 1 THEN t ELSE owner
  /\ Goto(t, "idle", "trylock_slow")
  /\ UNCHANGED <<state, on_rq, sig, timer, wait_list, spin, mode>>

__mutex_trylock_slowpath(t) ==
  /\ Goto(t, "trylock_slow", IF t \in held THEN "set_owner" ELSE "idle")
  /\ count' = IF list_empty(wait_list) THEN 0 ELSE count
  /\ wait_lock' = NoTask
  /\ UNCHANGED <<state, on_rq, sig, timer, owner, wait_list, spin, mode, held>>

-----------------------------------------------------------------------------
clear_owner_MutLate(t) ==        \* mutex_unlock() leaves the owner to the slow path
  /\ Goto(t, "critical", "unlock")
  /\ UNCHANGED <<state, on_rq, sig, timer, mutexVars>>

mutex_clear_owner(t) ==
  /\ Goto(t, "critical", "unlock")
  /\ owner' = NoTask
  /\ UNCHANGED <<state, on_rq, sig, timer, count, wait_list, wait_lock, spin, mode, held>>

(* The unlock fast path: increment the count; 1 means there are no waiters.*)
__mutex_fastpath_unlock(t) ==
  /\ count' = count + 1
  /\ \/ count + 1 > 0 /\ Goto(t, "unlock", "idle") /\ held' = held \ {t}
     \/ count + 1 <= 0 /\ Goto(t, "unlock", "unlock_slow") /\ UNCHANGED held
  /\ UNCHANGED <<state, on_rq, sig, timer, owner, wait_list, wait_lock, spin, mode>>

(* __mutex_unlock_common_slowpath(): from here on the mutex can be taken,  *)
(* by a spinner or a newcomer too, before the first waiter is woken.       *)
unlock_set(t) ==
  /\ wait_lock = NoTask /\ wait_lock' = t
  /\ count' = 1
  /\ held' = held \ {t}
  /\ Goto(t, "unlock_slow", "unlock_wake")
  /\ UNCHANGED <<state, on_rq, sig, timer, owner, wait_list, spin, mode>>

unlock_wake_MutNone(t) ==        \* nobody is woken
  /\ Goto(t, "unlock_wake", "idle")
  /\ wait_lock' = NoTask
  /\ UNCHANGED <<state, on_rq, sig, timer, count, owner, wait_list, spin, mode, held>>

unlock_wake(t) ==
  /\ Goto(t, "unlock_wake", "idle")
  /\ wait_lock' = NoTask
  /\ IF list_empty(wait_list) THEN UNCHANGED <<state, on_rq>>
                              ELSE wake_up_process(list_first_entry(wait_list))
  /\ UNCHANGED <<sig, timer, count, owner, wait_list, spin, mode, held>>

-----------------------------------------------------------------------------
Signals(t) ==
  /\ (\E kind \in SignalKinds : signal_wake_up(t, kind)) \/ do_signal(t)
  /\ UNCHANGED mutexVars

Scheduling(t) == schedule(t) /\ UNCHANGED mutexVars

Calls(t) ==
  \/ mutex_lock(t) \/ mutex_lock_interruptible(t) \/ mutex_lock_killable(t)
  \/ mutex_trylock(t) \/ trylock_xchg(t)

(* The steps a task takes by itself once it has called. *)
Lockless(t) ==
  \/ mutex_set_owner(t) \/ spin_start(t) \/ mutex_spin_on_owner(t) \/ spin_cmpxchg(t)
  \/ __mutex_fastpath_unlock(t) \/ mutex_clear_owner(t)

Locked(t) ==
  \/ slow_enqueue(t) \/ slow_try(t) \/ slow_done(t)
  \/ unlock_set(t) \/ unlock_wake(t) \/ __mutex_trylock_slowpath(t)

Next ==
  \E t \in Tasks :
    \/ Calls(t) \/ Lockless(t) \/ spin_stop(t) \/ Locked(t)
    \/ Scheduling(t) \/ Signals(t)

Spec == Init /\ [][Next]_vars

(* A runnable task runs.  wait_lock is a ticket spinlock on this           *)
(* architecture, so a task that waits for it gets it although others take  *)
(* it again and again: strong fairness.  A holder calls mutex_unlock() in  *)
(* the end (mutex_clear_owner is its first step).  Nothing is assumed of   *)
(* new calls, of signals, or of a spinner's luck.                          *)
Fairness ==
  \A t \in Tasks :
    /\ WF_vars(Scheduling(t))
    /\ WF_vars(Lockless(t))
    /\ SF_vars(Locked(t))

FairSpec == Spec /\ Fairness

-----------------------------------------------------------------------------
(* "only one task can hold the mutex at a time" (include/linux/mutex.h),   *)
(* whichever of the five ways in it took.                                  *)
MutualExclusion == \A t, u \in held : t = u

(* The count is 1 exactly when nobody is between taking and releasing the  *)
(* mutex: mutex_is_locked() tells the truth, and a count below 1 always    *)
(* has a holder that will raise it again.                                  *)
CountMeansHeld == count = 1 <=> held = {}

(* lock->owner is written without a lock, but never names a task that is   *)
(* not the holder: mutex_spin_on_owner() dereferences it.                  *)
OwnerIsHolder == owner = NoTask \/ owner \in held

(* Is task t on its way to look at the count again? *)
Awake(t) == \/ pc[t] \in {"try", "resumed", "done"}
            \/ pc[t] = "schedule" /\ state[t] = TASK_RUNNING /\ on_rq[t]

Unlocking == \E t \in Tasks : pc[t] \in {"unlock_slow", "unlock_wake"}

(* A sleeping waiter is never forgotten.  If the count would let the       *)
(* holder's fast path skip the wakeup, then a queued task is awake and     *)
(* will lower the count again, or an unlocker is about to wake the first.  *)
NoLostWakeup ==
  wait_list # <<>> /\ count >= 0 =>
    Unlocking \/ \E t \in Entries(wait_list) : Awake(t)

SlowPath == {t \in Tasks : pc[t] \in {"try", "schedule", "resumed", "done"}}

(* The list holds exactly the tasks inside the slow path, once each: a     *)
(* waiter that leaves with -EINTR or with the mutex takes its on-stack     *)
(* entry with it.                                                          *)
ListIsSlowPath == LinkedOnce(wait_list) /\ Entries(wait_list) = SlowPath

(* As long as somebody is blocked in mutex_lock(), the mutex is taken      *)
(* again and again: nobody waits for a mutex that stays free.              *)
MutexProgress ==
  (\E t \in Tasks : pc[t] = "schedule" /\ mode[t] = TASK_UNINTERRUPTIBLE) ~> held # {}
-----------------------------------------------------------------------------
(* The mutex as its callers see it. *)
CallState == [t \in Tasks |-> IF t \in held THEN "in"
                              ELSE IF mode[t] # TASK_RUNNING THEN "wait" ELSE "out"]

Interrupted == {t \in Tasks : signal_pending_state(mode[t], t)}

Abstract == INSTANCE BlockingLock WITH st <- CallState, mayFail <- Interrupted

(* Seen from outside, the mutex is an atomic lock: every fast path, spin   *)
(* and slow path is one acquisition of a free mutex, a call fails only     *)
(* with a signal pending that its kind of wait listens to, and             *)
(* mutex_unlock() releases once.                                           *)
ImplementsBlockingLock == Abstract!LockSpec

=============================================================================
