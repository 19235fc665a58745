-------------------------- MODULE MutexSrcuProofs --------------------------
(***************************************************************************)
(* Proofs about two primitives that share nothing but the lock: Mutex's    *)
(* safety properties and its refinement of BlockingLock, for every finite  *)
(* set of tasks and both builds of mutex_trylock(); and the grace period   *)
(* of SRCU, for every finite set of readers, any number of updaters and    *)
(* CPUs, store buffers of any size and counters of any width that the      *)
(* readers fit in.                                                         *)
(***************************************************************************)
EXTENDS Mutex, SRCU, KListProofs, FiniteSetTheorems, TLAPS

(* Where a task is that has the mutex, and where one has wait_lock. *)
HeldLabels == {"done", "set_owner", "critical", "unlock", "unlock_slow"}
WaitLockLabels == {"try", "done", "unlock_wake", "trylock_slow"}

HeldByLabel ==
  /\ \A t \in Tasks : pc[t] \in HeldLabels => t \in held
  /\ \A t \in held : pc[t] \in HeldLabels \cup {"trylock_slow"}

WaitLockByLabel == \A t \in Tasks : wait_lock = t <=> pc[t] \in WaitLockLabels

(* A failed __mutex_trylock_slowpath() has lowered the count of a mutex    *)
(* that somebody else has, and that somebody cannot have released it yet:  *)
(* the slow path it was sent to needs wait_lock.                           *)
TrylockPending ==
  \A t \in Tasks : pc[t] = "trylock_slow" =>
    t \in held \/ \E u \in held : count < 0 \/ pc[u] = "unlock_slow"

(* The count stays negative from the xchg that took the mutex until the    *)
(* new holder has left the list.                                           *)
DoneIsNegative == \A t \in Tasks : pc[t] = "done" => count < 0

(* mutex_unlock() clears the owner before anybody else can get the mutex,  *)
(* and only a task that got it stores another owner.                       *)
OwnerCleared == \A t \in Tasks : pc[t] \in {"unlock", "unlock_slow"} => owner = NoTask

(* The inductive invariant of the lock word. *)
LInv ==
  /\ TypeOK /\ HeldByLabel /\ WaitLockByLabel
  /\ MutualExclusion /\ CountMeansHeld /\ OwnerIsHolder
  /\ TrylockPending /\ DoneIsNegative /\ OwnerCleared

(* An initialized mutex (mutex_init()) satisfies the invariant of the lock word. *)
LEMMA InitLInv == Init => LInv
  BY MutexAssumption DEF Init, TaskInit, LInv, TypeOK, TaskTypeOK, Labels, States,
     HeldByLabel, HeldLabels, WaitLockByLabel, WaitLockLabels, MutualExclusion,
     CountMeansHeld, OwnerIsHolder, TrylockPending, DoneIsNegative, OwnerCleared

(* Every step keeps the types. *)
LEMMA NextTypeOK ==
  ASSUME LInv, ListIsSlowPath, Next
  PROVE  TypeOK'
  <1>0. TypeOK /\ HeldByLabel /\ CountMeansHeld
    BY DEF LInv
  <1> USE DEF TypeOK, TaskTypeOK, Labels, Goto
  <1>1. ASSUME NEW t \in Tasks, Calls(t) PROVE TypeOK'
    BY <1>0, <1>1 DEF Calls, mutex_lock, mutex_lock_interruptible, mutex_lock_killable,
       __mutex_fastpath_lock, mutex_trylock, trylock_xchg, Xchg, States
  <1>2. ASSUME NEW t \in Tasks, Lockless(t) PROVE TypeOK'
    <2>1. CASE __mutex_fastpath_unlock(t)
      <3>1. count # 1
        BY <1>0, <2>1 DEF __mutex_fastpath_unlock, HeldByLabel, HeldLabels, CountMeansHeld
      <3>2. QED
        BY <1>0, <2>1, <3>1 DEF __mutex_fastpath_unlock
    <2>2. CASE ~__mutex_fastpath_unlock(t)
      BY <1>0, <1>2, <2>2 DEF Lockless, mutex_set_owner, spin_start, mutex_spin_on_owner,
         spin_cmpxchg, mutex_clear_owner, mutexVars, States
    <2>3. QED
      BY <2>1, <2>2
  <1>3. ASSUME NEW t \in Tasks, spin_stop(t) PROVE TypeOK'
    BY <1>0, <1>3 DEF spin_stop, mutexVars
  <1>4. ASSUME NEW t \in Tasks, Locked(t) PROVE TypeOK'
    <2>1. CASE slow_enqueue(t)
      BY <1>0, <2>1, ListAddTail DEF slow_enqueue, Xchg
    <2>2. CASE slow_try(t)
      <3>1. t \in Entries(wait_list)
        BY <1>0, <2>2 DEF slow_try, ListIsSlowPath, SlowPath
      <3>2. list_del(t, wait_list) \in Seq(Tasks)
        BY <1>0, <3>1, ListDel DEF ListIsSlowPath
      <3>3. count' = -1 /\ held' \in SUBSET Tasks /\ UNCHANGED <<sig, timer, owner, spin>>
        BY <1>0, <2>2 DEF slow_try, SlowTake, SlowInterrupted, SlowSleep, Xchg
      <3>4. CASE SlowTake(t)
        BY <1>0, <3>3, <3>4 DEF SlowTake
      <3>5. CASE SlowInterrupted(t)
        BY <1>0, <3>2, <3>3, <3>5 DEF SlowInterrupted, States
      <3>6. CASE SlowSleep(t)
        BY <1>0, <3>3, <3>6 DEF SlowSleep, set_task_state
      <3>7. QED
        BY <2>2, <3>4, <3>5, <3>6 DEF slow_try
    <2>3. CASE slow_done(t)
      <3>1. t \in Entries(wait_list)
        BY <1>0, <2>3 DEF slow_done, ListIsSlowPath, SlowPath
      <3>2. list_del(t, wait_list) \in Seq(Tasks)
        BY <1>0, <3>1, ListDel DEF ListIsSlowPath
      <3>3. QED
        BY <1>0, <2>3, <3>2 DEF slow_done
    <2>4. CASE unlock_set(t)
      BY <1>0, <2>4 DEF unlock_set
    <2>5. CASE unlock_wake(t)
      BY <1>0, <2>5 DEF unlock_wake, wake_up_process, try_to_wake_up, States
    <2>6. CASE __mutex_trylock_slowpath(t)
      BY <1>0, <2>6 DEF __mutex_trylock_slowpath
    <2>7. QED
      BY <1>4, <2>1, <2>2, <2>3, <2>4, <2>5, <2>6 DEF Locked
  <1>5. ASSUME NEW t \in Tasks, Scheduling(t) PROVE TypeOK'
    BY <1>0, <1>5 DEF Scheduling, schedule, deactivate_task, schedule_returns, mutexVars, States
  <1>6. ASSUME NEW t \in Tasks, Signals(t) PROVE TypeOK'
    <2>1. ASSUME NEW kind \in SignalKinds, signal_wake_up(t, kind), UNCHANGED mutexVars
          PROVE  TypeOK'
      <3>1. kind \in {"none", "plain", "fatal"}
        BY <2>1, MutexAssumption
      <3>2. sig' \in [Tasks -> {"none", "plain", "fatal"}]
        BY <1>0, <2>1, <3>1 DEF signal_wake_up
      <3>3. PICK mask : try_to_wake_up({t}, mask)
        BY <2>1 DEF signal_wake_up
      <3>4. state' \in [Tasks -> States] /\ on_rq' \in [Tasks -> BOOLEAN]
        BY <1>0, <3>3 DEF try_to_wake_up, States
      <3>5. QED
        BY <1>0, <2>1, <3>2, <3>4 DEF signal_wake_up, mutexVars
    <2>2. CASE do_signal(t) /\ UNCHANGED mutexVars
      BY <1>0, <2>2 DEF do_signal, mutexVars
    <2>3. QED
      BY <1>6, <2>1, <2>2 DEF Signals
  <1>7. QED
    BY <1>1, <1>2, <1>3, <1>4, <1>5, <1>6 DEF Next

(* Who has the mutex and who has wait_lock, and what that says of the      *)
(* count, after every step that touches them.                              *)
LEMMA NextLockWord ==
  ASSUME LInv, Next
  PROVE  /\ HeldByLabel' /\ WaitLockByLabel' /\ MutualExclusion' /\ CountMeansHeld'
         /\ OwnerIsHolder' /\ TrylockPending' /\ DoneIsNegative' /\ OwnerCleared'
  <1> DEFINE Core == /\ HeldByLabel /\ WaitLockByLabel /\ MutualExclusion /\ CountMeansHeld
                     /\ OwnerIsHolder /\ TrylockPending /\ DoneIsNegative /\ OwnerCleared
  <1>0. /\ Core
        /\ pc \in [Tasks -> Labels] /\ count \in Int /\ count <= 1 /\ held \in SUBSET Tasks
        /\ wait_lock \in Tasks \cup {NoTask} /\ NoTask \notin Tasks
    BY MutexAssumption DEF LInv, TypeOK, TaskTypeOK
  <1> USE <1>0 DEF Goto, HeldByLabel, HeldLabels, WaitLockByLabel, WaitLockLabels,
          MutualExclusion, CountMeansHeld, OwnerIsHolder, TrylockPending, DoneIsNegative, OwnerCleared
  <1>1. ASSUME NEW t \in Tasks, NEW s, __mutex_fastpath_lock(t, s) PROVE Core'
    BY <1>1 DEF __mutex_fastpath_lock
  <1>2. ASSUME NEW t \in Tasks, mutex_trylock(t) \/ trylock_xchg(t) PROVE Core'
    <2>1. CASE mutex_trylock(t)
      BY <2>1 DEF mutex_trylock
    <2>2. CASE trylock_xchg(t)
      BY <2>2 DEF trylock_xchg, Xchg
    <2>3. QED
      BY <1>2, <2>1, <2>2
  <1>3. ASSUME NEW t \in Tasks, Lockless(t) PROVE Core'
    <2>1. CASE mutex_set_owner(t)
      BY <2>1 DEF mutex_set_owner
    <2>2. CASE spin_start(t)
      BY <2>2 DEF spin_start
    <2>3. CASE mutex_spin_on_owner(t)
      BY <2>3 DEF mutex_spin_on_owner, mutexVars
    <2>4. CASE spin_cmpxchg(t)
      BY <2>4 DEF spin_cmpxchg
    <2>5. CASE __mutex_fastpath_unlock(t)
      BY <2>5 DEF __mutex_fastpath_unlock
    <2>6. CASE mutex_clear_owner(t)
      BY <2>6 DEF mutex_clear_owner
    <2>7. QED
      BY <1>3, <2>1, <2>2, <2>3, <2>4, <2>5, <2>6 DEF Lockless
  <1>4. ASSUME NEW t \in Tasks, spin_stop(t) PROVE Core'
    BY <1>4 DEF spin_stop, mutexVars
  <1>5. ASSUME NEW t \in Tasks, Locked(t) PROVE Core'
    <2>1. CASE slow_enqueue(t)
      BY <2>1 DEF slow_enqueue, Xchg
    <2>2. CASE slow_try(t)
      BY <2>2 DEF slow_try, SlowTake, SlowInterrupted, SlowSleep, Xchg
    <2>3. CASE slow_done(t)
      BY <2>3 DEF slow_done
    <2>4. CASE unlock_set(t)
      <3>1. held' = {} /\ owner' = NoTask /\ \A u \in Tasks : u # t => u \notin held
        BY <2>4 DEF unlock_set
      <3>2. QED
        BY <2>4, <3>1 DEF unlock_set
    <2>5. CASE unlock_wake(t)
      BY <2>5 DEF unlock_wake
    <2>6. CASE __mutex_trylock_slowpath(t)
      BY <2>6 DEF __mutex_trylock_slowpath
    <2>7. QED
      BY <1>5, <2>1, <2>2, <2>3, <2>4, <2>5, <2>6 DEF Locked
  <1>6. ASSUME NEW t \in Tasks, Scheduling(t) PROVE Core'
    BY <1>6 DEF Scheduling, schedule, deactivate_task, schedule_returns, mutexVars
  <1>7. ASSUME NEW t \in Tasks, Signals(t) PROVE Core'
    BY <1>7 DEF Signals, signal_wake_up, do_signal, mutexVars
  <1>8. QED
    BY <1>1, <1>2, <1>3, <1>4, <1>5, <1>6, <1>7 DEF Next, Calls, mutex_lock,
       mutex_lock_interruptible, mutex_lock_killable

(* Entries join the list in slow_enqueue() and leave it in slow_done() or  *)
(* with -EINTR, exactly when their task enters or leaves the slow path.    *)
LEMMA NextListIsSlowPath ==
  ASSUME LInv, ListIsSlowPath, Next
  PROVE  ListIsSlowPath'
  <1>0. /\ pc \in [Tasks -> Labels] /\ wait_list \in Seq(Tasks)
        /\ LinkedOnce(wait_list) /\ Entries(wait_list) = SlowPath
    BY DEF LInv, TypeOK, TaskTypeOK, ListIsSlowPath
  <1> USE DEF Goto
  <1>1. ASSUME UNCHANGED wait_list, SlowPath' = SlowPath PROVE ListIsSlowPath'
    BY <1>1 DEF ListIsSlowPath
  <1>2. ASSUME NEW t \in Tasks, t \in SlowPath, wait_list' = list_del(t, wait_list),
               SlowPath' = SlowPath \ {t}
        PROVE  ListIsSlowPath'
    BY <1>0, <1>2, ListDel DEF ListIsSlowPath
  <1>3. ASSUME NEW t \in Tasks, Calls(t) PROVE ListIsSlowPath'
    BY <1>0, <1>1, <1>3 DEF SlowPath, Calls, mutex_lock, mutex_lock_interruptible,
       mutex_lock_killable, __mutex_fastpath_lock, mutex_trylock, trylock_xchg
  <1>4. ASSUME NEW t \in Tasks, Lockless(t) \/ spin_stop(t) PROVE ListIsSlowPath'
    BY <1>0, <1>1, <1>4 DEF SlowPath, Lockless, mutex_set_owner, spin_start,
       mutex_spin_on_owner, spin_cmpxchg, __mutex_fastpath_unlock, mutex_clear_owner,
       spin_stop, mutexVars
  <1>5. ASSUME NEW t \in Tasks, Locked(t) PROVE ListIsSlowPath'
    <2>1. CASE slow_enqueue(t)
      <3>1. t \notin SlowPath /\ SlowPath' = SlowPath \cup {t}
        BY <1>0, <2>1 DEF slow_enqueue, SlowPath
      <3>2. QED
        BY <1>0, <2>1, <3>1, ListAddTail DEF slow_enqueue, ListIsSlowPath
    <2>2. CASE slow_try(t)
      <3>1. t \in SlowPath
        BY <2>2 DEF slow_try, SlowPath
      <3>2. CASE SlowTake(t) \/ SlowSleep(t)
        BY <1>0, <1>1, <3>1, <3>2 DEF SlowTake, SlowSleep, SlowPath
      <3>3. CASE SlowInterrupted(t)
        BY <1>0, <1>2, <3>1, <3>3 DEF SlowInterrupted, SlowPath
      <3>4. QED
        BY <2>2, <3>2, <3>3 DEF slow_try
    <2>3. CASE slow_done(t)
      <3>1. t \in SlowPath /\ SlowPath' = SlowPath \ {t}
        BY <1>0, <2>3 DEF slow_done, SlowPath
      <3>2. QED
        BY <1>2, <2>3, <3>1 DEF slow_done
    <2>4. CASE unlock_set(t) \/ unlock_wake(t) \/ __mutex_trylock_slowpath(t)
      BY <1>0, <1>1, <2>4 DEF unlock_set, unlock_wake, __mutex_trylock_slowpath, SlowPath
    <2>5. QED
      BY <1>5, <2>1, <2>2, <2>3, <2>4 DEF Locked
  <1>6. ASSUME NEW t \in Tasks, Scheduling(t) PROVE ListIsSlowPath'
    BY <1>0, <1>1, <1>6 DEF Scheduling, schedule, deactivate_task, schedule_returns,
       mutexVars, SlowPath
  <1>7. ASSUME NEW t \in Tasks, Signals(t) PROVE ListIsSlowPath'
    BY <1>0, <1>1, <1>7 DEF Signals, signal_wake_up, do_signal, mutexVars, SlowPath
  <1>8. QED
    BY <1>3, <1>4, <1>5, <1>6, <1>7 DEF Next

(* The whole inductive invariant, without the wakeups. *)
IInv == LInv /\ ListIsSlowPath

(* Every step of the fast paths, the slow paths, the spinners and the      *)
(* environment preserves the inductive invariant.                          *)
LEMMA IInvStep == IInv /\ [Next]_vars => IInv'
  <1> SUFFICES ASSUME IInv, [Next]_vars PROVE IInv'
    OBVIOUS
  <1>1. CASE Next
    BY <1>1, NextTypeOK, NextLockWord, NextListIsSlowPath DEF IInv, LInv
  <1>2. CASE UNCHANGED vars
    BY <1>2 DEF vars, taskVars, mutexVars, IInv, LInv, TypeOK, TaskTypeOK, HeldByLabel,
       WaitLockByLabel, MutualExclusion, CountMeansHeld, OwnerIsHolder, TrylockPending,
       DoneIsNegative, OwnerCleared, ListIsSlowPath, SlowPath
  <1>3. QED
    BY <1>1, <1>2

(* The inductive invariant holds in every reachable state of the mutex. *)
THEOREM Invariance == Spec => []IInv
  <1>1. Init => IInv
    <2>1. Init => ListIsSlowPath
      BY DEF Init, TaskInit, ListIsSlowPath, SlowPath, LinkedOnce, Entries
    <2>2. QED
      BY <2>1, InitLInv DEF IInv
  <1>2. QED
    BY <1>1, IInvStep, PTL DEF Spec

(* Every variable keeps its type; the count never exceeds 1. *)
THEOREM TypeCorrect == Spec => []TypeOK
  <1>1. IInv => TypeOK
    BY DEF IInv, LInv
  <1>2. QED
    BY Invariance, <1>1, PTL

(* At most one task has the mutex, through fast path, spinning, slow path  *)
(* and either trylock.                                                     *)
THEOREM Exclusion == Spec => []MutualExclusion
  <1>1. IInv => MutualExclusion
    BY DEF IInv, LInv
  <1>2. QED
    BY Invariance, <1>1, PTL

(* The count is 1 exactly when the mutex is free. *)
THEOREM CountIsTruth == Spec => []CountMeansHeld
  <1>1. IInv => CountMeansHeld
    BY DEF IInv, LInv
  <1>2. QED
    BY Invariance, <1>1, PTL

(* lock->owner is NULL or the holder, although it is written unlocked. *)
THEOREM OwnerIsTruth == Spec => []OwnerIsHolder
  <1>1. IInv => OwnerIsHolder
    BY DEF IInv, LInv
  <1>2. QED
    BY Invariance, <1>1, PTL

(* The wait list is the set of tasks in the slow path. *)
THEOREM ListIsTruth == Spec => []ListIsSlowPath
  <1>1. IInv => ListIsSlowPath
    BY DEF IInv
  <1>2. QED
    BY Invariance, <1>1, PTL

-----------------------------------------------------------------------------
(* A TASK_RUNNING task is on the run queue, and so is every task that is   *)
(* not inside schedule().                                                  *)
AwakeOnRq ==
  \A t \in Tasks : state[t] = TASK_RUNNING \/ pc[t] # "schedule" => on_rq[t]

(* Every step preserves it: only schedule() takes a task off the queue.    *)
LEMMA NextAwakeOnRq ==
  ASSUME IInv, AwakeOnRq, Next
  PROVE  AwakeOnRq'
  <1>0. /\ pc \in [Tasks -> Labels] /\ state \in [Tasks -> States]
        /\ on_rq \in [Tasks -> BOOLEAN]
    BY DEF IInv, LInv, TypeOK, TaskTypeOK
  <1> USE <1>0 DEF AwakeOnRq, Goto
  <1>1. ASSUME NEW t \in Tasks, Calls(t) \/ Lockless(t) \/ spin_stop(t) PROVE AwakeOnRq'
    BY <1>1 DEF Calls, mutex_lock, mutex_lock_interruptible,
       mutex_lock_killable, __mutex_fastpath_lock, mutex_trylock, trylock_xchg,
       Lockless, mutex_set_owner, spin_start, mutex_spin_on_owner, spin_cmpxchg,
       __mutex_fastpath_unlock, mutex_clear_owner, spin_stop
  <1>2. ASSUME NEW t \in Tasks, Locked(t) PROVE AwakeOnRq'
    <2>1. CASE slow_enqueue(t) \/ slow_done(t) \/ unlock_set(t) \/ __mutex_trylock_slowpath(t)
      BY <2>1 DEF slow_enqueue, slow_done, unlock_set, __mutex_trylock_slowpath
    <2>2. CASE slow_try(t)
      BY <2>2 DEF slow_try, SlowTake, SlowInterrupted, SlowSleep, set_task_state
    <2>3. CASE unlock_wake(t)
      BY <2>3 DEF unlock_wake, wake_up_process, try_to_wake_up
    <2>4. QED
      BY <1>2, <2>1, <2>2, <2>3 DEF Locked
  <1>3. ASSUME NEW t \in Tasks, Scheduling(t) PROVE AwakeOnRq'
    BY <1>3 DEF Scheduling, schedule, deactivate_task, schedule_returns
  <1>4. ASSUME NEW t \in Tasks, Signals(t) PROVE AwakeOnRq'
    BY <1>4 DEF Signals, signal_wake_up, do_signal, try_to_wake_up
  <1>5. QED
    BY <1>1, <1>2, <1>3, <1>4 DEF Next

(* No step lets the last awake waiter go while the count is not negative:  *)
(* a waiter lowers the count before it gives up or sleeps again, and an    *)
(* unlocker that raises it past the fast path wakes the first waiter.      *)
LEMMA NextNoLostWakeup ==
  ASSUME IInv, AwakeOnRq, NoLostWakeup, Next
  PROVE  NoLostWakeup'
  <1>0. /\ pc \in [Tasks -> Labels] /\ state \in [Tasks -> States]
        /\ on_rq \in [Tasks -> BOOLEAN] /\ count \in Int /\ count <= 1
        /\ wait_list \in Seq(Tasks)
        /\ Entries(wait_list) = SlowPath /\ DoneIsNegative
    BY DEF IInv, LInv, TypeOK, TaskTypeOK, ListIsSlowPath
  <1> USE DEF Goto
  <1>1. ASSUME count' < 0 PROVE NoLostWakeup'
    <2>1. count' \in Int
      BY IInvStep DEF IInv, LInv, TypeOK
    <2>2. QED
      BY <1>1, <2>1 DEF NoLostWakeup
  <1>2. ASSUME UNCHANGED wait_list, count >= 0, Unlocking => Unlocking',
               \A t \in SlowPath : Awake(t) => Awake(t)'
        PROVE  NoLostWakeup'
    BY <1>0, <1>2 DEF NoLostWakeup, Awake
  <1>3. ASSUME NEW t \in Tasks, NEW s, __mutex_fastpath_lock(t, s) PROVE NoLostWakeup'
    <2>1. CASE count' < 0
      BY <1>1, <2>1
    <2>2. CASE ~(count' < 0)
      BY <1>0, <1>2, <1>3, <2>2 DEF __mutex_fastpath_lock, Unlocking, Awake, SlowPath
    <2>3. QED
      BY <2>1, <2>2
  <1>4. ASSUME NEW t \in Tasks, mutex_trylock(t) \/ trylock_xchg(t) PROVE NoLostWakeup'
    <2>1. CASE trylock_xchg(t)
      BY <1>1, <2>1 DEF trylock_xchg, Xchg
    <2>2. CASE mutex_trylock(t)
      BY <1>0, <1>2, <2>2 DEF mutex_trylock, Unlocking, Awake, SlowPath
    <2>3. QED
      BY <1>4, <2>1, <2>2
  <1>5. ASSUME NEW t \in Tasks, Lockless(t) \/ spin_stop(t) PROVE NoLostWakeup'
    <2>1. CASE __mutex_fastpath_unlock(t)
      <3>1. CASE count' < 0
        BY <1>1, <3>1
      <3>2. CASE count >= 0
        BY <1>0, <1>2, <2>1, <3>2 DEF __mutex_fastpath_unlock, Unlocking, Awake, SlowPath
      <3>3. CASE count < 0 /\ ~(count' < 0)
        BY <1>0, <2>1, <3>3 DEF __mutex_fastpath_unlock, Unlocking, NoLostWakeup
      <3>4. QED
        BY <1>0, <3>1, <3>2, <3>3
    <2>2. CASE spin_cmpxchg(t)
      <3>1. CASE count < 0
        BY <1>0, <1>1, <2>2, <3>1 DEF spin_cmpxchg
      <3>2. CASE ~(count < 0)
        BY <1>0, <1>2, <2>2, <3>2 DEF spin_cmpxchg, Unlocking, Awake, SlowPath
      <3>3. QED
        BY <3>1, <3>2
    <2>3. CASE \/ mutex_set_owner(t) \/ spin_start(t) \/ mutex_spin_on_owner(t)
               \/ mutex_clear_owner(t) \/ spin_stop(t)
      <3>1. CASE count < 0
        BY <1>0, <1>1, <2>3, <3>1 DEF mutex_set_owner, spin_start, mutex_spin_on_owner,
           mutex_clear_owner, spin_stop, mutexVars
      <3>2. CASE ~(count < 0)
        BY <1>0, <1>2, <2>3, <3>2 DEF mutex_set_owner, spin_start, mutex_spin_on_owner,
           mutex_clear_owner, spin_stop, mutexVars, Unlocking, Awake, SlowPath
      <3>3. QED
        BY <3>1, <3>2
    <2>4. QED
      BY <1>5, <2>1, <2>2, <2>3 DEF Lockless
  <1>6. ASSUME NEW t \in Tasks, Locked(t) PROVE NoLostWakeup'
    <2>1. CASE slow_enqueue(t)
      BY <1>1, <2>1 DEF slow_enqueue, Xchg
    <2>2. CASE slow_try(t)
      BY <1>1, <2>2 DEF slow_try, SlowTake, SlowInterrupted, SlowSleep, Xchg
    <2>3. CASE slow_done(t)
      BY <1>0, <2>3 DEF slow_done, DoneIsNegative, NoLostWakeup, list_empty
    <2>4. CASE unlock_set(t)
      BY <1>0, <2>4 DEF unlock_set, NoLostWakeup, Unlocking
    <2>5. CASE unlock_wake(t)
      <3>1. CASE wait_list = <<>>
        BY <2>5, <3>1 DEF unlock_wake, NoLostWakeup
      <3>2. CASE wait_list # <<>>
        <4>1. PICK w \in SlowPath : w = list_first_entry(wait_list)
          BY <1>0, <3>2, ListEmpty DEF list_empty
        <4>2. try_to_wake_up({w}, TASK_NORMAL) /\ UNCHANGED wait_list
          BY <2>5, <3>2, <4>1 DEF unlock_wake, wake_up_process, list_empty
        <4>3. pc'[w] = pc[w]
          BY <1>0, <2>5 DEF unlock_wake, SlowPath
        <4>4. state'[w] = TASK_RUNNING /\ (pc[w] = "schedule" => on_rq'[w])
          <5>1. CASE state[w] = TASK_RUNNING
            BY <1>0, <4>2, <5>1 DEF AwakeOnRq, try_to_wake_up, SlowPath
          <5>2. CASE state[w] # TASK_RUNNING
            <6>1. state[w] \cap TASK_NORMAL # {}
              BY <1>0, <5>2 DEF SlowPath, States, TASK_RUNNING, TASK_NORMAL,
                 TASK_INTERRUPTIBLE, TASK_UNINTERRUPTIBLE, TASK_KILLABLE
            <6>2. QED
              BY <4>2, <6>1 DEF try_to_wake_up, WakesUp, SlowPath
          <5>3. QED
            BY <5>1, <5>2
        <4>5. Awake(w)'
          BY <4>3, <4>4 DEF Awake, SlowPath
        <4>6. w \in Entries(wait_list')
          BY <1>0, <4>2
        <4>7. QED
          BY <4>5, <4>6 DEF NoLostWakeup, Awake
      <3>3. QED
        BY <3>1, <3>2
    <2>6. CASE __mutex_trylock_slowpath(t)
      <3>1. CASE wait_list = <<>>
        BY <2>6, <3>1 DEF __mutex_trylock_slowpath, NoLostWakeup
      <3>2. CASE count < 0 /\ wait_list # <<>>
        BY <1>1, <2>6, <3>2 DEF __mutex_trylock_slowpath, list_empty
      <3>3. CASE ~(count < 0)
        BY <1>0, <1>2, <2>6, <3>3 DEF __mutex_trylock_slowpath, Unlocking, Awake, SlowPath
      <3>4. QED
        BY <3>1, <3>2, <3>3
    <2>7. QED
      BY <1>6, <2>1, <2>2, <2>3, <2>4, <2>5, <2>6 DEF Locked
  <1>7. ASSUME NEW t \in Tasks, Scheduling(t) \/ Signals(t) PROVE NoLostWakeup'
    <2>1. UNCHANGED mutexVars
      BY <1>7 DEF Scheduling, Signals
    <2>2. CASE count < 0
      BY <1>1, <2>1, <2>2 DEF mutexVars
    <2>3. CASE ~(count < 0)
      <3>1. Unlocking => Unlocking'
        BY <1>0, <1>7 DEF Scheduling, schedule, deactivate_task, schedule_returns,
           Signals, signal_wake_up, do_signal, Unlocking
      <3>2. CASE Scheduling(t)
        BY <1>0, <1>2, <2>1, <2>3, <3>1, <3>2 DEF mutexVars, Scheduling, schedule,
           deactivate_task, schedule_returns, Awake, SlowPath
      <3>3. CASE Signals(t)
        BY <1>0, <1>2, <2>1, <2>3, <3>1, <3>3 DEF mutexVars, Signals, signal_wake_up,
           do_signal, try_to_wake_up, Awake, SlowPath
      <3>4. QED
        BY <1>7, <3>2, <3>3
    <2>4. QED
      BY <2>2, <2>3
  <1>8. QED
    BY <1>3, <1>4, <1>5, <1>6, <1>7 DEF Next, Calls, mutex_lock,
       mutex_lock_interruptible, mutex_lock_killable

(* A queued sleeper is never forgotten: while the count would let the      *)
(* unlock fast path skip the wakeup, somebody in the queue is awake or an  *)
(* unlocker is about to wake the first.                                    *)
THEOREM NoSleeperForgotten == Spec => []NoLostWakeup
  <1>1. Init => AwakeOnRq /\ NoLostWakeup
    BY DEF Init, TaskInit, AwakeOnRq, NoLostWakeup
  <1>2. IInv /\ AwakeOnRq /\ NoLostWakeup /\ [Next]_vars => AwakeOnRq' /\ NoLostWakeup'
    <2>1. ASSUME UNCHANGED vars, AwakeOnRq, NoLostWakeup
          PROVE  AwakeOnRq' /\ NoLostWakeup'
      BY <2>1 DEF vars, taskVars, mutexVars, AwakeOnRq, NoLostWakeup, Unlocking, Awake
    <2>2. QED
      BY <2>1, NextAwakeOnRq, NextNoLostWakeup
  <1>3. QED
    BY Invariance, <1>1, <1>2, PTL DEF Spec

-----------------------------------------------------------------------------
(* A task outside a call has no sleep state of its own: mode is set by the *)
(* lock fast path and reset when the call returns.                         *)
ModeByLabel ==
  \A t \in Tasks :
    /\ pc[t] \in {"idle", "dead", "critical", "unlock", "unlock_slow", "unlock_wake",
                  "trylock_slow"} => mode[t] = TASK_RUNNING
    /\ pc[t] \in {"spin", "spin_on", "cmpxchg", "slow", "try", "schedule", "resumed"}
          => mode[t] # TASK_RUNNING

(* Every step preserves it: the state argument lives as long as the call.  *)
LEMMA NextModeByLabel ==
  ASSUME IInv, ModeByLabel, Next
  PROVE  ModeByLabel'
  <1>0. pc \in [Tasks -> Labels] /\ mode \in [Tasks -> States]
    BY DEF IInv, LInv, TypeOK, TaskTypeOK
  <1>1. /\ TASK_UNINTERRUPTIBLE # TASK_RUNNING /\ TASK_INTERRUPTIBLE # TASK_RUNNING
        /\ TASK_KILLABLE # TASK_RUNNING
    BY DEF TASK_RUNNING, TASK_INTERRUPTIBLE, TASK_UNINTERRUPTIBLE, TASK_KILLABLE
  <1> USE <1>0 DEF ModeByLabel, Goto
  <1>2. ASSUME NEW t \in Tasks, NEW s, s # TASK_RUNNING, __mutex_fastpath_lock(t, s)
        PROVE  ModeByLabel'
    BY <1>2 DEF __mutex_fastpath_lock
  <1>3. ASSUME NEW t \in Tasks, mutex_trylock(t) \/ trylock_xchg(t) PROVE ModeByLabel'
    BY <1>3 DEF mutex_trylock, trylock_xchg
  <1>4. ASSUME NEW t \in Tasks, Lockless(t) \/ spin_stop(t) PROVE ModeByLabel'
    BY <1>4 DEF Lockless, mutex_set_owner, spin_start, mutex_spin_on_owner, spin_cmpxchg,
       __mutex_fastpath_unlock, mutex_clear_owner, spin_stop, mutexVars
  <1>5. ASSUME NEW t \in Tasks, Locked(t) PROVE ModeByLabel'
    BY <1>5 DEF Locked, slow_enqueue, slow_try, SlowTake, SlowInterrupted, SlowSleep,
       slow_done, unlock_set, unlock_wake, __mutex_trylock_slowpath
  <1>6. ASSUME NEW t \in Tasks, Scheduling(t) \/ Signals(t) PROVE ModeByLabel'
    BY <1>6 DEF Scheduling, schedule, deactivate_task, schedule_returns, Signals,
       signal_wake_up, do_signal, mutexVars
  <1>7. QED
    BY <1>1, <1>2, <1>3, <1>4, <1>5, <1>6 DEF Next, Calls, mutex_lock,
       mutex_lock_interruptible, mutex_lock_killable

(* Each step of the mutex is one step of the atomic lock, or invisible.    *)
LEMMA StepRefines ==
  ASSUME IInv, ModeByLabel, Next
  PROVE  Abstract!LockNext
  <1>0. /\ pc \in [Tasks -> Labels] /\ mode \in [Tasks -> States] /\ held \in SUBSET Tasks
        /\ HeldByLabel /\ CountMeansHeld
    BY DEF IInv, LInv, TypeOK, TaskTypeOK
  <1>1. ASSUME UNCHANGED <<held, mode>> PROVE Abstract!LockNext
    BY <1>1 DEF Abstract!LockNext, CallState
  <1>2. ASSUME NEW t \in Tasks, count = 1, held' = held \cup {t}, UNCHANGED mode
        PROVE  Abstract!LockNext
    <2>1. held = {} /\ Abstract!Free
      BY <1>0, <1>2 DEF CountMeansHeld, Abstract!Free, CallState
    <2>2. Abstract!TryLock(t) \/ Abstract!Acquire(t)
      BY <1>2, <2>1 DEF Abstract!TryLock, Abstract!Acquire, Abstract!Move, CallState
    <2>3. QED
      BY <2>2 DEF Abstract!LockNext
  <1>3. ASSUME NEW t \in Tasks, t \in held, held' = held \ {t}, mode[t] = TASK_RUNNING,
               UNCHANGED mode
        PROVE  Abstract!LockNext
    <2>1. Abstract!Release(t)
      BY <1>3 DEF Abstract!Release, Abstract!Move, CallState
    <2>2. QED
      BY <2>1 DEF Abstract!LockNext
  <1> USE DEF Goto
  <1>4. ASSUME NEW t \in Tasks, NEW s, s # TASK_RUNNING, __mutex_fastpath_lock(t, s)
        PROVE  Abstract!LockNext
    <2>1. CASE count - 1 >= 0 /\ held' = held \cup {t} /\ UNCHANGED mode
      <3>1. count = 1
        BY <2>1 DEF IInv, LInv, TypeOK
      <3>2. QED
        BY <1>2, <2>1, <3>1
    <2>2. CASE UNCHANGED held /\ mode' = [mode EXCEPT ![t] = s] /\ pc[t] = "idle"
      <3>1. t \notin held /\ mode[t] = TASK_RUNNING
        BY <1>0, <2>2 DEF HeldByLabel, HeldLabels, ModeByLabel
      <3>2. Abstract!Call(t)
        BY <1>0, <1>4, <2>2, <3>1 DEF Abstract!Call, Abstract!Move, CallState
      <3>3. QED
        BY <3>2 DEF Abstract!LockNext
    <2>3. QED
      BY <1>4, <2>1, <2>2 DEF __mutex_fastpath_lock
  <1>5. ASSUME NEW t \in Tasks, mutex_trylock(t) \/ trylock_xchg(t) PROVE Abstract!LockNext
    BY <1>1, <1>2, <1>5 DEF mutex_trylock, trylock_xchg, Xchg
  <1>6. ASSUME NEW t \in Tasks, Lockless(t) \/ spin_stop(t) PROVE Abstract!LockNext
    <2>1. CASE mutex_set_owner(t)
      <3>1. t \in held /\ CallState' = CallState
        BY <1>0, <2>1 DEF mutex_set_owner, HeldByLabel, HeldLabels, CallState
      <3>2. QED
        BY <3>1 DEF Abstract!LockNext
    <2>2. CASE spin_start(t) \/ mutex_spin_on_owner(t) \/ mutex_clear_owner(t) \/ spin_stop(t)
      BY <1>1, <2>2 DEF spin_start, mutex_spin_on_owner, mutex_clear_owner, spin_stop, mutexVars
    <2>3. CASE spin_cmpxchg(t)
      BY <1>1, <1>2, <2>3 DEF spin_cmpxchg
    <2>4. CASE __mutex_fastpath_unlock(t)
      <3>1. t \in held /\ mode[t] = TASK_RUNNING
        BY <1>0, <2>4 DEF __mutex_fastpath_unlock, HeldByLabel, HeldLabels, ModeByLabel
      <3>2. QED
        BY <1>1, <1>3, <2>4, <3>1 DEF __mutex_fastpath_unlock
    <2>5. QED
      BY <1>6, <2>1, <2>2, <2>3, <2>4 DEF Lockless
  <1>7. ASSUME NEW t \in Tasks, Locked(t) PROVE Abstract!LockNext
    <2>1. CASE slow_enqueue(t)
      BY <1>1, <1>2, <2>1 DEF slow_enqueue, Xchg
    <2>2. CASE slow_try(t)
      <3>1. CASE SlowTake(t) \/ SlowSleep(t)
        BY <1>1, <1>2, <3>1 DEF SlowTake, SlowSleep, Xchg
      <3>2. CASE SlowInterrupted(t)
        <4>1. t \notin held /\ mode[t] # TASK_RUNNING
          BY <1>0, <2>2 DEF slow_try, HeldByLabel, HeldLabels, ModeByLabel
        <4>2. /\ t \in Interrupted /\ UNCHANGED held
              /\ mode' = [mode EXCEPT ![t] = TASK_RUNNING]
          BY <3>2 DEF SlowInterrupted, Interrupted, Xchg
        <4>3. Abstract!Fail(t)
          BY <1>0, <4>1, <4>2 DEF Abstract!Fail, Abstract!Move, CallState
        <4>4. QED
          BY <4>3 DEF Abstract!LockNext
      <3>3. QED
        BY <2>2, <3>1, <3>2 DEF slow_try
    <2>3. CASE slow_done(t) \/ unlock_wake(t) \/ __mutex_trylock_slowpath(t)
      BY <1>1, <2>3 DEF slow_done, unlock_wake, __mutex_trylock_slowpath
    <2>4. CASE unlock_set(t)
      <3>1. t \in held /\ mode[t] = TASK_RUNNING
        BY <1>0, <2>4 DEF unlock_set, HeldByLabel, HeldLabels, ModeByLabel
      <3>2. QED
        BY <1>3, <2>4, <3>1 DEF unlock_set
    <2>5. QED
      BY <1>7, <2>1, <2>2, <2>3, <2>4 DEF Locked
  <1>8. ASSUME NEW t \in Tasks, Scheduling(t) \/ Signals(t) PROVE Abstract!LockNext
    BY <1>1, <1>8 DEF Scheduling, Signals, mutexVars
  <1>9. /\ TASK_UNINTERRUPTIBLE # TASK_RUNNING /\ TASK_INTERRUPTIBLE # TASK_RUNNING
        /\ TASK_KILLABLE # TASK_RUNNING
    BY DEF TASK_RUNNING, TASK_INTERRUPTIBLE, TASK_UNINTERRUPTIBLE, TASK_KILLABLE
  <1>10. QED
    BY <1>4, <1>5, <1>6, <1>7, <1>8, <1>9 DEF Next, Calls, mutex_lock,
       mutex_lock_interruptible, mutex_lock_killable

(* kernel/mutex.c implements the atomic lock of BlockingLock. *)
THEOREM MutexRefinesLock == Spec => ImplementsBlockingLock
  <1>1. Init => Abstract!LockInit /\ ModeByLabel
    BY DEF Init, TaskInit, Abstract!LockInit, CallState, Interrupted, ModeByLabel,
       signal_pending_state
  <1>2. IInv /\ ModeByLabel /\ [Next]_vars => ModeByLabel'
    BY NextModeByLabel DEF vars, taskVars, mutexVars, ModeByLabel
  <1>3. IInv /\ ModeByLabel /\ [Next]_vars => [Abstract!LockNext]_(Abstract!lockVars)
    <2>1. UNCHANGED vars => UNCHANGED Abstract!lockVars
      BY DEF vars, taskVars, mutexVars, Abstract!lockVars, CallState, Interrupted,
         signal_pending_state
    <2>2. QED
      BY <2>1, StepRefines
  <1>4. QED
    BY Invariance, <1>1, <1>2, <1>3, PTL DEF Spec, ImplementsBlockingLock, Abstract!LockSpec

-----------------------------------------------------------------------------
(* SRCU.  What is needed of its counters, which wrap around, and of a sum  *)
(* over the CPUs.                                                          *)

(* What is left of a number in a counter c[]. *)
Rem(n) == n % RefWord

(* The counters of the readers do not run out of numbers. *)
LEMMA RefWordType == RefWord \in Nat \ {0} /\ Cardinality(Readers) \in 0..(RefWord - 1)
  BY SRCUAssumption, FS_CardinalityType

(* A counter holds a value of its word, and a small number as it is. *)
LEMMA RemType ==
  ASSUME NEW a \in Int
  PROVE  Rem(a) \in 0..(RefWord - 1) /\ (a \in 0..(RefWord - 1) => Rem(a) = a)
  BY RefWordType, ModRange, ModSmall DEF Rem

(* ModAdd and ModCong for the counters. *)
LEMMA RemAdd ==
  ASSUME NEW a \in Int, NEW b \in Int
  PROVE  Rem(Rem(a) + b) = Rem(a + b)
  BY RefWordType, ModAdd DEF Rem

(* Equal counters stay equal when the same is added to both. *)
LEMMA RemCong ==
  ASSUME NEW a \in Int, NEW b \in Int, NEW x \in Int, NEW y \in Int,
         Rem(a) = Rem(b), Rem(x) = Rem(y)
  PROVE  Rem(a + x) = Rem(b + y)
  <1>0. Rem(a) \in Int /\ Rem(b) \in Int /\ Rem(x) \in Int /\ Rem(y) \in Int
    BY RemType
  <1>1. Rem(a + x) = Rem(Rem(b) + x)
    BY RemAdd
  <1>2. Rem(Rem(b) + x) = Rem(b + x)
    BY RemAdd
  <1>3. Rem(b + x) = Rem(Rem(y) + b)
    <2>1. Rem(Rem(x) + b) = Rem(x + b)
      BY RemAdd
    <2>2. QED
      BY <2>1
  <1>4. Rem(Rem(y) + b) = Rem(y + b)
    BY RemAdd
  <1>5. QED
    BY <1>1, <1>2, <1>3, <1>4

(* The flip selects the other rank, whether "completed" wraps around or not. *)
LEMMA OtherRank ==
  ASSUME NEW n \in 0..(Word - 1)
  PROVE  /\ (n + 1) % Word \in 0..(Word - 1)
         /\ n % 2 \in {0, 1}
         /\ ((n + 1) % Word) % 2 # n % 2
  <1>1. Word \in Nat \ {0} /\ Word % 2 = 0
    BY SRCUAssumption
  <1>2. CASE n + 1 < Word
    <2>1. (n + 1) % Word = n + 1
      BY <1>1, <1>2, ModSmall, n + 1 \in 0..(Word - 1)
    <2>2. QED
      BY <1>1, <1>2, <2>1
  <1>3. CASE n + 1 = Word
    <2>1. (n + 1) % Word = 0
      BY <1>1, <1>3, ModUnique, n + 1 = Word * 1 + 0, 0 \in 0..(Word - 1)
    <2>2. QED
      BY <1>1, <1>3, <2>1
  <1>4. QED
    BY <1>1, <1>2, <1>3

-----------------------------------------------------------------------------
(* The sums of the first terms of f. *)
PartialSums(S, f) ==
  /\ S \in [0..NCpus -> Int]
  /\ S[0] = 0
  /\ \A n \in 0..(NCpus - 1) : S[n + 1] = S[n] + f[n]

(* The recursion of Sum() has a solution. *)
LEMMA SumRec ==
  ASSUME NEW f \in [CPUs -> Int]
  PROVE  \E S : PartialSums(S, f) /\ Sum(f) = S[NCpus]
  <1> DEFINE Prefix(n, g) == /\ g \in [0..n -> Int] /\ g[0] = 0
                             /\ \A m \in 0..(n - 1) : g[m + 1] = g[m] + f[m]
             G == {n \in 0..NCpus : \E g : Prefix(n, g)}
  <1>0. NCpus \in Nat \ {0} /\ CPUs = 0..(NCpus - 1)
    BY SRCUAssumption DEF CPUs
  <1>1. 0 \in G
    <2>1. Prefix(0, [x \in 0..0 |-> 0])
      BY <1>0
    <2> HIDE DEF Prefix
    <2>2. QED
      BY <1>0, <2>1
  <1>2. ASSUME NEW n \in 0..(NCpus - 1), n \in G PROVE n + 1 \in G
    <2>1. PICK g : Prefix(n, g)
      BY <1>2
    <2> DEFINE h == [x \in 0..(n + 1) |-> IF x = n + 1 THEN g[n] + f[n] ELSE g[x]]
    <2>2. g[n] \in Int /\ f[n] \in Int
      BY <1>0, <2>1
    <2>3. Prefix(n + 1, h)
      BY <1>0, <2>1, <2>2
    <2> HIDE DEF Prefix
    <2>4. QED
      BY <1>0, <2>3
  <1>3. G = 0..NCpus
    <2> HIDE DEF G
    <2>1. G \in SUBSET (0..NCpus)
      BY DEF G
    <2>2. QED
      BY <1>0, <1>1, <1>2, <2>1, Induct
  <1>4. PICK g : Prefix(NCpus, g)
    <2> HIDE DEF Prefix
    <2>1. QED
      BY <1>0, <1>3
  <1> DEFINE Rec(S) == S = [n \in 0..NCpus |-> IF n = 0 THEN 0 ELSE S[n - 1] + f[n - 1]]
             Z == CHOOSE S : Rec(S)
  <1>5. Rec(g)
    <2> DEFINE h == [n \in 0..NCpus |-> IF n = 0 THEN 0 ELSE g[n - 1] + f[n - 1]]
    <2>1. ASSUME NEW n \in 0..NCpus PROVE g[n] = h[n]
      <3>1. CASE n = 0
        BY <1>4, <3>1
      <3>2. CASE n # 0
        <4>1. n - 1 \in 0..(NCpus - 1) /\ (n - 1) + 1 = n
          BY <1>0, <3>2
        <4>2. QED
          BY <1>4, <3>2, <4>1
      <3>3. QED
        BY <3>1, <3>2
    <2> HIDE DEF h
    <2>2. h = [n \in 0..NCpus |-> h[n]] /\ g = [n \in 0..NCpus |-> g[n]]
      BY <1>4 DEF h
    <2>3. g = h
      BY <2>1, <2>2
    <2>4. QED
      BY <2>3 DEF h
  <1>6. Rec(Z)
    <2> HIDE DEF Rec
    <2>1. QED
      BY <1>5
  <1>7. Sum(f) = Z[NCpus]
    BY DEF Sum
  <1> HIDE DEF Z
  <1> DEFINE H == {n \in 0..NCpus : Z[n] \in Int}
  <1>8. H = 0..NCpus
    <2>1. 0 \in H
      BY <1>0, <1>6
    <2>2. ASSUME NEW n \in 0..(NCpus - 1), n \in H PROVE n + 1 \in H
      <3>1. Z[n + 1] = Z[n] + f[n]
        BY <1>0, <1>6
      <3>2. QED
        BY <1>0, <2>2, <3>1
    <2>3. H \in SUBSET (0..NCpus)
      OBVIOUS
    <2> HIDE DEF H
    <2>4. QED
      BY <1>0, <2>1, <2>2, <2>3, Induct
  <1>9. PartialSums(Z, f)
    <2>1. Z = [n \in 0..NCpus |-> Z[n]]
      BY <1>6
    <2>2. Z \in [0..NCpus -> Int]
      BY <1>8, <2>1
    <2>3. Z[0] = 0 /\ \A n \in 0..(NCpus - 1) : Z[n + 1] = Z[n] + f[n]
      BY <1>0, <1>6
    <2>4. QED
      BY <2>2, <2>3 DEF PartialSums
  <1>10. QED
    BY <1>7, <1>9

(* A sum changes by what one of its terms does. *)
LEMMA SumUpdate ==
  ASSUME NEW f \in [CPUs -> Int], NEW g \in [CPUs -> Int], NEW k \in CPUs,
         \A x \in CPUs \ {k} : g[x] = f[x]
  PROVE  Sum(f) \in Int /\ Sum(g) = Sum(f) + (g[k] - f[k])
  <1>0. NCpus \in Nat \ {0} /\ CPUs = 0..(NCpus - 1)
    BY SRCUAssumption DEF CPUs
  <1>1. PICK S : PartialSums(S, f) /\ Sum(f) = S[NCpus]
    BY SumRec
  <1>2. PICK T : PartialSums(T, g) /\ Sum(g) = T[NCpus]
    BY SumRec
  <1> DEFINE d == g[k] - f[k]
             G == {n \in 0..NCpus : T[n] = IF n <= k THEN S[n] ELSE S[n] + d}
  <1>3. d \in Int
    OBVIOUS
  <1> HIDE DEF d
  <1>4. 0 \in G
    BY <1>0, <1>1, <1>2 DEF PartialSums
  <1>5. ASSUME NEW n \in 0..(NCpus - 1), n \in G PROVE n + 1 \in G
    <2>1. S[n + 1] = S[n] + f[n] /\ T[n + 1] = T[n] + g[n] /\ S[n] \in Int /\ T[n] \in Int
      BY <1>0, <1>1, <1>2 DEF PartialSums
    <2>2. f[n] \in Int /\ g[n] \in Int /\ (n # k => g[n] = f[n])
      BY <1>0
    <2>3. n = k => g[n] = f[n] + d
      BY <1>0, <2>2 DEF d
    <2>4. T[n] = IF n <= k THEN S[n] ELSE S[n] + d
      BY <1>5
    <2>5. k \in 0..(NCpus - 1)
      BY <1>0
    <2>6. T[n + 1] = IF n + 1 <= k THEN S[n + 1] ELSE S[n + 1] + d
      <3>1. CASE n < k
        BY <2>1, <2>2, <2>4, <2>5, <3>1
      <3>2. CASE n = k
        BY <1>3, <2>1, <2>2, <2>3, <2>4, <2>5, <3>2
      <3>3. CASE n > k
        BY <1>3, <2>1, <2>2, <2>4, <2>5, <3>3
      <3>4. QED
        BY <2>5, <3>1, <3>2, <3>3
    <2>7. QED
      BY <1>0, <2>6
  <1>6. NCpus \in G
    <2>1. G \in SUBSET (0..NCpus)
      OBVIOUS
    <2> HIDE DEF G
    <2>2. G = 0..NCpus
      BY <1>0, <1>4, <1>5, <2>1, Induct
    <2>3. QED
      BY <1>0, <2>2
  <1>7. QED
    BY <1>0, <1>1, <1>2, <1>3, <1>6 DEF PartialSums, d

(* The sum of an array of zeros. *)
LEMMA SumZero ==
  ASSUME NEW f \in [CPUs -> Int], \A x \in CPUs : f[x] = 0
  PROVE  Sum(f) = 0
  <1>0. NCpus \in Nat \ {0} /\ CPUs = 0..(NCpus - 1)
    BY SRCUAssumption DEF CPUs
  <1>1. PICK S : PartialSums(S, f) /\ Sum(f) = S[NCpus]
    BY SumRec
  <1> DEFINE G == {n \in 0..NCpus : S[n] = 0}
  <1>2. 0 \in G
    BY <1>0, <1>1 DEF PartialSums
  <1>3. ASSUME NEW n \in 0..(NCpus - 1), n \in G PROVE n + 1 \in G
    BY <1>0, <1>1, <1>3 DEF PartialSums
  <1>4. NCpus \in G
    <2>1. G \in SUBSET (0..NCpus)
      OBVIOUS
    <2> HIDE DEF G
    <2>2. G = 0..NCpus
      BY <1>0, <1>2, <1>3, <2>1, Induct
    <2>3. QED
      BY <1>0, <2>2
  <1>5. QED
    BY <1>1, <1>4

(* A sum of counts is a count. *)
LEMMA SumNat ==
  ASSUME NEW f \in [CPUs -> Nat]
  PROVE  Sum(f) \in Nat
  <1>0. NCpus \in Nat \ {0} /\ CPUs = 0..(NCpus - 1) /\ f \in [CPUs -> Int]
    BY SRCUAssumption DEF CPUs
  <1>1. PICK S : PartialSums(S, f) /\ Sum(f) = S[NCpus]
    BY <1>0, SumRec
  <1> DEFINE G == {n \in 0..NCpus : S[n] \in Nat}
  <1>2. 0 \in G
    BY <1>0, <1>1 DEF PartialSums
  <1>3. ASSUME NEW n \in 0..(NCpus - 1), n \in G PROVE n + 1 \in G
    <2>1. S[n + 1] = S[n] + f[n] /\ f[n] \in Nat
      BY <1>0, <1>1 DEF PartialSums
    <2>2. QED
      BY <1>0, <1>3, <2>1
  <1>4. NCpus \in G
    <2>1. G \in SUBSET (0..NCpus)
      OBVIOUS
    <2> HIDE DEF G
    <2>2. G = 0..NCpus
      BY <1>0, <1>2, <1>3, <2>1, Induct
    <2>3. QED
      BY <1>0, <2>2
  <1>5. QED
    BY <1>1, <1>4

(* Sums may be added before or after the counters wrap around. *)
LEMMA SumCong ==
  ASSUME NEW f \in [CPUs -> Int], NEW g \in [CPUs -> Int], NEW h \in [CPUs -> Int],
         \A x \in CPUs : Rem(h[x]) = Rem(f[x] + g[x])
  PROVE  Rem(Sum(h)) = Rem(Sum(f) + Sum(g))
  <1>0. NCpus \in Nat \ {0} /\ CPUs = 0..(NCpus - 1)
    BY SRCUAssumption DEF CPUs
  <1>1. PICK S : PartialSums(S, f) /\ Sum(f) = S[NCpus]
    BY SumRec
  <1>2. PICK T : PartialSums(T, g) /\ Sum(g) = T[NCpus]
    BY SumRec
  <1>3. PICK U : PartialSums(U, h) /\ Sum(h) = U[NCpus]
    BY SumRec
  <1> DEFINE G == {n \in 0..NCpus : Rem(U[n]) = Rem(S[n] + T[n])}
  <1>5. 0 \in G
    <2>1. 0 \in 0..NCpus /\ U[0] = 0 /\ S[0] = 0 /\ T[0] = 0
      BY <1>0, <1>1, <1>2, <1>3 DEF PartialSums
    <2>2. QED
      BY <2>1
  <1>6. ASSUME NEW n \in 0..(NCpus - 1), n \in G PROVE n + 1 \in G
    <2>0. Rem(U[n]) = Rem(S[n] + T[n])
      BY <1>6
    <2> HIDE DEF G
    <2>1. /\ S[n + 1] = S[n] + f[n] /\ T[n + 1] = T[n] + g[n] /\ U[n + 1] = U[n] + h[n]
          /\ S[n] \in Int /\ T[n] \in Int /\ U[n] \in Int
      <3>1. n \in 0..NCpus
        BY <1>0
      <3>2. S[n + 1] = S[n] + f[n] /\ S[n] \in Int
        BY <1>1, <3>1 DEF PartialSums
      <3>3. T[n + 1] = T[n] + g[n] /\ T[n] \in Int
        BY <1>2, <3>1 DEF PartialSums
      <3>4. U[n + 1] = U[n] + h[n] /\ U[n] \in Int
        BY <1>3, <3>1 DEF PartialSums
      <3>5. QED
        BY <3>2, <3>3, <3>4
    <2>2. f[n] \in Int /\ g[n] \in Int /\ h[n] \in Int /\ Rem(h[n]) = Rem(f[n] + g[n])
      BY <1>0
    <2>3. Rem(U[n] + h[n]) = Rem((S[n] + T[n]) + (f[n] + g[n]))
      <3> DEFINE a == U[n]
                 b == S[n] + T[n]
                 x == h[n]
                 y == f[n] + g[n]
      <3>1. a \in Int /\ b \in Int /\ x \in Int /\ y \in Int
        BY <2>1, <2>2
      <3>2. Rem(a) = Rem(b) /\ Rem(x) = Rem(y)
        BY <2>0, <2>2
      <3> HIDE DEF a, b, x, y
      <3>3. Rem(a + x) = Rem(b + y)
        BY <3>1, <3>2, RemCong
      <3>4. QED
        BY <3>3 DEF a, b, x, y
    <2>4. (S[n] + T[n]) + (f[n] + g[n]) = S[n + 1] + T[n + 1]
      BY <2>1, <2>2
    <2>5. QED
      BY <1>0, <2>1, <2>3, <2>4 DEF G
  <1>7. NCpus \in G
    <2>1. G \in SUBSET (0..NCpus)
      OBVIOUS
    <2> HIDE DEF G
    <2>2. G = 0..NCpus
      BY <1>0, <1>5, <1>6, <2>1, Induct
    <2>3. QED
      BY <1>0, <2>2
  <1>8. QED
    BY <1>1, <1>2, <1>3, <1>7

-----------------------------------------------------------------------------
(* The youngest of the pending stores. *)
LEMMA YoungestIs ==
  ASSUME NEW n \in Nat, NEW J \in SUBSET (1..n), J # {}
  PROVE  Youngest(J) \in J /\ \A l \in J : l <= Youngest(J)
  <1> DEFINE D == {n - l : l \in J}
  <1>1. D \in SUBSET Nat /\ D # {}
    <2>1. \A l \in J : l \in 1..n /\ n - l \in Nat
      OBVIOUS
    <2>2. PICK l \in J : TRUE
      OBVIOUS
    <2>3. n - l \in D
      BY <2>2
    <2>4. QED
      BY <2>1, <2>3
  <1>2. PICK d \in D : \A e \in D : d <= e
    BY <1>1, Least
  <1>3. PICK j \in J : d = n - j
    BY <1>2
  <1>4. \A l \in J : l <= j
    BY <1>2, <1>3
  <1>5. QED
    BY <1>4 DEF Youngest

(* A load takes the store after which there is no other to the location. *)
LEMMA LoadIs ==
  ASSUME NEW W, NEW q \in Seq(W), NEW to, NEW i, NEW m, NEW j \in Pending(q, to, i),
         \A l \in Pending(q, to, i) : l <= j
  PROVE  Load(q, to, i, m) = q[j].v
  <1>1. Len(q) \in Nat /\ Pending(q, to, i) \in SUBSET (1..Len(q))
    BY DEF Pending
  <1>2. LET y == Youngest(Pending(q, to, i)) IN
        y \in Pending(q, to, i) /\ \A l \in Pending(q, to, i) : l <= y
    BY <1>1, YoungestIs
  <1>3. Youngest(Pending(q, to, i)) = j
    BY <1>1, <1>2
  <1>4. QED
    BY <1>3 DEF Load

(* With nothing pending a load takes the memory. *)
LEMMA LoadMemory ==
  ASSUME NEW q, NEW to, NEW i, NEW m, Pending(q, to, i) = {}
  PROVE  Load(q, to, i, m) = m
  BY DEF Load

(* A load takes the memory or a pending store. *)
LEMMA LoadPending ==
  ASSUME NEW W, NEW q \in Seq(W), NEW to, NEW i, NEW m, Pending(q, to, i) # {}
  PROVE  \E j \in Pending(q, to, i) : /\ Load(q, to, i, m) = q[j].v
                                      /\ \A l \in Pending(q, to, i) : l <= j
  <1>1. Len(q) \in Nat /\ Pending(q, to, i) \in SUBSET (1..Len(q))
    BY DEF Pending
  <1>2. LET y == Youngest(Pending(q, to, i)) IN
        y \in Pending(q, to, i) /\ \A l \in Pending(q, to, i) : l <= y
    BY <1>1, YoungestIs
  <1>3. QED
    BY <1>2 DEF Load

(* What is pending after another store. *)
LEMMA PendingAppend ==
  ASSUME NEW W, NEW q \in Seq(W), NEW w \in W, NEW to, NEW i
  PROVE  /\ Append(q, w) \in Seq(W) /\ Len(Append(q, w)) = Len(q) + 1
         /\ \A j \in 1..Len(q) : Append(q, w)[j] = q[j]
         /\ Append(q, w)[Len(q) + 1] = w
         /\ Pending(Append(q, w), to, i) =
              IF w.to = to /\ w.i = i THEN Pending(q, to, i) \cup {Len(q) + 1}
                                      ELSE Pending(q, to, i)
  <1>1. /\ Append(q, w) \in Seq(W) /\ Len(Append(q, w)) = Len(q) + 1
        /\ \A j \in 1..Len(q) : Append(q, w)[j] = q[j]
        /\ Append(q, w)[Len(q) + 1] = w /\ Len(q) \in Nat
    OBVIOUS
  <1>2. QED
    BY <1>1 DEF Pending

(* The CPU sees its own stores. *)
LEMMA LoadAppend ==
  ASSUME NEW W, NEW q \in Seq(W), NEW w \in W, NEW to, NEW i, NEW m
  PROVE  Load(Append(q, w), to, i, m) =
           IF w.to = to /\ w.i = i THEN w.v ELSE Load(q, to, i, m)
  <1> DEFINE p == Append(q, w)
  <1>1. /\ p \in Seq(W) /\ Len(p) = Len(q) + 1 /\ Len(q) \in Nat
        /\ \A j \in 1..Len(q) : p[j] = q[j]
        /\ p[Len(q) + 1] = w
        /\ Pending(p, to, i) = IF w.to = to /\ w.i = i THEN Pending(q, to, i) \cup {Len(q) + 1}
                                                       ELSE Pending(q, to, i)
        /\ Pending(q, to, i) \in SUBSET (1..Len(q))
    <2>1. Pending(q, to, i) \in SUBSET (1..Len(q)) /\ Len(q) \in Nat
      BY DEF Pending
    <2>2. QED
      BY <2>1, PendingAppend
  <1> HIDE DEF p
  <1>2. CASE w.to = to /\ w.i = i
    <2>1. Len(q) + 1 \in Pending(p, to, i) /\ \A l \in Pending(p, to, i) : l <= Len(q) + 1
      BY <1>1, <1>2
    <2>2. Load(p, to, i, m) = p[Len(q) + 1].v
      BY <1>1, <2>1, LoadIs
    <2>3. QED
      BY <1>1, <1>2, <2>2 DEF p
  <1>3. CASE ~(w.to = to /\ w.i = i)
    <2>1. CASE Pending(q, to, i) = {}
      <3>1. Pending(p, to, i) = {}
        BY <1>1, <1>3, <2>1
      <3>2. Load(p, to, i, m) = m /\ Load(q, to, i, m) = m
        BY <2>1, <3>1, LoadMemory
      <3>3. QED
        BY <1>3, <3>2 DEF p
    <2>2. CASE Pending(q, to, i) # {}
      <3>1. PICK j \in Pending(q, to, i) : /\ Load(q, to, i, m) = q[j].v
                                           /\ \A l \in Pending(q, to, i) : l <= j
        BY <2>2, LoadPending
      <3>2. Load(p, to, i, m) = p[j].v
        BY <1>1, <1>3, <3>1, LoadIs
      <3>3. p[j] = q[j]
        BY <1>1, <3>1
      <3>4. QED
        BY <1>3, <3>1, <3>2, <3>3 DEF p
    <2>3. QED
      BY <2>1, <2>2
  <1>4. QED
    BY <1>2, <1>3 DEF p

(* What is pending after the oldest store has reached the memory. *)
LEMMA PendingTail ==
  ASSUME NEW W, NEW q \in Seq(W), q # <<>>, NEW to, NEW i
  PROVE  /\ Tail(q) \in Seq(W) /\ Len(q) \in Nat /\ Len(Tail(q)) = Len(q) - 1
         /\ Head(q) = q[1] /\ 1 \in 1..Len(q)
         /\ \A j \in 1..(Len(q) - 1) : Tail(q)[j] = q[j + 1]
         /\ \A j \in Int : j \in Pending(Tail(q), to, i) <=> j # 0 /\ j + 1 \in Pending(q, to, i)
  <1>1. /\ Tail(q) \in Seq(W) /\ Len(Tail(q)) = Len(q) - 1 /\ Len(q) \in Nat
        /\ Head(q) = q[1] /\ 1 \in 1..Len(q)
        /\ \A j \in 1..(Len(q) - 1) : Tail(q)[j] = q[j + 1]
    OBVIOUS
  <1>2. QED
    BY <1>1 DEF Pending

(* A store that reaches the memory is not news for its own CPU. *)
LEMMA LoadTail ==
  ASSUME NEW W, NEW q \in Seq(W), q # <<>>, NEW to, NEW i, NEW m, NEW n,
         n = IF Head(q).to = to /\ Head(q).i = i THEN Head(q).v ELSE m
  PROVE  Load(Tail(q), to, i, n) = Load(q, to, i, m)
  <1> DEFINE p == Tail(q)
  <1>1. /\ p \in Seq(W) /\ Len(q) \in Nat /\ Len(p) = Len(q) - 1
        /\ Head(q) = q[1] /\ 1 \in 1..Len(q)
        /\ \A j \in 1..(Len(q) - 1) : p[j] = q[j + 1]
        /\ \A j \in Int : j \in Pending(p, to, i) <=> j # 0 /\ j + 1 \in Pending(q, to, i)
    BY PendingTail
  <1> HIDE DEF p
  <1>2. /\ Pending(p, to, i) \in SUBSET (1..Len(p)) /\ Pending(q, to, i) \in SUBSET (1..Len(q))
        /\ 1 \in Pending(q, to, i) <=> Head(q).to = to /\ Head(q).i = i
    BY <1>1 DEF Pending
  <1>3. CASE Pending(p, to, i) # {}
    <2>1. PICK j \in Pending(p, to, i) : /\ Load(p, to, i, n) = p[j].v
                                         /\ \A l \in Pending(p, to, i) : l <= j
      BY <1>1, <1>3, LoadPending
    <2>2. j \in 1..(Len(q) - 1) /\ j + 1 \in Pending(q, to, i)
      BY <1>1, <1>2, <2>1
    <2>3. ASSUME NEW l \in Pending(q, to, i) PROVE l <= j + 1
      <3>1. l \in 1..Len(q)
        BY <1>2
      <3>2. CASE l = 1
        BY <2>2, <3>2
      <3>3. CASE l # 1
        <4>1. l - 1 \in Pending(p, to, i)
          BY <1>1, <3>1, <3>3
        <4>2. QED
          BY <2>1, <2>2, <3>1, <4>1
      <3>4. QED
        BY <3>2, <3>3
    <2>4. Load(q, to, i, m) = q[j + 1].v
      BY <2>2, <2>3, LoadIs
    <2>5. QED
      BY <1>1, <2>1, <2>2, <2>4 DEF p
  <1>4. CASE Pending(p, to, i) = {}
    <2>1. Load(p, to, i, n) = n
      BY <1>4 DEF Load
    <2>2. ASSUME NEW l \in Pending(q, to, i) PROVE l = 1
      <3>1. l \in 1..Len(q) /\ l - 1 \in Int /\ (l - 1) + 1 = l
        BY <1>2
      <3>2. l - 1 \notin Pending(p, to, i)
        BY <1>4
      <3>3. QED
        BY <1>1, <3>1, <3>2
    <2>3. CASE 1 \in Pending(q, to, i)
      <3>1. Load(q, to, i, m) = q[1].v
        BY <2>2, <2>3, LoadIs
      <3>2. QED
        BY <1>1, <1>2, <2>1, <2>3, <3>1 DEF p
    <2>4. CASE 1 \notin Pending(q, to, i)
      <3>1. Pending(q, to, i) = {}
        BY <2>2, <2>4
      <3>2. QED
        BY <1>2, <2>1, <2>4, <3>1 DEF Load, p
    <2>5. QED
      BY <2>3, <2>4
  <1>5. QED
    BY <1>3, <1>4

(* Moving all positions down by one loses the first. *)
LEMMA ShiftCount ==
  ASSUME NEW n \in Nat, NEW J \in SUBSET (1..n), NEW K \in SUBSET Int,
         \A j \in Int : j \in K <=> j # 0 /\ j + 1 \in J
  PROVE  /\ IsFiniteSet(J) /\ IsFiniteSet(K) /\ Cardinality(J) \in Nat /\ Cardinality(K) \in Nat
         /\ Cardinality(K) = IF 1 \in J THEN Cardinality(J) - 1 ELSE Cardinality(J)
  <1>1. IsFiniteSet(J)
    <2>1. IsFiniteSet(1..n)
      BY FS_Interval
    <2>2. QED
      BY <2>1, FS_Subset
  <1> DEFINE I == J \ {1}
             f == [j \in I |-> j - 1]
  <1>2. /\ IsFiniteSet(I)
        /\ Cardinality(I) = IF 1 \in J THEN Cardinality(J) - 1 ELSE Cardinality(J)
    BY <1>1, FS_RemoveElement
  <1>3. f \in Bijection(I, K)
    <2>1. \A j \in I : j \in 2..n
      OBVIOUS
    <2>2. f \in [I -> K]
      BY <2>1
    <2>3. IsInjective(f)
      BY <2>1 DEF IsInjective
    <2>4. ASSUME NEW y \in K PROVE \E x \in I : f[x] = y
      <3>1. y \in Int /\ y # 0 /\ y + 1 \in J
        OBVIOUS
      <3>2. y + 1 \in I /\ f[y + 1] = y
        BY <3>1
      <3>3. QED
        BY <3>2
    <2>5. QED
      BY <2>2, <2>3, <2>4 DEF Bijection, Injection, Surjection
  <1> HIDE DEF I, f
  <1>4. IsFiniteSet(K) /\ Cardinality(K) = Cardinality(I)
    BY <1>2, <1>3, FS_Bijection DEF ExistsBijection
  <1>5. QED
    BY <1>1, <1>2, <1>4, FS_CardinalityType

(* A buffer holds a finite number of stores. *)
LEMMA PendingFinite ==
  ASSUME NEW W, NEW q \in Seq(W), NEW to, NEW i
  PROVE  /\ Pending(q, to, i) \in SUBSET (1..Len(q)) /\ Len(q) \in Nat
         /\ IsFiniteSet(Pending(q, to, i)) /\ Cardinality(Pending(q, to, i)) \in Nat
         /\ q = <<>> => Pending(q, to, i) = {} /\ Cardinality(Pending(q, to, i)) = 0
  <1>1. /\ Pending(q, to, i) \in SUBSET (1..Len(q)) /\ Len(q) \in Nat
        /\ q = <<>> => Pending(q, to, i) = {}
    BY DEF Pending
  <1>2. IsFiniteSet(Pending(q, to, i))
    <2>1. IsFiniteSet(1..Len(q))
      BY <1>1, FS_Interval
    <2>2. QED
      BY <1>1, <2>1, FS_Subset
  <1>3. QED
    BY <1>1, <1>2, FS_CardinalityType, FS_EmptySet

(* One more store is pending. *)
LEMMA CountAppend ==
  ASSUME NEW W, NEW q \in Seq(W), NEW w \in W, NEW to, NEW i
  PROVE  Cardinality(Pending(Append(q, w), to, i)) =
           IF w.to = to /\ w.i = i THEN Cardinality(Pending(q, to, i)) + 1
                                   ELSE Cardinality(Pending(q, to, i))
  <1>1. /\ Pending(q, to, i) \in SUBSET (1..Len(q)) /\ Len(q) \in Nat
        /\ IsFiniteSet(Pending(q, to, i))
    BY PendingFinite
  <1>2. Len(q) + 1 \notin Pending(q, to, i)
    BY <1>1
  <1>3. Cardinality(Pending(q, to, i) \cup {Len(q) + 1}) = Cardinality(Pending(q, to, i)) + 1
    BY <1>1, <1>2, FS_AddElement
  <1>4. Pending(Append(q, w), to, i) = IF w.to = to /\ w.i = i
                                       THEN Pending(q, to, i) \cup {Len(q) + 1}
                                       ELSE Pending(q, to, i)
    BY PendingAppend
  <1>5. QED
    BY <1>3, <1>4

(* One store less is pending. *)
LEMMA CountTail ==
  ASSUME NEW W, NEW q \in Seq(W), q # <<>>, NEW to, NEW i
  PROVE  Cardinality(Pending(Tail(q), to, i)) =
           IF Head(q).to = to /\ Head(q).i = i THEN Cardinality(Pending(q, to, i)) - 1
                                               ELSE Cardinality(Pending(q, to, i))
  <1>1. /\ Tail(q) \in Seq(W) /\ Head(q) = q[1] /\ 1 \in 1..Len(q)
        /\ \A j \in Int : j \in Pending(Tail(q), to, i) <=> j # 0 /\ j + 1 \in Pending(q, to, i)
    BY PendingTail
  <1>2. Pending(q, to, i) \in SUBSET (1..Len(q)) /\ Len(q) \in Nat
    BY PendingFinite
  <1>3. Pending(Tail(q), to, i) \in SUBSET Int
    BY DEF Pending
  <1>4. 1 \in Pending(q, to, i) <=> Head(q).to = to /\ Head(q).i = i
    BY <1>1 DEF Pending
  <1>5. QED
    BY <1>1, <1>2, <1>3, <1>4, ShiftCount

-----------------------------------------------------------------------------
(* The number of stores to c[i] up to position j. *)
Upto(q, i, j) == Cardinality({l \in Pending(q, "c", i) : l <= j})

(* The pending stores to c[i] bring its value m in memory down one by one. *)
FallingFrom(q, i, m) == \A j \in Pending(q, "c", i) : Rem(q[j].v + Upto(q, i, j)) = m

(* What is stored to a counter is a value of its word. *)
LEMMA CounterStores ==
  ASSUME NEW q \in Seq(Writes), NEW i, NEW j \in Pending(q, "c", i)
  PROVE  q[j].v \in 0..(RefWord - 1) /\ q[j] \in Writes /\ j \in 1..Len(q)
  <1>1. j \in 1..Len(q) /\ q[j] \in Writes /\ q[j].to = "c"
    BY DEF Pending
  <1>2. QED
    BY <1>1 DEF Writes

(* A count is a number. *)
LEMMA UptoType ==
  ASSUME NEW W, NEW q \in Seq(W), NEW i, NEW j
  PROVE  Upto(q, i, j) \in Nat /\ IsFiniteSet({l \in Pending(q, "c", i) : l <= j})
  <1>1. IsFiniteSet(Pending(q, "c", i))
    BY PendingFinite
  <1>2. IsFiniteSet({l \in Pending(q, "c", i) : l <= j})
    BY <1>1, FS_Subset
  <1>3. QED
    BY <1>2, FS_CardinalityType DEF Upto

(* What the memory has of a falling counter is what its CPU sees and the   *)
(* decrements that are pending.                                            *)
LEMMA FallingLoad ==
  ASSUME NEW q \in Seq(Writes), NEW i, NEW m \in 0..(RefWord - 1), FallingFrom(q, i, m)
  PROVE  Rem(Load(q, "c", i, m) + Cardinality(Pending(q, "c", i))) = m
  <1>1. CASE Pending(q, "c", i) = {}
    <2>1. Load(q, "c", i, m) = m /\ Cardinality(Pending(q, "c", i)) = 0
      BY <1>1, LoadMemory, FS_EmptySet
    <2>2. m \in Int /\ m + 0 = m
      BY RefWordType
    <2>3. QED
      BY <2>1, <2>2, RemType
  <1>2. CASE Pending(q, "c", i) # {}
    <2>1. PICK j \in Pending(q, "c", i) : /\ Load(q, "c", i, m) = q[j].v
                                          /\ \A l \in Pending(q, "c", i) : l <= j
      BY <1>2, LoadPending
    <2>2. {l \in Pending(q, "c", i) : l <= j} = Pending(q, "c", i)
      BY <2>1
    <2>3. Upto(q, i, j) = Cardinality(Pending(q, "c", i))
      BY <2>2 DEF Upto
    <2>4. QED
      BY <2>1, <2>3 DEF FallingFrom
  <1>3. QED
    BY <1>1, <1>2

(* A store to another location leaves the counter falling. *)
LEMMA FallingOther ==
  ASSUME NEW q \in Seq(Writes), NEW w \in Writes, NEW i, NEW m, FallingFrom(q, i, m),
         ~(w.to = "c" /\ w.i = i)
  PROVE  FallingFrom(Append(q, w), i, m)
  <1> DEFINE p == Append(q, w)
  <1>1. /\ Pending(p, "c", i) = Pending(q, "c", i)
        /\ \A j \in 1..Len(q) : p[j] = q[j]
    BY PendingAppend
  <1>2. Pending(q, "c", i) \in SUBSET (1..Len(q))
    BY DEF Pending
  <1> HIDE DEF p
  <1>3. FallingFrom(p, i, m)
    BY <1>1, <1>2 DEF FallingFrom, Upto
  <1>4. QED
    BY <1>3 DEF p

(* So does a decrement. *)
LEMMA FallingDecrement ==
  ASSUME NEW q \in Seq(Writes), NEW w \in Writes, NEW i, NEW m \in 0..(RefWord - 1),
         FallingFrom(q, i, m), w.to = "c", w.i = i, w.v = Rem(Load(q, "c", i, m) - 1)
  PROVE  FallingFrom(Append(q, w), i, m)
  <1> DEFINE p == Append(q, w)
             n == Len(q) + 1
             P == Pending(q, "c", i)
             x == Load(q, "c", i, m)
  <1>1. /\ Pending(p, "c", i) = P \cup {n}
        /\ \A j \in 1..Len(q) : p[j] = q[j]
        /\ p[n] = w
    BY PendingAppend
  <1>2. /\ P \in SUBSET (1..Len(q)) /\ Len(q) \in Nat /\ IsFiniteSet(P) /\ Cardinality(P) \in Nat
    BY PendingFinite
  <1>3. x \in Int
    <2>1. CASE P = {}
      BY <2>1, LoadMemory, RefWordType
    <2>2. CASE P # {}
      <3>1. PICK j \in P : x = q[j].v
        BY <2>2, LoadPending
      <3>2. QED
        BY <3>1, CounterStores, RefWordType
    <2>3. QED
      BY <2>1, <2>2
  <1>4. Rem(x + Cardinality(P)) = m
    BY FallingLoad
  <1>5. Cardinality(P \cup {n}) = Cardinality(P) + 1
    <2>1. n \notin P
      BY <1>2
    <2>2. QED
      BY <1>2, <2>1, FS_AddElement
  <1> HIDE DEF p, x
  <1>6. ASSUME NEW j \in Pending(p, "c", i) PROVE Rem(p[j].v + Upto(p, i, j)) = m
    <2>1. CASE j = n
      <3>1. {l \in Pending(p, "c", i) : l <= j} = P \cup {n}
        BY <1>1, <1>2, <2>1
      <3>2. Upto(p, i, j) = Cardinality(P) + 1
        BY <1>5, <3>1 DEF Upto
      <3>3. p[j].v = Rem(x - 1)
        BY <1>1, <2>1 DEF x
      <3>4. Rem(Rem(x - 1) + (Cardinality(P) + 1)) = Rem((x - 1) + (Cardinality(P) + 1))
        BY <1>2, <1>3, RemAdd
      <3>5. (x - 1) + (Cardinality(P) + 1) = x + Cardinality(P)
        BY <1>2, <1>3
      <3>6. QED
        BY <1>4, <3>2, <3>3, <3>4, <3>5
    <2>2. CASE j # n
      <3>1. j \in P /\ j \in 1..Len(q)
        BY <1>1, <1>2, <2>2
      <3>2. {l \in Pending(p, "c", i) : l <= j} = {l \in P : l <= j}
        BY <1>1, <1>2, <3>1
      <3>3. p[j] = q[j] /\ Upto(p, i, j) = Upto(q, i, j)
        BY <1>1, <3>1, <3>2 DEF Upto
      <3>4. QED
        BY <3>1, <3>3 DEF FallingFrom
    <2>3. QED
      BY <2>1, <2>2
  <1>7. QED
    BY <1>6 DEF FallingFrom, p

(* So does the oldest store that reaches the memory. *)
LEMMA FallingTail ==
  ASSUME NEW q \in Seq(Writes), q # <<>>, NEW i, NEW m \in 0..(RefWord - 1),
         FallingFrom(q, i, m), NEW n,
         n = IF Head(q).to = "c" /\ Head(q).i = i THEN Head(q).v ELSE m
  PROVE  FallingFrom(Tail(q), i, n)
  <1> DEFINE p == Tail(q)
             P == Pending(q, "c", i)
  <1>1. /\ p \in Seq(Writes) /\ Len(q) \in Nat /\ Head(q) = q[1] /\ 1 \in 1..Len(q)
        /\ Len(p) = Len(q) - 1
        /\ \A j \in 1..(Len(q) - 1) : p[j] = q[j + 1]
        /\ \A j \in Int : j \in Pending(p, "c", i) <=> j # 0 /\ j + 1 \in P
    BY PendingTail
  <1> HIDE DEF p
  <1>2. /\ P \in SUBSET (1..Len(q)) /\ Pending(p, "c", i) \in SUBSET (1..Len(p))
        /\ 1 \in P <=> Head(q).to = "c" /\ Head(q).i = i
    BY <1>1 DEF Pending
  <1> SUFFICES ASSUME NEW j \in Pending(p, "c", i) PROVE Rem(p[j].v + Upto(p, i, j)) = n
    BY DEF FallingFrom, p
  <1>3. j \in 1..(Len(q) - 1) /\ j + 1 \in P /\ p[j] = q[j + 1]
    BY <1>1, <1>2
  <1> DEFINE J == {l \in P : l <= j + 1}
             K == {l \in Pending(p, "c", i) : l <= j}
             v == p[j].v
  <1>4. /\ Cardinality(J) \in Nat /\ Cardinality(K) \in Nat
        /\ Cardinality(K) = IF 1 \in P THEN Cardinality(J) - 1 ELSE Cardinality(J)
    <2>1. J \in SUBSET (1..Len(q)) /\ K \in SUBSET Int /\ (1 \in J <=> 1 \in P)
      <3>1. J \in SUBSET (1..Len(q))
        BY <1>2
      <3>2. K \in SUBSET Int
        BY <1>2
      <3>3. 1 <= j + 1
        BY <1>1, <1>3
      <3>4. QED
        BY <3>1, <3>2, <3>3
    <2>2. \A l \in Int : l \in K <=> l # 0 /\ l + 1 \in J
      BY <1>1, <1>3
    <2> HIDE DEF J, K
    <2>3. QED
      BY <1>1, <2>1, <2>2, ShiftCount
  <1>5. Rem(v + Cardinality(J)) = m /\ v \in 0..(RefWord - 1)
    <2>1. Rem(q[j + 1].v + Upto(q, i, j + 1)) = m
      BY <1>3 DEF FallingFrom
    <2>2. QED
      BY <1>3, <2>1, CounterStores DEF Upto
  <1>6. Upto(p, i, j) = Cardinality(K)
    BY DEF Upto
  <1> HIDE DEF J, K, v
  <1>7. CASE 1 \notin P
    BY <1>2, <1>4, <1>5, <1>6, <1>7 DEF v
  <1>8. CASE 1 \in P
    <2> DEFINE z == q[1].v
    <2>1. z \in 0..(RefWord - 1) /\ n = z
      BY <1>1, <1>2, <1>8, CounterStores
    <2>2. Rem(z + 1) = m
      <3>1. {l \in P : l <= 1} = {1}
        BY <1>2, <1>8
      <3>2. Upto(q, i, 1) = 1
        BY <3>1, FS_Singleton DEF Upto
      <3>3. QED
        BY <1>8, <3>2 DEF FallingFrom
    <2> HIDE DEF z
    <2>3. Rem((v + Cardinality(J)) + (-1)) = Rem((z + 1) + (-1))
      <3> DEFINE a == v + Cardinality(J)
                 b == z + 1
      <3>1. a \in Int /\ b \in Int /\ -1 \in Int /\ Rem(a) = Rem(b)
        BY <1>4, <1>5, <2>1, <2>2, RefWordType
      <3> HIDE DEF a, b
      <3>2. Rem(a + (-1)) = Rem(b + (-1))
        BY <3>1, RemCong
      <3>3. QED
        BY <3>2 DEF a, b
    <2>4. /\ (v + Cardinality(J)) + (-1) = v + (Cardinality(J) - 1) /\ (z + 1) + (-1) = z
          /\ z \in Int
      BY <1>4, <1>5, <2>1, RefWordType
    <2>5. Rem(v + (Cardinality(J) - 1)) = z
      BY <2>1, <2>3, <2>4, RemType
    <2>6. QED
      BY <1>4, <1>6, <1>8, <2>1, <2>5 DEF v
  <1>9. QED
    BY <1>7, <1>8

-----------------------------------------------------------------------------
(* What a store, and one that reaches the memory, change.                  *)

(* The stores to c[i] that are pending on a CPU are decrements. *)
Falling(k, i) == FallingFrom(buf[k], i, c[k][i])

(* What a CPU sees has the type of the location. *)
LEMMA LoadTypes ==
  ASSUME SrcuTypeOK, NEW k \in CPUs
  PROVE  /\ buf[k] \in Seq(Writes)
         /\ \A i \in {0, 1} : load_c(k, i) \in 0..(RefWord - 1) /\ c[k][i] \in 0..(RefWord - 1)
         /\ \A i \in {0, 1} : Late(k, i) \in Nat
         /\ load_completed(k) \in 0..(Word - 1)
         /\ \A u \in Updaters : load_ptr(k, u) \in {0, 1}
  <1>1. buf[k] \in Seq(Writes)
    BY DEF SrcuTypeOK
  <1>2. ASSUME NEW i \in {0, 1} PROVE load_c(k, i) \in 0..(RefWord - 1) /\ c[k][i] \in 0..(RefWord - 1)
    <2>1. c[k][i] \in 0..(RefWord - 1)
      BY DEF SrcuTypeOK
    <2>2. CASE Pending(buf[k], "c", i) = {}
      BY <2>1, <2>2, LoadMemory DEF load_c
    <2>3. CASE Pending(buf[k], "c", i) # {}
      <3>1. PICK j \in Pending(buf[k], "c", i) : Load(buf[k], "c", i, c[k][i]) = buf[k][j].v
        BY <1>1, <2>3, LoadPending
      <3>2. QED
        BY <1>1, <2>1, <3>1, CounterStores DEF load_c
    <2>4. QED
      BY <2>2, <2>3
  <1>3. load_completed(k) \in 0..(Word - 1)
    <2>1. CASE Pending(buf[k], "completed", 0) = {}
      BY <2>1, LoadMemory DEF load_completed, SrcuTypeOK
    <2>2. CASE Pending(buf[k], "completed", 0) # {}
      <3>1. PICK j \in Pending(buf[k], "completed", 0) :
              Load(buf[k], "completed", 0, completed) = buf[k][j].v
        BY <1>1, <2>2, LoadPending
      <3>2. buf[k][j] \in Writes /\ buf[k][j].to = "completed"
        BY <1>1 DEF Pending
      <3>3. QED
        BY <3>1, <3>2 DEF load_completed, Writes
    <2>3. QED
      BY <2>1, <2>2
  <1>4. ASSUME NEW u \in Updaters PROVE load_ptr(k, u) \in {0, 1}
    <2>1. CASE Pending(buf[k], "ptr", u) = {}
      BY <2>1, LoadMemory DEF load_ptr, SrcuTypeOK
    <2>2. CASE Pending(buf[k], "ptr", u) # {}
      <3>1. PICK j \in Pending(buf[k], "ptr", u) : Load(buf[k], "ptr", u, ptr[u]) = buf[k][j].v
        BY <1>1, <2>2, LoadPending
      <3>2. buf[k][j] \in Writes /\ buf[k][j].to = "ptr"
        BY <1>1 DEF Pending
      <3>3. QED
        BY <3>1, <3>2 DEF load_ptr, Writes
    <2>3. QED
      BY <2>1, <2>2
  <1>5. \A i \in {0, 1} : Late(k, i) \in Nat
    BY <1>1, PendingFinite DEF Late
  <1>6. QED
    BY <1>1, <1>2, <1>3, <1>4, <1>5

(* What a CPU sees does not change while the buffers and the memory stay. *)
LEMMA SameLoads ==
  ASSUME UNCHANGED <<buf, mem>>
  PROVE  /\ \A k \in CPUs, i \in {0, 1} : /\ load_c(k, i)' = load_c(k, i) /\ Late(k, i)' = Late(k, i)
                                          /\ Falling(k, i)' = Falling(k, i)
         /\ \A k \in CPUs : load_completed(k)' = load_completed(k)
         /\ \A k \in CPUs, u \in Updaters : load_ptr(k, u)' = load_ptr(k, u)
  BY DEF mem, load_c, Late, Falling, load_completed, load_ptr

(* A store changes what its own CPU sees of its location and nothing else. *)
LEMMA StoreEffect ==
  ASSUME SrcuTypeOK, NEW k \in CPUs, NEW to, NEW i, NEW v, [to |-> to, i |-> i, v |-> v] \in Writes,
         Store(k, to, i, v), UNCHANGED mem
  PROVE  /\ buf' \in [CPUs -> Seq(Writes)]
         /\ \A x \in CPUs, n \in {0, 1} :
              IF x = k /\ to = "c" /\ n = i
              THEN /\ load_c(x, n)' = v /\ Late(x, n)' = Late(x, n) + 1
                   /\ Falling(x, n) /\ v = Rem(load_c(x, n) - 1) => Falling(x, n)'
              ELSE /\ load_c(x, n)' = load_c(x, n) /\ Late(x, n)' = Late(x, n)
                   /\ Falling(x, n) => Falling(x, n)'
         /\ \A x \in CPUs :
              load_completed(x)' = IF x = k /\ to = "completed" THEN v ELSE load_completed(x)
         /\ \A x \in CPUs, u \in Updaters :
              load_ptr(x, u)' = IF x = k /\ to = "ptr" /\ u = i THEN v ELSE load_ptr(x, u)
  <1> DEFINE w == [to |-> to, i |-> i, v |-> v]
  <1>1. w \in Writes /\ w.to = to /\ w.i = i /\ w.v = v
    OBVIOUS
  <1>2. /\ buf \in [CPUs -> Seq(Writes)] /\ buf' = [buf EXCEPT ![k] = Append(@, w)]
        /\ c' = c /\ completed' = completed /\ ptr' = ptr
    BY DEF SrcuTypeOK, Store, mem
  <1> HIDE DEF w
  <1>3. /\ buf'[k] = Append(buf[k], w) /\ \A x \in CPUs : x # k => buf'[x] = buf[x]
        /\ \A x \in CPUs : buf[x] \in Seq(Writes)
        /\ Append(buf[k], w) \in Seq(Writes)
    BY <1>1, <1>2
  <1>4. buf' \in [CPUs -> Seq(Writes)]
    BY <1>2, <1>3
  <1>5. ASSUME NEW x \in CPUs, NEW a, NEW b, NEW m
        PROVE  Load(buf'[x], a, b, m) = IF x = k /\ to = a /\ i = b THEN v ELSE Load(buf[x], a, b, m)
    <2>1. Load(Append(buf[k], w), a, b, m) = IF w.to = a /\ w.i = b THEN w.v ELSE Load(buf[k], a, b, m)
      BY <1>1, <1>3, LoadAppend
    <2>2. QED
      BY <1>1, <1>3, <2>1
  <1>6. ASSUME NEW x \in CPUs, NEW a, NEW b
        PROVE  Cardinality(Pending(buf'[x], a, b)) =
                 IF x = k /\ to = a /\ i = b THEN Cardinality(Pending(buf[x], a, b)) + 1
                                             ELSE Cardinality(Pending(buf[x], a, b))
    <2>1. Cardinality(Pending(Append(buf[k], w), a, b)) =
            IF w.to = a /\ w.i = b THEN Cardinality(Pending(buf[k], a, b)) + 1
                                   ELSE Cardinality(Pending(buf[k], a, b))
      BY <1>1, <1>3, CountAppend
    <2>2. QED
      BY <1>1, <1>3, <2>1
  <1>7. ASSUME NEW x \in CPUs, NEW n \in {0, 1}
        PROVE  IF x = k /\ to = "c" /\ n = i
               THEN /\ load_c(x, n)' = v /\ Late(x, n)' = Late(x, n) + 1
                    /\ Falling(x, n) /\ v = Rem(load_c(x, n) - 1) => Falling(x, n)'
               ELSE /\ load_c(x, n)' = load_c(x, n) /\ Late(x, n)' = Late(x, n)
                    /\ Falling(x, n) => Falling(x, n)'
    <2>1. c[x][n] \in 0..(RefWord - 1)
      BY LoadTypes
    <2>2. load_c(x, n)' = IF x = k /\ to = "c" /\ n = i THEN v ELSE load_c(x, n)
      <3>1. Load(buf'[x], "c", n, c[x][n]) =
              IF x = k /\ to = "c" /\ i = n THEN v ELSE Load(buf[x], "c", n, c[x][n])
        BY <1>5
      <3>2. QED
        BY <1>2, <3>1 DEF load_c
    <2>3. Late(x, n)' = IF x = k /\ to = "c" /\ n = i THEN Late(x, n) + 1 ELSE Late(x, n)
      BY <1>6 DEF Late
    <2>4. CASE x # k
      BY <1>2, <1>3, <2>2, <2>3, <2>4 DEF Falling
    <2>5. CASE x = k /\ ~(to = "c" /\ n = i)
      <3>1. FallingFrom(buf[k], n, c[k][n]) => FallingFrom(Append(buf[k], w), n, c[k][n])
        BY <1>1, <1>3, <2>5, FallingOther
      <3>2. QED
        BY <1>2, <1>3, <2>2, <2>3, <2>5, <3>1 DEF Falling
    <2>6. CASE x = k /\ to = "c" /\ n = i
      <3>1. ASSUME FallingFrom(buf[k], n, c[k][n]), v = Rem(Load(buf[k], "c", n, c[k][n]) - 1)
            PROVE  FallingFrom(Append(buf[k], w), n, c[k][n])
        BY <1>1, <1>3, <2>1, <2>6, <3>1, FallingDecrement
      <3>2. Falling(x, n) /\ v = Rem(load_c(x, n) - 1) => Falling(x, n)'
        BY <1>2, <1>3, <2>6, <3>1 DEF Falling, load_c
      <3>3. QED
        BY <2>2, <2>3, <2>6, <3>2
    <2>7. QED
      BY <2>4, <2>5, <2>6
  <1>8. ASSUME NEW x \in CPUs
        PROVE  load_completed(x)' = IF x = k /\ to = "completed" THEN v ELSE load_completed(x)
    <2>1. to = "completed" => i = 0
      BY <1>1 DEF Writes
    <2>2. Load(buf'[x], "completed", 0, completed) =
            IF x = k /\ to = "completed" /\ i = 0 THEN v ELSE Load(buf[x], "completed", 0, completed)
      BY <1>5
    <2>3. QED
      BY <1>2, <2>1, <2>2 DEF load_completed
  <1>9. ASSUME NEW x \in CPUs, NEW u \in Updaters
        PROVE  load_ptr(x, u)' = IF x = k /\ to = "ptr" /\ u = i THEN v ELSE load_ptr(x, u)
    <2>1. Load(buf'[x], "ptr", u, ptr[u]) =
            IF x = k /\ to = "ptr" /\ i = u THEN v ELSE Load(buf[x], "ptr", u, ptr[u])
      BY <1>5
    <2>2. QED
      BY <1>2, <2>1 DEF load_ptr
  <1>10. QED
    BY <1>4, <1>7, <1>8, <1>9

(* What is pending on a CPU after a store. *)
LEMMA StorePending ==
  ASSUME SrcuTypeOK, NEW k \in CPUs, NEW to, NEW i, NEW v, [to |-> to, i |-> i, v |-> v] \in Writes,
         Store(k, to, i, v)
  PROVE  /\ \A x \in CPUs : ~(x = k /\ to = "completed") =>
              /\ Pending(buf[x], "completed", 0)' = Pending(buf[x], "completed", 0)
              /\ \A j \in Pending(buf[x], "completed", 0) : buf'[x][j] = buf[x][j]
         /\ \A x \in CPUs, u \in Updaters : ~(x = k /\ to = "ptr" /\ i = u) =>
              Pending(buf[x], "ptr", u)' = Pending(buf[x], "ptr", u)
         /\ to = "completed" =>
              /\ Pending(buf[k], "completed", 0)' = Pending(buf[k], "completed", 0) \cup {Len(buf[k]) + 1}
              /\ buf'[k][Len(buf[k]) + 1].v = v
  <1> DEFINE w == [to |-> to, i |-> i, v |-> v]
             q == buf[k]
  <1>1. w \in Writes /\ w.to = to /\ w.i = i /\ w.v = v
    OBVIOUS
  <1>2. buf \in [CPUs -> Seq(Writes)] /\ buf' = [buf EXCEPT ![k] = Append(@, w)]
    BY DEF SrcuTypeOK, Store
  <1> HIDE DEF w
  <1>3. q \in Seq(Writes) /\ buf'[k] = Append(q, w) /\ \A x \in CPUs : x # k => buf'[x] = buf[x]
    BY <1>1, <1>2
  <1> HIDE DEF q
  <1>4. ASSUME NEW a, NEW b
        PROVE  /\ Pending(Append(q, w), a, b) = IF w.to = a /\ w.i = b
                                               THEN Pending(q, a, b) \cup {Len(q) + 1}
                                               ELSE Pending(q, a, b)
               /\ \A j \in Pending(q, a, b) : Append(q, w)[j] = q[j]
               /\ Append(q, w)[Len(q) + 1] = w
    <2>1. /\ Pending(Append(q, w), a, b) = IF w.to = a /\ w.i = b THEN Pending(q, a, b) \cup {Len(q) + 1}
                                                                 ELSE Pending(q, a, b)
          /\ \A j \in 1..Len(q) : Append(q, w)[j] = q[j]
          /\ Append(q, w)[Len(q) + 1] = w
      BY <1>1, <1>3, PendingAppend
    <2>2. Pending(q, a, b) \in SUBSET (1..Len(q))
      BY DEF Pending
    <2>3. QED
      BY <2>1, <2>2
  <1>5. ASSUME NEW x \in CPUs, ~(x = k /\ to = "completed")
        PROVE  /\ Pending(buf[x], "completed", 0)' = Pending(buf[x], "completed", 0)
               /\ \A j \in Pending(buf[x], "completed", 0) : buf'[x][j] = buf[x][j]
    <2>1. /\ ~(w.to = "completed") => Pending(Append(q, w), "completed", 0) = Pending(q, "completed", 0)
          /\ \A j \in Pending(q, "completed", 0) : Append(q, w)[j] = q[j]
      BY <1>4
    <2>2. CASE x = k
      BY <1>1, <1>3, <1>5, <2>1, <2>2 DEF q
    <2>3. CASE x # k
      BY <1>3, <2>3
    <2>4. QED
      BY <2>2, <2>3
  <1>6. ASSUME NEW x \in CPUs, NEW u \in Updaters, ~(x = k /\ to = "ptr" /\ i = u)
        PROVE  Pending(buf[x], "ptr", u)' = Pending(buf[x], "ptr", u)
    <2>1. ~(w.to = "ptr" /\ w.i = u) => Pending(Append(q, w), "ptr", u) = Pending(q, "ptr", u)
      BY <1>4
    <2>2. CASE x = k
      BY <1>1, <1>3, <1>6, <2>1, <2>2 DEF q
    <2>3. CASE x # k
      BY <1>3, <2>3
    <2>4. QED
      BY <2>2, <2>3
  <1>7. ASSUME to = "completed"
        PROVE  /\ Pending(buf[k], "completed", 0)' = Pending(buf[k], "completed", 0) \cup {Len(buf[k]) + 1}
               /\ buf'[k][Len(buf[k]) + 1].v = v
    <2>1. w.to = "completed" /\ w.i = 0
      BY <1>1, <1>7 DEF Writes
    <2>2. QED
      BY <1>1, <1>3, <1>4, <2>1 DEF q
  <1>8. QED
    BY <1>5, <1>6, <1>7

(* A store that reaches the memory changes what other CPUs see of its      *)
(* location, and nothing that its own CPU sees.                            *)
LEMMA DrainEffect ==
  ASSUME SrcuTypeOK, NEW k \in CPUs, Drain(k)
  PROVE  LET w == Head(buf[k]) IN
         /\ w \in Writes
         /\ buf' \in [CPUs -> Seq(Writes)]
         /\ c' \in [CPUs -> [{0, 1} -> 0..(RefWord - 1)]]
         /\ completed' = IF w.to = "completed" THEN w.v ELSE completed
         /\ ptr' = IF w.to = "ptr" THEN [ptr EXCEPT ![w.i] = w.v] ELSE ptr
         /\ 1 \in Pending(buf[k], w.to, w.i) /\ buf[k][1] = w
         /\ \A x \in CPUs, n \in {0, 1} :
              /\ load_c(x, n)' = load_c(x, n)
              /\ Late(x, n)' = IF x = k /\ w.to = "c" /\ n = w.i THEN Late(x, n) - 1 ELSE Late(x, n)
              /\ Falling(x, n) => Falling(x, n)'
         /\ load_completed(k)' = load_completed(k)
         /\ \A x \in CPUs : w.to # "completed" => load_completed(x)' = load_completed(x)
         /\ \A x \in CPUs, u \in Updaters :
              ~(w.to = "ptr" /\ u = w.i) => load_ptr(x, u)' = load_ptr(x, u)
         /\ \A x \in CPUs : x # k => buf'[x] = buf[x]
         /\ \A a, b : \A j \in Pending(buf[k], a, b)' :
              j + 1 \in Pending(buf[k], a, b) /\ buf'[k][j] = buf[k][j + 1]
  <1> DEFINE w == Head(buf[k])
             q == buf[k]
  <1>1. /\ buf \in [CPUs -> Seq(Writes)] /\ q # <<>> /\ buf' = [buf EXCEPT ![k] = Tail(@)]
        /\ c \in [CPUs -> [{0, 1} -> 0..(RefWord - 1)]]
        /\ ptr \in [Updaters -> {0, 1}]
    BY DEF SrcuTypeOK, Drain
  <1>2. /\ q \in Seq(Writes) /\ w \in Writes /\ w = q[1] /\ 1 \in 1..Len(q)
    BY <1>1
  <1>3. /\ buf'[k] = Tail(q) /\ \A x \in CPUs : x # k => buf'[x] = buf[x]
        /\ \A x \in CPUs : buf[x] \in Seq(Writes)
        /\ Tail(q) \in Seq(Writes)
    BY <1>1
  <1> HIDE DEF w
  <1>4. /\ w.to \in {"c", "completed", "ptr"}
        /\ w.to = "c" => w.i \in {0, 1} /\ w.v \in 0..(RefWord - 1)
        /\ w.to = "completed" => w.i = 0
        /\ w.to = "ptr" => w.i \in Updaters
    BY <1>2 DEF Writes
  <1>5. /\ c' = IF w.to = "c" THEN [c EXCEPT ![k][w.i] = w.v] ELSE c
        /\ completed' = IF w.to = "completed" THEN w.v ELSE completed
        /\ ptr' = IF w.to = "ptr" THEN [ptr EXCEPT ![w.i] = w.v] ELSE ptr
    BY <1>4 DEF Drain, w
  <1>6. ASSUME NEW x \in CPUs, NEW n \in {0, 1}
        PROVE  c'[x][n] = IF x = k /\ w.to = "c" /\ w.i = n THEN w.v ELSE c[x][n]
    BY <1>1, <1>4, <1>5
  <1>7. buf' \in [CPUs -> Seq(Writes)] /\ c' \in [CPUs -> [{0, 1} -> 0..(RefWord - 1)]]
    BY <1>1, <1>3, <1>4, <1>5
  <1>8. ASSUME NEW x \in CPUs, NEW n \in {0, 1}
        PROVE  /\ load_c(x, n)' = load_c(x, n)
               /\ Late(x, n)' = IF x = k /\ w.to = "c" /\ n = w.i THEN Late(x, n) - 1 ELSE Late(x, n)
               /\ Falling(x, n) => Falling(x, n)'
    <2>1. CASE x # k
      BY <1>3, <1>6, <2>1 DEF load_c, Late, Falling
    <2>2. CASE x = k
      <3>1. c'[k][n] = IF w.to = "c" /\ w.i = n THEN w.v ELSE c[k][n]
        BY <1>6
      <3>2. Load(Tail(q), "c", n, c'[k][n]) = Load(q, "c", n, c[k][n])
        <4>1. c'[k][n] = IF Head(q).to = "c" /\ Head(q).i = n THEN Head(q).v ELSE c[k][n]
          BY <3>1 DEF w
        <4> DEFINE m == c[k][n]
                   o == c'[k][n]
        <4> HIDE DEF q, m, o
        <4>2. o = IF Head(q).to = "c" /\ Head(q).i = n THEN Head(q).v ELSE m
          BY <4>1 DEF m, o
        <4>3. Load(Tail(q), "c", n, o) = Load(q, "c", n, m)
          BY <1>1, <1>2, <4>2, LoadTail
        <4>4. QED
          BY <4>3 DEF m, o
      <3>3. Cardinality(Pending(Tail(q), "c", n)) =
              IF w.to = "c" /\ w.i = n THEN Cardinality(Pending(q, "c", n)) - 1
                                       ELSE Cardinality(Pending(q, "c", n))
        BY <1>1, <1>2, CountTail DEF w
      <3>4. c[k][n] \in 0..(RefWord - 1)
        BY <1>1
      <3>5. FallingFrom(q, n, c[k][n]) => FallingFrom(Tail(q), n, c'[k][n])
        BY <1>1, <1>2, <3>1, <3>4, FallingTail DEF w
      <3>6. QED
        BY <1>3, <2>2, <3>2, <3>3, <3>5 DEF load_c, Late, Falling
    <2>3. QED
      BY <2>1, <2>2
  <1>9. load_completed(k)' = load_completed(k)
    <2>1. Load(Tail(q), "completed", 0, completed') = Load(q, "completed", 0, completed)
      <3>1. completed' = IF Head(q).to = "completed" /\ Head(q).i = 0 THEN Head(q).v ELSE completed
        BY <1>4, <1>5 DEF w
      <3> DEFINE o == completed'
      <3> HIDE DEF q, o
      <3>2. o = IF Head(q).to = "completed" /\ Head(q).i = 0 THEN Head(q).v ELSE completed
        BY <3>1 DEF o
      <3>3. Load(Tail(q), "completed", 0, o) = Load(q, "completed", 0, completed)
        BY <1>1, <1>2, <3>2, LoadTail
      <3>4. QED
        BY <3>3 DEF o
    <2>2. QED
      BY <1>3, <2>1 DEF load_completed
  <1>10. ASSUME NEW x \in CPUs, w.to # "completed" PROVE load_completed(x)' = load_completed(x)
    BY <1>3, <1>5, <1>9, <1>10 DEF load_completed
  <1>11. ASSUME NEW x \in CPUs, NEW u \in Updaters, ~(w.to = "ptr" /\ u = w.i)
         PROVE  load_ptr(x, u)' = load_ptr(x, u)
    <2>1. ptr'[u] = ptr[u]
      BY <1>1, <1>4, <1>5, <1>11
    <2>2. Load(Tail(q), "ptr", u, ptr[u]) = Load(q, "ptr", u, ptr[u])
      <3> DEFINE m == ptr[u]
                 o == ptr'[u]
      <3>1. o = IF Head(q).to = "ptr" /\ Head(q).i = u THEN Head(q).v ELSE m
        BY <1>11, <2>1 DEF w
      <3> HIDE DEF q, m, o
      <3>2. Load(Tail(q), "ptr", u, o) = Load(q, "ptr", u, m)
        BY <1>1, <1>2, <3>1, LoadTail
      <3>3. QED
        BY <2>1, <3>2 DEF m, o
    <2>3. QED
      BY <1>3, <2>1, <2>2 DEF load_ptr
  <1>12. ASSUME NEW a, NEW b, NEW j \in Pending(buf'[k], a, b)
         PROVE  j + 1 \in Pending(buf[k], a, b) /\ buf'[k][j] = buf[k][j + 1]
    <2>1. j \in 1..Len(Tail(q)) /\ Len(Tail(q)) = Len(q) - 1 /\ Len(q) \in Nat
      BY <1>1, <1>2, <1>3 DEF Pending
    <2>2. QED
      BY <1>1, <1>2, <1>3, <2>1, PendingTail
  <1>13. 1 \in Pending(q, w.to, w.i) /\ q[1] = w
    BY <1>2 DEF Pending
  <1>14. QED
    BY <1>2, <1>3, <1>5, <1>7, <1>8, <1>9, <1>10, <1>11, <1>12, <1>13 DEF w

-----------------------------------------------------------------------------
(* Where the tasks are, and who has the mutex.                             *)

(* Where a reader and an updater can be, and what they have there. *)
ByRole ==
  /\ \A r \in Readers : /\ pos[r] \in {"idle", "locking", "in"} /\ idx[r] \in {0, 1}
                        /\ ref[r] # NoRef => pos[r] = "in"
  /\ \A u \in Updaters : pos[u] \notin {"locking", "in"}

(* The owner of the mutex is the updater inside synchronize_srcu(). *)
OwnerByLabel == \A u \in Updaters : mutex = u <=> pos[u] \in HolderLabels

(* Which call of sync_func() comes before the flip and before the scan. *)
RoundByLabel ==
  \A u \in Updaters : /\ pos[u] = "flip" => round = 1
                      /\ pos[u] = "scan" => round = 2

(* Between its flip and the end of its scan the owner has an old rank. *)
InWindow(u) == pos[u] = "scan" \/ (pos[u] \in {"sync", "qs"} /\ round = 2)

RankByLabel == \A u \in Updaters : InWindow(u) => idx[u] \in {0, 1}

(* Somebody waits for the context switches. *)
QsOwner == qs # {} => \E u \in Updaters : pos[u] = "qs"

Control == SrcuTypeOK /\ ByRole /\ OwnerByLabel /\ RoundByLabel /\ RankByLabel /\ QsOwner

(* The types and the labels after init_srcu_struct(). *)
LEMMA InitControl == SrcuInit => Control
  <1> SUFFICES ASSUME SrcuInit PROVE Control
    OBVIOUS
  <1>1. RefWord \in Nat \ {0} /\ Word \in Nat \ {0} /\ NCpus \in Nat \ {0}
    BY RefWordType, SRCUAssumption
  <1>2. SrcuTypeOK
    <2>1. buf \in [CPUs -> Seq(Writes)]
      BY DEF SrcuInit
    <2>2. c \in [CPUs -> [{0, 1} -> 0..(RefWord - 1)]]
      BY <1>1 DEF SrcuInit
    <2>3. QED
      BY <1>1, <2>1, <2>2 DEF SrcuInit, SrcuTypeOK, SrcuLabels, HolderLabels
  <1>3. QED
    BY <1>2, SRCUAssumption DEF SrcuInit, Control, ByRole, OwnerByLabel, RoundByLabel, RankByLabel,
       InWindow, QsOwner,
       Users, HolderLabels

(* Every owner is an updater, and there is one at a time. *)
LEMMA OneOwner ==
  ASSUME OwnerByLabel, NEW u \in Updaters, NEW v \in Updaters,
         pos[u] \in HolderLabels, pos[v] \in HolderLabels
  PROVE  u = v /\ mutex = u
  BY DEF OwnerByLabel

(* The steps of the machine keep the types and the labels. *)
LEMMA MachineControl ==
  ASSUME Control, NEW k \in CPUs, Drain(k) \/ Switch(k)
  PROVE  Control'
  <1>0. SrcuTypeOK /\ ByRole /\ OwnerByLabel /\ RoundByLabel /\ RankByLabel /\ QsOwner
    BY DEF Control
  <1>1. CASE Drain(k)
    <2>1. UNCHANGED <<pos, cpu, qs, mutex, idx, ref, round, at, sum>>
      BY <1>1 DEF Drain, local
    <2>2. /\ Head(buf[k]) \in Writes
          /\ buf' \in [CPUs -> Seq(Writes)] /\ c' \in [CPUs -> [{0, 1} -> 0..(RefWord - 1)]]
          /\ completed' = IF Head(buf[k]).to = "completed" THEN Head(buf[k]).v ELSE completed
          /\ ptr' = IF Head(buf[k]).to = "ptr" THEN [ptr EXCEPT ![Head(buf[k]).i] = Head(buf[k]).v] ELSE ptr
      BY <1>0, <1>1, DrainEffect
    <2>3. completed' \in 0..(Word - 1)
      BY <1>0, <2>2 DEF SrcuTypeOK, Writes
    <2>4. ptr' \in [Updaters -> {0, 1}]
      BY <1>0, <2>2 DEF SrcuTypeOK, Writes
    <2>5. SrcuTypeOK'
      BY <1>0, <2>1, <2>2, <2>3, <2>4 DEF SrcuTypeOK
    <2>6. QED
      BY <1>0, <2>1, <2>5 DEF Control, ByRole, OwnerByLabel, RoundByLabel, RankByLabel,
       InWindow, QsOwner
  <1>2. CASE Switch(k)
    BY <1>0, <1>2 DEF Switch, mem, local, Control, SrcuTypeOK, ByRole, OwnerByLabel, RoundByLabel, RankByLabel,
       InWindow, QsOwner
  <1>3. QED
    BY <1>1, <1>2

(* So do the steps of a reader. *)
LEMMA ReaderControl ==
  ASSUME Control, NEW r \in Readers, ReaderStep(r) \/ \E k \in CPUs : Migrate(r, k)
  PROVE  Control'
  <1>0. SrcuTypeOK /\ ByRole /\ OwnerByLabel /\ RoundByLabel /\ RankByLabel /\ QsOwner
    BY DEF Control
  <1>1. r \in Users /\ r \notin Updaters /\ cpu[r] \in CPUs /\ \A u \in Updaters : u \in Users /\ u # r
    BY <1>0, SRCUAssumption DEF SrcuTypeOK, Users
  <1>2. Word \in Nat /\ Word >= 2
    BY SRCUAssumption
  <1>t. /\ pos \in [Users -> SrcuLabels] /\ idx \in [Users -> 0..(Word - 1)]
        /\ ref \in [Readers -> (Updaters \X {0, 1}) \cup {NoRef}] /\ round \in 1..3
    BY <1>0 DEF SrcuTypeOK
  <1>3. CASE srcu_read_lock(r)
    <2> DEFINE i == load_completed(cpu[r]) % 2
    <2>1. i \in {0, 1} /\ i \in 0..(Word - 1)
      <3>1. load_completed(cpu[r]) \in 0..(Word - 1)
        BY <1>0, <1>1, LoadTypes
      <3>2. QED
        BY <1>2, <3>1
    <2>2. /\ pos[r] = "idle" /\ pos' = [pos EXCEPT ![r] = "locking"] /\ idx' = [idx EXCEPT ![r] = i]
          /\ UNCHANGED <<cpu, qs, buf, c, completed, ptr, mutex, ref, round, at, sum>>
      BY <1>3 DEF srcu_read_lock, MoveTo, mem
    <2> HIDE DEF i
    <2>3. SrcuTypeOK'
      BY <1>0, <1>1, <2>1, <2>2 DEF SrcuTypeOK, SrcuLabels, HolderLabels
    <2>4. QED
      BY <1>0, <1>1, <1>t, <2>1, <2>2, <2>3 DEF Control, ByRole, OwnerByLabel,
         RoundByLabel, RankByLabel, InWindow, QsOwner, HolderLabels
  <1>4. CASE srcu_read_lock_inc(r)
    <2> DEFINE v == (load_c(cpu[r], idx[r]) + 1) % RefWord
    <2>1. v \in 0..(RefWord - 1) /\ idx[r] \in {0, 1}
      <3>1. load_c(cpu[r], idx[r]) + 1 \in Int
        BY <1>0, <1>1, LoadTypes, RefWordType DEF ByRole
      <3>2. QED
        BY <1>0, <3>1, RemType DEF Rem, ByRole
    <2>2. /\ pos[r] = "locking" /\ pos' = [pos EXCEPT ![r] = "in"]
          /\ UNCHANGED <<cpu, qs, c, completed, ptr, mutex, idx, ref, round, at, sum>>
          /\ Store(cpu[r], "c", idx[r], v)
      BY <1>4 DEF srcu_read_lock_inc, MoveTo, mem, local
    <2> HIDE DEF v
    <2>3. [to |-> "c", i |-> idx[r], v |-> v] \in Writes
      BY <2>1 DEF Writes
    <2>4. buf' \in [CPUs -> Seq(Writes)]
      BY <1>0, <1>1, <2>2, <2>3, StoreEffect DEF mem
    <2>5. SrcuTypeOK'
      BY <1>0, <1>1, <2>2, <2>4 DEF SrcuTypeOK, SrcuLabels, HolderLabels
    <2>6. QED
      BY <1>0, <1>1, <1>t, <2>2, <2>5 DEF Control, ByRole, OwnerByLabel,
         RoundByLabel, RankByLabel, InWindow, QsOwner, HolderLabels
  <1>5. ASSUME NEW u \in Updaters, srcu_dereference(r, u) PROVE Control'
    <2> DEFINE p == <<u, load_ptr(cpu[r], u)>>
    <2>1. p \in Updaters \X {0, 1}
      BY <1>0, <1>1, LoadTypes
    <2>2. /\ pos[r] = "in" /\ pos' = [pos EXCEPT ![r] = "in"] /\ ref' = [ref EXCEPT ![r] = p]
          /\ UNCHANGED <<cpu, qs, buf, c, completed, ptr, mutex, idx, round, at, sum>>
      BY <1>5 DEF srcu_dereference, MoveTo, mem
    <2> HIDE DEF p
    <2>3. SrcuTypeOK'
      BY <1>0, <1>1, <2>1, <2>2 DEF SrcuTypeOK, SrcuLabels, HolderLabels
    <2>4. QED
      BY <1>0, <1>1, <1>t, <2>2, <2>3 DEF Control, ByRole, OwnerByLabel,
         RoundByLabel, RankByLabel, InWindow, QsOwner, HolderLabels
  <1>6. CASE srcu_read_unlock(r)
    <2> DEFINE v == (load_c(cpu[r], idx[r]) - 1) % RefWord
    <2>1. v \in 0..(RefWord - 1) /\ idx[r] \in {0, 1}
      <3>1. load_c(cpu[r], idx[r]) - 1 \in Int
        BY <1>0, <1>1, LoadTypes, RefWordType DEF ByRole
      <3>2. QED
        BY <1>0, <3>1, RemType DEF Rem, ByRole
    <2>2. /\ pos[r] = "in" /\ pos' = [pos EXCEPT ![r] = "idle"]
          /\ ref' = [ref EXCEPT ![r] = NoRef] /\ idx' = [idx EXCEPT ![r] = 0]
          /\ UNCHANGED <<cpu, qs, c, completed, ptr, mutex, round, at, sum>>
          /\ Store(cpu[r], "c", idx[r], v)
      BY <1>6 DEF srcu_read_unlock, MoveTo, mem
    <2> HIDE DEF v
    <2>3. [to |-> "c", i |-> idx[r], v |-> v] \in Writes
      BY <2>1 DEF Writes
    <2>4. buf' \in [CPUs -> Seq(Writes)]
      BY <1>0, <1>1, <2>2, <2>3, StoreEffect DEF mem
    <2>5. SrcuTypeOK'
      <3>1. /\ pos' \in [Users -> SrcuLabels] /\ idx' \in [Users -> 0..(Word - 1)]
            /\ ref' \in [Readers -> (Updaters \X {0, 1}) \cup {NoRef}]
        BY <1>0, <1>1, <1>2, <1>t, <2>2 DEF SrcuLabels
      <3>2. QED
        BY <1>0, <2>2, <2>4, <3>1 DEF SrcuTypeOK
    <2>6. QED
      BY <1>0, <1>1, <1>t, <2>2, <2>5 DEF Control, ByRole, OwnerByLabel,
         RoundByLabel, RankByLabel, InWindow, QsOwner, HolderLabels
  <1>7. ASSUME NEW k \in CPUs, Migrate(r, k) PROVE Control'
    <2>1. SrcuTypeOK'
      BY <1>0, <1>1, <1>7 DEF Migrate, SrcuTypeOK, mem, local
    <2>2. QED
      BY <1>0, <1>1, <1>t, <1>7, <2>1 DEF Control, ByRole, OwnerByLabel,
         RoundByLabel, RankByLabel, InWindow, QsOwner, HolderLabels, Migrate, mem, local
  <1>8. QED
    BY <1>3, <1>4, <1>5, <1>6, <1>7 DEF ReaderStep

(* So do the steps of an updater. *)
LEMMA UpdaterControl ==
  ASSUME Control, NEW u \in Updaters, UpdaterStep(u)
  PROVE  Control'
  <1>0. SrcuTypeOK /\ ByRole /\ OwnerByLabel /\ RoundByLabel /\ RankByLabel /\ QsOwner
    BY DEF Control
  <1>1. /\ u \in Users /\ cpu[u] \in CPUs /\ u # Nobody /\ \A r \in Readers : r \in Users /\ r # u
        /\ \A v \in Updaters : v \in Users /\ v # Nobody
    BY <1>0, SRCUAssumption DEF SrcuTypeOK, Users
  <1>2. Word \in Nat /\ Word >= 2 /\ NCpus \in Nat \ {0} /\ RefWord \in Nat \ {0}
    BY SRCUAssumption, RefWordType
  <1>3. load_completed(cpu[u]) \in 0..(Word - 1)
    BY <1>0, <1>1, LoadTypes
  <1>t. /\ pos \in [Users -> SrcuLabels] /\ idx \in [Users -> 0..(Word - 1)]
        /\ ref \in [Readers -> (Updaters \X {0, 1}) \cup {NoRef}] /\ round \in 1..3
    BY <1>0 DEF SrcuTypeOK
  <1>4. CASE publish(u)
    <2> DEFINE v == 1 - load_ptr(cpu[u], u)
    <2>1. v \in {0, 1}
      BY <1>0, <1>1, LoadTypes
    <2> HIDE DEF v
    <2>2. [to |-> "ptr", i |-> u, v |-> v] \in Writes
      BY <2>1 DEF Writes
    <2>3. Store(cpu[u], "ptr", u, v) /\ UNCHANGED mem
      BY <1>4 DEF publish, v
    <2>4. buf' \in [CPUs -> Seq(Writes)]
      BY <1>0, <1>1, <2>2, <2>3, StoreEffect
    <2>5. SrcuTypeOK'
      BY <1>0, <1>1, <1>4, <2>4 DEF publish, MoveTo, SrcuTypeOK, mem, local, SrcuLabels, HolderLabels
    <2>6. QED
      BY <1>0, <1>1, <1>t, <1>4, <2>5 DEF Control, ByRole, OwnerByLabel,
         RoundByLabel, RankByLabel, InWindow, QsOwner, HolderLabels, publish, MoveTo, local
  <1>5. CASE synchronize_srcu(u)
    <2>1. SrcuTypeOK'
      BY <1>0, <1>1, <1>3, <1>5 DEF synchronize_srcu, MoveTo, SrcuTypeOK, mem, SrcuLabels, HolderLabels
    <2>2. QED
      BY <1>0, <1>1, <1>t, <1>5, <2>1 DEF Control, ByRole, OwnerByLabel,
         RoundByLabel, RankByLabel, InWindow, QsOwner, HolderLabels, synchronize_srcu, MoveTo
  <1>6. CASE srcu_mutex_lock(u)
    <2>1. SrcuTypeOK'
      BY <1>0, <1>1, <1>6 DEF srcu_mutex_lock, MoveTo, SrcuTypeOK, mem, SrcuLabels, HolderLabels
    <2>2. QED
      BY <1>0, <1>1, <1>t, <1>6, <2>1 DEF Control, ByRole, OwnerByLabel,
         RoundByLabel, RankByLabel, InWindow, QsOwner, HolderLabels, srcu_mutex_lock, MoveTo
  <1>7. CASE early_exit(u)
    <2>1. /\ pos[u] = "test"
          /\ \/ pos' = [pos EXCEPT ![u] = "unlock"] /\ round' = round
             \/ pos' = [pos EXCEPT ![u] = "sync"] /\ round' = 1
          /\ UNCHANGED <<cpu, qs, buf, c, completed, ptr, mutex, idx, ref, at, sum>>
      BY <1>7 DEF early_exit, MoveTo, mem
    <2>2. SrcuTypeOK'
      <3>1. pos' \in [Users -> SrcuLabels] /\ round' \in 1..3
        BY <1>1, <1>t, <2>1 DEF SrcuLabels, HolderLabels
      <3>2. QED
        BY <1>0, <2>1, <3>1 DEF SrcuTypeOK
    <2>3. QED
      BY <1>0, <1>1, <1>t, <2>1, <2>2 DEF Control, ByRole, OwnerByLabel,
         RoundByLabel, RankByLabel, InWindow, QsOwner, HolderLabels
  <1>8. CASE sync_func(u)
    <2>1. SrcuTypeOK'
      BY <1>0, <1>1, <1>8 DEF sync_func, MoveTo, SrcuTypeOK, mem, local, SrcuLabels, HolderLabels
    <2>2. QED
      BY <1>0, <1>1, <1>t, <1>8, <2>1 DEF Control, ByRole, OwnerByLabel,
         RoundByLabel, RankByLabel, InWindow, QsOwner, HolderLabels, sync_func, MoveTo, local
  <1>9. CASE sync_func_returns(u)
    <2>1. /\ pos[u] = "qs" /\ qs = {}
          /\ \E l \in {"flip", "scan", "unlock"} : /\ pos' = [pos EXCEPT ![u] = l]
                                                   /\ l = "flip" => round = 1
                                                   /\ l = "scan" => round = 2
          /\ at' = 0 /\ sum' = 0
          /\ UNCHANGED <<cpu, qs, buf, c, completed, ptr, mutex, idx, ref, round>>
      <3>1. round \in 1..3
        BY <1>0 DEF SrcuTypeOK
      <3>2. CASE round = 1
        BY <1>9, <3>2 DEF sync_func_returns, MoveTo, mem
      <3>3. CASE round = 2
        BY <1>9, <3>3 DEF sync_func_returns, MoveTo, mem
      <3>4. CASE round = 3
        BY <1>9, <3>4 DEF sync_func_returns, MoveTo, mem
      <3>5. QED
        BY <3>1, <3>2, <3>3, <3>4
    <2>2. SrcuTypeOK'
      BY <1>0, <1>1, <1>2, <2>1 DEF SrcuTypeOK, SrcuLabels, HolderLabels
    <2>3. QED
      BY <1>0, <1>1, <1>t, <2>1, <2>2 DEF Control, ByRole, OwnerByLabel,
         RoundByLabel, RankByLabel, InWindow, QsOwner, HolderLabels
  <1>10. CASE flip(u)
    <2> DEFINE v == (load_completed(cpu[u]) + 1) % Word
               i == load_completed(cpu[u]) % 2
    <2>1. v \in 0..(Word - 1) /\ i \in 0..(Word - 1) /\ i \in {0, 1}
      BY <1>2, <1>3, OtherRank
    <2>2. /\ MoveTo(u, "flip", "sync") /\ Store(cpu[u], "completed", 0, v) /\ idx' = [idx EXCEPT ![u] = i]
          /\ round' = 2 /\ UNCHANGED <<qs, mem, mutex, ref, at, sum>>
      BY <1>10 DEF flip
    <2> HIDE DEF v, i
    <2>3. [to |-> "completed", i |-> 0, v |-> v] \in Writes
      BY <2>1 DEF Writes
    <2>4. buf' \in [CPUs -> Seq(Writes)]
      BY <1>0, <1>1, <2>2, <2>3, StoreEffect
    <2>5. SrcuTypeOK'
      <3>1. pos' \in [Users -> SrcuLabels] /\ idx' \in [Users -> 0..(Word - 1)]
        BY <1>1, <1>t, <2>1, <2>2 DEF MoveTo, SrcuLabels, HolderLabels
      <3>2. QED
        BY <1>0, <2>2, <2>4, <3>1 DEF MoveTo, SrcuTypeOK, mem
    <2>6. QED
      BY <1>0, <1>1, <1>t, <2>1, <2>2, <2>5 DEF Control, ByRole, OwnerByLabel,
         RoundByLabel, RankByLabel, InWindow, QsOwner, HolderLabels, MoveTo
  <1>11. CASE srcu_readers_active_idx(u)
    <2>1. /\ pos[u] = "scan" /\ pos' = [pos EXCEPT ![u] = "scan"] /\ at < NCpus /\ at' = at + 1
          /\ UNCHANGED <<cpu, qs, buf, c, completed, ptr, mutex, idx, ref, round>>
      BY <1>11 DEF srcu_readers_active_idx, MoveTo, mem
    <2>2. sum' \in 0..(RefWord - 1)
      <3> DEFINE v == IF at = cpu[u] THEN load_c(at, idx[u]) ELSE c[at][idx[u]]
      <3>1. v \in 0..(RefWord - 1)
        <4>1. at \in CPUs /\ idx[u] \in {0, 1}
          BY <1>0, <1>1, <1>2, <2>1 DEF CPUs, SrcuTypeOK, RankByLabel, InWindow
        <4>2. QED
          BY <1>0, <4>1, LoadTypes
      <3>2. sum' = (sum + v) % RefWord
        BY <1>11 DEF srcu_readers_active_idx
      <3> HIDE DEF v
      <3>3. sum + v \in Int /\ sum' = Rem(sum + v)
        BY <1>0, <1>2, <3>1, <3>2 DEF SrcuTypeOK, Rem
      <3>4. QED
        BY <3>3, RemType
    <2>3. SrcuTypeOK'
      BY <1>0, <1>1, <1>2, <2>1, <2>2 DEF SrcuTypeOK, SrcuLabels, HolderLabels
    <2>4. QED
      BY <1>0, <1>1, <1>t, <2>1, <2>3 DEF Control, ByRole, OwnerByLabel,
         RoundByLabel, RankByLabel, InWindow, QsOwner, HolderLabels
  <1>12. CASE scan_again(u)
    <2>1. /\ pos[u] = "scan" /\ at' = 0 /\ sum' = 0
          /\ \/ pos' = [pos EXCEPT ![u] = "scan"] /\ round' = round
             \/ pos' = [pos EXCEPT ![u] = "sync"] /\ round' = 3
          /\ UNCHANGED <<cpu, qs, buf, c, completed, ptr, mutex, idx, ref>>
      BY <1>12 DEF scan_again, MoveTo, mem
    <2>2. SrcuTypeOK'
      <3>1. pos' \in [Users -> SrcuLabels] /\ round' \in 1..3
        BY <1>1, <1>t, <2>1 DEF SrcuLabels, HolderLabels
      <3>2. 0 \in 0..NCpus /\ 0 \in 0..(RefWord - 1)
        BY <1>2
      <3>3. QED
        BY <1>0, <2>1, <3>1, <3>2 DEF SrcuTypeOK
    <2>3. QED
      BY <1>0, <1>1, <1>t, <2>1, <2>2 DEF Control, ByRole, OwnerByLabel,
         RoundByLabel, RankByLabel, InWindow, QsOwner, HolderLabels
  <1>13. CASE srcu_mutex_unlock(u)
    <2>1. SrcuTypeOK'
      BY <1>0, <1>1, <1>2, <1>13 DEF srcu_mutex_unlock, MoveTo, SrcuTypeOK, mem, SrcuLabels, HolderLabels
    <2>2. QED
      BY <1>0, <1>1, <1>t, <1>13, <2>1 DEF Control, ByRole, OwnerByLabel,
         RoundByLabel, RankByLabel, InWindow, QsOwner, HolderLabels, srcu_mutex_unlock, MoveTo
  <1>14. CASE free(u)
    <2>1. SrcuTypeOK'
      BY <1>0, <1>1, <1>14 DEF free, MoveTo, SrcuTypeOK, mem, local, SrcuLabels, HolderLabels
    <2>2. QED
      BY <1>0, <1>1, <1>t, <1>14, <2>1 DEF Control, ByRole, OwnerByLabel,
         RoundByLabel, RankByLabel, InWindow, QsOwner, HolderLabels, free, MoveTo, local
  <1>15. QED
    BY <1>4, <1>5, <1>6, <1>7, <1>8, <1>9, <1>10, <1>11, <1>12, <1>13, <1>14 DEF UpdaterStep

-----------------------------------------------------------------------------
(* The readers are counted.                                                *)

(* An updater leaves the readers, their counters and the memory alone. *)
LEMMA UpdaterFrame ==
  ASSUME Control, NEW u \in Updaters, UpdaterStep(u)
  PROVE  /\ UNCHANGED <<cpu, ref, c, completed, ptr>>
         /\ \A t \in Users : t # u => pos'[t] = pos[t] /\ idx'[t] = idx[t]
         /\ \A k \in CPUs, i \in {0, 1} : /\ load_c(k, i)' = load_c(k, i) /\ Late(k, i)' = Late(k, i)
                                          /\ Falling(k, i) => Falling(k, i)'
  <1>0. SrcuTypeOK /\ pos \in [Users -> SrcuLabels] /\ idx \in [Users -> 0..(Word - 1)]
    BY DEF Control, SrcuTypeOK
  <1>1. u \in Users /\ cpu[u] \in CPUs
    BY <1>0 DEF SrcuTypeOK, Users
  <1>2. /\ UNCHANGED <<cpu, ref, c, completed, ptr>>
        /\ \A t \in Users : t # u => pos'[t] = pos[t] /\ idx'[t] = idx[t]
    BY <1>0, <1>1 DEF UpdaterStep, publish, synchronize_srcu, srcu_mutex_lock, early_exit, sync_func,
       sync_func_returns, flip, srcu_readers_active_idx, scan_again, srcu_mutex_unlock, free,
       MoveTo, mem, local
  <1>3. CASE publish(u)
    <2> DEFINE v == 1 - load_ptr(cpu[u], u)
    <2>1. v \in {0, 1}
      BY <1>0, <1>1, LoadTypes
    <2>2. Store(cpu[u], "ptr", u, v) /\ UNCHANGED mem
      BY <1>3 DEF publish
    <2> HIDE DEF v
    <2>3. [to |-> "ptr", i |-> u, v |-> v] \in Writes
      BY <2>1 DEF Writes
    <2>4. QED
      BY <1>0, <1>1, <1>2, <2>2, <2>3, StoreEffect
  <1>4. CASE flip(u)
    <2> DEFINE v == (load_completed(cpu[u]) + 1) % Word
    <2>1. v \in 0..(Word - 1)
      BY <1>0, <1>1, LoadTypes, OtherRank
    <2>2. Store(cpu[u], "completed", 0, v) /\ UNCHANGED mem
      BY <1>4 DEF flip
    <2> HIDE DEF v
    <2>3. [to |-> "completed", i |-> 0, v |-> v] \in Writes
      BY <2>1 DEF Writes
    <2>4. QED
      BY <1>0, <1>1, <1>2, <2>2, <2>3, StoreEffect
  <1>5. CASE ~publish(u) /\ ~flip(u)
    <2>1. buf' = buf
      BY <1>5 DEF UpdaterStep, synchronize_srcu, srcu_mutex_lock, early_exit, sync_func,
         sync_func_returns, srcu_readers_active_idx, scan_again, srcu_mutex_unlock, free
    <2>2. UNCHANGED <<buf, mem>>
      BY <1>2, <2>1 DEF mem
    <2>3. QED
      BY <1>2, <2>2, SameLoads
  <1>6. QED
    BY <1>3, <1>4, <1>5

(* Counting one reader up or down in one of the counters. *)
LEMMA CountStep ==
  ASSUME NEW f \in [CPUs -> Int], NEW g \in [CPUs -> Int], NEW k \in CPUs, NEW d \in Int, NEW R \in Int,
         \A x \in CPUs \ {k} : g[x] = f[x], g[k] = Rem(f[k] + d),
         Rem(Sum(f)) = R, R + d \in 0..(RefWord - 1)
  PROVE  Rem(Sum(g)) = R + d
  <1> DEFINE s == Sum(f)
             x == f[k]
             y == g[k]
  <1>1. s \in Int /\ Sum(g) = s + (y - x) /\ x \in Int /\ y \in Int
    BY SumUpdate
  <1>2. y = Rem(x + d) /\ Rem(s) = R
    OBVIOUS
  <1> HIDE DEF s, x, y
  <1>3. s + (y - x) = y + (s - x) /\ s - x \in Int /\ x + d \in Int /\ s + d \in Int
    BY <1>1
  <1>4. Rem(y + (s - x)) = Rem((x + d) + (s - x))
    BY <1>2, <1>3, RemAdd
  <1>5. (x + d) + (s - x) = s + d
    BY <1>1
  <1>6. Rem(s + d) = Rem(Rem(s) + d)
    BY <1>1, RemAdd
  <1>7. Rem(R + d) = R + d
    BY RemType
  <1>8. QED
    BY <1>1, <1>2, <1>3, <1>4, <1>5, <1>6, <1>7

(* There are no more readers in a rank than readers. *)
LEMMA ReadersOfType ==
  ASSUME NEW i
  PROVE  /\ IsFiniteSet(ReadersOf(i)) /\ Cardinality(ReadersOf(i)) \in 0..Cardinality(Readers)
         /\ Cardinality(ReadersOf(i)) \in 0..(RefWord - 1)
         /\ Cardinality(ReadersOf(i)) = 0 => ReadersOf(i) = {}
  <1>1. ReadersOf(i) \in SUBSET Readers /\ IsFiniteSet(Readers)
    BY SRCUAssumption DEF ReadersOf
  <1>2. IsFiniteSet(ReadersOf(i)) /\ Cardinality(ReadersOf(i)) <= Cardinality(Readers)
    BY <1>1, FS_Subset
  <1>3. Cardinality(ReadersOf(i)) \in Nat /\ (Cardinality(ReadersOf(i)) = 0 => ReadersOf(i) = {})
    BY <1>2, FS_CardinalityType, FS_EmptySet
  <1>4. QED
    BY <1>2, <1>3, RefWordType

(* A reader that enters its rank, and one that leaves it. *)
LEMMA EnterRank ==
  ASSUME Control, NEW r \in Readers, srcu_read_lock_inc(r), NEW i, i = idx[r]
  PROVE  LET k == cpu[r] IN
         /\ k \in CPUs /\ i \in {0, 1} /\ pos[r] = "locking" /\ pos' = [pos EXCEPT ![r] = "in"]
         /\ UNCHANGED <<cpu, qs, c, completed, ptr, mutex, idx, ref, round, at, sum>>
         /\ r \notin ReadersOf(i) /\ ReadersOf(i)' = ReadersOf(i) \cup {r}
         /\ Cardinality(ReadersOf(i)') = Cardinality(ReadersOf(i)) + 1
         /\ \A n \in {0, 1} : n # i => ReadersOf(n)' = ReadersOf(n)
         /\ [to |-> "c", i |-> i, v |-> Rem(load_c(k, i) + 1)] \in Writes
         /\ Store(k, "c", i, Rem(load_c(k, i) + 1))
  <1> DEFINE k == cpu[r]
  <1>0. SrcuTypeOK /\ ByRole /\ pos \in [Users -> SrcuLabels] /\ r \in Users
    BY DEF Control, SrcuTypeOK, Users
  <1>1. k \in CPUs /\ i \in {0, 1}
    BY <1>0 DEF SrcuTypeOK, ByRole
  <1>2. /\ pos[r] = "locking" /\ pos' = [pos EXCEPT ![r] = "in"]
        /\ UNCHANGED <<cpu, qs, c, completed, ptr, mutex, idx, ref, round, at, sum>>
        /\ Store(k, "c", i, Rem(load_c(k, i) + 1))
    BY DEF srcu_read_lock_inc, MoveTo, mem, local, Rem
  <1>3. /\ r \notin ReadersOf(i) /\ ReadersOf(i)' = ReadersOf(i) \cup {r}
        /\ \A n \in {0, 1} : n # i => ReadersOf(n)' = ReadersOf(n)
    <2>1. \A n : ReadersOf(n)' = {x \in Readers : pos'[x] = "in" /\ idx[x] = n}
      BY <1>2 DEF ReadersOf
    <2>2. \A x \in Readers : x \in Users
      BY DEF Users
    <2>3. QED
      BY <1>0, <1>2, <2>1, <2>2 DEF ReadersOf
  <1>4. Cardinality(ReadersOf(i)') = Cardinality(ReadersOf(i)) + 1
    BY <1>3, ReadersOfType, FS_AddElement
  <1>5. Rem(load_c(k, i) + 1) \in 0..(RefWord - 1)
    <2>1. load_c(k, i) + 1 \in Int
      BY <1>0, <1>1, LoadTypes, RefWordType
    <2>2. QED
      BY <2>1, RemType
  <1>6. [to |-> "c", i |-> i, v |-> Rem(load_c(k, i) + 1)] \in Writes
    BY <1>1, <1>5 DEF Writes
  <1>7. QED
    BY <1>1, <1>2, <1>3, <1>4, <1>6

(* A reader that leaves its rank. *)
LEMMA LeaveRank ==
  ASSUME Control, NEW r \in Readers, srcu_read_unlock(r), NEW i, i = idx[r]
  PROVE  LET k == cpu[r] IN
         /\ k \in CPUs /\ i \in {0, 1} /\ pos[r] = "in" /\ pos' = [pos EXCEPT ![r] = "idle"]
         /\ idx' = [idx EXCEPT ![r] = 0] /\ ref' = [ref EXCEPT ![r] = NoRef]
         /\ UNCHANGED <<cpu, qs, c, completed, ptr, mutex, round, at, sum>>
         /\ r \in ReadersOf(i) /\ ReadersOf(i)' = ReadersOf(i) \ {r}
         /\ Cardinality(ReadersOf(i)') = Cardinality(ReadersOf(i)) - 1
         /\ \A n \in {0, 1} : n # i => ReadersOf(n)' = ReadersOf(n)
         /\ [to |-> "c", i |-> i, v |-> Rem(load_c(k, i) - 1)] \in Writes
         /\ Store(k, "c", i, Rem(load_c(k, i) - 1))
  <1> DEFINE k == cpu[r]
  <1>0. /\ SrcuTypeOK /\ ByRole /\ pos \in [Users -> SrcuLabels] /\ r \in Users
        /\ idx \in [Users -> 0..(Word - 1)]
    BY DEF Control, SrcuTypeOK, Users
  <1>1. k \in CPUs /\ i \in {0, 1}
    BY <1>0 DEF SrcuTypeOK, ByRole
  <1>2. /\ pos[r] = "in" /\ pos' = [pos EXCEPT ![r] = "idle"]
        /\ idx' = [idx EXCEPT ![r] = 0] /\ ref' = [ref EXCEPT ![r] = NoRef]
        /\ UNCHANGED <<cpu, qs, c, completed, ptr, mutex, round, at, sum>>
        /\ Store(k, "c", i, Rem(load_c(k, i) - 1))
    BY DEF srcu_read_unlock, MoveTo, mem, Rem
  <1>3. /\ r \in ReadersOf(i) /\ ReadersOf(i)' = ReadersOf(i) \ {r}
        /\ \A n \in {0, 1} : n # i => ReadersOf(n)' = ReadersOf(n)
    <2>1. \A n : ReadersOf(n)' = {x \in Readers : pos'[x] = "in" /\ idx'[x] = n}
      BY DEF ReadersOf
    <2>2. \A x \in Readers : x \in Users
      BY DEF Users
    <2>3. \A x \in Readers : /\ pos'[x] = IF x = r THEN "idle" ELSE pos[x]
                             /\ x # r => idx'[x] = idx[x]
      BY <1>0, <1>2, <2>2
    <2>4. r \in ReadersOf(i)
      BY <1>2 DEF ReadersOf
    <2>5. ReadersOf(i)' = ReadersOf(i) \ {r}
      <3>1. \A x \in Readers : pos'[x] = "in" /\ idx'[x] = i <=> x # r /\ pos[x] = "in" /\ idx[x] = i
        BY <2>3
      <3>2. QED
        BY <3>1 DEF ReadersOf
    <2>6. ASSUME NEW n \in {0, 1}, n # i PROVE ReadersOf(n)' = ReadersOf(n)
      <3>1. \A x \in Readers : pos'[x] = "in" /\ idx'[x] = n <=> pos[x] = "in" /\ idx[x] = n
        BY <1>2, <2>3, <2>6
      <3>2. QED
        BY <3>1 DEF ReadersOf
    <2>7. QED
      BY <2>4, <2>5, <2>6
  <1>4. Cardinality(ReadersOf(i)') = Cardinality(ReadersOf(i)) - 1
    BY <1>3, ReadersOfType, FS_RemoveElement
  <1>5. Rem(load_c(k, i) - 1) \in 0..(RefWord - 1)
    <2>1. load_c(k, i) - 1 \in Int
      BY <1>0, <1>1, LoadTypes, RefWordType
    <2>2. QED
      BY <2>1, RemType
  <1>6. [to |-> "c", i |-> i, v |-> Rem(load_c(k, i) - 1)] \in Writes
    BY <1>1, <1>5 DEF Writes
  <1>7. QED
    BY <1>1, <1>2, <1>3, <1>4, <1>6

(* The other steps of a reader and the machine leave the ranks alone. *)
LEMMA OtherSteps ==
  ASSUME Control,
         \/ \E k \in CPUs : Drain(k) \/ Switch(k)
         \/ \E r \in Readers : \/ srcu_read_lock(r) \/ \E k \in CPUs : Migrate(r, k)
                               \/ \E u \in Updaters : srcu_dereference(r, u)
         \/ \E u \in Updaters : UpdaterStep(u)
  PROVE  /\ \A i : ReadersOf(i)' = ReadersOf(i)
         /\ \A k \in CPUs, i \in {0, 1} : /\ load_c(k, i)' = load_c(k, i)
                                          /\ Falling(k, i) => Falling(k, i)'
  <1>0. /\ SrcuTypeOK /\ pos \in [Users -> SrcuLabels] /\ idx \in [Users -> 0..(Word - 1)]
        /\ \A r \in Readers : r \in Users /\ r \notin Updaters
    BY SRCUAssumption DEF Control, SrcuTypeOK, Users
  <1>1. ASSUME NEW k \in CPUs, Drain(k) \/ Switch(k)
        PROVE  /\ UNCHANGED <<pos, idx>>
               /\ \A x \in CPUs, i \in {0, 1} : load_c(x, i)' = load_c(x, i) /\ (Falling(x, i) => Falling(x, i)')
    <2>1. CASE Drain(k)
      <3>1. UNCHANGED <<pos, idx>>
        BY <2>1 DEF Drain, local
      <3>2. \A x \in CPUs, i \in {0, 1} : load_c(x, i)' = load_c(x, i) /\ (Falling(x, i) => Falling(x, i)')
        BY <1>0, <2>1, DrainEffect
      <3>3. QED
        BY <3>1, <3>2
    <2>2. CASE Switch(k)
      BY <2>2, SameLoads DEF Switch, local
    <2>3. QED
      BY <1>1, <2>1, <2>2
  <1>2. ASSUME NEW r \in Readers, \/ srcu_read_lock(r) \/ \E k \in CPUs : Migrate(r, k)
                                  \/ \E u \in Updaters : srcu_dereference(r, u)
        PROVE  /\ \A x \in Readers : /\ pos'[x] = "in" <=> pos[x] = "in"
                                     /\ pos[x] = "in" => idx'[x] = idx[x]
               /\ UNCHANGED <<buf, mem>>
    BY <1>0, <1>2 DEF srcu_read_lock, Migrate, srcu_dereference, MoveTo, local
  <1>3. ASSUME NEW u \in Updaters, UpdaterStep(u)
        PROVE  /\ \A x \in Readers : pos'[x] = pos[x] /\ idx'[x] = idx[x]
               /\ \A x \in CPUs, i \in {0, 1} : load_c(x, i)' = load_c(x, i) /\ (Falling(x, i) => Falling(x, i)')
    BY <1>0, <1>3, UpdaterFrame
  <1>4. \A i : ReadersOf(i)' = ReadersOf(i)
    BY <1>1, <1>2, <1>3 DEF ReadersOf
  <1>5. \A k \in CPUs, i \in {0, 1} : load_c(k, i)' = load_c(k, i) /\ (Falling(k, i) => Falling(k, i)')
    BY <1>1, <1>2, <1>3, SameLoads
  <1>6. QED
    BY <1>4, <1>5

(* No step loses a reader or counts one twice. *)
LEMMA NextCounted ==
  ASSUME Control, EveryReaderCounted, SrcuNext
  PROVE  EveryReaderCounted'
  <1> SUFFICES ASSUME NEW i \in {0, 1}
               PROVE  (Sum([x \in CPUs |-> load_c(x, i)]) % RefWord = Cardinality(ReadersOf(i)))'
    BY DEF EveryReaderCounted
  <1> DEFINE f == [x \in CPUs |-> load_c(x, i)]
             g == [x \in CPUs |-> load_c(x, i)']
             R == Cardinality(ReadersOf(i))
  <1>0. SrcuTypeOK
    BY DEF Control
  <1>1. \A x \in CPUs : load_c(x, i) \in Int /\ f[x] = load_c(x, i) /\ g[x] = load_c(x, i)'
    BY <1>0, LoadTypes, RefWordType
  <1>2. Rem(Sum(f)) = R /\ R \in 0..(RefWord - 1) /\ f \in [CPUs -> Int]
    BY <1>1, ReadersOfType DEF EveryReaderCounted, Rem
  <1>3. SUFFICES Rem(Sum(g)) = Cardinality(ReadersOf(i)')
    BY DEF Rem
  <1>4. CASE ReadersOf(i)' = ReadersOf(i) /\ \A x \in CPUs : load_c(x, i)' = load_c(x, i)
    <2>1. f = g
      BY <1>4
    <2>2. QED
      BY <1>2, <1>4, <2>1
  <1>5. ASSUME NEW k \in CPUs, NEW d \in Int,
               load_c(k, i)' = Rem(load_c(k, i) + d), \A x \in CPUs : x # k => load_c(x, i)' = load_c(x, i),
               Cardinality(ReadersOf(i)') = R + d
        PROVE  Rem(Sum(g)) = Cardinality(ReadersOf(i)')
    <2>1. g[k] = Rem(f[k] + d) /\ \A x \in CPUs \ {k} : g[x] = f[x]
      BY <1>1, <1>5
    <2>2. g \in [CPUs -> Int]
      <3>1. load_c(k, i) + d \in Int
        BY <1>1
      <3>2. Rem(load_c(k, i) + d) \in Int
        BY <3>1, RemType, RefWordType
      <3>3. QED
        BY <1>1, <1>5, <3>2
    <2>3. R + d \in 0..(RefWord - 1)
      <3>1. (Cardinality(ReadersOf(i)) \in 0..(RefWord - 1))'
        <4>1. ReadersOf(i)' \in SUBSET Readers
          BY DEF ReadersOf
        <4>2. QED
          BY <4>1, SRCUAssumption, FS_Subset, FS_CardinalityType, RefWordType
      <3>2. QED
        BY <1>5, <3>1
    <2> HIDE DEF f, g, R
    <2>4. Rem(Sum(g)) = R + d
      BY <1>2, <2>1, <2>2, <2>3, CountStep
    <2>5. QED
      BY <1>5, <2>4 DEF g, R
  <1>6. ASSUME NEW r \in Readers, srcu_read_lock_inc(r)
        PROVE  Rem(Sum(g)) = Cardinality(ReadersOf(i)')
    <2>0. PICK n, k, v : n = idx[r] /\ k = cpu[r] /\ v = Rem(load_c(k, n) + 1)
      OBVIOUS
    <2>1. /\ k \in CPUs /\ n \in {0, 1} /\ Store(k, "c", n, v) /\ UNCHANGED mem
          /\ [to |-> "c", i |-> n, v |-> v] \in Writes
          /\ Cardinality(ReadersOf(n)') = Cardinality(ReadersOf(n)) + 1
          /\ i # n => ReadersOf(i)' = ReadersOf(i)
      BY <1>6, <2>0, EnterRank DEF mem
    <2>2. \A x \in CPUs : load_c(x, i)' = IF x = k /\ i = n THEN v ELSE load_c(x, i)
      BY <1>0, <2>1, StoreEffect
    <2>3. CASE i = n
      BY <1>5, <2>0, <2>1, <2>2, <2>3
    <2>4. QED
      BY <1>4, <2>1, <2>2, <2>3
  <1>7. ASSUME NEW r \in Readers, srcu_read_unlock(r)
        PROVE  Rem(Sum(g)) = Cardinality(ReadersOf(i)')
    <2>0. PICK n, k, v : n = idx[r] /\ k = cpu[r] /\ v = Rem(load_c(k, n) - 1)
      OBVIOUS
    <2>1. /\ k \in CPUs /\ n \in {0, 1} /\ Store(k, "c", n, v) /\ UNCHANGED mem
          /\ [to |-> "c", i |-> n, v |-> v] \in Writes
          /\ Cardinality(ReadersOf(n)') = Cardinality(ReadersOf(n)) - 1
          /\ i # n => ReadersOf(i)' = ReadersOf(i)
      BY <1>7, <2>0, LeaveRank DEF mem
    <2>2. \A x \in CPUs : load_c(x, i)' = IF x = k /\ i = n THEN v ELSE load_c(x, i)
      BY <1>0, <2>1, StoreEffect
    <2>3. CASE i = n
      <3>1. load_c(k, i)' = Rem(load_c(k, i) + (-1)) /\ Cardinality(ReadersOf(i)') = R + (-1)
        <4>1. load_c(k, i) - 1 = load_c(k, i) + (-1) /\ R - 1 = R + (-1)
          BY <1>1, <1>2, <2>1
        <4>2. QED
          BY <2>0, <2>1, <2>2, <2>3, <4>1
      <3>2. \A x \in CPUs : x # k => load_c(x, i)' = load_c(x, i)
        BY <2>2
      <3>3. -1 \in Int
        OBVIOUS
      <3>4. QED
        BY <1>5, <2>1, <3>1, <3>2, <3>3
    <2>4. QED
      BY <1>4, <2>1, <2>2, <2>3
  <1>8. QED
    BY <1>4, <1>6, <1>7, OtherSteps DEF SrcuNext, ReaderStep

(* A reader leaves the updaters, "completed" and the pointers alone. *)
LEMMA ReaderFrame ==
  ASSUME Control, NEW r \in Readers, ReaderStep(r) \/ \E k \in CPUs : Migrate(r, k)
  PROVE  /\ UNCHANGED <<c, completed, ptr, mutex, qs, round, at, sum>>
         /\ \A t \in Users : t # r => pos'[t] = pos[t] /\ idx'[t] = idx[t] /\ cpu'[t] = cpu[t]
         /\ \A x \in Readers : x # r => ref'[x] = ref[x]
         /\ \A k \in CPUs : load_completed(k)' = load_completed(k)
         /\ \A k \in CPUs, u \in Updaters : load_ptr(k, u)' = load_ptr(k, u)
         /\ \A k \in CPUs :
              /\ Pending(buf[k], "completed", 0)' = Pending(buf[k], "completed", 0)
              /\ \A j \in Pending(buf[k], "completed", 0) : buf'[k][j] = buf[k][j]
         /\ \A k \in CPUs, u \in Updaters : Pending(buf[k], "ptr", u)' = Pending(buf[k], "ptr", u)
  <1>0. /\ SrcuTypeOK /\ pos \in [Users -> SrcuLabels] /\ idx \in [Users -> 0..(Word - 1)]
        /\ cpu \in [Users -> CPUs] /\ r \in Users
        /\ ref \in [Readers -> (Updaters \X {0, 1}) \cup {NoRef}]
    BY DEF Control, SrcuTypeOK, Users
  <1>1. /\ UNCHANGED <<c, completed, ptr, mutex, qs, round, at, sum>>
        /\ \A t \in Users : t # r => pos'[t] = pos[t] /\ idx'[t] = idx[t] /\ cpu'[t] = cpu[t]
        /\ \A x \in Readers : x # r => ref'[x] = ref[x]
    BY <1>0 DEF ReaderStep, srcu_read_lock, srcu_read_lock_inc, srcu_read_unlock, srcu_dereference,
       Migrate, MoveTo, mem, local
  <1>2. ASSUME NEW k \in CPUs, NEW i \in {0, 1}, NEW v, [to |-> "c", i |-> i, v |-> v] \in Writes,
               Store(k, "c", i, v)
        PROVE  /\ \A x \in CPUs : load_completed(x)' = load_completed(x)
               /\ \A x \in CPUs, u \in Updaters : load_ptr(x, u)' = load_ptr(x, u)
               /\ \A x \in CPUs :
                    /\ Pending(buf[x], "completed", 0)' = Pending(buf[x], "completed", 0)
                    /\ \A j \in Pending(buf[x], "completed", 0) : buf'[x][j] = buf[x][j]
               /\ \A x \in CPUs, u \in Updaters : Pending(buf[x], "ptr", u)' = Pending(buf[x], "ptr", u)
    <2>1. UNCHANGED mem
      BY <1>1 DEF mem
    <2>2. /\ \A x \in CPUs : load_completed(x)' = load_completed(x)
          /\ \A x \in CPUs, u \in Updaters : load_ptr(x, u)' = load_ptr(x, u)
      BY <1>0, <1>2, <2>1, StoreEffect
    <2>3. /\ \A x \in CPUs :
               /\ Pending(buf[x], "completed", 0)' = Pending(buf[x], "completed", 0)
               /\ \A j \in Pending(buf[x], "completed", 0) : buf'[x][j] = buf[x][j]
          /\ \A x \in CPUs, u \in Updaters : Pending(buf[x], "ptr", u)' = Pending(buf[x], "ptr", u)
      BY <1>0, <1>2, StorePending
    <2>4. QED
      BY <2>2, <2>3
  <1>3. CASE srcu_read_lock_inc(r)
    <2>1. PICK i, k, v : /\ k \in CPUs /\ i \in {0, 1} /\ [to |-> "c", i |-> i, v |-> v] \in Writes
                         /\ Store(k, "c", i, v)
      <3>1. PICK i, k, v : i = idx[r] /\ k = cpu[r] /\ v = Rem(load_c(k, i) + 1)
        OBVIOUS
      <3>2. /\ k \in CPUs /\ i \in {0, 1} /\ [to |-> "c", i |-> i, v |-> v] \in Writes
            /\ Store(k, "c", i, v)
        BY <1>3, <3>1, EnterRank
      <3>3. QED
        BY <3>2
    <2>2. QED
      BY <1>1, <1>2, <2>1
  <1>4. CASE srcu_read_unlock(r)
    <2>1. PICK i, k, v : /\ k \in CPUs /\ i \in {0, 1} /\ [to |-> "c", i |-> i, v |-> v] \in Writes
                         /\ Store(k, "c", i, v)
      <3>1. PICK i, k, v : i = idx[r] /\ k = cpu[r] /\ v = Rem(load_c(k, i) - 1)
        OBVIOUS
      <3>2. /\ k \in CPUs /\ i \in {0, 1} /\ [to |-> "c", i |-> i, v |-> v] \in Writes
            /\ Store(k, "c", i, v)
        BY <1>4, <3>1, LeaveRank
      <3>3. QED
        BY <3>2
    <2>2. QED
      BY <1>1, <1>2, <2>1
  <1>5. CASE ~srcu_read_lock_inc(r) /\ ~srcu_read_unlock(r)
    <2>1. UNCHANGED <<buf, mem>>
      BY <1>1, <1>5 DEF ReaderStep, srcu_read_lock, srcu_dereference, Migrate, mem
    <2>2. QED
      BY <1>1, <2>1, SameLoads
  <1>6. QED
    BY <1>3, <1>4, <1>5

-----------------------------------------------------------------------------
(* The store of the flip is pending only until its sync_func(), in the     *)
(* buffer of the owner.                                                    *)
FlipPending ==
  \A k \in CPUs : \A j \in Pending(buf[k], "completed", 0) :
    /\ \E u \in Updaters : k = cpu[u] /\ pos[u] = "sync" /\ round = 2
    /\ buf[k][j].v = (completed + 1) % Word
    /\ \A l \in Pending(buf[k], "completed", 0) : l = j

(* So is the new pointer until the updater has the mutex. *)
PtrPending ==
  \A k \in CPUs, u \in Updaters : Pending(buf[k], "ptr", u) # {} =>
    k = cpu[u] /\ pos[u] \in {"call", "lock"}

(* The old rank is not the one that the owner sees selected. *)
OldRank == \A u \in Updaters : InWindow(u) => idx[u] # load_completed(cpu[u]) % 2

Flips == FlipPending /\ PtrPending /\ OldRank

(* When no flip is under way every CPU sees the same "completed". *)
LEMMA Settled ==
  ASSUME FlipPending, NEW k \in CPUs,
         \A u \in Updaters : pos[u] = "sync" /\ round = 2 => k # cpu[u]
  PROVE  Pending(buf[k], "completed", 0) = {} /\ load_completed(k) = completed
  <1>1. Pending(buf[k], "completed", 0) = {}
    BY DEF FlipPending
  <1>2. QED
    BY <1>1, LoadMemory DEF load_completed

(* What the owner, or anybody if there is none, sees of "completed". *)
Latest == IF mutex = Nobody THEN completed ELSE load_completed(cpu[mutex])

(* A store to "completed" is the owner's. *)
LEMMA DrainFlip ==
  ASSUME Control, FlipPending, NEW k \in CPUs, Drain(k), Head(buf[k]).to = "completed"
  PROVE  \E u \in Updaters : /\ mutex = u /\ k = cpu[u] /\ pos[u] = "sync" /\ round = 2
                             /\ Head(buf[k]).v = (completed + 1) % Word
                             /\ Pending(buf[k], "completed", 0)' = {}
  <1> DEFINE w == Head(buf[k])
  <1>0. SrcuTypeOK /\ OwnerByLabel
    BY DEF Control
  <1>1. /\ w \in Writes /\ 1 \in Pending(buf[k], w.to, w.i) /\ buf[k][1] = w
        /\ \A j \in Pending(buf[k], "completed", 0)' : j + 1 \in Pending(buf[k], "completed", 0)
    BY <1>0, DrainEffect
  <1>2. w.i = 0
    BY <1>1 DEF Writes
  <1>3. 1 \in Pending(buf[k], "completed", 0)
    BY <1>1, <1>2
  <1>4. \A l \in Pending(buf[k], "completed", 0) : l = 1
    BY <1>3 DEF FlipPending
  <1>5. Pending(buf[k], "completed", 0)' = {}
    <2>1. ASSUME NEW j \in Pending(buf[k], "completed", 0)' PROVE FALSE
      <3>1. j + 1 = 1 /\ j \in 1..Len(buf'[k])
        BY <1>1, <1>4 DEF Pending
      <3>2. QED
        BY <3>1
    <2>2. QED
      BY <2>1
  <1>6. PICK u \in Updaters : k = cpu[u] /\ pos[u] = "sync" /\ round = 2
    BY <1>3 DEF FlipPending
  <1>7. mutex = u
    BY <1>0, <1>6 DEF OwnerByLabel, HolderLabels
  <1>8. w.v = (completed + 1) % Word
    BY <1>1, <1>3 DEF FlipPending
  <1>9. QED
    BY <1>5, <1>6, <1>7, <1>8

(* The machine delays the flip and the new pointers, and does no more. *)
LEMMA MachineFlips ==
  ASSUME Control, Flips, NEW k \in CPUs, Drain(k) \/ Switch(k)
  PROVE  Flips' /\ Latest' = Latest
  <1>0. SrcuTypeOK /\ OwnerByLabel /\ FlipPending /\ PtrPending /\ OldRank
    BY DEF Control, Flips
  <1>1. CASE Switch(k)
    <2>1. UNCHANGED <<pos, cpu, buf, completed, mutex, idx, round>>
      BY <1>1 DEF Switch, mem, local
    <2>2. \A x : load_completed(x)' = load_completed(x)
      BY <2>1 DEF load_completed
    <2>3. FlipPending'
      BY <1>0, <2>1 DEF FlipPending
    <2>4. PtrPending'
      BY <1>0, <2>1 DEF PtrPending
    <2>5. OldRank' /\ Latest' = Latest
      BY <1>0, <2>1, <2>2 DEF OldRank, InWindow, Latest
    <2>6. QED
      BY <2>3, <2>4, <2>5 DEF Flips
  <1>2. CASE Drain(k)
    <2> DEFINE w == Head(buf[k])
    <2>1. UNCHANGED <<pos, cpu, qs, mutex, idx, ref, round, at, sum>>
      BY <1>2 DEF Drain, local
    <2>2. /\ completed' = IF w.to = "completed" THEN w.v ELSE completed
          /\ load_completed(k)' = load_completed(k)
          /\ \A x \in CPUs : w.to # "completed" => load_completed(x)' = load_completed(x)
          /\ \A x \in CPUs : x # k => buf'[x] = buf[x]
          /\ \A a, b : \A j \in Pending(buf[k], a, b)' :
               j + 1 \in Pending(buf[k], a, b) /\ buf'[k][j] = buf[k][j + 1]
      BY <1>0, <1>2, DrainEffect
    <2>3. PtrPending'
      BY <1>0, <2>1, <2>2 DEF PtrPending
    <2>4. ASSUME NEW u \in Updaters, mutex = u PROVE load_completed(cpu[u])' = load_completed(cpu[u])
      <3>1. CASE w.to = "completed"
        <4>1. k = cpu[u]
          BY <1>0, <1>2, <2>4, <3>1, DrainFlip
        <4>2. QED
          BY <2>1, <2>2, <4>1
      <3>2. CASE w.to # "completed"
        <4>1. cpu[u] \in CPUs
          BY <1>0 DEF SrcuTypeOK, Users
        <4>2. QED
          BY <2>1, <2>2, <3>2, <4>1
      <3>3. QED
        BY <3>1, <3>2
    <2>5. OldRank'
      BY <1>0, <2>1, <2>4 DEF OldRank, InWindow, OwnerByLabel, HolderLabels
    <2>6. Latest' = Latest
      <3>1. CASE mutex = Nobody
        <4>1. w.to # "completed"
          BY <1>2, <3>1, DrainFlip, SRCUAssumption DEF Flips
        <4>2. QED
          BY <2>1, <2>2, <3>1, <4>1 DEF Latest
      <3>2. CASE mutex # Nobody
        <4>1. mutex \in Updaters
          BY <1>0, <3>2 DEF SrcuTypeOK
        <4>2. QED
          BY <2>1, <2>4, <3>2, <4>1 DEF Latest
      <3>3. QED
        BY <3>1, <3>2
    <2>7. FlipPending'
      <3>1. CASE w.to = "completed"
        <4>1. PICK u \in Updaters : /\ mutex = u /\ k = cpu[u] /\ pos[u] = "sync"
                                    /\ Pending(buf[k], "completed", 0)' = {}
          BY <1>0, <1>2, <3>1, DrainFlip
        <4>2. ASSUME NEW x \in CPUs, x # k PROVE Pending(buf[x], "completed", 0)' = {}
          <5>1. Pending(buf[x], "completed", 0) = {}
            BY <1>0, <4>1, <4>2 DEF FlipPending, OwnerByLabel, HolderLabels
          <5>2. QED
            BY <2>2, <4>2, <5>1
        <4>3. QED
          BY <4>1, <4>2 DEF FlipPending
      <3>2. CASE w.to # "completed"
        <4>1. completed' = completed
          BY <2>2, <3>2
        <4>2. ASSUME NEW x \in CPUs, NEW j \in Pending(buf[x], "completed", 0)'
              PROVE  /\ \E u \in Updaters : x = cpu[u] /\ pos[u] = "sync" /\ round = 2
                     /\ buf'[x][j].v = (completed + 1) % Word
                     /\ \A l \in Pending(buf[x], "completed", 0)' : l = j
          <5>1. CASE x # k
            BY <1>0, <2>2, <5>1 DEF FlipPending
          <5>2. CASE x = k
            <6>1. j + 1 \in Pending(buf[k], "completed", 0) /\ buf'[k][j] = buf[k][j + 1]
              BY <2>2, <5>2
            <6>2. \A l \in Pending(buf[k], "completed", 0)' :
                    l \in Int /\ l + 1 \in Pending(buf[k], "completed", 0)
              <7>1. \A l \in Pending(buf[k], "completed", 0)' : l \in Int
                BY DEF Pending
              <7>2. QED
                BY <2>2, <7>1
            <6>3. j \in Int
              BY <5>2, <6>2
            <6>4. QED
              BY <1>0, <5>2, <6>1, <6>2, <6>3 DEF FlipPending
          <5>3. QED
            BY <5>1, <5>2
        <4>3. QED
          BY <2>1, <4>1, <4>2 DEF FlipPending
      <3>3. QED
        BY <3>1, <3>2
    <2>8. QED
      BY <2>3, <2>5, <2>6, <2>7 DEF Flips
  <1>3. QED
    BY <1>1, <1>2

(* Readers do not flip. *)
LEMMA ReaderFlips ==
  ASSUME Control, Flips, NEW r \in Readers, ReaderStep(r) \/ \E k \in CPUs : Migrate(r, k)
  PROVE  Flips' /\ Latest' = Latest
  <1>0. SrcuTypeOK /\ FlipPending /\ PtrPending /\ OldRank
    BY DEF Control, Flips
  <1>1. /\ UNCHANGED <<completed, mutex, round>>
        /\ \A u \in Updaters : pos'[u] = pos[u] /\ idx'[u] = idx[u] /\ cpu'[u] = cpu[u] /\ cpu[u] \in CPUs
    <2>1. \A u \in Updaters : u \in Users /\ u # r
      BY SRCUAssumption DEF Users
    <2>2. QED
      BY <1>0, <2>1, ReaderFrame DEF SrcuTypeOK
  <1>2. \A k \in CPUs : load_completed(k)' = load_completed(k)
    BY ReaderFrame
  <1>3. FlipPending'
    <2>1. \A k \in CPUs : /\ Pending(buf[k], "completed", 0)' = Pending(buf[k], "completed", 0)
                          /\ \A j \in Pending(buf[k], "completed", 0) : buf'[k][j] = buf[k][j]
      BY ReaderFrame
    <2>2. ASSUME NEW k \in CPUs, NEW j \in Pending(buf[k], "completed", 0)'
          PROVE  /\ (\E u \in Updaters : k = cpu[u] /\ pos[u] = "sync" /\ round = 2)'
                 /\ buf'[k][j].v = (completed + 1) % Word
                 /\ \A l \in Pending(buf[k], "completed", 0)' : l = j
      <3>1. j \in Pending(buf[k], "completed", 0) /\ buf'[k][j] = buf[k][j]
        BY <2>1, <2>2
      <3>2. /\ \E u \in Updaters : k = cpu[u] /\ pos[u] = "sync" /\ round = 2
            /\ buf[k][j].v = (completed + 1) % Word
            /\ \A l \in Pending(buf[k], "completed", 0) : l = j
        BY <1>0, <3>1 DEF FlipPending
      <3>3. QED
        BY <1>1, <2>1, <3>1, <3>2
    <2>3. QED
      BY <1>1, <2>2 DEF FlipPending
  <1>4. \A k \in CPUs, u \in Updaters : Pending(buf[k], "ptr", u)' = Pending(buf[k], "ptr", u)
    BY ReaderFrame
  <1>5. PtrPending'
    BY <1>0, <1>1, <1>4 DEF PtrPending
  <1>6. OldRank'
    BY <1>0, <1>1, <1>2 DEF OldRank, InWindow
  <1>7. Latest' = Latest
    BY <1>0, <1>1, <1>2 DEF Latest, SrcuTypeOK
  <1>8. QED
    BY <1>3, <1>5, <1>6, <1>7 DEF Flips

(* The label an updater moves between; its other variables are its own. *)
LEMMA UpdaterMoves ==
  ASSUME Control, NEW u \in Updaters, UpdaterStep(u)
  PROVE  /\ u \in Users /\ cpu[u] \in CPUs /\ \A t \in Users : t # u => pos'[t] = pos[t] /\ idx'[t] = idx[t]
         /\ round' # round => pos[u] \in HolderLabels /\ pos[u] \notin {"sync", "qs"}
         /\ mutex' # mutex => \/ pos[u] = "lock" /\ mutex = Nobody /\ mutex' = u
                              \/ pos[u] = "unlock" /\ mutex = u /\ mutex' = Nobody
  <1>0. /\ SrcuTypeOK /\ OwnerByLabel /\ pos \in [Users -> SrcuLabels] /\ idx \in [Users -> 0..(Word - 1)]
        /\ u \in Users /\ cpu[u] \in CPUs
    BY DEF Control, SrcuTypeOK, Users
  <1>1. round' # round => pos[u] \in HolderLabels /\ pos[u] \notin {"sync", "qs"}
    BY DEF UpdaterStep, publish, synchronize_srcu, srcu_mutex_lock, early_exit, sync_func, sync_func_returns,
       flip, srcu_readers_active_idx, scan_again, srcu_mutex_unlock, free, MoveTo, local, HolderLabels
  <1>2. mutex' # mutex => \/ pos[u] = "lock" /\ mutex = Nobody /\ mutex' = u
                          \/ pos[u] = "unlock" /\ mutex' = Nobody
    BY DEF UpdaterStep, publish, synchronize_srcu, srcu_mutex_lock, early_exit, sync_func, sync_func_returns,
       flip, srcu_readers_active_idx, scan_again, srcu_mutex_unlock, free, MoveTo, local
  <1>3. pos[u] = "unlock" => mutex = u
    BY <1>0 DEF OwnerByLabel, HolderLabels
  <1>4. QED
    BY <1>0, <1>1, <1>2, <1>3, UpdaterFrame

(* What a flip does. *)
LEMMA FlipEffect ==
  ASSUME Control, Flips, NEW u \in Updaters, flip(u)
  PROVE  /\ mutex = u /\ UNCHANGED <<mutex, cpu, qs, completed, ptr, ref, at, sum>>
         /\ pos[u] = "flip" /\ pos' = [pos EXCEPT ![u] = "sync"] /\ round = 1 /\ round' = 2
         /\ \A k \in CPUs : Pending(buf[k], "completed", 0) = {} /\ load_completed(k) = completed
         /\ idx' = [idx EXCEPT ![u] = completed % 2]
         /\ \A k \in CPUs : load_completed(k)' = IF k = cpu[u] THEN (completed + 1) % Word ELSE completed
         /\ \A k \in CPUs : k # cpu[u] => Pending(buf[k], "completed", 0)' = {}
         /\ \E n : /\ Pending(buf[cpu[u]], "completed", 0)' = {n}
                   /\ buf'[cpu[u]][n].v = (completed + 1) % Word
         /\ \A k \in CPUs, v \in Updaters : Pending(buf[k], "ptr", v)' = Pending(buf[k], "ptr", v)
  <1>0. SrcuTypeOK /\ OwnerByLabel /\ RoundByLabel /\ FlipPending /\ cpu[u] \in CPUs
    BY DEF Control, Flips, SrcuTypeOK, Users
  <1>1. /\ pos[u] = "flip" /\ pos' = [pos EXCEPT ![u] = "sync"] /\ round' = 2
        /\ idx' = [idx EXCEPT ![u] = load_completed(cpu[u]) % 2]
        /\ UNCHANGED <<mutex, cpu, qs, completed, ptr, c, ref, at, sum>>
        /\ Store(cpu[u], "completed", 0, (load_completed(cpu[u]) + 1) % Word)
    BY DEF flip, MoveTo, mem
  <1>2. round = 1 /\ mutex = u
    BY <1>0, <1>1 DEF RoundByLabel, OwnerByLabel, HolderLabels
  <1>3. \A k \in CPUs : Pending(buf[k], "completed", 0) = {} /\ load_completed(k) = completed
    BY <1>0, <1>2, Settled
  <1>v. PICK v, k : v = (completed + 1) % Word /\ k = cpu[u]
    OBVIOUS
  <1>4. v \in 0..(Word - 1)
    BY <1>0, <1>v, OtherRank DEF SrcuTypeOK
  <1>5. Store(k, "completed", 0, v) /\ UNCHANGED mem
    BY <1>0, <1>1, <1>3, <1>v DEF mem
  <1>k. k \in CPUs
    BY <1>0, <1>v
  <1>6. [to |-> "completed", i |-> 0, v |-> v] \in Writes
    BY <1>4 DEF Writes
  <1>7. \A x \in CPUs : load_completed(x)' = IF x = k THEN v ELSE completed
    BY <1>0, <1>k, <1>3, <1>5, <1>6, StoreEffect
  <1>8. /\ \A x \in CPUs : x # k => Pending(buf[x], "completed", 0)' = {}
        /\ Pending(buf[k], "completed", 0)' = {Len(buf[k]) + 1} /\ buf'[k][Len(buf[k]) + 1].v = v
        /\ \A x \in CPUs, y \in Updaters : Pending(buf[x], "ptr", y)' = Pending(buf[x], "ptr", y)
    BY <1>0, <1>k, <1>3, <1>5, <1>6, StorePending
  <1>9. \E n : Pending(buf[k], "completed", 0)' = {n} /\ buf'[k][n].v = v
    BY <1>8
  <1>10. \E n : Pending(buf[cpu[u]], "completed", 0)' = {n} /\ buf'[cpu[u]][n].v = (completed + 1) % Word
    BY <1>1, <1>9, <1>v
  <1>11. QED
    BY <1>0, <1>1, <1>2, <1>3, <1>7, <1>8, <1>10, <1>v

(* What the other steps of an updater leave pending. *)
LEMMA UpdaterPending ==
  ASSUME Control, NEW u \in Updaters, UpdaterStep(u), ~flip(u)
  PROVE  /\ \A k \in CPUs : /\ load_completed(k)' = load_completed(k)
                             /\ Pending(buf[k], "completed", 0)' = Pending(buf[k], "completed", 0)
                             /\ \A j \in Pending(buf[k], "completed", 0) : buf'[k][j] = buf[k][j]
         /\ \A k \in CPUs, v \in Updaters : \/ Pending(buf[k], "ptr", v)' = Pending(buf[k], "ptr", v)
                                            \/ publish(u) /\ k = cpu[u] /\ v = u
  <1>0. SrcuTypeOK /\ u \in Users /\ cpu[u] \in CPUs /\ completed' = completed
    BY UpdaterMoves, UpdaterFrame DEF Control
  <1>1. CASE publish(u)
    <2> DEFINE v == 1 - load_ptr(cpu[u], u)
    <2>1. v \in {0, 1}
      BY <1>0, LoadTypes
    <2>2. Store(cpu[u], "ptr", u, v) /\ UNCHANGED mem
      BY <1>1 DEF publish
    <2> HIDE DEF v
    <2>3. [to |-> "ptr", i |-> u, v |-> v] \in Writes
      BY <2>1 DEF Writes
    <2>4. \A k \in CPUs : load_completed(k)' = load_completed(k)
      BY <1>0, <2>2, <2>3, StoreEffect
    <2>5. /\ \A k \in CPUs : /\ Pending(buf[k], "completed", 0)' = Pending(buf[k], "completed", 0)
                             /\ \A j \in Pending(buf[k], "completed", 0) : buf'[k][j] = buf[k][j]
          /\ \A k \in CPUs, y \in Updaters : ~(k = cpu[u] /\ u = y) =>
               Pending(buf[k], "ptr", y)' = Pending(buf[k], "ptr", y)
      BY <1>0, <2>2, <2>3, StorePending
    <2>6. QED
      BY <1>1, <2>4, <2>5
  <1>2. CASE ~publish(u)
    <2>1. buf' = buf
      BY <1>2 DEF UpdaterStep, synchronize_srcu, srcu_mutex_lock, early_exit, sync_func,
         sync_func_returns, srcu_readers_active_idx, scan_again, srcu_mutex_unlock, free
    <2>2. QED
      BY <1>0, <2>1 DEF load_completed
  <1>3. QED
    BY <1>1, <1>2

(* A window opens with a flip, and closes when a scan has found nobody. *)
LEMMA WindowStep ==
  ASSUME Control, NEW u \in Updaters, UpdaterStep(u), NEW v \in Updaters
  PROVE  /\ InWindow(v)' /\ ~flip(u) => InWindow(v) /\ idx'[v] = idx[v]
         /\ InWindow(v) => \/ InWindow(v)' /\ idx'[v] = idx[v]
                           \/ v = u /\ scan_again(u) /\ pos[u] = "scan" /\ at = NCpus /\ sum = 0
  <1>0. /\ SrcuTypeOK /\ OwnerByLabel /\ RoundByLabel /\ pos \in [Users -> SrcuLabels] /\ round \in 1..3
        /\ u \in Users /\ v \in Users
    BY DEF Control, SrcuTypeOK, Users
  <1>1. CASE u # v
    <2>1. pos'[v] = pos[v] /\ idx'[v] = idx[v]
      BY <1>0, <1>1, UpdaterMoves
    <2>2. pos[v] \in HolderLabels => pos[u] \notin HolderLabels
      BY <1>0, <1>1, OneOwner
    <2>3. pos[v] \in HolderLabels => round' = round
      BY <2>2, UpdaterMoves
    <2>4. QED
      BY <2>1, <2>3 DEF InWindow, HolderLabels
  <1>2. CASE u = v
    <2>1. CASE publish(u) \/ synchronize_srcu(u) \/ srcu_mutex_lock(u) \/ early_exit(u) \/ srcu_mutex_unlock(u) \/ free(u)
      BY <1>0, <1>2, <2>1 DEF publish, synchronize_srcu, srcu_mutex_lock, early_exit, srcu_mutex_unlock, free,
         MoveTo, InWindow
    <2>2. CASE flip(u)
      BY <1>2, <2>2 DEF flip, MoveTo, InWindow
    <2>3. CASE sync_func(u)
      BY <1>0, <1>2, <2>3 DEF sync_func, MoveTo, local, InWindow
    <2>4. CASE srcu_readers_active_idx(u)
      BY <1>0, <1>2, <2>4 DEF srcu_readers_active_idx, MoveTo, InWindow
    <2>5. CASE scan_again(u)
      BY <1>0, <1>2, <2>5 DEF scan_again, MoveTo, InWindow
    <2>6. CASE sync_func_returns(u)
      <3>1. pos[u] = "qs" /\ idx' = idx /\ round' = round
        BY <2>6 DEF sync_func_returns, MoveTo
      <3>2. CASE round = 1
        BY <1>0, <1>2, <2>6, <3>1, <3>2 DEF sync_func_returns, MoveTo, InWindow
      <3>3. CASE round = 2
        BY <1>0, <1>2, <2>6, <3>1, <3>3 DEF sync_func_returns, MoveTo, InWindow
      <3>4. CASE round = 3
        BY <1>0, <1>2, <2>6, <3>1, <3>4 DEF sync_func_returns, MoveTo, InWindow
      <3>5. QED
        BY <1>0, <3>2, <3>3, <3>4
    <2>7. QED
      BY <2>1, <2>2, <2>3, <2>4, <2>5, <2>6 DEF UpdaterStep
  <1>3. QED
    BY <1>1, <1>2

(* The updaters keep the flips in order. *)
LEMMA UpdaterFlips ==
  ASSUME Control, Flips, NEW u \in Updaters, UpdaterStep(u)
  PROVE  Flips' /\ (~flip(u) => Latest' = Latest /\ \A k \in CPUs : load_completed(k)' = load_completed(k))
  <1>0. SrcuTypeOK /\ OwnerByLabel /\ FlipPending /\ PtrPending /\ OldRank /\ RankByLabel
    BY DEF Control, Flips
  <1>1. /\ u \in Users /\ cpu[u] \in CPUs /\ \A t \in Users : t # u => pos'[t] = pos[t] /\ idx'[t] = idx[t]
        /\ round' # round => pos[u] \in HolderLabels /\ pos[u] \notin {"sync", "qs"}
        /\ mutex' # mutex => \/ pos[u] = "lock" /\ mutex = Nobody /\ mutex' = u
                             \/ pos[u] = "unlock" /\ mutex = u /\ mutex' = Nobody
        /\ UNCHANGED <<cpu, completed, ptr>>
        /\ \A v \in Updaters : v \in Users /\ cpu[v] \in CPUs
    BY <1>0, UpdaterMoves, UpdaterFrame DEF SrcuTypeOK, Users
  <1>2. CASE flip(u)
    <2>1. FlipPending'
      <3>1. PICK n : /\ Pending(buf[cpu[u]], "completed", 0)' = {n}
                     /\ buf'[cpu[u]][n].v = (completed + 1) % Word
        BY <1>2, FlipEffect
      <3>2. /\ \A k \in CPUs : k # cpu[u] => Pending(buf[k], "completed", 0)' = {}
            /\ cpu' = cpu /\ completed' = completed /\ round' = 2 /\ pos'[u] = "sync"
        <4>1. pos \in [Users -> SrcuLabels]
          BY <1>0 DEF SrcuTypeOK
        <4>2. \A k \in CPUs : k # cpu[u] => Pending(buf[k], "completed", 0)' = {}
          BY <1>2, FlipEffect
        <4>3. cpu' = cpu /\ completed' = completed /\ round' = 2 /\ pos' = [pos EXCEPT ![u] = "sync"]
          BY <1>2, FlipEffect
        <4>4. QED
          BY <1>1, <4>1, <4>2, <4>3
      <3>3. Pending(buf'[cpu[u]], "completed", 0) = {n}
        BY <3>1, <3>2
      <3>4. ASSUME NEW k \in CPUs, NEW j \in Pending(buf'[k], "completed", 0)
            PROVE  /\ k = cpu[u] /\ buf'[k][j].v = (completed + 1) % Word
                   /\ \A l \in Pending(buf'[k], "completed", 0) : l = j
        <4>1. k = cpu[u]
          BY <3>2, <3>4
        <4>2. j = n
          BY <3>3, <3>4, <4>1
        <4>3. QED
          BY <3>1, <3>3, <4>1, <4>2
      <3>5. QED
        BY <3>2, <3>4 DEF FlipPending
    <2>2. PtrPending'
      <3>1. /\ \A k \in CPUs, v \in Updaters : Pending(buf[k], "ptr", v)' = Pending(buf[k], "ptr", v)
            /\ pos[u] = "flip" /\ cpu' = cpu
        BY <1>2, FlipEffect
      <3>2. QED
        BY <1>0, <1>1, <3>1 DEF PtrPending
    <2>3. OldRank'
      <3>1. /\ idx'[u] = completed % 2 /\ mutex = u /\ mutex' = mutex /\ pos'[u] = "sync" /\ cpu' = cpu
            /\ load_completed(cpu[u])' = (completed + 1) % Word
        <4>1. idx \in [Users -> 0..(Word - 1)] /\ pos \in [Users -> SrcuLabels]
          BY <1>0 DEF SrcuTypeOK
        <4>2. \A k \in CPUs : load_completed(k)' = IF k = cpu[u] THEN (completed + 1) % Word ELSE completed
          BY <1>2, FlipEffect
        <4>3. cpu'[u] = cpu[u]
          BY <1>1
        <4>4. QED
          BY <1>1, <1>2, <4>1, <4>2, <4>3, FlipEffect
      <3>2. completed \in 0..(Word - 1)
        BY <1>0 DEF SrcuTypeOK
      <3>3. completed % 2 # ((completed + 1) % Word) % 2
        BY <3>2, OtherRank
      <3>4. \A v \in Updaters : v # u => pos[v] \notin HolderLabels /\ pos'[v] = pos[v]
        BY <1>0, <1>1, <3>1 DEF OwnerByLabel
      <3>5. ASSUME NEW v \in Updaters, InWindow(v)' PROVE v = u
        BY <3>4, <3>5 DEF InWindow, HolderLabels
      <3>6. (idx[u] # load_completed(cpu[u]) % 2)'
        BY <3>1, <3>3
      <3>7. QED
        BY <3>5, <3>6 DEF OldRank
    <2>4. QED
      BY <1>2, <2>1, <2>2, <2>3 DEF Flips
  <1>3. CASE ~flip(u)
    <2>1. /\ \A k \in CPUs : /\ load_completed(k)' = load_completed(k)
                             /\ Pending(buf[k], "completed", 0)' = Pending(buf[k], "completed", 0)
                             /\ \A j \in Pending(buf[k], "completed", 0) : buf'[k][j] = buf[k][j]
          /\ \A k \in CPUs, v \in Updaters : \/ Pending(buf[k], "ptr", v)' = Pending(buf[k], "ptr", v)
                                             \/ publish(u) /\ k = cpu[u] /\ v = u
      BY <1>3, UpdaterPending
    <2>2. FlipPending'
      <3>1. ASSUME NEW k \in CPUs, NEW j \in Pending(buf[k], "completed", 0)
            PROVE  /\ \E v \in Updaters : k = cpu[v] /\ pos'[v] = "sync" /\ round' = 2
                   /\ buf'[k][j].v = (completed + 1) % Word
                   /\ \A l \in Pending(buf[k], "completed", 0) : l = j
        <4>1. PICK v \in Updaters : k = cpu[v] /\ pos[v] = "sync" /\ round = 2
          BY <1>0 DEF FlipPending
        <4>2. pos[v] \in HolderLabels
          BY <4>1 DEF HolderLabels
        <4>3. round' = round
          BY <1>0, <1>1, <4>1, <4>2, OneOwner
        <4>4. pos'[v] = "sync"
          <5>1. CASE u # v
            BY <1>1, <4>1, <5>1
          <5>2. CASE u = v
            <6>1. sync_func(u)
              BY <1>3, <4>1, <5>2 DEF UpdaterStep, publish, synchronize_srcu, srcu_mutex_lock, early_exit,
                 sync_func_returns, srcu_readers_active_idx, scan_again, srcu_mutex_unlock, free, MoveTo
            <6>2. buf[k] = <<>>
              BY <4>1, <5>2, <6>1 DEF sync_func, Barrier
            <6>3. QED
              BY <6>2 DEF Pending
          <5>3. QED
            BY <5>1, <5>2
        <4>5. buf[k][j].v = (completed + 1) % Word /\ \A l \in Pending(buf[k], "completed", 0) : l = j
          BY <1>0 DEF FlipPending
        <4>6. buf'[k][j] = buf[k][j]
          BY <2>1
        <4>7. QED
          BY <4>1, <4>3, <4>4, <4>5, <4>6
      <3>2. ASSUME NEW k \in CPUs, NEW j \in Pending(buf[k], "completed", 0)'
            PROVE  /\ (\E v \in Updaters : k = cpu[v] /\ pos[v] = "sync" /\ round = 2)'
                   /\ buf'[k][j].v = (completed + 1) % Word
                   /\ \A l \in Pending(buf[k], "completed", 0)' : l = j
        <4>1. j \in Pending(buf[k], "completed", 0)
          BY <2>1, <3>2
        <4>2. QED
          BY <1>1, <2>1, <3>1, <4>1
      <3>3. QED
        BY <1>1, <3>2 DEF FlipPending
    <2>3. PtrPending'
      <3>1. ASSUME NEW k \in CPUs, NEW v \in Updaters, Pending(buf[k], "ptr", v)' # {}
            PROVE  k = cpu[v] /\ pos'[v] \in {"call", "lock"}
        <4>1. CASE publish(u) /\ k = cpu[u] /\ v = u
          BY <1>0, <1>1, <4>1 DEF publish, MoveTo, SrcuTypeOK
        <4>2. CASE ~(publish(u) /\ k = cpu[u] /\ v = u)
          <5>1. Pending(buf[k], "ptr", v)' = Pending(buf[k], "ptr", v)
            BY <2>1, <4>2
          <5>2. k = cpu[v] /\ pos[v] \in {"call", "lock"}
            BY <1>0, <3>1, <5>1 DEF PtrPending
          <5>3. CASE u # v
            BY <1>1, <5>2, <5>3
          <5>4. CASE u = v
            <6>1. pos \in [Users -> SrcuLabels]
              BY <1>0 DEF SrcuTypeOK
            <6>2. synchronize_srcu(u) \/ srcu_mutex_lock(u)
              BY <1>3, <5>2, <5>4 DEF UpdaterStep, publish, sync_func, early_exit,
                 sync_func_returns, srcu_readers_active_idx, scan_again, srcu_mutex_unlock, free, MoveTo
            <6>3. ~srcu_mutex_lock(u)
              <7>1. buf[k] = <<>> => Pending(buf[k], "ptr", v) = {}
                BY DEF Pending
              <7>2. QED
                BY <3>1, <5>1, <5>2, <5>4, <7>1 DEF srcu_mutex_lock, Barrier
            <6>4. QED
              BY <1>1, <5>2, <5>4, <6>1, <6>2, <6>3 DEF synchronize_srcu, MoveTo
          <5>5. QED
            BY <5>3, <5>4
        <4>3. QED
          BY <4>1, <4>2
      <3>2. QED
        BY <1>1, <3>1 DEF PtrPending
    <2>4. OldRank'
      <3>1. \A v \in Updaters : InWindow(v)' => InWindow(v) /\ idx'[v] = idx[v]
        BY <1>3, WindowStep
      <3>2. QED
        BY <1>0, <1>1, <2>1, <3>1 DEF OldRank
    <2>5. Latest' = Latest
      <3>1. mutex' = mutex => Latest' = Latest
        BY <1>0, <1>1, <2>1 DEF Latest, SrcuTypeOK
      <3>2. mutex' # mutex => load_completed(cpu[u]) = completed
        <4>1. ASSUME mutex' # mutex, NEW v \in Updaters, pos[v] = "sync" PROVE FALSE
          <5>1. mutex = v
            BY <1>0, <4>1 DEF OwnerByLabel, HolderLabels
          <5>2. QED
            BY <1>1, <4>1, <5>1, SRCUAssumption
        <4>2. QED
          BY <1>0, <1>1, <4>1, Settled
      <3>3. u # Nobody
        BY SRCUAssumption
      <3>4. QED
        BY <1>1, <2>1, <3>1, <3>2, <3>3 DEF Latest
    <2>6. QED
      BY <2>1, <2>2, <2>3, <2>4, <2>5 DEF Flips
  <1>4. QED
    BY <1>2, <1>3

-----------------------------------------------------------------------------
(* The rank that the owner waits for.                                      *)

(* The sum over the CPUs that are not in S. *)
Outside(S, f) == Sum([k \in CPUs |-> IF k \in S THEN 0 ELSE f[k]])

(* What the CPUs see of the counters of a rank, and how many stores to     *)
(* them are pending.                                                       *)
Loads(i) == [k \in CPUs |-> load_c(k, i)]
Lates(i) == [k \in CPUs |-> Late(k, i)]

(* A sum over some of the CPUs is a number, and follows what one of them changes. *)
LEMMA OutsideUpdate ==
  ASSUME NEW S, NEW f \in [CPUs -> Int], NEW g \in [CPUs -> Int], NEW k \in CPUs,
         \A x \in CPUs \ {k} : g[x] = f[x]
  PROVE  /\ Outside(S, f) \in Int
         /\ Outside(S, g) = IF k \in S THEN Outside(S, f) ELSE Outside(S, f) + (g[k] - f[k])
  <1> DEFINE F == [x \in CPUs |-> IF x \in S THEN 0 ELSE f[x]]
             G == [x \in CPUs |-> IF x \in S THEN 0 ELSE g[x]]
  <1>1. F \in [CPUs -> Int] /\ G \in [CPUs -> Int] /\ \A x \in CPUs \ {k} : G[x] = F[x]
    OBVIOUS
  <1>2. G[k] - F[k] = IF k \in S THEN 0 ELSE g[k] - f[k]
    OBVIOUS
  <1>3. Outside(S, f) = Sum(F) /\ Outside(S, g) = Sum(G)
    BY DEF Outside
  <1> HIDE DEF F, G
  <1>4. Sum(F) \in Int /\ Sum(G) = Sum(F) + (G[k] - F[k])
    BY <1>1, SumUpdate
  <1>5. QED
    BY <1>2, <1>3, <1>4

(* Leaving out one CPU more. *)
LEMMA OutsideOne ==
  ASSUME NEW S, NEW f \in [CPUs -> Int], NEW k \in CPUs, k \notin S
  PROVE  Outside(S, f) \in Int /\ Outside(S \cup {k}, f) = Outside(S, f) - f[k]
  <1> DEFINE F == [x \in CPUs |-> IF x \in S THEN 0 ELSE f[x]]
             G == [x \in CPUs |-> IF x \in S \cup {k} THEN 0 ELSE f[x]]
  <1>1. F \in [CPUs -> Int] /\ G \in [CPUs -> Int] /\ \A x \in CPUs \ {k} : G[x] = F[x]
    OBVIOUS
  <1>2. G[k] = 0 /\ F[k] = f[k] /\ f[k] \in Int
    OBVIOUS
  <1>3. Outside(S, f) = Sum(F) /\ Outside(S \cup {k}, f) = Sum(G)
    BY DEF Outside
  <1> HIDE DEF F, G
  <1>4. Sum(F) \in Int /\ Sum(G) = Sum(F) + (G[k] - F[k])
    BY <1>1, SumUpdate
  <1>5. QED
    BY <1>2, <1>3, <1>4

(* Leaving out all CPUs, and none. *)
LEMMA OutsideAll ==
  ASSUME NEW f \in [CPUs -> Int]
  PROVE  Outside(CPUs, f) = 0 /\ Outside({}, f) = Sum(f)
  <1>1. Outside(CPUs, f) = 0
    <2> DEFINE F == [x \in CPUs |-> IF x \in CPUs THEN 0 ELSE f[x]]
    <2>1. F \in [CPUs -> Int] /\ \A x \in CPUs : F[x] = 0
      OBVIOUS
    <2>2. Outside(CPUs, f) = Sum(F)
      BY DEF Outside
    <2> HIDE DEF F
    <2>3. QED
      BY <2>1, <2>2, SumZero
  <1>2. [x \in CPUs |-> IF x \in {} THEN 0 ELSE f[x]] = f
    OBVIOUS
  <1>3. QED
    BY <1>1, <1>2 DEF Outside

(* A sum of numbers of stores is one. *)
LEMMA OutsideNat ==
  ASSUME NEW S, NEW f \in [CPUs -> Nat]
  PROVE  Outside(S, f) \in Nat
  <1> DEFINE F == [x \in CPUs |-> IF x \in S THEN 0 ELSE f[x]]
  <1>1. F \in [CPUs -> Nat] /\ Outside(S, f) = Sum(F)
    BY DEF Outside
  <1> HIDE DEF F
  <1>2. QED
    BY <1>1, SumNat

(* The counters of a rank are numbers. *)
LEMMA RankTypes ==
  ASSUME SrcuTypeOK, NEW i \in {0, 1}
  PROVE  /\ Loads(i) \in [CPUs -> Int] /\ Lates(i) \in [CPUs -> Nat] /\ Lates(i) \in [CPUs -> Int]
         /\ \A k \in CPUs : /\ Loads(i)[k] = load_c(k, i) /\ Lates(i)[k] = Late(k, i)
                            /\ load_c(k, i) \in 0..(RefWord - 1) /\ load_c(k, i) \in Int
                            /\ Late(k, i) \in Nat
  <1>1. \A k \in CPUs : load_c(k, i) \in 0..(RefWord - 1) /\ Late(k, i) \in Nat
    BY LoadTypes
  <1>2. \A k \in CPUs : load_c(k, i) \in Int
    BY <1>1, RefWordType
  <1>3. QED
    BY <1>1, <1>2 DEF Loads, Lates

-----------------------------------------------------------------------------
(* The readers that have chosen rank i, counted in it or not, and the ones *)
(* that are about to be counted.                                           *)
Entered(i) == {r \in Readers : pos[r] \in {"locking", "in"} /\ idx[r] = i}
AboutTo(i) == {r \in Readers : pos[r] = "locking" /\ idx[r] = i}

(* There are no more of them than readers. *)
LEMMA EnteredType ==
  ASSUME NEW i
  PROVE  /\ Entered(i) \in SUBSET Readers /\ IsFiniteSet(Entered(i))
         /\ Cardinality(Entered(i)) \in 0..Cardinality(Readers)
         /\ Cardinality(ReadersOf(i)) \in Nat
         /\ Cardinality(ReadersOf(i)) <= Cardinality(Entered(i))
  <1>1. Entered(i) \in SUBSET Readers /\ IsFiniteSet(Readers) /\ ReadersOf(i) \in SUBSET Entered(i)
    BY SRCUAssumption DEF Entered, ReadersOf
  <1>2. IsFiniteSet(Entered(i)) /\ Cardinality(Entered(i)) <= Cardinality(Readers)
    BY <1>1, FS_Subset
  <1>3. Cardinality(ReadersOf(i)) \in Nat /\ Cardinality(ReadersOf(i)) <= Cardinality(Entered(i))
    BY <1>1, <1>2, FS_Subset, FS_CardinalityType
  <1>4. QED
    BY <1>1, <1>2, <1>3, FS_CardinalityType

(* A step of somebody else, as rank i sees it. *)
QuietStep(i) ==
  /\ Entered(i)' = Entered(i) /\ ReadersOf(i)' = ReadersOf(i)
  /\ \A r \in AboutTo(i)' : r \in AboutTo(i) /\ cpu'[r] = cpu[r]
  /\ \A k \in CPUs : load_c(k, i)' = load_c(k, i) /\ (Falling(k, i) => Falling(k, i)')
  /\ \E k \in CPUs : Late(k, i)' \in Int /\ Late(k, i)' <= Late(k, i) /\ \A x \in CPUs : x # k => Late(x, i)' = Late(x, i)

(* A reader is counted in rank i on CPU k. *)
EnterStep(i, k) ==
  /\ Entered(i)' = Entered(i) /\ \E r \in AboutTo(i) : k = cpu[r]
  /\ \A r \in AboutTo(i)' : r \in AboutTo(i) /\ cpu'[r] = cpu[r]
  /\ \A x \in CPUs : x # k => Late(x, i)' = Late(x, i) /\ (Falling(x, i) => Falling(x, i)')

(* A reader leaves rank i on CPU k. *)
LeaveStep(i, k) ==
  /\ Cardinality(Entered(i)') = Cardinality(Entered(i)) - 1
  /\ Cardinality(ReadersOf(i)') = Cardinality(ReadersOf(i)) - 1
  /\ \A r \in AboutTo(i)' : r \in AboutTo(i) /\ cpu'[r] = cpu[r]
  /\ load_c(k, i)' = Rem(load_c(k, i) - 1) /\ Late(k, i)' = Late(k, i) + 1
  /\ \A x \in CPUs : /\ x # k => load_c(x, i)' = load_c(x, i) /\ Late(x, i)' = Late(x, i)
                     /\ Falling(x, i) => Falling(x, i)'

(* A step of a task that does not touch the counters of rank i or the readers in it. *)
LEMMA QuietIs ==
  ASSUME SrcuTypeOK, NEW i \in {0, 1},
         \A r \in Readers : /\ (pos'[r] = "in" /\ idx'[r] = i) <=> (pos[r] = "in" /\ idx[r] = i)
                            /\ (pos'[r] = "locking" /\ idx'[r] = i) <=> (pos[r] = "locking" /\ idx[r] = i)
                            /\ pos[r] = "locking" => cpu'[r] = cpu[r],
         \A k \in CPUs : load_c(k, i)' = load_c(k, i) /\ (Falling(k, i) => Falling(k, i)'),
         \E k \in CPUs : Late(k, i)' \in Int /\ Late(k, i)' <= Late(k, i) /\ \A x \in CPUs : x # k => Late(x, i)' = Late(x, i)
  PROVE  QuietStep(i)
  <1>1. Entered(i)' = Entered(i)
    <2>1. \A r \in Readers : (pos'[r] \in {"locking", "in"} /\ idx'[r] = i)
                               <=> (pos[r] \in {"locking", "in"} /\ idx[r] = i)
      OBVIOUS
    <2>2. QED
      BY <2>1 DEF Entered
  <1>2. ReadersOf(i)' = ReadersOf(i)
    BY DEF ReadersOf
  <1>3. \A r \in AboutTo(i)' : r \in AboutTo(i) /\ cpu'[r] = cpu[r]
    BY DEF AboutTo
  <1>4. QED
    BY <1>1, <1>2, <1>3 DEF QuietStep

(* Every step is one of these for a given rank, unless a reader chooses it. *)
LEMMA RankSteps ==
  ASSUME Control, NEW i \in {0, 1}, SrcuNext,
         \A r \in Readers : srcu_read_lock(r) => idx'[r] # i
  PROVE  QuietStep(i) \/ \E k \in CPUs : EnterStep(i, k) \/ LeaveStep(i, k)
  <1>0. /\ SrcuTypeOK /\ ByRole /\ pos \in [Users -> SrcuLabels] /\ idx \in [Users -> 0..(Word - 1)]
        /\ cpu \in [Users -> CPUs] /\ \A r \in Readers : r \in Users /\ r \notin Updaters /\ cpu[r] \in CPUs
    BY SRCUAssumption DEF Control, SrcuTypeOK, Users
  <1>z. 0 \in CPUs /\ \A k \in CPUs : Late(k, i) \in Nat
    BY <1>0, LoadTypes, SRCUAssumption DEF CPUs
  <1>1. ASSUME NEW k \in CPUs, Drain(k) PROVE QuietStep(i)
    <2>1. UNCHANGED <<pos, idx, cpu>>
      BY <1>1 DEF Drain, local
    <2>2. /\ \A x \in CPUs : load_c(x, i)' = load_c(x, i) /\ (Falling(x, i) => Falling(x, i)')
          /\ Late(k, i)' = Late(k, i) - 1 \/ Late(k, i)' = Late(k, i)
          /\ \A x \in CPUs : x # k => Late(x, i)' = Late(x, i)
      BY <1>0, <1>1, DrainEffect
    <2>3. Late(k, i)' \in Int /\ Late(k, i)' <= Late(k, i)
      BY <1>z, <2>2
    <2>4. QED
      BY <1>0, <2>1, <2>2, <2>3, QuietIs
  <1>2. ASSUME UNCHANGED <<buf, mem>>,
               \A r \in Readers : /\ (pos'[r] = "in" /\ idx'[r] = i) <=> (pos[r] = "in" /\ idx[r] = i)
                                  /\ (pos'[r] = "locking" /\ idx'[r] = i) <=> (pos[r] = "locking" /\ idx[r] = i)
                                  /\ pos[r] = "locking" => cpu'[r] = cpu[r]
        PROVE  QuietStep(i)
    <2>1. \A x \in CPUs : /\ load_c(x, i)' = load_c(x, i) /\ (Falling(x, i) => Falling(x, i)')
                          /\ Late(x, i)' = Late(x, i)
      BY <1>2, SameLoads
    <2>2. Late(0, i)' \in Int /\ Late(0, i)' <= Late(0, i)
      BY <1>z, <2>1
    <2>3. QED
      BY <1>0, <1>2, <1>z, <2>1, <2>2, QuietIs
  <1>3. ASSUME NEW k \in CPUs, Switch(k) PROVE QuietStep(i)
    BY <1>2, <1>3 DEF Switch, local
  <1>4. ASSUME NEW r \in Readers, NEW k \in CPUs, Migrate(r, k) PROVE QuietStep(i)
    BY <1>0, <1>2, <1>4 DEF Migrate, local
  <1>5. ASSUME NEW r \in Readers, NEW u \in Updaters, srcu_dereference(r, u) PROVE QuietStep(i)
    BY <1>0, <1>2, <1>5 DEF srcu_dereference, MoveTo
  <1>6. ASSUME NEW r \in Readers, srcu_read_lock(r) PROVE QuietStep(i)
    <2>1. /\ pos[r] = "idle" /\ pos' = [pos EXCEPT ![r] = "locking"] /\ cpu' = cpu
          /\ \A x \in Readers : x # r => idx'[x] = idx[x]
          /\ UNCHANGED <<buf, mem>> /\ idx'[r] # i
      BY <1>0, <1>6 DEF srcu_read_lock, MoveTo
    <2>2. QED
      BY <1>0, <1>2, <2>1
  <1>7. ASSUME NEW u \in Updaters, UpdaterStep(u) PROVE QuietStep(i)
    <2>1. /\ cpu' = cpu /\ \A r \in Readers : pos'[r] = pos[r] /\ idx'[r] = idx[r]
          /\ \A k \in CPUs : /\ load_c(k, i)' = load_c(k, i) /\ Late(k, i)' = Late(k, i)
                             /\ Falling(k, i) => Falling(k, i)'
      BY <1>0, <1>7, UpdaterFrame
    <2>2. Late(0, i)' \in Int /\ Late(0, i)' <= Late(0, i)
      BY <1>z, <2>1
    <2>3. QED
      BY <1>0, <1>z, <2>1, <2>2, QuietIs
  <1>8. ASSUME NEW r \in Readers, srcu_read_lock_inc(r)
        PROVE  QuietStep(i) \/ \E k \in CPUs : EnterStep(i, k)
    <2>0. PICK n, k, v : n = idx[r] /\ k = cpu[r] /\ v = Rem(load_c(k, n) + 1)
      OBVIOUS
    <2>1. /\ k \in CPUs /\ n \in {0, 1} /\ Store(k, "c", n, v) /\ UNCHANGED mem
          /\ [to |-> "c", i |-> n, v |-> v] \in Writes
          /\ pos[r] = "locking" /\ pos' = [pos EXCEPT ![r] = "in"] /\ UNCHANGED <<cpu, idx>>
      BY <1>8, <2>0, EnterRank DEF mem
    <2>2. /\ n # i => \A x \in CPUs : /\ load_c(x, i)' = load_c(x, i) /\ Late(x, i)' = Late(x, i)
                                      /\ Falling(x, i) => Falling(x, i)'
          /\ \A x \in CPUs : x # k => Late(x, i)' = Late(x, i) /\ (Falling(x, i) => Falling(x, i)')
      BY <1>0, <2>1, StoreEffect
    <2>3. CASE n # i
      <3>1. Late(0, i)' \in Int /\ Late(0, i)' <= Late(0, i)
        BY <1>z, <2>2, <2>3
      <3>2. \A x \in Readers : /\ pos'[x] = IF x = r THEN "in" ELSE pos[x]
                               /\ x = r => idx[x] # i
        BY <1>0, <2>0, <2>1, <2>3
      <3>3. QED
        BY <1>0, <1>z, <2>1, <2>2, <2>3, <3>1, <3>2, QuietIs
    <2>4. CASE n = i
      <3>1. r \in AboutTo(i)
        BY <2>0, <2>1, <2>4 DEF AboutTo
      <3>2. \A x \in Readers : pos'[x] = IF x = r THEN "in" ELSE pos[x]
        BY <1>0, <2>1
      <3>3. Entered(i)' = Entered(i)
        <4>1. \A x \in Readers : (pos'[x] \in {"locking", "in"} /\ idx'[x] = i)
                                   <=> (pos[x] \in {"locking", "in"} /\ idx[x] = i)
          BY <2>1, <3>2
        <4>2. QED
          BY <4>1 DEF Entered
      <3>4. \A x \in AboutTo(i)' : x \in AboutTo(i) /\ cpu'[x] = cpu[x]
        BY <2>1, <3>2 DEF AboutTo
      <3>5. EnterStep(i, k)
        BY <2>0, <2>2, <3>1, <3>3, <3>4 DEF EnterStep
      <3>6. QED
        BY <2>1, <3>5
    <2>5. QED
      BY <2>3, <2>4
  <1>9. ASSUME NEW r \in Readers, srcu_read_unlock(r)
        PROVE  QuietStep(i) \/ \E k \in CPUs : LeaveStep(i, k)
    <2>0. PICK n, k, v : n = idx[r] /\ k = cpu[r] /\ v = Rem(load_c(k, n) - 1)
      OBVIOUS
    <2>1. /\ k \in CPUs /\ n \in {0, 1} /\ Store(k, "c", n, v) /\ UNCHANGED mem
          /\ [to |-> "c", i |-> n, v |-> v] \in Writes
          /\ pos[r] = "in" /\ pos' = [pos EXCEPT ![r] = "idle"] /\ idx' = [idx EXCEPT ![r] = 0]
          /\ cpu' = cpu
          /\ Cardinality(ReadersOf(n)') = Cardinality(ReadersOf(n)) - 1
      BY <1>9, <2>0, LeaveRank DEF mem
    <2>2. /\ n # i => \A x \in CPUs : /\ load_c(x, i)' = load_c(x, i) /\ Late(x, i)' = Late(x, i)
                                      /\ Falling(x, i) => Falling(x, i)'
          /\ n = i => /\ load_c(k, i)' = v /\ Late(k, i)' = Late(k, i) + 1
                      /\ \A x \in CPUs : x # k => load_c(x, i)' = load_c(x, i) /\ Late(x, i)' = Late(x, i)
                      /\ v = Rem(load_c(k, i) - 1) => \A x \in CPUs : Falling(x, i) => Falling(x, i)'
      BY <1>0, <2>1, StoreEffect
    <2>3. \A x \in Readers : /\ pos'[x] = IF x = r THEN "idle" ELSE pos[x]
                             /\ idx'[x] = IF x = r THEN 0 ELSE idx[x]
      BY <1>0, <2>1
    <2>4. CASE n # i
      <3>1. Late(0, i)' \in Int /\ Late(0, i)' <= Late(0, i)
        BY <1>z, <2>2, <2>4
      <3>2. \A x \in Readers : /\ (pos'[x] = "in" /\ idx'[x] = i) <=> (pos[x] = "in" /\ idx[x] = i)
                               /\ (pos'[x] = "locking" /\ idx'[x] = i) <=> (pos[x] = "locking" /\ idx[x] = i)
                               /\ pos[x] = "locking" => cpu'[x] = cpu[x]
        BY <2>0, <2>1, <2>3, <2>4
      <3>3. QED
        BY <1>0, <1>z, <2>2, <2>4, <3>1, <3>2, QuietIs
    <2>5. CASE n = i
      <3>1. r \in Entered(i) /\ Entered(i)' = Entered(i) \ {r}
        <4>1. \A x \in Readers : (pos'[x] \in {"locking", "in"} /\ idx'[x] = i)
                                   <=> (x # r /\ pos[x] \in {"locking", "in"} /\ idx[x] = i)
          BY <2>3
        <4>2. QED
          BY <2>0, <2>1, <2>5, <4>1 DEF Entered
      <3>2. Cardinality(Entered(i)') = Cardinality(Entered(i)) - 1
        BY <3>1, EnteredType, FS_RemoveElement
      <3>3. \A x \in AboutTo(i)' : x \in AboutTo(i) /\ cpu'[x] = cpu[x]
        BY <2>1, <2>3 DEF AboutTo
      <3>4. LeaveStep(i, k)
        BY <2>0, <2>1, <2>2, <2>5, <3>2, <3>3 DEF LeaveStep
      <3>5. QED
        BY <2>1, <3>4
    <2>6. QED
      BY <2>4, <2>5
  <1>10. QED
    BY <1>1, <1>3, <1>4, <1>5, <1>6, <1>7, <1>8, <1>9 DEF SrcuNext, ReaderStep

(* The flip is visible to every CPU. *)
Flipped(u) == pos[u] = "scan" \/ (pos[u] = "qs" /\ round = 2)

(* On the CPUs that have switched tasks nobody enters rank i any more, the *)
(* stores that are pending are those of readers that have left, and there  *)
(* are no more of all these than readers.                                  *)
Quiet(i) ==
  /\ \A r \in AboutTo(i) : cpu[r] \in qs
  /\ \A k \in CPUs : k \notin qs => Falling(k, i)
  /\ Cardinality(Entered(i)) + Outside(qs, Lates(i)) <= Cardinality(Readers)

OldRankQuiet == \A u \in Updaters : Flipped(u) => Quiet(idx[u])

(* Quiet survives the steps that rank i may see. *)
LEMMA QuietKept ==
  ASSUME SrcuTypeOK, NEW i \in {0, 1}, Quiet(i), qs' = qs,
         QuietStep(i) \/ \E k \in CPUs : EnterStep(i, k) \/ LeaveStep(i, k)
  PROVE  Quiet(i)'
  <1> DEFINE f == Lates(i)
             g == [k \in CPUs |-> Late(k, i)']
             N == Cardinality(Readers)
  <1>0. /\ f \in [CPUs -> Int] /\ \A k \in CPUs : f[k] = Late(k, i) /\ Late(k, i) \in Nat
        /\ \A k \in CPUs : g[k] = Late(k, i)'
    BY RankTypes
  <1>1. Lates(i)' = g
    BY DEF Lates
  <1>2. /\ Cardinality(Entered(i)) + Outside(qs, f) <= N /\ \A k \in CPUs : k \notin qs => Falling(k, i)
        /\ \A r \in AboutTo(i) : cpu[r] \in qs
    BY DEF Quiet
  <1>3. Cardinality(Entered(i)) \in Nat /\ N \in Nat
    BY EnteredType, RefWordType
  <1> HIDE DEF f, g
  <1>4. CASE QuietStep(i)
    <2>1. PICK k \in CPUs : /\ Late(k, i)' \in Int /\ Late(k, i)' <= Late(k, i)
                           /\ \A x \in CPUs : x # k => Late(x, i)' = Late(x, i)
      BY <1>4 DEF QuietStep
    <2>2. g \in [CPUs -> Int] /\ \A x \in CPUs \ {k} : g[x] = f[x]
      BY <1>0, <2>1 DEF g
    <2>3. /\ Outside(qs, f) \in Int
          /\ Outside(qs, g) = IF k \in qs THEN Outside(qs, f) ELSE Outside(qs, f) + (g[k] - f[k])
      BY <1>0, <2>2, OutsideUpdate
    <2>4. g[k] <= f[k] /\ g[k] \in Int /\ f[k] \in Int
      BY <1>0, <2>1
    <2>5. Cardinality(Entered(i)) + Outside(qs, g) <= N
      BY <1>2, <1>3, <2>3, <2>4
    <2>6. QED
      BY <1>1, <1>2, <1>4, <2>5 DEF Quiet, QuietStep
  <1>5. ASSUME NEW k \in CPUs, EnterStep(i, k) PROVE Quiet(i)'
    <2>1. k \in qs
      BY <1>2, <1>5 DEF EnterStep
    <2>2. [x \in CPUs |-> IF x \in qs THEN 0 ELSE g[x]] = [x \in CPUs |-> IF x \in qs THEN 0 ELSE f[x]]
      BY <1>0, <1>5, <2>1 DEF EnterStep
    <2>3. Outside(qs, g) = Outside(qs, f)
      BY <2>2 DEF Outside
    <2>4. QED
      BY <1>1, <1>2, <1>5, <2>1, <2>3 DEF Quiet, EnterStep
  <1>6. ASSUME NEW k \in CPUs, LeaveStep(i, k) PROVE Quiet(i)'
    <2>1. Late(k, i)' = Late(k, i) + 1 /\ \A x \in CPUs : x # k => Late(x, i)' = Late(x, i)
      BY <1>6 DEF LeaveStep
    <2>2. g \in [CPUs -> Int] /\ \A x \in CPUs \ {k} : g[x] = f[x]
      BY <1>0, <2>1 DEF g
    <2>3. /\ Outside(qs, f) \in Int
          /\ Outside(qs, g) = IF k \in qs THEN Outside(qs, f) ELSE Outside(qs, f) + (g[k] - f[k])
      BY <1>0, <2>2, OutsideUpdate
    <2>4. g[k] - f[k] = 1
      BY <1>0, <2>1
    <2>5. Cardinality(Entered(i)') + Outside(qs, g) <= N
      <3>1. Cardinality(Entered(i)') = Cardinality(Entered(i)) - 1
        BY <1>6 DEF LeaveStep
      <3>2. QED
        BY <1>2, <1>3, <2>3, <2>4, <3>1
    <2>6. QED
      BY <1>1, <1>2, <1>6, <2>5 DEF Quiet, LeaveStep
  <1>7. QED
    BY <1>4, <1>5, <1>6

(* A context switch makes another CPU quiet. *)
LEMMA QuietSwitch ==
  ASSUME SrcuTypeOK, NEW i \in {0, 1}, Quiet(i), NEW k \in CPUs, Switch(k)
  PROVE  Quiet(i)'
  <1>1. /\ k \in qs /\ buf[k] = <<>> /\ qs' = qs \ {k} /\ UNCHANGED <<pos, idx, cpu, buf, mem>>
        /\ \A r \in Readers : cpu[r] = k => pos[r] # "locking"
    BY DEF Switch, local, Preemptible, Users
  <1>2. /\ AboutTo(i)' = AboutTo(i) /\ Entered(i)' = Entered(i)
        /\ \A x \in CPUs : Late(x, i)' = Late(x, i) /\ Falling(x, i)' = Falling(x, i)
    BY <1>1, SameLoads DEF AboutTo, Entered
  <1>3. Lates(i)' = Lates(i)
    BY <1>2 DEF Lates
  <1>4. Pending(buf[k], "c", i) = {} /\ Late(k, i) = 0
    <2>1. buf[k] \in Seq(Writes)
      BY LoadTypes
    <2>2. QED
      BY <1>1, <2>1, PendingFinite DEF Late
  <1>5. Falling(k, i)
    BY <1>4 DEF Falling, FallingFrom
  <1>6. Outside(qs', Lates(i)) = Outside(qs, Lates(i))
    <2>1. Lates(i) \in [CPUs -> Int] /\ Lates(i)[k] = 0
      BY <1>4, RankTypes
    <2>2. k \notin qs' /\ qs' \cup {k} = qs
      BY <1>1
    <2>3. PICK S, f : S = qs' /\ f = Lates(i)
      OBVIOUS
    <2>4. Outside(S, f) \in Int /\ Outside(S \cup {k}, f) = Outside(S, f) - f[k]
      BY <2>1, <2>2, <2>3, OutsideOne
    <2>5. S \cup {k} = qs /\ f[k] = 0
      BY <2>1, <2>2, <2>3
    <2>6. Outside(S, f) = Outside(qs, f)
      <3>1. Outside(qs, f) = Outside(S, f) - 0
        BY <2>4, <2>5, Zenon
      <3>2. QED
        BY <2>4, <3>1
    <2>7. QED
      BY <2>3, <2>6
  <1>7. QED
    BY <1>1, <1>2, <1>3, <1>5, <1>6 DEF Quiet, AboutTo

(* When the first of the last two sync_func() calls begins. *)
LEMMA QuietBegins ==
  ASSUME SrcuTypeOK, NEW i \in {0, 1}, UNCHANGED <<cpu, buf, mem>>, qs' = CPUs
  PROVE  Quiet(i)'
  <1>1. \A k \in CPUs : Late(k, i)' = Late(k, i)
    BY SameLoads
  <1>2. Lates(i)' = Lates(i)
    BY <1>1 DEF Lates
  <1>3. Outside(CPUs, Lates(i)) = 0
    BY RankTypes, OutsideAll
  <1>4. Entered(i)' \in SUBSET Readers
    BY DEF Entered
  <1>5. Cardinality(Entered(i)') <= Cardinality(Readers) /\ Cardinality(Entered(i)') \in Nat
    BY <1>4, SRCUAssumption, FS_Subset, FS_CardinalityType
  <1>6. \A r \in Readers : cpu[r] \in CPUs
    BY DEF SrcuTypeOK, Users
  <1>7. \A r \in AboutTo(i)' : r \in Readers
    BY DEF AboutTo
  <1>8. QED
    BY <1>2, <1>3, <1>5, <1>6, <1>7 DEF Quiet

(* Where an updater is when its flip is visible. *)
LEMMA FlippedBefore ==
  ASSUME Control, NEW u \in Updaters, NEW v \in Updaters, UpdaterStep(v), Flipped(u)'
  PROVE  \/ sync_func(v) /\ v = u /\ idx' = idx /\ InWindow(u)
         \/ Flipped(u) /\ idx'[u] = idx[u] /\ qs' = qs
  <1>0. /\ SrcuTypeOK /\ OwnerByLabel /\ RoundByLabel /\ pos \in [Users -> SrcuLabels] /\ u \in Users /\ v \in Users
        /\ round \in 1..3
    BY DEF Control, SrcuTypeOK, Users
  <1>1. qs' # qs => sync_func(v)
    BY DEF UpdaterStep, publish, synchronize_srcu, srcu_mutex_lock, early_exit, sync_func_returns,
       flip, srcu_readers_active_idx, scan_again, srcu_mutex_unlock, free
  <1>2. CASE u # v
    <2>1. pos'[u] = pos[u] /\ idx'[u] = idx[u] /\ pos[u] \in HolderLabels
      BY <1>0, <1>2, UpdaterMoves DEF Flipped, HolderLabels
    <2>2. pos[v] \notin HolderLabels
      BY <1>0, <1>2, <2>1, OneOwner
    <2>3. round' = round /\ ~sync_func(v)
      BY <2>2, UpdaterMoves DEF sync_func, MoveTo, HolderLabels
    <2>4. QED
      BY <1>1, <2>1, <2>3 DEF Flipped
  <1>3. CASE u = v
    <2>1. pos'[u] = "scan" \/ (pos'[u] = "qs" /\ round' = 2)
      BY DEF Flipped
    <2>2. sync_func(u) \/ sync_func_returns(u) \/ srcu_readers_active_idx(u) \/ scan_again(u)
      BY <1>0, <1>3, <2>1 DEF UpdaterStep, publish, synchronize_srcu, srcu_mutex_lock, early_exit, flip,
         srcu_mutex_unlock, free, MoveTo
    <2>3. CASE sync_func(u)
      BY <1>0, <1>3, <2>1, <2>3 DEF sync_func, MoveTo, local, InWindow
    <2>4. CASE sync_func_returns(u)
      <3>1. pos[u] = "qs" /\ idx' = idx /\ round' = round /\ qs' = qs
        BY <2>4 DEF sync_func_returns, MoveTo
      <3>2. round = 2
        BY <1>0, <2>1, <2>4, <3>1 DEF sync_func_returns, MoveTo
      <3>3. QED
        BY <3>1, <3>2 DEF Flipped
    <2>5. CASE srcu_readers_active_idx(u)
      BY <2>5 DEF srcu_readers_active_idx, MoveTo, Flipped
    <2>6. CASE scan_again(u)
      BY <2>6 DEF scan_again, MoveTo, Flipped
    <2>7. QED
      BY <2>2, <2>3, <2>4, <2>5, <2>6
  <1>4. QED
    BY <1>2, <1>3

(* Once the flip is visible a reader chooses the other rank. *)
LEMMA NewRank ==
  ASSUME Control, Flips, NEW u \in Updaters, Flipped(u), NEW r \in Readers, srcu_read_lock(r)
  PROVE  idx'[r] # idx[u] /\ r # u
  <1>0. SrcuTypeOK /\ OwnerByLabel /\ FlipPending /\ OldRank /\ cpu[u] \in CPUs /\ cpu[r] \in CPUs /\ r \in Users
    BY DEF Control, Flips, SrcuTypeOK, Users
  <1>1. \A v \in Updaters : ~(pos[v] = "sync" /\ round = 2)
    <2>1. ASSUME NEW v \in Updaters, pos[v] = "sync" PROVE FALSE
      <3>1. u = v
        BY <1>0, <2>1, OneOwner DEF Flipped, HolderLabels
      <3>2. QED
        BY <2>1, <3>1 DEF Flipped
    <2>2. QED
      BY <2>1
  <1>2. load_completed(cpu[u]) = completed /\ load_completed(cpu[r]) = completed
    BY <1>0, <1>1, Settled
  <1>3. idx[u] # completed % 2
    BY <1>0, <1>2 DEF OldRank, InWindow, Flipped
  <1>4. idx'[r] = completed % 2
    BY <1>0, <1>2 DEF srcu_read_lock, SrcuTypeOK
  <1>5. QED
    BY <1>3, <1>4, SRCUAssumption

(* The old rank stays quiet. *)
LEMMA NextQuiet ==
  ASSUME Control, Flips, OldRankQuiet, SrcuNext
  PROVE  OldRankQuiet'
  <1> SUFFICES ASSUME NEW u \in Updaters, Flipped(u)' PROVE Quiet(idx[u])'
    BY DEF OldRankQuiet
  <1>0. SrcuTypeOK /\ RankByLabel
    BY DEF Control
  <1>1. PICK i : i = idx'[u]
    OBVIOUS
  <1>2. SUFFICES Quiet(i)'
    BY <1>1 DEF Quiet, AboutTo, Entered, Lates, Late, Falling
  <1>3. ASSUME Flipped(u), i = idx[u] PROVE i \in {0, 1} /\ Quiet(i)
    BY <1>0, <1>3 DEF OldRankQuiet, RankByLabel, Flipped, InWindow
  <1>4. ASSUME Flipped(u), i = idx[u], qs' = qs PROVE Quiet(i)'
    <2>1. \A r \in Readers : srcu_read_lock(r) => idx'[r] # i
      BY <1>4, NewRank
    <2>2. QED
      BY <1>0, <1>3, <1>4, <2>1, RankSteps, QuietKept
  <1>5. ASSUME NEW k \in CPUs, Drain(k) PROVE Quiet(i)'
    <2>1. UNCHANGED <<pos, idx, round, qs>>
      BY <1>5 DEF Drain, local
    <2>2. QED
      BY <1>1, <1>4, <2>1 DEF Flipped
  <1>6. ASSUME NEW k \in CPUs, Switch(k) PROVE Quiet(i)'
    <2>1. UNCHANGED <<pos, idx, round>>
      BY <1>6 DEF Switch, local
    <2>2. Flipped(u) /\ i = idx[u]
      BY <1>1, <2>1 DEF Flipped
    <2>3. QED
      BY <1>0, <1>3, <1>6, <2>2, QuietSwitch
  <1>7. ASSUME NEW r \in Readers, ReaderStep(r) \/ \E k \in CPUs : Migrate(r, k) PROVE Quiet(i)'
    <2>1. u \in Users /\ u # r
      BY SRCUAssumption DEF Users
    <2>2. pos'[u] = pos[u] /\ idx'[u] = idx[u] /\ round' = round /\ qs' = qs
      BY <1>7, <2>1, ReaderFrame
    <2>3. QED
      BY <1>1, <1>4, <2>2 DEF Flipped
  <1>8. ASSUME NEW v \in Updaters, UpdaterStep(v) PROVE Quiet(i)'
    <2>1. CASE Flipped(u) /\ idx'[u] = idx[u] /\ qs' = qs
      BY <1>1, <1>4, <2>1
    <2>2. CASE sync_func(v) /\ v = u /\ idx' = idx /\ InWindow(u)
      <3>1. UNCHANGED <<cpu, buf, mem>> /\ qs' = CPUs
        BY <2>2 DEF sync_func, MoveTo
      <3>2. i \in {0, 1}
        BY <1>0, <1>1, <2>2 DEF RankByLabel
      <3>3. QED
        BY <1>0, <3>1, <3>2, QuietBegins
    <2>3. QED
      BY <1>8, <2>1, <2>2, FlippedBefore
  <1>9. QED
    BY <1>5, <1>6, <1>7, <1>8 DEF SrcuNext

(* The scan of rank i has added the counters of the first a CPUs up to s:  *)
(* with what the other CPUs see it is the number of readers and of the     *)
(* decrements, e, that came too late for it.                               *)
Tally(i, a, s) ==
  \E e \in Nat :
    /\ Rem(s + Outside(0..(a - 1), Loads(i))) = Rem(Cardinality(ReadersOf(i)) + e)
    /\ Cardinality(ReadersOf(i)) + e + Outside(0..(a - 1), Lates(i)) <= Cardinality(Readers)

ScanSum == \A u \in Updaters : pos[u] = "scan" => Tally(idx[u], at, sum)

(* The scan begins with the counters as the CPUs see them. *)
LEMMA TallyStart ==
  ASSUME SrcuTypeOK, EveryReaderCounted, NEW i \in {0, 1}, Quiet(i), qs = {}
  PROVE  Tally(i, 0, 0)
  <1> DEFINE R == Cardinality(ReadersOf(i))
             E == Cardinality(Entered(i))
  <1>1. 0..(0 - 1) = {}
    OBVIOUS
  <1>2. Outside({}, Loads(i)) = Sum(Loads(i)) /\ Sum(Loads(i)) \in Int
    <2>1. Loads(i) \in [CPUs -> Int]
      BY RankTypes
    <2>2. Outside({}, Loads(i)) = Sum(Loads(i))
      BY <2>1, OutsideAll
    <2>3. 0 \in CPUs
      BY SRCUAssumption DEF CPUs
    <2>4. QED
      BY <2>1, <2>2, <2>3, SumUpdate
  <1>3. Rem(Sum(Loads(i))) = R
    BY DEF EveryReaderCounted, Loads, Rem
  <1>4. R \in Nat /\ R \in 0..(RefWord - 1) /\ R <= E /\ E \in Nat /\ Cardinality(Readers) \in Nat
    BY ReadersOfType, EnteredType, RefWordType
  <1>5. E + Outside({}, Lates(i)) <= Cardinality(Readers) /\ Outside({}, Lates(i)) \in Nat
    <2>1. Lates(i) \in [CPUs -> Nat]
      BY RankTypes
    <2>2. QED
      BY <2>1, OutsideNat DEF Quiet
  <1>6. Rem(R) = R
    BY <1>4, RemType
  <1> HIDE DEF R, E
  <1>7. /\ Rem(0 + Outside({}, Loads(i))) = Rem(R + 0)
        /\ R + 0 + Outside({}, Lates(i)) <= Cardinality(Readers)
    <2>1. 0 + Outside({}, Loads(i)) = Sum(Loads(i)) /\ R + 0 = R
      BY <1>2, <1>4
    <2>2. R + Outside({}, Lates(i)) <= Cardinality(Readers)
      BY <1>4, <1>5
    <2>3. QED
      BY <1>3, <1>6, <2>1, <2>2
  <1>8. QED
    BY <1>1, <1>7 DEF Tally, R

(* The scan adds the counter of the next CPU, as its own or from memory. *)
LEMMA TallyNext ==
  ASSUME SrcuTypeOK, NEW i \in {0, 1}, NEW a \in CPUs, NEW s \in Int, Tally(i, a, s), Falling(a, i),
         NEW v, v = load_c(a, i) \/ v = c[a][i]
  PROVE  Tally(i, a + 1, Rem(s + v))
  <1> DEFINE R == Cardinality(ReadersOf(i))
             S == 0..(a - 1)
             f == Loads(i)
             g == Lates(i)
             x == load_c(a, i)
             y == Late(a, i)
             p == Outside(S, f)
             q == Outside(S, g)
             N == Cardinality(Readers)
  <1>1. a \notin S /\ 0..((a + 1) - 1) = S \cup {a}
    BY SRCUAssumption DEF CPUs
  <1>2. /\ f \in [CPUs -> Int] /\ g \in [CPUs -> Int] /\ f[a] = x /\ g[a] = y /\ x \in 0..(RefWord - 1)
        /\ x \in Int /\ y \in Nat
    BY RankTypes
  <1>3. /\ p \in Int /\ Outside(S \cup {a}, f) = p - x
        /\ q \in Int /\ Outside(S \cup {a}, g) = q - y
    <2> HIDE DEF f, g, x, y, S
    <2>1. p \in Int /\ Outside(S \cup {a}, f) = p - x
      <3> HIDE DEF g, q, y
      <3>1. QED
        BY <1>1, <1>2, OutsideOne
    <2>2. q \in Int /\ Outside(S \cup {a}, g) = q - y
      <3> HIDE DEF f, p, x
      <3>1. QED
        BY <1>1, <1>2, OutsideOne
    <2>3. QED
      BY <2>1, <2>2
  <1>4. PICK e \in Nat : Rem(s + p) = Rem(R + e) /\ R + e + q <= N
    BY DEF Tally
  <1>5. R \in Nat /\ N \in Nat
    BY ReadersOfType, RefWordType
  <1>6. v = x \/ v = Rem(x + y)
    <2>1. c[a][i] \in 0..(RefWord - 1) /\ buf[a] \in Seq(Writes)
      BY LoadTypes
    <2>2. Rem(Load(buf[a], "c", i, c[a][i]) + Cardinality(Pending(buf[a], "c", i))) = c[a][i]
      BY <2>1, FallingLoad DEF Falling
    <2>3. QED
      BY <2>2 DEF load_c, Late
  <1> HIDE DEF R, S, f, g, x, y, p, q, N
  <1>7. PICK d \in {0, y} : Rem(v) = Rem(x + d) /\ v \in Int
    <2>1. CASE v = x
      <3>1. x + 0 = x
        BY <1>2
      <3>2. QED
        BY <1>2, <2>1, <3>1
    <2>2. CASE v = Rem(x + y)
      <3>1. x + y \in Int
        BY <1>2
      <3>2. v \in 0..(RefWord - 1)
        BY <2>2, <3>1, RemType
      <3>3. v \in Int /\ Rem(v) = v
        BY <3>2, RefWordType, RemType
      <3>4. QED
        BY <2>2, <3>3
    <2>3. QED
      BY <1>6, <2>1, <2>2
  <1>8. d \in Nat
    BY <1>2
  <1>9. Rem(Rem(s + v) + (p - x)) = Rem(R + (e + d))
    <2>1. s + v \in Int /\ p - x \in Int /\ x + d \in Int /\ s + (p - x) \in Int /\ s + p \in Int /\ R + e \in Int
      BY <1>2, <1>3, <1>5, <1>7, <1>8
    <2>2. Rem(Rem(s + v) + (p - x)) = Rem((s + v) + (p - x))
      BY <2>1, RemAdd
    <2>3. (s + v) + (p - x) = v + (s + (p - x)) /\ (x + d) + (s + (p - x)) = (s + p) + d
      BY <1>2, <1>3, <1>7, <1>8
    <2>4. Rem(v + (s + (p - x))) = Rem((x + d) + (s + (p - x)))
      BY <1>7, <2>1, RemCong
    <2>5. Rem((s + p) + d) = Rem((R + e) + d)
      BY <1>4, <1>8, <2>1, RemCong
    <2>6. (R + e) + d = R + (e + d)
      BY <1>5, <1>8
    <2>7. QED
      BY <2>2, <2>3, <2>4, <2>5, <2>6
  <1>10. R + (e + d) + (q - y) <= N /\ e + d \in Nat
    BY <1>2, <1>3, <1>4, <1>5, <1>7
  <1>11. QED
    <2>1. /\ Rem(Rem(s + v) + Outside(0..((a + 1) - 1), Loads(i))) = Rem(Cardinality(ReadersOf(i)) + (e + d))
          /\ Cardinality(ReadersOf(i)) + (e + d) + Outside(0..((a + 1) - 1), Lates(i)) <= Cardinality(Readers)
      <3>1. Outside(0..((a + 1) - 1), Loads(i)) = p - x /\ Outside(0..((a + 1) - 1), Lates(i)) = q - y
        BY <1>1, <1>3 DEF f, g
      <3>2. QED
        BY <1>9, <1>10, <3>1 DEF R, N
    <2>2. QED
      BY <1>10, <2>1 DEF Tally

(* A scan that adds up to zero has found nobody. *)
LEMMA TallyZero ==
  ASSUME SrcuTypeOK, NEW i \in {0, 1}, Tally(i, NCpus, 0)
  PROVE  ReadersOf(i) = {}
  <1>1. 0..(NCpus - 1) = CPUs
    BY DEF CPUs
  <1>2. Outside(CPUs, Loads(i)) = 0 /\ Outside(CPUs, Lates(i)) = 0
    BY RankTypes, OutsideAll
  <1> DEFINE R == Cardinality(ReadersOf(i))
  <1>3. PICK e \in Nat : Rem(0 + 0) = Rem(R + e) /\ R + e + 0 <= Cardinality(Readers)
    BY <1>1, <1>2 DEF Tally
  <1>4. R \in Nat /\ (R = 0 => ReadersOf(i) = {})
    BY ReadersOfType
  <1> HIDE DEF R
  <1>5. R + e \in 0..(RefWord - 1) /\ 0 + 0 = 0 /\ 0 \in 0..(RefWord - 1) /\ R + e \in Int
    BY <1>3, <1>4, RefWordType
  <1>6. Rem(R + e) = R + e /\ Rem(0) = 0
    BY <1>5, RemType
  <1>7. R + e = 0
    BY <1>3, <1>5, <1>6
  <1>8. QED
    BY <1>4, <1>7

(* The tally survives what happens during the scan. *)
LEMMA TallyKept ==
  ASSUME SrcuTypeOK, NEW i \in {0, 1}, NEW a \in 0..NCpus, NEW s \in Int, Tally(i, a, s),
         QuietStep(i) \/ \E k \in CPUs : LeaveStep(i, k)
  PROVE  Tally(i, a, s)'
  <1> DEFINE S == 0..(a - 1)
             f == Loads(i)
             g == Lates(i)
             F == [k \in CPUs |-> load_c(k, i)']
             G == [k \in CPUs |-> Late(k, i)']
             R == Cardinality(ReadersOf(i))
             Q == Cardinality(ReadersOf(i)')
             N == Cardinality(Readers)
             p == Outside(S, f)
             q == Outside(S, g)
  <1>1. Loads(i)' = F /\ Lates(i)' = G
    BY DEF Loads, Lates
  <1>2. /\ f \in [CPUs -> Int] /\ g \in [CPUs -> Int]
        /\ \A k \in CPUs : /\ f[k] = load_c(k, i) /\ g[k] = Late(k, i)
                           /\ F[k] = load_c(k, i)' /\ G[k] = Late(k, i)'
                           /\ load_c(k, i) \in Int /\ Late(k, i) \in Int
    BY RankTypes
  <1>3. PICK e \in Nat : Rem(s + p) = Rem(R + e) /\ R + e + q <= N
    BY DEF Tally
  <1>4. R \in Nat /\ N \in Nat
    BY ReadersOfType, RefWordType
  <1>5. SUFFICES \E n \in Nat : Rem(s + Outside(S, F)) = Rem(Q + n) /\ Q + n + Outside(S, G) <= N
    BY <1>1 DEF Tally
  <1> HIDE DEF S, f, g, F, G, R, Q, N, p, q
  <1>6. CASE QuietStep(i)
    <2>1. PICK k \in CPUs : /\ Late(k, i)' \in Int /\ Late(k, i)' <= Late(k, i)
                            /\ \A x \in CPUs : x # k => Late(x, i)' = Late(x, i)
      BY <1>6 DEF QuietStep
    <2>2. F = f
      BY <1>2, <1>6 DEF QuietStep, F
    <2>3. Q = R
      BY <1>6 DEF QuietStep, Q, R
    <2>4. G \in [CPUs -> Int] /\ \A x \in CPUs \ {k} : G[x] = g[x]
      BY <1>2, <2>1 DEF G
    <2>5. q \in Int /\ Outside(S, G) = IF k \in S THEN q ELSE q + (G[k] - g[k])
      BY <1>2, <2>4, OutsideUpdate DEF q
    <2>6. G[k] <= g[k] /\ G[k] \in Int /\ g[k] \in Int
      BY <1>2, <2>1
    <2>7. Q + e + Outside(S, G) <= N
      BY <1>3, <1>4, <2>3, <2>5, <2>6
    <2>8. QED
      BY <1>3, <2>2, <2>3, <2>7 DEF p
  <1>7. ASSUME NEW k \in CPUs, LeaveStep(i, k)
        PROVE  \E n \in Nat : Rem(s + Outside(S, F)) = Rem(Q + n) /\ Q + n + Outside(S, G) <= N
    <2>1. /\ Q = R - 1 /\ F[k] = Rem(f[k] - 1) /\ G[k] = g[k] + 1
          /\ \A x \in CPUs \ {k} : F[x] = f[x] /\ G[x] = g[x]
      BY <1>2, <1>7 DEF LeaveStep, Q, R
    <2>2. f[k] \in Int /\ f[k] - 1 \in Int /\ g[k] \in Int
      BY <1>2
    <2>3. F[k] \in Int
      BY <2>1, <2>2, RemType, RefWordType
    <2>4. F \in [CPUs -> Int] /\ G \in [CPUs -> Int]
      BY <1>2, <2>1, <2>2, <2>3 DEF F, G
    <2>5. /\ p \in Int /\ Outside(S, F) = IF k \in S THEN p ELSE p + (F[k] - f[k])
          /\ q \in Int /\ Outside(S, G) = IF k \in S THEN q ELSE q + (G[k] - g[k])
      BY <1>2, <2>1, <2>4, OutsideUpdate DEF p, q
    <2>6. CASE k \in S
      <3>1. Q + (e + 1) = R + e /\ e + 1 \in Nat
        BY <1>3, <1>4, <2>1
      <3>2. Outside(S, F) = p /\ Outside(S, G) = q
        BY <2>5, <2>6
      <3>3. QED
        BY <1>3, <3>1, <3>2
    <2>7. CASE k \notin S
      <3> DEFINE x == f[k]
                 y == F[k]
      <3>1. Outside(S, F) = p + (y - x) /\ Outside(S, G) = q + 1
        BY <2>1, <2>2, <2>5, <2>7
      <3>2. y = Rem(x - 1) /\ x \in Int /\ y \in Int
        BY <2>1, <2>2, <2>3
      <3> HIDE DEF x, y
      <3>3. Rem(s + (p + (y - x))) = Rem(Q + e)
        <4>1. /\ s + (p + (y - x)) = y + (s + (p - x)) /\ (x - 1) + (s + (p - x)) = (s + p) + (-1)
              /\ x - 1 \in Int /\ s + (p - x) \in Int /\ s + p \in Int /\ R + e \in Int /\ -1 \in Int
              /\ (R + e) + (-1) = Q + e
          BY <1>3, <1>4, <2>1, <2>5, <3>2
        <4>2. Rem(Rem(x - 1) + (s + (p - x))) = Rem((x - 1) + (s + (p - x)))
          BY <4>1, RemAdd
        <4>3. Rem((s + p) + (-1)) = Rem((R + e) + (-1))
          BY <1>3, <4>1, RemCong
        <4>4. QED
          BY <3>2, <4>1, <4>2, <4>3
      <3>4. Q + e + (q + 1) <= N
        BY <1>3, <1>4, <2>1, <2>5
      <3>5. QED
        BY <1>3, <3>1, <3>3, <3>4
    <2>8. QED
      BY <2>6, <2>7
  <1>8. QED
    BY <1>6, <1>7

(* Nobody waits for a context switch while the owner scans. *)
LEMMA ScanIdle ==
  ASSUME Control, NEW u \in Updaters, pos[u] = "scan"
  PROVE  qs = {} /\ idx[u] \in {0, 1} /\ Flipped(u) /\ InWindow(u)
  <1>1. OwnerByLabel /\ QsOwner /\ RankByLabel
    BY DEF Control
  <1>2. ASSUME NEW v \in Updaters, pos[v] = "qs" PROVE FALSE
    <2>1. u = v
      BY <1>1, <1>2, OneOwner DEF HolderLabels
    <2>2. QED
      BY <1>2, <2>1
  <1>3. QED
    BY <1>1, <1>2 DEF QsOwner, RankByLabel, InWindow, Flipped

(* The sum that the owner holds is right all along its scan. *)
LEMMA NextScan ==
  ASSUME Control, Flips, OldRankQuiet, EveryReaderCounted, ScanSum, SrcuNext
  PROVE  ScanSum'
  <1> SUFFICES ASSUME NEW u \in Updaters, pos'[u] = "scan" PROVE Tally(idx[u], at, sum)'
    BY DEF ScanSum
  <1>0. /\ SrcuTypeOK /\ RankByLabel /\ OwnerByLabel /\ RoundByLabel /\ pos \in [Users -> SrcuLabels] /\ u \in Users
        /\ at \in 0..NCpus /\ sum \in Int /\ round \in 1..3 /\ cpu[u] \in CPUs
    <2>1. SrcuTypeOK /\ RankByLabel /\ OwnerByLabel /\ RoundByLabel /\ u \in Users
      BY DEF Control, Users
    <2>2. sum \in Int
      BY <2>1, RefWordType DEF SrcuTypeOK
    <2>3. QED
      BY <2>1, <2>2 DEF SrcuTypeOK
  <1>1. PICK i, a, s : i = idx'[u] /\ a = at' /\ s = sum'
    OBVIOUS
  <1>2. SUFFICES Tally(i, a, s)'
    BY <1>1 DEF Tally, ReadersOf, Loads, Lates, load_c, Late
  <1>3. ASSUME Flipped(u), i = idx[u], qs = {}, i \in {0, 1}, a \in 0..NCpus, s \in Int, Tally(i, a, s)
        PROVE  Tally(i, a, s)'
    <2>1. \A r \in Readers : srcu_read_lock(r) => idx'[r] # i
      BY <1>3, NewRank
    <2>2. QuietStep(i) \/ \E k \in CPUs : EnterStep(i, k) \/ LeaveStep(i, k)
      BY <1>3, <2>1, RankSteps
    <2>3. \A k \in CPUs : ~EnterStep(i, k)
      BY <1>3 DEF EnterStep, OldRankQuiet, Quiet
    <2>4. QED
      BY <1>0, <1>3, <2>2, <2>3, TallyKept
  <1>4. ASSUME pos[u] = "scan", idx'[u] = idx[u], at' = at, sum' = sum PROVE Tally(i, a, s)'
    BY <1>0, <1>1, <1>3, <1>4, ScanIdle DEF ScanSum
  <1>5. ASSUME NEW k \in CPUs, Drain(k) \/ Switch(k) PROVE Tally(i, a, s)'
    <2>1. UNCHANGED <<pos, idx, at, sum>>
      BY <1>5 DEF Drain, Switch, local
    <2>2. QED
      BY <1>4, <2>1
  <1>6. ASSUME NEW r \in Readers, ReaderStep(r) \/ \E k \in CPUs : Migrate(r, k) PROVE Tally(i, a, s)'
    <2>1. u \in Users /\ u # r
      BY SRCUAssumption DEF Users
    <2>2. pos'[u] = pos[u] /\ idx'[u] = idx[u] /\ at' = at /\ sum' = sum
      BY <1>6, <2>1, ReaderFrame
    <2>3. QED
      BY <1>4, <2>2
  <1>7. ASSUME NEW v \in Updaters, UpdaterStep(v), v # u PROVE Tally(i, a, s)'
    <2>1. pos'[u] = pos[u] /\ idx'[u] = idx[u] /\ pos[u] = "scan"
      BY <1>0, <1>7, UpdaterMoves
    <2>2. pos[v] \notin HolderLabels
      BY <1>0, <1>7, <2>1, OneOwner DEF HolderLabels
    <2>3. at' = at /\ sum' = sum
      BY <1>7, <2>2 DEF UpdaterStep, publish, synchronize_srcu, srcu_mutex_lock, early_exit, sync_func,
         sync_func_returns, flip, srcu_readers_active_idx, scan_again, srcu_mutex_unlock, free, MoveTo, local,
         HolderLabels
    <2>4. QED
      BY <1>4, <2>1, <2>3
  <1>8. ASSUME UpdaterStep(u) PROVE Tally(i, a, s)'
    <2>1. sync_func_returns(u) \/ srcu_readers_active_idx(u) \/ scan_again(u)
      BY <1>0, <1>8 DEF UpdaterStep, publish, synchronize_srcu, srcu_mutex_lock, early_exit, sync_func, flip,
         srcu_mutex_unlock, free, MoveTo
    <2>2. ASSUME Flipped(u), qs = {}, idx'[u] = idx[u], a = 0, s = 0 PROVE Tally(i, a, s)'
      <3>1. i \in {0, 1} /\ Quiet(i)
        BY <1>0, <1>1, <2>2 DEF RankByLabel, InWindow, Flipped, OldRankQuiet
      <3>2. Tally(i, 0, 0)
        BY <1>0, <2>2, <3>1, TallyStart
      <3>3. 0 \in 0..NCpus /\ 0 \in Int
        BY SRCUAssumption
      <3>4. QED
        BY <1>1, <1>3, <2>2, <3>1, <3>2, <3>3
    <2>3. CASE sync_func_returns(u)
      <3>1. pos[u] = "qs" /\ idx' = idx /\ qs = {} /\ at' = 0 /\ sum' = 0
        BY <2>3 DEF sync_func_returns, MoveTo
      <3>2. round = 2
        BY <1>0, <2>3, <3>1 DEF sync_func_returns, MoveTo
      <3>3. QED
        BY <1>1, <2>2, <3>1, <3>2 DEF Flipped
    <2>4. CASE scan_again(u)
      <3>1. pos[u] = "scan" /\ idx' = idx /\ at' = 0 /\ sum' = 0
        BY <2>4 DEF scan_again, MoveTo
      <3>2. QED
        BY <1>1, <2>2, <3>1, ScanIdle
    <2>5. CASE srcu_readers_active_idx(u)
      <3> DEFINE v == IF at = cpu[u] THEN load_c(at, idx[u]) ELSE c[at][idx[u]]
      <3>1. /\ pos[u] = "scan" /\ idx' = idx /\ at < NCpus /\ at' = at + 1 /\ sum' = (sum + v) % RefWord
        BY <2>5 DEF srcu_readers_active_idx, MoveTo
      <3>2. i = idx[u] /\ i \in {0, 1} /\ qs = {} /\ Flipped(u) /\ at \in CPUs /\ a \in 0..NCpus
        BY <1>0, <1>1, <3>1, ScanIdle, SRCUAssumption DEF CPUs
      <3>3. v = load_c(at, i) \/ v = c[at][i]
        BY <3>2
      <3>4. v \in Int
        <4>1. load_c(at, i) \in 0..(RefWord - 1) /\ c[at][i] \in 0..(RefWord - 1)
          BY <1>0, <3>2, LoadTypes
        <4>2. QED
          BY <3>3, <4>1, RefWordType
      <3> HIDE DEF v
      <3>5. s = Rem(sum + v) /\ s \in Int
        <4>1. sum + v \in Int /\ s = Rem(sum + v)
          BY <1>0, <1>1, <3>1, <3>4 DEF Rem
        <4>2. QED
          BY <4>1, RemType, RefWordType
      <3>6. Tally(i, at, sum) /\ Falling(at, i)
        BY <3>1, <3>2 DEF ScanSum, OldRankQuiet, Quiet
      <3>7. Tally(i, at + 1, Rem(sum + v))
        BY <1>0, <3>2, <3>3, <3>6, TallyNext
      <3>8. QED
        BY <1>1, <1>3, <3>1, <3>2, <3>5, <3>7
    <2>6. QED
      BY <2>1, <2>3, <2>4, <2>5
  <1>9. QED
    BY <1>5, <1>6, <1>7, <1>8 DEF SrcuNext

(* When the owner leaves the loop, nobody uses the old rank. *)
LEMMA OldRankEmpty ==
  ASSUME Control, OldRankQuiet, ScanSum, NEW u \in Updaters, pos[u] = "scan", at = NCpus, sum = 0
  PROVE  Entered(idx[u]) = {}
  <1>1. qs = {} /\ idx[u] \in {0, 1} /\ Flipped(u) /\ SrcuTypeOK
    BY ScanIdle DEF Control
  <1>2. ReadersOf(idx[u]) = {}
    BY <1>1, TallyZero DEF ScanSum
  <1>3. AboutTo(idx[u]) = {}
    BY <1>1 DEF OldRankQuiet, Quiet
  <1>4. QED
    BY <1>2, <1>3 DEF Entered, ReadersOf, AboutTo

(* The counters in memory, while the owner scans. *)
LEMMA QuietSum ==
  ASSUME Control, OldRankQuiet, EveryReaderCounted
  PROVE  OldRankOnlyDrains
  <1> SUFFICES ASSUME NEW u \in Updaters, pos[u] = "scan"
               PROVE  /\ \A r \in Readers : pos[r] = "locking" => idx[r] # idx[u]
                      /\ Sum([k \in CPUs |-> c[k][idx[u]]]) % RefWord =
                           Cardinality(ReadersOf(idx[u])) + Sum([k \in CPUs |-> Late(k, idx[u])])
    BY DEF OldRankOnlyDrains
  <1>0. SrcuTypeOK
    BY DEF Control
  <1>1. PICK i : i = idx[u]
    OBVIOUS
  <1>2. qs = {} /\ i \in {0, 1} /\ Quiet(i)
    BY <1>1, ScanIdle DEF OldRankQuiet
  <1>3. \A r \in Readers : pos[r] = "locking" => idx[r] # i
    BY <1>2 DEF Quiet, AboutTo
  <1> DEFINE f == Loads(i)
             g == Lates(i)
             h == [k \in CPUs |-> c[k][i]]
             R == Cardinality(ReadersOf(i))
             N == Cardinality(Readers)
  <1>4. /\ f \in [CPUs -> Int] /\ g \in [CPUs -> Int] /\ g \in [CPUs -> Nat]
        /\ \A k \in CPUs : f[k] = load_c(k, i) /\ g[k] = Late(k, i) /\ h[k] = c[k][i]
    BY <1>0, <1>2, RankTypes
  <1>5. h \in [CPUs -> Int] /\ \A k \in CPUs : Rem(h[k]) = Rem(f[k] + g[k])
    <2>1. ASSUME NEW k \in CPUs PROVE c[k][i] \in Int /\ Rem(c[k][i]) = Rem(load_c(k, i) + Late(k, i))
      <3>1. c[k][i] \in 0..(RefWord - 1) /\ buf[k] \in Seq(Writes)
        BY <1>0, <1>2, LoadTypes
      <3>2. Falling(k, i)
        BY <1>2 DEF Quiet
      <3>3. Rem(Load(buf[k], "c", i, c[k][i]) + Cardinality(Pending(buf[k], "c", i))) = c[k][i]
        BY <3>1, <3>2, FallingLoad DEF Falling
      <3>4. c[k][i] \in Int
        BY <3>1, RefWordType
      <3>5. Rem(c[k][i]) = c[k][i]
        BY <3>1, <3>4, RemType
      <3>6. QED
        BY <3>3, <3>4, <3>5 DEF load_c, Late
    <2>2. QED
      BY <1>4, <2>1
  <1>6. Rem(Sum(f)) = R /\ R \in Nat /\ R <= Cardinality(Entered(i)) /\ Cardinality(Entered(i)) \in Nat
        /\ N \in 0..(RefWord - 1)
    BY <1>2, ReadersOfType, EnteredType, RefWordType DEF EveryReaderCounted, Loads, Rem
  <1>7. Cardinality(Entered(i)) + Sum(g) <= N
    BY <1>2, <1>4, OutsideAll DEF Quiet
  <1> HIDE DEF f, g, h, R, N
  <1>8. Sum(g) \in Nat /\ Sum(f) \in Int
    <2>1. 0 \in CPUs
      BY SRCUAssumption DEF CPUs
    <2>2. QED
      BY <1>4, <2>1, SumNat, SumUpdate
  <1>9. Rem(Sum(h)) = Rem(Sum(f) + Sum(g))
    BY <1>4, <1>5, SumCong
  <1>10. Rem(Sum(f) + Sum(g)) = Rem(R + Sum(g))
    BY <1>6, <1>8, RemAdd
  <1>11. R + Sum(g) \in 0..(RefWord - 1) /\ R + Sum(g) \in Int
    BY <1>6, <1>7, <1>8, RefWordType
  <1>12. Rem(Sum(h)) = R + Sum(g)
    BY <1>9, <1>10, <1>11, RemType
  <1>13. Sum([k \in CPUs |-> c[k][i]]) % RefWord = Cardinality(ReadersOf(i)) + Sum([k \in CPUs |-> Late(k, i)])
    BY <1>12 DEF h, R, g, Rem, Lates
  <1>14. QED
    BY <1>1, <1>3, <1>13

(* Outside a window every reader is in the rank that "completed" selects. *)
OneRank ==
  (\A u \in Updaters : ~InWindow(u)) =>
    \A r \in Readers : pos[r] \in {"locking", "in"} => idx[r] = completed % 2

(* Ranks are one of two. *)
LEMMA TwoRanks ==
  ASSUME SrcuTypeOK
  PROVE  completed % 2 \in {0, 1} /\ completed \in 0..(Word - 1)
  BY OtherRank DEF SrcuTypeOK

(* While no flip is under way everybody sees the same "completed". *)
LEMMA NoWindow ==
  ASSUME Control, FlipPending, \A u \in Updaters : ~InWindow(u)
  PROVE  \A k \in CPUs : load_completed(k) = completed
  BY Settled DEF InWindow

(* The scan makes all readers use one rank again. *)
LEMMA NextOneRank ==
  ASSUME Control, Flips, OldRankQuiet, ScanSum, OneRank, SrcuNext
  PROVE  OneRank'
  <1> SUFFICES ASSUME \A u \in Updaters : ~InWindow(u)', NEW r \in Readers, pos'[r] \in {"locking", "in"}
               PROVE  idx'[r] = completed' % 2
    BY DEF OneRank
  <1>0. /\ SrcuTypeOK /\ ByRole /\ OwnerByLabel /\ RankByLabel /\ FlipPending /\ OldRank
        /\ pos \in [Users -> SrcuLabels] /\ idx \in [Users -> 0..(Word - 1)]
        /\ r \in Users /\ cpu[r] \in CPUs /\ r \notin Updaters
        /\ \A u \in Updaters : u \in Users /\ cpu[u] \in CPUs
    BY SRCUAssumption DEF Control, Flips, SrcuTypeOK, Users
  <1>1. ASSUME NEW k \in CPUs, Drain(k) \/ Switch(k) PROVE idx'[r] = completed' % 2
    <2>1. UNCHANGED <<pos, idx, round>>
      BY <1>1 DEF Drain, Switch, local
    <2>2. \A u \in Updaters : ~InWindow(u)
      BY <2>1 DEF InWindow
    <2>3. completed' = completed
      <3>1. CASE Switch(k)
        BY <3>1 DEF Switch, mem
      <3>2. CASE Drain(k)
        <4>1. Head(buf[k]).to # "completed"
          BY <1>0, <2>2, <3>2, DrainFlip DEF InWindow
        <4>2. QED
          BY <1>0, <3>2, <4>1, DrainEffect
      <3>3. QED
        BY <1>1, <3>1, <3>2
    <2>4. QED
      BY <2>1, <2>2, <2>3 DEF OneRank
  <1>2. ASSUME NEW x \in Readers, ReaderStep(x) \/ \E k \in CPUs : Migrate(x, k) PROVE idx'[r] = completed' % 2
    <2>1. /\ completed' = completed /\ round' = round
          /\ \A t \in Users : t # x => pos'[t] = pos[t] /\ idx'[t] = idx[t]
      BY <1>2, ReaderFrame
    <2>2. \A u \in Updaters : u # x
      BY SRCUAssumption
    <2>3. \A u \in Updaters : ~InWindow(u)
      BY <1>0, <2>1, <2>2 DEF InWindow
    <2>4. CASE x # r
      BY <1>0, <2>1, <2>3, <2>4 DEF OneRank
    <2>5. CASE x = r
      <3>1. CASE srcu_read_lock(r)
        <4>1. idx'[r] = load_completed(cpu[r]) % 2
          BY <1>0, <3>1 DEF srcu_read_lock
        <4>2. QED
          BY <1>0, <2>1, <2>3, <4>1, NoWindow
      <3>2. CASE ~srcu_read_lock(r)
        <4>1. pos[r] \in {"locking", "in"} /\ idx'[r] = idx[r]
          BY <1>0, <1>2, <2>5, <3>2 DEF ReaderStep, srcu_read_lock_inc, srcu_dereference, srcu_read_unlock,
             Migrate, MoveTo, local
        <4>2. QED
          BY <2>1, <2>3, <4>1 DEF OneRank
      <3>3. QED
        BY <3>1, <3>2
    <2>6. QED
      BY <2>4, <2>5
  <1>3. ASSUME NEW u \in Updaters, UpdaterStep(u) PROVE idx'[r] = completed' % 2
    <2>1. completed' = completed /\ pos'[r] = pos[r] /\ idx'[r] = idx[r]
      BY <1>0, <1>3, UpdaterFrame
    <2>2. CASE \A v \in Updaters : ~InWindow(v)
      BY <2>1, <2>2 DEF OneRank
    <2>3. ASSUME NEW v \in Updaters, InWindow(v) PROVE idx'[r] = completed' % 2
      <3>1. pos[v] = "scan" /\ at = NCpus /\ sum = 0
        BY <1>3, <2>3, WindowStep
      <3>2. Entered(idx[v]) = {}
        BY <3>1, OldRankEmpty
      <3>3. idx[r] # idx[v] /\ idx[r] \in {0, 1} /\ idx[v] \in {0, 1}
        BY <1>0, <2>1, <2>3, <3>2 DEF Entered, ByRole, RankByLabel
      <3>4. \A w \in Updaters : pos[w] # "sync"
        BY <1>0, <3>1, OneOwner DEF HolderLabels
      <3>5. load_completed(cpu[v]) = completed
        BY <1>0, <3>4, Settled
      <3>6. idx[v] # completed % 2
        BY <1>0, <2>3, <3>5 DEF OldRank
      <3>7. completed % 2 \in {0, 1}
        BY <1>0, TwoRanks
      <3>8. QED
        BY <2>1, <3>3, <3>6, <3>7
    <2>4. QED
      BY <2>2, <2>3
  <1>4. QED
    BY <1>1, <1>2, <1>3 DEF SrcuNext

-----------------------------------------------------------------------------
(* The new pointer of w is in memory.  A reader has the object that it     *)
(* replaced.                                                               *)
Drained(w) == Pending(buf[cpu[w]], "ptr", w) = {}
HasOld(r, w) == ref[r] = <<w, 1 - ptr[w]>>

(* Nobody has it; only readers of a rank that the owner waits for have it. *)
Gone(w) == Drained(w) /\ \A r \in Readers : ~HasOld(r, w)
Leaving(w) ==
  /\ Drained(w)
  /\ \A r \in Readers : HasOld(r, w) => \E u \in Updaters : InWindow(u) /\ idx[r] = idx[u]

(* Once the pointer is in memory, it stays, and nobody gets the old object. *)
LEMMA OldStays ==
  ASSUME Control, Flips, NEW w \in Updaters, Drained(w), SrcuNext, ~publish(w)
  PROVE  /\ Drained(w)'
         /\ \A r \in Readers : HasOld(r, w)' => /\ HasOld(r, w) /\ pos[r] = "in" /\ idx'[r] = idx[r]
                                                /\ r \in Users /\ pos'[r] = pos[r]
  <1>0. /\ SrcuTypeOK /\ ByRole /\ PtrPending /\ w \in Users /\ cpu[w] \in CPUs
        /\ ref \in [Readers -> (Updaters \X {0, 1}) \cup {NoRef}] /\ ptr[w] \in {0, 1}
        /\ pos \in [Users -> SrcuLabels]
        /\ \A r \in Readers : r \in Users /\ r # w /\ cpu[r] \in CPUs
    BY SRCUAssumption DEF Control, Flips, SrcuTypeOK, Users
  <1>1. \A k \in CPUs : Pending(buf[k], "ptr", w) = {} /\ load_ptr(k, w) = ptr[w]
    <2>1. \A k \in CPUs : Pending(buf[k], "ptr", w) = {}
      BY <1>0 DEF PtrPending, Drained
    <2>2. QED
      BY <2>1, LoadMemory DEF load_ptr
  <1>2. \A r \in Readers : HasOld(r, w) => pos[r] = "in"
    BY <1>0, SRCUAssumption DEF HasOld, ByRole, NoRef
  <1>3. ASSUME NEW k \in CPUs, Drain(k)
        PROVE  Drained(w)' /\ UNCHANGED <<pos, idx, ref>> /\ ptr'[w] = ptr[w]
    <2>1. UNCHANGED <<pos, idx, ref, cpu>>
      BY <1>3 DEF Drain, local
    <2> DEFINE h == Head(buf[k])
    <2>2. /\ ptr' = IF h.to = "ptr" THEN [ptr EXCEPT ![h.i] = h.v] ELSE ptr
          /\ 1 \in Pending(buf[k], h.to, h.i)
          /\ \A x \in CPUs : x # k => buf'[x] = buf[x]
          /\ \A j \in Pending(buf[k], "ptr", w)' : j + 1 \in Pending(buf[k], "ptr", w)
      BY <1>0, <1>3, DrainEffect
    <2> HIDE DEF h
    <2>3. ~(h.to = "ptr" /\ h.i = w)
      BY <1>1, <2>2
    <2>4. ptr'[w] = ptr[w]
      BY <1>0, <2>2, <2>3 DEF SrcuTypeOK
    <2>5. Pending(buf[k], "ptr", w)' = {}
      BY <1>1, <2>2
    <2>6. \A x \in CPUs : Pending(buf[x], "ptr", w)' = {}
      BY <1>1, <2>2, <2>5
    <2>7. QED
      BY <1>0, <2>1, <2>4, <2>6 DEF Drained
  <1>4. ASSUME NEW k \in CPUs, Switch(k)
        PROVE  Drained(w)' /\ UNCHANGED <<pos, idx, ref>> /\ ptr'[w] = ptr[w]
    BY <1>4 DEF Switch, mem, local, Drained
  <1>5. ASSUME NEW u \in Updaters, UpdaterStep(u)
        PROVE  /\ Drained(w)' /\ ref' = ref /\ ptr' = ptr
               /\ \A r \in Readers : r # u => pos'[r] = pos[r] /\ idx'[r] = idx[r]
    <2>1. cpu' = cpu /\ ref' = ref /\ ptr' = ptr
      BY <1>5, UpdaterFrame
    <2>2. \A r \in Readers : r # u => pos'[r] = pos[r] /\ idx'[r] = idx[r]
      BY <1>0, <1>5, UpdaterFrame
    <2>3. Pending(buf[cpu[w]], "ptr", w)' = Pending(buf'[cpu[w]], "ptr", w)
      BY <2>1
    <2>4. \A k \in CPUs : Pending(buf[k], "ptr", w)' = Pending(buf[k], "ptr", w)
      <3>1. CASE flip(u)
        BY <1>5, <3>1, FlipEffect
      <3>2. CASE ~flip(u)
        BY <1>5, <3>2, UpdaterPending
      <3>3. QED
        BY <3>1, <3>2
    <2>5. QED
      BY <1>0, <1>1, <2>1, <2>2, <2>3, <2>4 DEF Drained
  <1>6. ASSUME NEW x \in Readers, ReaderStep(x) \/ \E k \in CPUs : Migrate(x, k)
        PROVE  /\ Drained(w)' /\ ptr'[w] = ptr[w]
               /\ \A r \in Readers : ref'[r] = <<w, 1 - ptr[w]>> =>
                    ref[r] = ref'[r] /\ idx'[r] = idx[r] /\ pos'[r] = pos[r]
    <2>1. /\ ptr' = ptr /\ cpu'[w] = cpu[w]
          /\ \A k \in CPUs : Pending(buf[k], "ptr", w)' = Pending(buf[k], "ptr", w)
          /\ \A r \in Readers : r # x => ref'[r] = ref[r] /\ idx'[r] = idx[r] /\ pos'[r] = pos[r]
      BY <1>0, <1>6, ReaderFrame
    <2>2. Drained(w)'
      BY <1>0, <1>1, <2>1 DEF Drained
    <2>3. ASSUME ref'[x] = <<w, 1 - ptr[w]>> PROVE ref[x] = ref'[x] /\ idx'[x] = idx[x] /\ pos'[x] = pos[x]
      <3>1. w # Nobody /\ 1 - ptr[w] # ptr[w]
        BY <1>0, SRCUAssumption
      <3>2. ref'[x] # NoRef
        BY <2>3, <3>1 DEF NoRef
      <3>3. ASSUME NEW u \in Updaters PROVE ~srcu_dereference(x, u)
        <4>1. SUFFICES ASSUME srcu_dereference(x, u) PROVE FALSE
          OBVIOUS
        <4>2. ref'[x] = <<u, load_ptr(cpu[x], u)>>
          BY <1>0, <4>1 DEF srcu_dereference
        <4>3. u = w /\ load_ptr(cpu[x], w) = 1 - ptr[w]
          BY <2>3, <4>2
        <4>4. QED
          BY <1>0, <1>1, <3>1, <4>3
      <3>4. ~srcu_read_unlock(x)
        BY <1>0, <3>2 DEF srcu_read_unlock
      <3>5. ~srcu_read_lock(x) /\ ~srcu_read_lock_inc(x)
        <4>1. srcu_read_lock(x) \/ srcu_read_lock_inc(x) => ref' = ref /\ pos[x] # "in"
          BY DEF srcu_read_lock, srcu_read_lock_inc, MoveTo, local
        <4>2. QED
          BY <1>0, <3>2, <4>1 DEF ByRole
      <3>6. \E k \in CPUs : Migrate(x, k)
        BY <1>6, <3>3, <3>4, <3>5 DEF ReaderStep
      <3>7. QED
        BY <3>6 DEF Migrate, local
    <2>4. QED
      BY <2>1, <2>2, <2>3
  <1>7. QED
    <2>1. Drained(w)' /\ ptr'[w] = ptr[w]
      BY <1>3, <1>4, <1>5, <1>6 DEF SrcuNext
    <2>2. ASSUME NEW r \in Readers, ref'[r] = <<w, 1 - ptr[w]>>
          PROVE  ref[r] = ref'[r] /\ idx'[r] = idx[r] /\ pos'[r] = pos[r]
      <3>1. \A u \in Updaters : r # u
        BY SRCUAssumption
      <3>2. QED
        BY <1>3, <1>4, <1>5, <1>6, <2>2, <3>1 DEF SrcuNext
    <2>3. QED
      BY <1>0, <1>2, <2>1, <2>2 DEF HasOld

(* So nobody gets what nobody has. *)
LEMMA GoneKept ==
  ASSUME Control, Flips, NEW w \in Updaters, Gone(w), SrcuNext, ~publish(w)
  PROVE  Gone(w)'
  BY OldStays DEF Gone

(* And those that have it leave with the rank they are in. *)
LEMMA LeavingKept ==
  ASSUME Control, Flips, OldRankQuiet, ScanSum, NEW w \in Updaters, Leaving(w), SrcuNext, ~publish(w)
  PROVE  Leaving(w)'
  <1>0. Drained(w) /\ \A r \in Readers : HasOld(r, w) => \E u \in Updaters : InWindow(u) /\ idx[r] = idx[u]
    BY DEF Leaving
  <1>1. /\ Drained(w)'
        /\ \A r \in Readers : HasOld(r, w)' => HasOld(r, w) /\ pos[r] = "in" /\ idx'[r] = idx[r]
    BY <1>0, OldStays
  <1>2. ASSUME NEW r \in Readers, pos[r] = "in", NEW u \in Updaters, InWindow(u), idx[r] = idx[u]
        PROVE  InWindow(u)' /\ idx'[u] = idx[u]
    <2>1. ASSUME NEW k \in CPUs, Drain(k) \/ Switch(k) PROVE UNCHANGED <<pos, round, idx>>
      BY <2>1 DEF Drain, Switch, local
    <2>2. ASSUME NEW x \in Readers, ReaderStep(x) \/ \E k \in CPUs : Migrate(x, k)
          PROVE  pos'[u] = pos[u] /\ round' = round /\ idx'[u] = idx[u]
      <3>1. u \in Users /\ u # x
        BY SRCUAssumption DEF Users
      <3>2. QED
        BY <2>2, <3>1, ReaderFrame
    <2>3. ASSUME NEW v \in Updaters, UpdaterStep(v) PROVE InWindow(u)' /\ idx'[u] = idx[u]
      <3>1. CASE v = u /\ scan_again(u) /\ pos[u] = "scan" /\ at = NCpus /\ sum = 0
        <4>1. Entered(idx[u]) = {}
          BY <3>1, OldRankEmpty
        <4>2. QED
          BY <1>2, <4>1 DEF Entered
      <3>2. QED
        BY <1>2, <2>3, <3>1, WindowStep
    <2>4. QED
      BY <1>2, <2>1, <2>2, <2>3 DEF SrcuNext, InWindow
  <1>3. ASSUME NEW r \in Readers, HasOld(r, w)' PROVE \E u \in Updaters : InWindow(u)' /\ idx'[r] = idx'[u]
    BY <1>0, <1>1, <1>2, <1>3
  <1>4. QED
    BY <1>1, <1>3 DEF Leaving

(* When there is no window, the readers have left. *)
LEMMA LeavingGone ==
  ASSUME NEW w \in Updaters, Leaving(w), \A u \in Updaters : ~InWindow(u)
  PROVE  Gone(w)
  BY DEF Leaving, Gone

(* A flip makes every reader that is in a critical section leave. *)
LEMMA FlipLeaving ==
  ASSUME Control, Flips, OneRank, NEW u \in Updaters, flip(u), NEW w \in Updaters, Drained(w), SrcuNext
  PROVE  Leaving(w)'
  <1>0. SrcuTypeOK /\ OwnerByLabel /\ RoundByLabel /\ idx \in [Users -> 0..(Word - 1)] /\ pos \in [Users -> SrcuLabels]
        /\ u \in Users /\ pos[u] = "flip"
    BY DEF Control, SrcuTypeOK, Users, flip, MoveTo
  <1>1. \A v \in Updaters : ~InWindow(v)
    <2>1. ASSUME NEW v \in Updaters, InWindow(v) PROVE FALSE
      <3>1. v = u
        BY <1>0, <2>1, OneOwner DEF InWindow, HolderLabels
      <3>2. QED
        BY <1>0, <2>1, <3>1 DEF InWindow
    <2>2. QED
      BY <2>1
  <1>2. pos'[u] = "sync" /\ round' = 2 /\ idx'[u] = completed % 2
    <2>1. pos' = [pos EXCEPT ![u] = "sync"] /\ round' = 2 /\ idx' = [idx EXCEPT ![u] = completed % 2]
      BY FlipEffect
    <2>2. QED
      BY <1>0, <2>1
  <1>3. InWindow(u)'
    BY <1>2 DEF InWindow
  <1>4. ~publish(w)
    <2>1. w # u => pos'[w] = pos[w]
      BY <1>0, UpdaterMoves DEF UpdaterStep, Users
    <2>2. publish(w) => pos[w] = "idle" /\ pos'[w] = "call"
      BY <1>0 DEF publish, MoveTo, Users
    <2>3. QED
      BY <1>0, <2>1, <2>2
  <1>5. /\ Drained(w)'
        /\ \A r \in Readers : HasOld(r, w)' => pos[r] = "in" /\ idx'[r] = idx[r]
    BY <1>4, OldStays
  <1>6. \A r \in Readers : HasOld(r, w)' => InWindow(u)' /\ idx'[r] = idx'[u]
    BY <1>1, <1>2, <1>3, <1>5 DEF OneRank
  <1>7. QED
    BY <1>5, <1>6 DEF Leaving

(* One flip has followed the look that w took at "completed" before it had *)
(* the mutex.  The next flip comes after a context switch of w's CPU.      *)
FirstFlip(w) ==
  /\ Latest = (idx[w] + 1) % Word
  /\ \A u \in Updaters :
       pos[u] = "flip" \/ (pos[u] = "qs" /\ round = 1 /\ cpu[w] \notin qs) => Drained(w)

(* What w knows of "completed" until it has compared it again. *)
Snapshot ==
  \A w \in Updaters : pos[w] \in {"lock", "test"} => Latest = idx[w] \/ FirstFlip(w) \/ Leaving(w)

(* How far the grace period of each updater has come. *)
Grace ==
  \A u \in Updaters :
    \/ pos[u] \in {"call", "lock", "test"}
    \/ pos[u] \in {"sync", "qs", "flip"} /\ round = 1
    \/ pos[u] \in {"sync", "qs", "scan"} /\ Leaving(u)
    \/ Gone(u)

(* "completed" at most one ahead is not two. *)
LEMMA NotTwo ==
  ASSUME NEW n \in 0..(Word - 1)
  PROVE  Since(n, n) < 2 /\ Since((n + 1) % Word, n) < 2
  <1>1. Word \in Nat \ {0} /\ Word >= 2 /\ n \in Int
    BY SRCUAssumption
  <1>2. (n - n) % Word = 0
    <2>1. n - n = 0 /\ 0 \in 0..(Word - 1)
      BY <1>1
    <2>2. QED
      BY <1>1, <2>1, ModSmall
  <1>3. (((n + 1) % Word) - n) % Word = 1
    <2>1. (((n + 1) % Word) + (-n)) % Word = ((n + 1) + (-n)) % Word
      <3>1. n + 1 \in Int /\ -n \in Int
        BY <1>1
      <3>2. QED
        BY <1>1, <3>1, ModAdd
    <2>2. (n + 1) + (-n) = 1 /\ 1 \in 0..(Word - 1)
      BY <1>1
    <2>3. 1 % Word = 1
      BY <1>1, <2>2, ModSmall
    <2>4. (n + 1) % Word \in Int
      BY OtherRank, <1>1
    <2>5. ((n + 1) % Word) - n = ((n + 1) % Word) + (-n)
      BY <1>1, <2>4
    <2>6. QED
      BY <2>1, <2>2, <2>3, <2>5
  <1>4. Since(n, n) < 2
    BY <1>1, <1>2 DEF Since
  <1>5. Since((n + 1) % Word, n) < 2
    <2>1. 1 - Word < 2 /\ 1 < 2
      BY <1>1
    <2>2. QED
      BY <1>3, <2>1 DEF Since
  <1>6. QED
    BY <1>4, <1>5

(* The owner sees the last flip. *)
LEMMA OwnerSees ==
  ASSUME Control, Flips, NEW u \in Updaters, pos[u] \in HolderLabels
  PROVE  Latest = load_completed(cpu[u]) /\ Latest \in 0..(Word - 1)
  <1>1. mutex = u /\ u # Nobody /\ SrcuTypeOK /\ cpu[u] \in CPUs
    BY SRCUAssumption DEF Control, OwnerByLabel, SrcuTypeOK, Users
  <1>2. QED
    BY <1>1, LoadTypes DEF Latest

(* A look at "completed" sees the last flip, or the one before. *)
LEMMA LookSees ==
  ASSUME Control, Flips, NEW k \in CPUs
  PROVE  \/ Latest = load_completed(k)
         \/ /\ Latest = (load_completed(k) + 1) % Word
            /\ \E u \in Updaters : pos[u] = "sync"
  <1>0. SrcuTypeOK /\ OwnerByLabel /\ FlipPending
    BY DEF Control, Flips
  <1>1. CASE \A u \in Updaters : ~(pos[u] = "sync" /\ round = 2)
    <2>1. \A x \in CPUs : load_completed(x) = completed
      BY <1>0, <1>1, Settled
    <2>2. \A u \in Updaters : cpu[u] \in CPUs
      BY <1>0 DEF SrcuTypeOK, Users
    <2>3. QED
      BY <1>0, <2>1, <2>2 DEF Latest, SrcuTypeOK
  <1>2. ASSUME NEW u \in Updaters, pos[u] = "sync", round = 2
        PROVE  Latest = load_completed(k) \/ Latest = (load_completed(k) + 1) % Word
    <2>1. Latest = load_completed(cpu[u]) /\ cpu[u] \in CPUs
      BY <1>0, <1>2, OwnerSees DEF HolderLabels, SrcuTypeOK, Users
    <2>2. CASE k = cpu[u]
      BY <2>1, <2>2
    <2>3. CASE k # cpu[u]
      <3>1. load_completed(k) = completed
        <4>1. \A v \in Updaters : pos[v] = "sync" => v = u
          BY <1>0, <1>2, OneOwner DEF HolderLabels
        <4>2. QED
          BY <1>0, <2>3, <4>1, Settled
      <3>2. CASE Pending(buf[cpu[u]], "completed", 0) = {}
        BY <2>1, <3>1, <3>2, LoadMemory DEF load_completed
      <3>3. CASE Pending(buf[cpu[u]], "completed", 0) # {}
        <4>1. buf[cpu[u]] \in Seq(Writes)
          BY <1>0, <2>1 DEF SrcuTypeOK
        <4>2. PICK j \in Pending(buf[cpu[u]], "completed", 0) :
                Load(buf[cpu[u]], "completed", 0, completed) = buf[cpu[u]][j].v
          BY <3>3, <4>1, LoadPending
        <4>3. buf[cpu[u]][j].v = (completed + 1) % Word
          BY <1>0, <2>1, <4>2 DEF FlipPending
        <4>4. QED
          BY <2>1, <3>1, <4>2, <4>3 DEF load_completed
      <3>4. QED
        BY <3>2, <3>3
    <2>4. QED
      BY <2>2, <2>3
  <1>3. QED
    BY <1>1, <1>2

(* What an updater that is past its look at "completed" has waited for. *)
LEMMA NextSnapshot ==
  ASSUME Control, Flips, OldRankQuiet, ScanSum, OneRank, Snapshot, SrcuNext, Control'
  PROVE  Snapshot'
  <1> SUFFICES ASSUME NEW w \in Updaters, pos'[w] \in {"lock", "test"}
               PROVE  (Latest = idx[w] \/ FirstFlip(w) \/ Leaving(w))'
    BY DEF Snapshot
  <1>0. /\ SrcuTypeOK /\ OwnerByLabel /\ RoundByLabel /\ FlipPending /\ PtrPending
        /\ pos \in [Users -> SrcuLabels] /\ idx \in [Users -> 0..(Word - 1)] /\ round \in 1..3
        /\ w \in Users /\ cpu[w] \in CPUs /\ idx[w] \in 0..(Word - 1) /\ \A u \in Updaters : u \in Users
    BY DEF Control, Flips, SrcuTypeOK, Users
  <1>o. OwnerByLabel'
    BY DEF Control
  <1>p. ~publish(w)
    BY <1>0 DEF publish, MoveTo
  <1>d. ASSUME Drained(w) PROVE Drained(w)'
    BY <1>p, <1>d, OldStays
  <1>l. ASSUME Leaving(w) PROVE Leaving(w)'
    BY <1>p, <1>l, LeavingKept
  <1>1. ASSUME pos[w] \in {"lock", "test"}, idx'[w] = idx[w], Latest' = Latest, cpu'[w] = cpu[w],
               FirstFlip(w) =>
                 \A u \in Updaters : pos'[u] = "flip" \/ (pos'[u] = "qs" /\ round' = 1 /\ cpu[w] \notin qs')
                                       => Drained(w)'
        PROVE  (Latest = idx[w] \/ FirstFlip(w) \/ Leaving(w))'
    <2>1. Latest = idx[w] \/ FirstFlip(w) \/ Leaving(w)
      BY <1>1 DEF Snapshot
    <2>2. CASE Latest = idx[w]
      BY <1>1, <2>2
    <2>3. CASE FirstFlip(w)
      BY <1>1, <2>3 DEF FirstFlip
    <2>4. QED
      BY <1>l, <2>1, <2>2, <2>3
  <1>2. ASSUME NEW k \in CPUs, Drain(k) PROVE (Latest = idx[w] \/ FirstFlip(w) \/ Leaving(w))'
    <2>1. UNCHANGED <<pos, idx, cpu, round, qs>>
      BY <1>2 DEF Drain, local
    <2>2. Latest' = Latest
      BY <1>2, MachineFlips
    <2>3. QED
      BY <1>1, <1>d, <2>1, <2>2 DEF FirstFlip
  <1>3. ASSUME NEW k \in CPUs, Switch(k) PROVE (Latest = idx[w] \/ FirstFlip(w) \/ Leaving(w))'
    <2>1. UNCHANGED <<pos, idx, cpu, round>> /\ qs' = qs \ {k} /\ buf[k] = <<>>
      BY <1>3 DEF Switch, local
    <2>2. Latest' = Latest
      BY <1>3, MachineFlips
    <2>3. k = cpu[w] => Drained(w)
      BY <2>1 DEF Drained, Pending
    <2>4. QED
      BY <1>1, <1>d, <2>1, <2>2, <2>3 DEF FirstFlip
  <1>4. ASSUME NEW x \in Readers, ReaderStep(x) \/ \E k \in CPUs : Migrate(x, k)
        PROVE  (Latest = idx[w] \/ FirstFlip(w) \/ Leaving(w))'
    <2>1. \A u \in Updaters : u # x
      BY SRCUAssumption
    <2>2. /\ round' = round /\ qs' = qs
          /\ \A u \in Updaters : pos'[u] = pos[u] /\ idx'[u] = idx[u] /\ cpu'[u] = cpu[u]
      BY <1>0, <1>4, <2>1, ReaderFrame
    <2>3. Latest' = Latest
      BY <1>4, ReaderFlips
    <2>4. QED
      BY <1>1, <1>d, <2>2, <2>3 DEF FirstFlip
  <1>5. ASSUME NEW u \in Updaters, UpdaterStep(u) PROVE (Latest = idx[w] \/ FirstFlip(w) \/ Leaving(w))'
    <2>0. cpu' = cpu /\ \A t \in Users : t # u => pos'[t] = pos[t] /\ idx'[t] = idx[t]
      BY <1>5, UpdaterFrame
    <2>1. CASE flip(u)
      <3>1. /\ mutex = u /\ mutex' = u /\ pos[u] = "flip" /\ pos' = [pos EXCEPT ![u] = "sync"]
            /\ \A k \in CPUs : load_completed(k) = completed
            /\ \A k \in CPUs : load_completed(k)' = IF k = cpu[u] THEN (completed + 1) % Word ELSE completed
        BY <2>1, FlipEffect
      <3>2. w # u /\ u # Nobody /\ cpu[u] \in CPUs /\ cpu'[u] = cpu[u]
        BY <1>0, <2>0, <3>1, SRCUAssumption DEF SrcuTypeOK, Users
      <3>3. Latest = completed /\ Latest' = (completed + 1) % Word
        BY <3>1, <3>2 DEF Latest
      <3>4. pos[w] \in {"lock", "test"} /\ idx'[w] = idx[w]
        BY <1>0, <2>0, <3>2
      <3>5. \A v \in Updaters : pos'[v] \notin {"flip", "qs"}
        <4>1. \A v \in Updaters : v # u => pos'[v] \notin HolderLabels
          BY <1>o, <3>1 DEF OwnerByLabel
        <4>2. QED
          BY <1>0, <3>1, <4>1 DEF HolderLabels
      <3>6. CASE Latest = idx[w]
        BY <3>3, <3>4, <3>5, <3>6 DEF FirstFlip
      <3>7. CASE FirstFlip(w)
        <4>1. Drained(w)
          BY <3>1, <3>7 DEF FirstFlip
        <4>2. Leaving(w)'
          BY <2>1, <4>1, FlipLeaving
        <4>3. QED
          BY <4>2
      <3>8. QED
        BY <1>l, <3>4, <3>6, <3>7 DEF Snapshot
    <2>2. CASE ~flip(u)
      <3>1. Latest' = Latest
        BY <1>5, <2>2, UpdaterFlips
      <3>2. CASE synchronize_srcu(u) /\ u = w
        <4>1. idx'[w] = load_completed(cpu[w]) /\ pos[w] = "call" /\ pos'[w] = "lock"
          BY <1>0, <3>2 DEF synchronize_srcu, MoveTo
        <4>2. CASE Latest = load_completed(cpu[w])
          BY <3>1, <4>1, <4>2
        <4>3. CASE /\ Latest = (load_completed(cpu[w]) + 1) % Word
                   /\ \E v \in Updaters : pos[v] = "sync"
          <5>1. PICK v \in Updaters : pos[v] = "sync"
            BY <4>3
          <5>2. pos'[v] = "sync"
            BY <1>0, <2>0, <3>2, <4>1, <5>1
          <5>3. \A x \in Updaters : pos'[x] \notin {"flip", "qs"}
            BY <1>o, <5>2 DEF OwnerByLabel, HolderLabels
          <5>4. QED
            BY <3>1, <4>1, <4>3, <5>3 DEF FirstFlip
        <4>4. QED
          BY <1>0, <4>2, <4>3, LookSees
      <3>3. CASE ~(synchronize_srcu(u) /\ u = w)
        <4>1. pos[w] \in {"lock", "test"} /\ idx'[w] = idx[w]
          <5>1. CASE u # w
            BY <1>0, <2>0, <5>1
          <5>2. CASE u = w
            BY <1>0, <1>5, <3>3, <5>2, <2>2 DEF UpdaterStep, publish, srcu_mutex_lock, early_exit, sync_func,
               sync_func_returns, srcu_readers_active_idx, scan_again, srcu_mutex_unlock, free, MoveTo
          <5>3. QED
            BY <5>1, <5>2
        <4>2. ASSUME FirstFlip(w), NEW v \in Updaters,
                     pos'[v] = "flip" \/ (pos'[v] = "qs" /\ round' = 1 /\ cpu[w] \notin qs')
              PROVE  Drained(w)
          <5>1. CASE v # u
            <6>1. pos'[v] = pos[v] /\ pos[v] \in HolderLabels
              BY <1>0, <2>0, <4>2, <5>1 DEF HolderLabels
            <6>2. pos[u] \notin HolderLabels
              BY <1>0, <5>1, <6>1, OneOwner
            <6>3. round' = round /\ qs' = qs
              <7>1. round' = round
                BY <1>5, <6>2, UpdaterMoves
              <7>2. qs' = qs
                BY <1>5, <6>2 DEF UpdaterStep, publish, synchronize_srcu, srcu_mutex_lock, early_exit, sync_func,
                   sync_func_returns, flip, srcu_readers_active_idx, scan_again, srcu_mutex_unlock, free, MoveTo,
                   HolderLabels
              <7>3. QED
                BY <7>1, <7>2
            <6>4. QED
              BY <4>2, <6>1, <6>3 DEF FirstFlip
          <5>2. CASE v = u
            <6>1. ~sync_func(u)
              BY <1>0, <4>2, <5>2 DEF sync_func, MoveTo
            <6>2. sync_func_returns(u)
              BY <1>0, <1>5, <2>2, <4>2, <5>2, <6>1 DEF UpdaterStep, publish, synchronize_srcu, srcu_mutex_lock,
                 early_exit, srcu_readers_active_idx, scan_again, srcu_mutex_unlock, free, MoveTo
            <6>3. qs = {} /\ pos[u] = "qs" /\ round' = round /\ qs' = qs
              BY <6>2 DEF sync_func_returns, MoveTo
            <6>4. round = 1
              BY <1>0, <4>2, <5>2, <6>2, <6>3 DEF sync_func_returns, MoveTo
            <6>5. QED
              BY <4>2, <6>3, <6>4 DEF FirstFlip
          <5>3. QED
            BY <5>1, <5>2
        <4>3. cpu'[w] = cpu[w]
          BY <2>0
        <4>4. QED
          BY <1>1, <1>d, <3>1, <4>1, <4>2, <4>3
      <3>4. QED
        BY <3>2, <3>3
    <2>3. QED
      BY <2>1, <2>2
  <1>6. QED
    BY <1>2, <1>3, <1>4, <1>5 DEF SrcuNext

(* The grace period goes on until nobody has the old object. *)
LEMMA NextGrace ==
  ASSUME Control, Flips, OldRankQuiet, ScanSum, OneRank, Snapshot, Grace, SrcuNext
  PROVE  Grace'
  <1> DEFINE G(u) == \/ pos[u] \in {"call", "lock", "test"}
                     \/ pos[u] \in {"sync", "qs", "flip"} /\ round = 1
                     \/ pos[u] \in {"sync", "qs", "scan"} /\ Leaving(u)
                     \/ Gone(u)
  <1> SUFFICES ASSUME NEW u \in Updaters PROVE G(u)'
    BY DEF Grace
  <1>0. /\ SrcuTypeOK /\ OwnerByLabel /\ RoundByLabel /\ PtrPending /\ u \in Users /\ cpu[u] \in CPUs
        /\ pos \in [Users -> SrcuLabels] /\ round \in 1..3 /\ idx[u] \in 0..(Word - 1)
        /\ \A v \in Updaters : v \in Users
    BY DEF Control, Flips, SrcuTypeOK, Users
  <1>1. G(u)
    BY DEF Grace
  <1>l. ASSUME Leaving(u), ~publish(u) PROVE Leaving(u)'
    BY <1>l, LeavingKept
  <1>g. ASSUME Gone(u), ~publish(u) PROVE Gone(u)'
    BY <1>g, GoneKept
  <1> HIDE DEF G
  <1>2. ASSUME pos'[u] = pos[u], pos[u] \in {"sync", "qs", "flip"} => round' = round, ~publish(u) PROVE G(u)'
    BY <1>1, <1>2, <1>l, <1>g DEF G
  <1>p. publish(u) => pos'[u] = "call"
    BY <1>0 DEF publish, MoveTo
  <1>3. ASSUME NEW k \in CPUs, Drain(k) \/ Switch(k) PROVE G(u)'
    <2>1. UNCHANGED <<pos, round>>
      BY <1>3 DEF Drain, Switch, local
    <2>2. ~publish(u)
      BY <1>0, <1>p, <2>1 DEF publish, MoveTo
    <2>3. QED
      BY <1>2, <2>1, <2>2
  <1>4. ASSUME NEW x \in Readers, ReaderStep(x) \/ \E k \in CPUs : Migrate(x, k) PROVE G(u)'
    <2>1. u # x
      BY SRCUAssumption
    <2>2. pos'[u] = pos[u] /\ round' = round
      BY <1>0, <1>4, <2>1, ReaderFrame
    <2>3. ~publish(u)
      BY <1>p, <2>2 DEF publish, MoveTo
    <2>4. QED
      BY <1>2, <2>2, <2>3
  <1>5. ASSUME NEW v \in Updaters, UpdaterStep(v), v # u PROVE G(u)'
    <2>1. pos'[u] = pos[u]
      BY <1>0, <1>5, UpdaterMoves
    <2>2. pos[u] \in HolderLabels => round' = round
      BY <1>0, <1>5, UpdaterMoves, OneOwner
    <2>3. ~publish(u)
      BY <1>p, <2>1 DEF publish, MoveTo
    <2>4. QED
      BY <1>2, <2>1, <2>2, <2>3 DEF HolderLabels
  <1>6. ASSUME UpdaterStep(u) PROVE G(u)'
    <2>1. CASE publish(u)
      BY <1>p, <2>1 DEF G
    <2>2. CASE synchronize_srcu(u) \/ srcu_mutex_lock(u)
      BY <1>0, <2>2 DEF G, synchronize_srcu, srcu_mutex_lock, MoveTo
    <2>w. ASSUME ~InWindow(u), pos[u] \in HolderLabels PROVE \A v \in Updaters : ~InWindow(v)
      <3>1. ASSUME NEW v \in Updaters, InWindow(v) PROVE FALSE
        <4>1. v = u
          BY <1>0, <2>w, <3>1, OneOwner DEF InWindow, HolderLabels
        <4>2. QED
          BY <2>w, <3>1, <4>1
      <3>2. QED
        BY <3>1
    <2>3. CASE early_exit(u)
      <3>1. CASE pos'[u] = "sync"
        <4>1. round' = 1
          BY <1>0, <2>3, <3>1 DEF early_exit, MoveTo
        <4>2. QED
          BY <3>1, <4>1 DEF G
      <3>2. CASE pos'[u] # "sync"
        <4>1. pos[u] = "test" /\ Since(load_completed(cpu[u]), idx[u]) >= 2
          BY <1>0, <2>3, <3>2 DEF early_exit, MoveTo
        <4>2. Latest = load_completed(cpu[u])
          BY <4>1, OwnerSees DEF HolderLabels
        <4>3. Since(idx[u], idx[u]) < 2 /\ Since((idx[u] + 1) % Word, idx[u]) < 2
          BY <1>0, NotTwo
        <4>4. Since(Latest, idx[u]) \in Int
          <5>1. Latest - idx[u] \in Int /\ Word \in Nat \ {0}
            <6>1. load_completed(cpu[u]) \in 0..(Word - 1)
              BY <1>0, LoadTypes
            <6>2. QED
              BY <1>0, <4>2, <6>1, SRCUAssumption
          <5>2. (Latest - idx[u]) % Word \in Int
            BY <5>1, ModRange
          <5>3. QED
            BY <5>1, <5>2 DEF Since
        <4>5. Latest # idx[u] /\ Latest # (idx[u] + 1) % Word
          BY <4>1, <4>2, <4>3, <4>4
        <4>6. Leaving(u)
          BY <4>1, <4>5 DEF Snapshot, FirstFlip
        <4>7. Gone(u)
          BY <2>w, <4>1, <4>6, LeavingGone DEF InWindow, HolderLabels
        <4>8. ~publish(u)
          BY <4>1 DEF publish, MoveTo
        <4>9. QED
          BY <1>g, <4>7, <4>8 DEF G
      <3>3. QED
        BY <3>1, <3>2
    <2>4. CASE sync_func(u)
      <3>1. pos[u] = "sync" /\ pos'[u] = "qs" /\ round' = round /\ ~publish(u)
        BY <1>0, <2>4 DEF sync_func, MoveTo, local, publish
      <3>2. QED
        BY <1>1, <1>l, <1>g, <3>1 DEF G
    <2>5. CASE sync_func_returns(u)
      <3>1. pos[u] = "qs" /\ round' = round /\ ~publish(u)
        BY <2>5 DEF sync_func_returns, MoveTo, publish
      <3>2. CASE round = 1
        <4>1. pos'[u] = "flip"
          BY <1>0, <2>5, <3>2 DEF sync_func_returns, MoveTo
        <4>2. QED
          BY <3>1, <3>2, <4>1 DEF G
      <3>3. CASE round = 2
        <4>1. pos'[u] = "scan"
          BY <1>0, <2>5, <3>3 DEF sync_func_returns, MoveTo
        <4>2. QED
          BY <1>1, <1>l, <1>g, <3>1, <3>3, <4>1 DEF G
      <3>4. CASE round = 3
        <4>1. Gone(u)
          <5>1. Leaving(u) \/ Gone(u)
            BY <1>1, <3>1, <3>4 DEF G
          <5>2. QED
            BY <2>w, <3>1, <3>4, <5>1, LeavingGone DEF InWindow, HolderLabels
        <4>2. QED
          BY <1>g, <3>1, <4>1 DEF G
      <3>5. QED
        BY <1>0, <3>2, <3>3, <3>4
    <2>6. CASE flip(u)
      <3>1. pos[u] = "flip" /\ pos'[u] = "sync"
        BY <1>0, <2>6 DEF flip, MoveTo
      <3>2. Drained(u)
        BY <1>0, <3>1 DEF PtrPending, Drained
      <3>3. Leaving(u)'
        BY <2>6, <3>2, FlipLeaving
      <3>4. QED
        BY <3>1, <3>3 DEF G
    <2>7. CASE srcu_readers_active_idx(u)
      <3>1. pos[u] = "scan" /\ pos'[u] = "scan"
        BY <1>0, <2>7 DEF srcu_readers_active_idx, MoveTo
      <3>2. QED
        BY <1>2, <3>1 DEF publish, MoveTo
    <2>8. CASE scan_again(u)
      <3>1. pos[u] = "scan" /\ pos'[u] \in {"scan", "sync"} /\ ~publish(u)
        BY <1>0, <2>8 DEF scan_again, MoveTo, publish
      <3>2. QED
        BY <1>1, <1>l, <1>g, <3>1 DEF G
    <2>9. CASE srcu_mutex_unlock(u)
      <3>1. pos[u] = "unlock" /\ ~publish(u)
        BY <2>9 DEF srcu_mutex_unlock, MoveTo, publish
      <3>2. QED
        BY <1>1, <1>g, <3>1 DEF G
    <2>10. CASE free(u)
      <3>1. pos[u] = "free" /\ ~publish(u)
        BY <2>10 DEF free, MoveTo, publish
      <3>2. QED
        BY <1>1, <1>g, <3>1 DEF G
    <2>11. QED
      BY <1>6, <2>1, <2>2, <2>3, <2>4, <2>5, <2>6, <2>7, <2>8, <2>9, <2>10 DEF UpdaterStep
  <1>7. QED
    BY <1>3, <1>4, <1>5, <1>6 DEF SrcuNext

-----------------------------------------------------------------------------
(* The inductive invariant of SRCU: who is where, how the readers are      *)
(* counted, which stores are pending, what the old rank and the scan of it *)
(* look like, and how far each grace period has come.                      *)
SrcuInvariant ==
  /\ Control
  /\ EveryReaderCounted
  /\ Flips
  /\ OldRankQuiet
  /\ ScanSum
  /\ OneRank
  /\ Snapshot
  /\ Grace

(* The invariant holds after init_srcu_struct(). *)
LEMMA InitSrcu == SrcuInit => SrcuInvariant
  <1> SUFFICES ASSUME SrcuInit PROVE SrcuInvariant
    OBVIOUS
  <1>1. Control
    BY InitControl
  <1>2. /\ \A k \in CPUs : buf[k] = <<>>
        /\ \A t \in Users : pos[t] = "idle"
        /\ \A r \in Readers : r \in Users /\ ref[r] = NoRef
        /\ \A u \in Updaters : u \in Users /\ cpu[u] \in CPUs
    BY <1>1 DEF SrcuInit, Control, SrcuTypeOK, Users
  <1>3. ASSUME NEW k \in CPUs, NEW to, NEW i PROVE Pending(buf[k], to, i) = {}
    <2>1. Len(buf[k]) = 0
      BY <1>2
    <2>2. QED
      BY <2>1 DEF Pending
  <1>4. \A u \in Updaters : pos[u] = "idle" /\ ~InWindow(u)
    BY <1>2 DEF InWindow
  <1>5. EveryReaderCounted
    <2> SUFFICES ASSUME NEW i \in {0, 1}
                 PROVE  Sum([k \in CPUs |-> load_c(k, i)]) % RefWord = Cardinality(ReadersOf(i))
      BY DEF EveryReaderCounted
    <2>1. \A k \in CPUs : load_c(k, i) = 0
      <3>1. ASSUME NEW k \in CPUs PROVE load_c(k, i) = 0
        <4>1. c[k][i] = 0
          BY DEF SrcuInit
        <4>2. QED
          BY <1>3, <4>1, LoadMemory DEF load_c
      <3>2. QED
        BY <3>1
    <2> DEFINE f == [k \in CPUs |-> load_c(k, i)]
    <2>2. f \in [CPUs -> Int] /\ \A k \in CPUs : f[k] = 0
      BY <2>1
    <2> HIDE DEF f
    <2>3. Sum(f) = 0
      BY <2>2, SumZero
    <2>4. ReadersOf(i) = {}
      BY <1>2 DEF ReadersOf
    <2>5. Cardinality(ReadersOf(i)) = 0 /\ 0 % RefWord = 0
      BY <2>4, FS_EmptySet, RefWordType, ModSmall
    <2>6. QED
      BY <2>3, <2>5 DEF f
  <1>6. Flips
    BY <1>3, <1>4 DEF Flips, FlipPending, PtrPending, OldRank
  <1>7. OldRankQuiet /\ ScanSum /\ Snapshot
    BY <1>4 DEF OldRankQuiet, Flipped, ScanSum, Snapshot
  <1>8. OneRank
    BY <1>2 DEF OneRank
  <1>9. Grace
    <2>1. ASSUME NEW u \in Updaters PROVE Gone(u)
      <3>1. Drained(u)
        BY <1>2, <1>3 DEF Drained
      <3>2. \A r \in Readers : ~HasOld(r, u)
        BY <1>2, SRCUAssumption DEF HasOld, NoRef
      <3>3. QED
        BY <3>1, <3>2 DEF Gone
    <2>2. QED
      BY <2>1 DEF Grace
  <1>10. QED
    BY <1>1, <1>5, <1>6, <1>7, <1>8, <1>9 DEF SrcuInvariant

(* Every step of a reader, an updater and the machine keeps the invariant. *)
LEMMA NextSrcu == SrcuInvariant /\ [SrcuNext]_srcuVars => SrcuInvariant'
  <1> SUFFICES ASSUME SrcuInvariant, [SrcuNext]_srcuVars PROVE SrcuInvariant'
    OBVIOUS
  <1>0. Control /\ EveryReaderCounted /\ Flips /\ OldRankQuiet /\ ScanSum /\ OneRank /\ Snapshot /\ Grace
    BY DEF SrcuInvariant
  <1>1. CASE SrcuNext
    <2>1. Control'
      BY <1>0, <1>1, MachineControl, ReaderControl, UpdaterControl DEF SrcuNext
    <2>2. EveryReaderCounted'
      BY <1>0, <1>1, NextCounted
    <2>3. Flips'
      BY <1>0, <1>1, MachineFlips, ReaderFlips, UpdaterFlips DEF SrcuNext
    <2>4. OldRankQuiet'
      BY <1>0, <1>1, NextQuiet
    <2>5. ScanSum'
      BY <1>0, <1>1, NextScan
    <2>6. OneRank'
      BY <1>0, <1>1, NextOneRank
    <2>7. Snapshot'
      BY <1>0, <1>1, <2>1, NextSnapshot
    <2>8. Grace'
      BY <1>0, <1>1, NextGrace
    <2>9. QED
      BY <2>1, <2>2, <2>3, <2>4, <2>5, <2>6, <2>7, <2>8 DEF SrcuInvariant
  <1>2. CASE UNCHANGED srcuVars
    <2>1. UNCHANGED <<pos, cpu, c, completed, ptr, buf, mutex, idx, ref, qs, round, at, sum>>
      BY <1>2 DEF srcuVars, sys, mem, local
    <2>2. Control'
      BY <1>0, <2>1 DEF Control, SrcuTypeOK, ByRole, OwnerByLabel, RoundByLabel, RankByLabel, InWindow, QsOwner
    <2>3. EveryReaderCounted'
      BY <1>0, <2>1 DEF EveryReaderCounted, load_c, ReadersOf
    <2>4. Flips'
      BY <1>0, <2>1 DEF Flips, FlipPending, PtrPending, OldRank, InWindow, load_completed
    <2>5. OldRankQuiet' /\ ScanSum'
      BY <1>0, <2>1 DEF OldRankQuiet, Flipped, Quiet, AboutTo, Entered, Lates, Late, Falling,
         ScanSum, Tally, Loads, load_c, ReadersOf
    <2>6. OneRank'
      BY <1>0, <2>1 DEF OneRank, InWindow
    <2>7. Snapshot'
      BY <1>0, <2>1 DEF Snapshot, Latest, load_completed, FirstFlip, Leaving, Gone, Drained, HasOld, InWindow
    <2>8. Grace'
      BY <1>0, <2>1 DEF Grace, Latest, load_completed, FirstFlip, Leaving, Gone, Drained, HasOld, InWindow
    <2>9. QED
      BY <2>2, <2>3, <2>4, <2>5, <2>6, <2>7, <2>8 DEF SrcuInvariant
  <1>3. QED
    BY <1>1, <1>2

(* kernel/srcu.c keeps its inductive invariant. *)
THEOREM SrcuInvariance == SrcuSpec => []SrcuInvariant
  BY InitSrcu, NextSrcu, PTL DEF SrcuSpec

(* The counters, "completed" and the store buffers hold values of their    *)
(* words, and every task is at one of its labels.                          *)
THEOREM SrcuTypeCorrect == SrcuSpec => []SrcuTypeOK
  <1>1. SrcuInvariant => SrcuTypeOK
    BY DEF SrcuInvariant, Control
  <1>2. QED
    BY <1>1, SrcuInvariance, PTL

(* __srcu_read_lock() and __srcu_read_unlock() lose no reader and count    *)
(* none twice, on whichever CPUs a reader counts up and down and however   *)
(* the counters of the single CPUs wrap around.                            *)
THEOREM ReadersCounted == SrcuSpec => []EveryReaderCounted
  <1>1. SrcuInvariant => EveryReaderCounted
    BY DEF SrcuInvariant
  <1>2. QED
    BY <1>1, SrcuInvariance, PTL

(* While synchronize_srcu() adds up the old rank no reader enters it, and  *)
(* the counters in memory add up to the readers of the rank and the        *)
(* decrements that are still in a store buffer.                            *)
THEOREM RankDrains == SrcuSpec => []OldRankOnlyDrains
  <1>1. SrcuInvariant => OldRankOnlyDrains
    BY QuietSum DEF SrcuInvariant
  <1>2. QED
    BY <1>1, SrcuInvariance, PTL

(* When synchronize_srcu() returns, by the early exit too, no reader has   *)
(* the object that was replaced before the call.                           *)
THEOREM GracePeriod == SrcuSpec => []NoUseAfterFree
  <1>1. SrcuInvariant => NoUseAfterFree
    <2> SUFFICES ASSUME SrcuInvariant, NEW u \in Updaters, pos[u] \in {"free", "idle"}, NEW r \in Readers
                 PROVE  ref[r] # <<u, 1 - ptr[u]>>
      BY DEF NoUseAfterFree
    <2>1. Gone(u)
      BY DEF SrcuInvariant, Grace
    <2>2. QED
      BY <2>1 DEF Gone, HasOld
  <1>2. QED
    BY <1>1, SrcuInvariance, PTL

=============================================================================
