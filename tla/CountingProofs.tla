-------------------------- MODULE CountingProofs ----------------------------
(***************************************************************************)
(* The safety properties of the two counting primitives, Semaphore and     *)
(* Completion, for every set of tasks and every value of their counters.   *)
(*                                                                         *)
(* A semaphore: the inductive invariant ties the three places that must    *)
(* agree, the wait list, the waiters' on-stack flags and the tasks' run    *)
(* states.  A completion: three facts hold each other up, the queue is the *)
(* tasks inside do_wait_for_common(), the counter is the balance of events *)
(* and waits (so it never wraps), and the waiters awake are at least as    *)
(* many as the events.                                                     *)
(***************************************************************************)
EXTENDS Semaphore, Completion, KListProofs, FiniteSetTheorems

(* Only a task inside schedule() that is not TASK_RUNNING can be off the   *)
(* run queue, and a task that holds the semaphore is outside               *)
(* __down_common().                                                        *)
AwakeOnRq ==
  \A t \in Tasks : state[t] = TASK_RUNNING \/ pc[t] # "schedule" => on_rq[t]
HoldersOut == \A t \in holders : pc[t] = "idle"

(* The inductive invariant of the queue discipline. *)
IInv ==
  /\ TypeOK /\ AwakeOnRq /\ HoldersOut
  /\ NoDanglingWaiter /\ NoBarging /\ GrantIsAwake

(* A task that calls or resumes in down_*() and is not granted: either it  *)
(* leaves, and the list is what it was without it, or it sleeps queued.    *)
LEMMA DownLoopStep ==
  ASSUME IInv, NEW t \in Tasks, ~up_[t], on_rq[t], t \notin holders, count = 0,
         NEW q \in Seq(Tasks), LinkedOnce(q),
         Entries(q) = Waiting \cup {t},
         NEW s \in States, NEW tm \in {"none", "armed", "expired"},
         down_loop(t, q, s, tm)
  PROVE  IInv'
  <1> USE DEF IInv
  <1>5. on_rq[t] /\ t \notin holders
    OBVIOUS
  <1>1. t \in Entries(q)
    OBVIOUS
  <1>2. CASE Leave(t, q)
    <2> USE <1>2 DEF Leave, down_loop
    <2>1. /\ list_del(t, q) \in Seq(Tasks)
          /\ LinkedOnce(list_del(t, q))
          /\ Entries(list_del(t, q)) = Entries(q) \ {t}
      BY <1>1, ListDel
    <2>2. TypeOK'
      BY <2>1 DEF TypeOK, TaskTypeOK, Labels, States
    <2>3. Waiting' = Waiting \ {t}
      BY DEF Waiting, TypeOK, TaskTypeOK
    <2>4. NoDanglingWaiter'
      BY <2>1, <2>3 DEF NoDanglingWaiter
    <2>5. NoBarging' /\ GrantIsAwake' /\ AwakeOnRq' /\ HoldersOut'
      BY DEF NoBarging, GrantIsAwake, Granted, AwakeOnRq, HoldersOut, TypeOK, TaskTypeOK
    <2>6. QED
      BY <2>2, <2>4, <2>5
  <1>3. CASE Sleep(t, q, s, tm)
    <2> USE <1>3 DEF Sleep, down_loop, set_task_state
    <2>1. TypeOK'
      BY DEF TypeOK, TaskTypeOK, Labels
    <2>2. Waiting' = Waiting \cup {t}
      BY DEF Waiting, TypeOK, TaskTypeOK
    <2>3. NoDanglingWaiter'
      BY <2>2 DEF NoDanglingWaiter
    <2>4. NoBarging' /\ GrantIsAwake' /\ AwakeOnRq' /\ HoldersOut'
      BY <1>5 DEF NoBarging, GrantIsAwake, Granted, AwakeOnRq, HoldersOut, TypeOK, TaskTypeOK
    <2>5. QED
      BY <2>1, <2>3, <2>4
  <1>4. QED
    BY <1>2, <1>3 DEF down_loop

(* The entry of down_*(): take a permit, or queue up and go to sleep.      *)
LEMMA DownStep ==
  ASSUME IInv, NEW t \in Tasks, NEW s \in States,
         NEW tm \in {"none", "armed", "expired"}, down_with(t, s, tm)
  PROVE  IInv'
  <1>1. CASE TakeCount(t)
    <2> USE <1>1 DEF TakeCount, IInv, down_with, Caller, taskVars
    <2>1. TypeOK'
      BY DEF TypeOK, TaskTypeOK
    <2>2. NoDanglingWaiter' /\ NoBarging'
      BY DEF NoDanglingWaiter, NoBarging, Waiting, TypeOK
    <2>3. GrantIsAwake' /\ AwakeOnRq' /\ HoldersOut'
      BY DEF GrantIsAwake, Granted, AwakeOnRq, HoldersOut
    <2>4. QED
      BY <2>1, <2>2, <2>3
  <1>2. CASE count = 0 /\ __down_common(t, s, tm)
    <2> DEFINE q == list_add_tail(t, wait_list)
    <2>1. ~up_[t] /\ t \notin Waiting /\ on_rq[t] /\ t \notin holders
      BY DEF down_with, Caller, IInv, GrantIsAwake, Granted, Waiting, AwakeOnRq
    <2>2. t \notin Entries(wait_list) /\ LinkedOnce(wait_list) /\ wait_list \in Seq(Tasks)
      BY <2>1 DEF IInv, NoDanglingWaiter, TypeOK
    <2>3. q \in Seq(Tasks) /\ LinkedOnce(q) /\ Entries(q) = Waiting \cup {t}
      BY <2>2, ListAddTail DEF IInv, NoDanglingWaiter
    <2>4. down_loop(t, q, s, tm)
      BY <1>2 DEF __down_common
    <2> HIDE DEF q
    <2>5. QED
      BY <1>2, <2>1, <2>3, <2>4, DownLoopStep
  <1>3. QED
    BY <1>1, <1>2 DEF down_with

(* A waiter back from schedule_timeout(): return, give up or sleep again.  *)
LEMMA ResumedStep ==
  ASSUME IInv, NEW t \in Tasks, down_resumed(t)
  PROVE  IInv'
  <1>1. CASE up_[t]
    <2> USE <1>1 DEF down_resumed, IInv
    <2>1. TypeOK'
      BY DEF TypeOK, TaskTypeOK, Labels, States
    <2>2. Waiting' = Waiting
      BY DEF Waiting, TypeOK, TaskTypeOK
    <2>3. NoDanglingWaiter' /\ NoBarging'
      BY <2>2 DEF NoDanglingWaiter, NoBarging
    <2>4. GrantIsAwake'
      BY DEF GrantIsAwake, Granted, TypeOK, TaskTypeOK
    <2>5. AwakeOnRq'
      BY DEF AwakeOnRq, TypeOK, TaskTypeOK
    <2>6. HoldersOut'
      BY DEF HoldersOut, TypeOK, TaskTypeOK
    <2>7. QED
      BY <2>1, <2>3, <2>4, <2>5, <2>6
  <1>2. CASE ~up_[t] /\ down_loop(t, wait_list, mode[t], timer[t])
    <2>1. t \in Waiting /\ Entries(wait_list) = Waiting /\ LinkedOnce(wait_list)
      BY <1>2 DEF down_resumed, Waiting, IInv, NoDanglingWaiter
    <2>2. /\ wait_list \in Seq(Tasks) /\ mode[t] \in States
          /\ timer[t] \in {"none", "armed", "expired"}
          /\ count \in Nat
      BY DEF IInv, TypeOK, TaskTypeOK
    <2>3. count = 0
      BY <2>1, <2>2, ListEmpty DEF IInv, NoBarging
    <2>4. on_rq[t] /\ t \notin holders
      BY DEF down_resumed, IInv, AwakeOnRq, HoldersOut
    <2>5. QED
      BY <1>2, <2>1, <2>2, <2>3, <2>4, DownLoopStep
  <1>3. QED
    BY <1>1, <1>2 DEF down_resumed

(* up() by anybody; the caller's history variables do not matter here as   *)
(* long as no waiter that is being granted becomes a holder.               *)
LEMMA UpStep ==
  ASSUME IInv, up, holders' \subseteq holders, permits' \in Nat
  PROVE  IInv'
  <1> USE DEF IInv, up
  <1>1. CASE list_empty(wait_list) /\ count' = count + 1
             /\ UNCHANGED <<wait_list, up_, state, on_rq>>
    <2>1. TypeOK'
      BY <1>1 DEF TypeOK, TaskTypeOK
    <2>2. NoDanglingWaiter' /\ NoBarging' /\ GrantIsAwake'
      BY <1>1 DEF NoDanglingWaiter, NoBarging, GrantIsAwake, Granted, Waiting
    <2>3. AwakeOnRq' /\ HoldersOut'
      BY <1>1 DEF AwakeOnRq, HoldersOut
    <2>4. QED
      BY <2>1, <2>2, <2>3
  <1>2. CASE ~list_empty(wait_list) /\ __up
    <2> DEFINE w == list_first_entry(wait_list)
    <2>1. wait_list \in Seq(Tasks) /\ LinkedOnce(wait_list) /\ Entries(wait_list) = Waiting
      BY DEF TypeOK, NoDanglingWaiter
    <2>2. w \in Waiting /\ w \in Tasks
      BY <1>2, <2>1, ListEmpty
    <2>3. /\ list_del(w, wait_list) \in Seq(Tasks)
          /\ LinkedOnce(list_del(w, wait_list))
          /\ Entries(list_del(w, wait_list)) = Waiting \ {w}
      BY <2>1, <2>2, ListDel
    <2>4. /\ wait_list' = list_del(w, wait_list)
          /\ up_' = [up_ EXCEPT ![w] = TRUE]
          /\ try_to_wake_up({w}, TASK_NORMAL)
          /\ UNCHANGED <<count, pc, sig, timer, mode>>
      BY <1>2 DEF __up, wake_up_process
    <2> HIDE DEF w
    <2>5. TypeOK'
      BY <2>2, <2>3, <2>4 DEF TypeOK, TaskTypeOK, try_to_wake_up, States, TASK_RUNNING
    <2>6. Waiting' = Waiting \ {w}
      BY <2>2, <2>4 DEF Waiting, TypeOK
    <2>7. NoDanglingWaiter'
      BY <2>3, <2>4, <2>6 DEF NoDanglingWaiter
    <2>8. NoBarging'
      BY <1>2, <2>4 DEF NoBarging, TypeOK
    <2>9. state'[w] = TASK_RUNNING /\ on_rq'[w]
      <3>1. CASE state[w] = TASK_RUNNING
        BY <2>2, <2>4, <3>1 DEF AwakeOnRq, try_to_wake_up
      <3>2. CASE state[w] # TASK_RUNNING
        <4>1. state[w] \cap TASK_NORMAL # {}
          BY <2>2, <3>2 DEF TypeOK, TaskTypeOK, States, TASK_RUNNING, TASK_NORMAL,
             TASK_INTERRUPTIBLE, TASK_UNINTERRUPTIBLE, TASK_KILLABLE
        <4>2. QED
          BY <2>2, <2>4, <4>1 DEF try_to_wake_up, WakesUp
      <3>3. QED
        BY <3>1, <3>2
    <2>10. GrantIsAwake'
      BY <2>2, <2>4, <2>9 DEF GrantIsAwake, HoldersOut, Granted, TypeOK, TaskTypeOK, try_to_wake_up, Waiting
    <2>11. AwakeOnRq'
      BY <2>4 DEF AwakeOnRq, try_to_wake_up, TypeOK, TaskTypeOK
    <2>12. HoldersOut'
      BY <2>4 DEF HoldersOut
    <2>13. QED
      BY <2>5, <2>7, <2>8, <2>10, <2>11, <2>12
  <1>3. QED
    BY <1>1, <1>2

(* The scheduler, the timer and the signal code change a task's run state  *)
(* but never the semaphore: a sleeping waiter stays queued, and a granted  *)
(* one, which is TASK_RUNNING, cannot be put to sleep.                     *)
LEMMA EnvStep ==
  ASSUME IInv, NEW t \in Tasks, Scheduling(t) \/ Signals(t)
  PROVE  IInv'
  <1> USE DEF IInv, semVars
  <1>1. CASE deactivate_task(t) /\ UNCHANGED semVars
    <2>1. TypeOK'
      BY <1>1 DEF deactivate_task, TypeOK, TaskTypeOK
    <2>2. NoDanglingWaiter' /\ NoBarging' /\ GrantIsAwake' /\ AwakeOnRq' /\ HoldersOut'
      BY <1>1 DEF deactivate_task, NoDanglingWaiter, NoBarging, GrantIsAwake, Granted,
                  Waiting, AwakeOnRq, HoldersOut, TypeOK, TaskTypeOK
    <2>3. QED
      BY <2>1, <2>2
  <1>2. CASE schedule_returns(t) /\ UNCHANGED semVars
    <2>1. TypeOK'
      BY <1>2 DEF schedule_returns, TypeOK, TaskTypeOK, Labels, States
    <2>2. Waiting' = Waiting
      BY <1>2 DEF schedule_returns, Waiting, TypeOK, TaskTypeOK
    <2>3. NoDanglingWaiter' /\ NoBarging'
      BY <1>2, <2>2 DEF NoDanglingWaiter, NoBarging
    <2>4. GrantIsAwake' /\ AwakeOnRq' /\ HoldersOut'
      BY <1>2 DEF schedule_returns, GrantIsAwake, Granted, AwakeOnRq, HoldersOut,
                  TypeOK, TaskTypeOK
    <2>5. QED
      BY <2>1, <2>3, <2>4
  <1>3. ASSUME NEW mask, try_to_wake_up({t}, mask), UNCHANGED <<pc, semVars>>,
               sig' \in [Tasks -> {"none", "plain", "fatal"}],
               timer' \in [Tasks -> {"none", "armed", "expired"}]
        PROVE  IInv'
    <2> USE <1>3 DEF try_to_wake_up
    <2>1. TypeOK'
      BY DEF TypeOK, TaskTypeOK, States
    <2>2. Waiting' = Waiting /\ Granted' = Granted
      BY DEF Waiting, Granted
    <2>3. NoDanglingWaiter' /\ NoBarging'
      BY <2>2 DEF NoDanglingWaiter, NoBarging
    <2>4. GrantIsAwake' /\ AwakeOnRq' /\ HoldersOut'
      BY <2>2 DEF GrantIsAwake, Granted, AwakeOnRq, HoldersOut, TypeOK, TaskTypeOK
    <2>5. QED
      BY <2>1, <2>3, <2>4
  <1>4. CASE process_timeout(t) /\ UNCHANGED semVars
    <2>1. try_to_wake_up({t}, TASK_NORMAL) /\ UNCHANGED <<pc, sig, semVars>>
      BY <1>4 DEF process_timeout, wake_up_process
    <2>2. timer' \in [Tasks -> {"none", "armed", "expired"}]
      BY <1>4 DEF process_timeout, TypeOK, TaskTypeOK
    <2>3. QED
      BY <1>3, <2>1, <2>2 DEF TypeOK, TaskTypeOK
  <1>5. ASSUME NEW kind \in {"plain", "fatal"}, signal_wake_up(t, kind), UNCHANGED semVars
        PROVE  IInv'
    <2>1. PICK mask : try_to_wake_up({t}, mask)
      BY <1>5 DEF signal_wake_up
    <2>2. sig' \in [Tasks -> {"none", "plain", "fatal"}] /\ UNCHANGED <<pc, timer>>
      BY <1>5 DEF signal_wake_up, TypeOK, TaskTypeOK
    <2>3. QED
      BY <1>3, <1>5, <2>1, <2>2 DEF TypeOK, TaskTypeOK
  <1>6. CASE t \notin holders /\ do_signal(t) /\ UNCHANGED semVars
    <2>1. TypeOK'
      BY <1>6 DEF do_signal, TypeOK, TaskTypeOK, Labels
    <2>2. Waiting' = Waiting
      BY <1>6 DEF do_signal, Waiting, TypeOK, TaskTypeOK
    <2>3. NoDanglingWaiter' /\ NoBarging'
      BY <1>6, <2>2 DEF NoDanglingWaiter, NoBarging
    <2>4. GrantIsAwake' /\ AwakeOnRq' /\ HoldersOut'
      BY <1>6 DEF do_signal, GrantIsAwake, Granted, AwakeOnRq, HoldersOut,
                  TypeOK, TaskTypeOK
    <2>5. QED
      BY <2>1, <2>3, <2>4
  <1>7. QED
    BY <1>1, <1>2, <1>4, <1>5, <1>6 DEF Scheduling, schedule, Signals

(* down_trylock() is down() without the contended path. *)
LEMMA TrylockIsDown ==
  ASSUME NEW t \in Tasks, down_trylock(t)
  PROVE  down_with(t, TASK_UNINTERRUPTIBLE, "none")
  BY DEF down_trylock, down_with

(* sema_init() establishes the invariant. *)
LEMMA InitIInv == Init => IInv
  <1> SUFFICES ASSUME Init PROVE IInv
    OBVIOUS
  <1> USE DEF Init, TaskInit
  <1>1. TypeOK
    BY SemaphoreAssumption DEF TypeOK, TaskTypeOK, Labels, States
  <1>2. Waiting = {} /\ Granted = {}
    BY DEF Waiting, Granted
  <1>3. NoDanglingWaiter
    BY <1>2 DEF NoDanglingWaiter, LinkedOnce, Entries
  <1>4. NoBarging /\ GrantIsAwake /\ AwakeOnRq /\ HoldersOut
    BY <1>2 DEF NoBarging, list_empty, GrantIsAwake, AwakeOnRq, HoldersOut
  <1>5. QED
    BY <1>1, <1>3, <1>4 DEF IInv

(* Every step preserves the invariant. *)
LEMMA NextIInv == IInv /\ [Next]_vars => IInv'
  <1> SUFFICES ASSUME IInv, [Next]_vars PROVE IInv'
    OBVIOUS
  <1>1. ASSUME NEW t \in Tasks,
               \/ down(t) \/ down_interruptible(t) \/ down_killable(t)
               \/ down_timeout(t) \/ down_trylock(t)
        PROVE  IInv'
    <2>1. \E s \in States, tm \in {"none", "armed", "expired"} : down_with(t, s, tm)
      BY <1>1, TrylockIsDown DEF down, down_interruptible, down_killable, down_timeout, States
    <2>2. QED
      BY <2>1, DownStep
  <1>2. ASSUME NEW t \in Tasks, down_resumed(t)
        PROVE  IInv'
    BY <1>2, ResumedStep
  <1>3. ASSUME NEW t \in Tasks, up_holder(t)
        PROVE  IInv'
    <2>1. up /\ holders' \subseteq holders /\ permits' \in Nat
      BY <1>3 DEF up_holder, IInv, TypeOK
    <2>2. QED
      BY <2>1, UpStep
  <1>4. CASE up_interrupt
    <2>1. up /\ holders' \subseteq holders /\ permits' \in Nat
      BY <1>4 DEF up_interrupt, IInv, TypeOK
    <2>2. QED
      BY <2>1, UpStep
  <1>5. ASSUME NEW t \in Tasks, Scheduling(t) \/ Signals(t)
        PROVE  IInv'
    BY <1>5, EnvStep
  <1>6. CASE UNCHANGED vars
    BY <1>6 DEF vars, taskVars, semVars, IInv, TypeOK, TaskTypeOK, AwakeOnRq, HoldersOut,
       NoDanglingWaiter, Waiting, NoBarging, GrantIsAwake, Granted
  <1>7. QED
    BY <1>1, <1>2, <1>3, <1>4, <1>5, <1>6 DEF Next

(* The inductive invariant holds in every reachable state. *)
THEOREM Invariance == Spec => []IInv
  BY InitIInv, NextIInv, PTL DEF Spec

(* Every variable keeps its type, in particular count, an unsigned int,    *)
(* never goes below zero in down_*().                                      *)
THEOREM TypeCorrect == Spec => []TypeOK
  <1>1. IInv => TypeOK
    BY DEF IInv
  <1>2. QED
    BY Invariance, <1>1, PTL

(* The wait list holds exactly the waiters that are inside __down_common() *)
(* and not granted, each once: timeouts and signals leave no entry behind. *)
THEOREM ListIsWaiters == Spec => []NoDanglingWaiter
  <1>1. IInv => NoDanglingWaiter
    BY DEF IInv
  <1>2. QED
    BY Invariance, <1>1, PTL

(* A positive count means an empty wait list: down_*() never overtakes.    *)
THEOREM NoOvertaking == Spec => []NoBarging
  <1>1. IInv => NoBarging
    BY DEF IInv
  <1>2. QED
    BY Invariance, <1>1, PTL

(* A waiter that __up() granted the semaphore is runnable: no lost wakeup. *)
THEOREM GrantedRuns == Spec => []GrantIsAwake
  <1>1. IInv => GrantIsAwake
    BY DEF IInv
  <1>2. QED
    BY Invariance, <1>1, PTL

-----------------------------------------------------------------------------
(* Moving one task into or out of a set of tasks changes its size by one. *)
LEMMA CardinalityStep ==
  ASSUME NEW A \in SUBSET Tasks, NEW t \in Tasks
  PROVE  /\ IsFiniteSet(A) /\ Cardinality(A) \in Nat
         /\ t \notin A => Cardinality(A \cup {t}) = Cardinality(A) + 1
         /\ t \in A => Cardinality(A \ {t}) = Cardinality(A) - 1
  BY TasksAssumption, FS_Subset, FS_CardinalityType, FS_AddElement, FS_RemoveElement

(* How each kind of step moves a permit between the count, the holders and *)
(* the granted waiters.                                                    *)
LEMMA PermitStep ==
  ASSUME IInv, PermitsConserved, Next
  PROVE  PermitsConserved'
  <1> USE DEF IInv, TypeOK
  <1>0. /\ Granted \in SUBSET Tasks /\ holders \in SUBSET Tasks
        /\ Cardinality(holders) \in Nat /\ Cardinality(Granted) \in Nat
    <2>1. Granted \in SUBSET Tasks /\ holders \in SUBSET Tasks
      BY DEF Granted
    <2>2. IsFiniteSet(Granted) /\ IsFiniteSet(holders)
      BY <2>1, TasksAssumption, FS_Subset
    <2>3. QED
      BY <2>1, <2>2, FS_CardinalityType
  <1>1. ASSUME UNCHANGED <<count, up_, holders, permits>>
        PROVE  PermitsConserved'
    BY <1>1 DEF PermitsConserved, Granted
  <1>2. ASSUME NEW t \in Tasks, TakeCount(t), t \notin holders
        PROVE  PermitsConserved'
    <2>1. Cardinality(holders') = Cardinality(holders) + 1 /\ Granted' = Granted
      BY <1>0, <1>2, CardinalityStep DEF TakeCount, Granted
    <2>2. QED
      BY <1>0, <1>2, <2>1 DEF TakeCount, PermitsConserved
  <1>3. ASSUME NEW t \in Tasks, NEW s, NEW tm, down_with(t, s, tm)
        PROVE  PermitsConserved'
    BY <1>1, <1>2, <1>3 DEF down_with, Caller, __down_common, down_loop
  <1>4. ASSUME NEW t \in Tasks, down_resumed(t)
        PROVE  PermitsConserved'
    <2>1. CASE up_[t]
      <3>1. t \in Granted /\ t \notin holders
        BY <2>1 DEF Granted, GrantIsAwake
      <3>2. Granted' = Granted \ {t} /\ holders' = holders \cup {t}
        BY <1>4, <2>1 DEF Granted, down_resumed
      <3>3. /\ Cardinality(Granted') = Cardinality(Granted) - 1
            /\ Cardinality(holders') = Cardinality(holders) + 1
        BY <1>0, <3>1, <3>2, CardinalityStep
      <3>4. QED
        BY <1>0, <1>4, <2>1, <3>3 DEF down_resumed, PermitsConserved
    <2>2. CASE ~up_[t]
      BY <1>1, <1>4, <2>2 DEF down_resumed, down_loop
    <2>3. QED
      BY <2>1, <2>2
  <1>5. ASSUME up
        PROVE  count' + Cardinality(Granted') = count + Cardinality(Granted) + 1
    <2>1. CASE list_empty(wait_list) /\ count' = count + 1 /\ UNCHANGED up_
      <3>1. Granted' = Granted
        BY <2>1 DEF Granted
      <3>2. QED
        BY <1>0, <2>1, <3>1
    <2>2. CASE ~list_empty(wait_list) /\ __up
      <3> DEFINE w == list_first_entry(wait_list)
      <3>1. w \in Waiting
        BY <2>2, ListEmpty DEF NoDanglingWaiter
      <3>2. w \in Tasks /\ w \notin Granted
        BY <3>1 DEF Waiting, Granted
      <3>3. up_' = [up_ EXCEPT ![w] = TRUE] /\ count' = count
        BY <2>2 DEF __up
      <3> HIDE DEF w
      <3>4. Granted' = Granted \cup {w}
        BY <3>2, <3>3 DEF Granted
      <3>5. Cardinality(Granted') = Cardinality(Granted) + 1
        BY <1>0, <3>2, <3>4, CardinalityStep
      <3>6. QED
        BY <1>0, <3>3, <3>5
    <2>3. QED
      BY <1>5, <2>1, <2>2 DEF up
  <1>6. ASSUME NEW t \in Tasks, up_holder(t)
        PROVE  PermitsConserved'
    <2>1. Cardinality(holders') = Cardinality(holders) - 1
      BY <1>0, <1>6, CardinalityStep DEF up_holder
    <2>2. count' \in Nat /\ Cardinality(Granted') \in Nat
      <3>1. IInv'
        BY <1>6, NextIInv DEF Next
      <3>2. Granted' \in SUBSET Tasks
        BY DEF Granted
      <3>3. QED
        BY <3>1, <3>2, TasksAssumption, FS_Subset, FS_CardinalityType
    <2>3. QED
      BY <1>0, <1>5, <1>6, <2>1, <2>2 DEF up_holder, PermitsConserved
  <1>7. CASE up_interrupt
    <2>1. count' \in Nat /\ Cardinality(Granted') \in Nat
      <3>1. IInv'
        BY <1>7, NextIInv DEF Next
      <3>2. Granted' \in SUBSET Tasks
        BY DEF Granted
      <3>3. QED
        BY <3>1, <3>2, TasksAssumption, FS_Subset, FS_CardinalityType
    <2>2. QED
      BY <1>0, <1>5, <1>7, <2>1 DEF up_interrupt, PermitsConserved
  <1>8. ASSUME NEW t \in Tasks, Scheduling(t) \/ Signals(t)
        PROVE  PermitsConserved'
    BY <1>1, <1>8 DEF Scheduling, Signals, semVars
  <1>9. QED
    BY <1>3, <1>4, <1>6, <1>7, <1>8, TrylockIsDown DEF Next, down, down_interruptible,
       down_killable, down_timeout

(* Every permit is in the count, with a holder or with a granted waiter,   *)
(* for any number of tasks and any interleaving of up(), timeout and       *)
(* signal.                                                                 *)
THEOREM Conservation == Spec => []PermitsConserved
  <1>1. Init => PermitsConserved
    <2>1. Init => Granted = {} /\ holders = {}
      BY DEF Init, Granted
    <2>2. Init => Cardinality(Granted) = 0 /\ Cardinality(holders) = 0
      BY <2>1, FS_EmptySet, Zenon
    <2>3. QED
      BY <2>2, SemaphoreAssumption DEF Init, PermitsConserved
  <1>2. IInv /\ PermitsConserved /\ [Next]_vars => PermitsConserved'
    BY PermitStep DEF vars, semVars, PermitsConserved, Granted
  <1>3. QED
    BY Invariance, <1>1, <1>2, PTL DEF Spec

(* A waiter that was given the semaphore leaves down_*() holding it: the   *)
(* flag is tested before the signal and the timeout.                       *)
THEOREM NoRefusal == Spec => GrantNeverRefused
  <1>1. TypeOK /\ [Next]_vars =>
          [\A t \in Tasks : up_[t] /\ ~up_'[t] => t \in holders']_vars
    <2> SUFFICES ASSUME TypeOK, Next, NEW t \in Tasks, up_[t], ~up_'[t]
                 PROVE  t \in holders'
      OBVIOUS
    <2>1. ASSUME UNCHANGED up_ PROVE FALSE
      BY <2>1
    <2>2. ASSUME up PROVE FALSE
      BY <2>1, <2>2 DEF up, __up, TypeOK
    <2>3. ASSUME NEW u \in Tasks, NEW s, NEW tm, down_with(u, s, tm) PROVE FALSE
      BY <2>1, <2>3 DEF down_with, TakeCount, __down_common, down_loop
    <2>4. ASSUME NEW u \in Tasks, down_resumed(u) PROVE t \in holders'
      BY <2>1, <2>4 DEF down_resumed, down_loop, TypeOK
    <2>5. ASSUME NEW u \in Tasks, Scheduling(u) \/ Signals(u) PROVE FALSE
      BY <2>1, <2>5 DEF Scheduling, Signals, semVars
    <2>6. QED
      BY <2>2, <2>3, <2>4, <2>5, TrylockIsDown DEF Next, down, down_interruptible,
         down_killable, down_timeout, up_holder, up_interrupt
  <1>2. QED
    BY TypeCorrect, <1>1, PTL DEF Spec, GrantNeverRefused

-----------------------------------------------------------------------------
(***************************************************************************)
(* Completions.                                                            *)
(***************************************************************************)
(* Where the wait queue is, what it holds and what the counter is worth.   *)
QInv == CompletionTypeOK /\ AwakeOnRq /\ NoDanglingEntry /\ DoneIsBalance

(* The inductive invariant. *)
CompletionIInv == QInv /\ EachEventWakes

-----------------------------------------------------------------------------
(* The arithmetic of the unsigned counter: a value in range is itself, and *)
(* adding UINT_MAX takes one off a positive value.                         *)
LEMMA UintValue ==
  /\ \A n \in 0..UINT_MAX : Uint(n) = n
  /\ \A n \in 1..UINT_MAX : Uint(n + UINT_MAX) = n - 1
  BY CompletionAssumption DEF Uint

(* A task that is not TASK_RUNNING has a bit that the wakeups of a         *)
(* completion look for.                                                    *)
LEMMA NormalWakes ==
  ASSUME NEW s \in States
  PROVE  s = TASK_RUNNING <=> s \cap TASK_NORMAL = {}
  BY DEF States, TASK_RUNNING, TASK_NORMAL, TASK_INTERRUPTIBLE, TASK_UNINTERRUPTIBLE,
         TASK_KILLABLE

(* The waiters that are awake. *)
Awake == {t \in InWait : ~Asleep(t)}

(* There are finitely many waiters, awake or not. *)
LEMMA AwakeCount ==
  /\ IsFiniteSet(InWait) /\ IsFiniteSet(Awake) /\ Cardinality(Awake) \in Nat
  /\ \A S \in SUBSET InWait : IsFiniteSet(S) /\ Cardinality(S) \in Nat
  <1>1. InWait \subseteq Tasks /\ Awake \subseteq InWait
    BY DEF InWait, Awake
  <1>2. IsFiniteSet(InWait)
    BY <1>1, TasksAssumption, FS_Subset
  <1>3. \A S \in SUBSET InWait : IsFiniteSet(S) /\ Cardinality(S) \in Nat
    BY <1>2, FS_Subset, FS_CardinalityType
  <1>4. QED
    BY <1>1, <1>2, <1>3

(* A step that puts no waiter to sleep and adds no event keeps as many     *)
(* waiters awake as there are events.                                      *)
LEMMA KeepsAwake ==
  ASSUME QInv, EachEventWakes, done' \in Nat, done' <= done,
         InWait' = InWait, \A t \in InWait : Asleep(t)' => Asleep(t)
  PROVE  EachEventWakes'
  <1>1. Awake \subseteq Awake' /\ Awake' \subseteq InWait
    BY DEF Awake
  <1>2. Cardinality(Awake) <= Cardinality(Awake') /\ IsFiniteSet(Awake')
    BY <1>1, AwakeCount, FS_Subset
  <1>3. Cardinality(Awake') \in Nat /\ Cardinality(Awake) \in Nat
    BY <1>1, AwakeCount
  <1>4. (\E t \in InWait : Asleep(t)) => Cardinality(Awake) >= done
    BY DEF EachEventWakes, Awake
  <1>5. done \in Nat
    BY CompletionAssumption DEF QInv, CompletionTypeOK
  <1>6. (\E t \in InWait' : Asleep(t)') => Cardinality(Awake') >= done'
    BY <1>2, <1>3, <1>4, <1>5
  <1>7. QED
    BY <1>6 DEF EachEventWakes, Awake

(* Without an event the number of waiters awake does not matter. *)
LEMMA NoEvent ==
  ASSUME done' = 0
  PROVE  EachEventWakes'
  <1>1. InWait' \subseteq Tasks /\ Awake' \subseteq Tasks
    BY DEF InWait, Awake
  <1>2. IsFiniteSet(Awake')
    BY <1>1, TasksAssumption, FS_Subset
  <1>3. Cardinality(Awake') \in Nat
    BY <1>2, FS_CardinalityType
  <1>4. QED
    BY <1>3 DEF EachEventWakes, Awake

-----------------------------------------------------------------------------
(* Taking an event: the counter is positive and goes down by one. *)
LEMMA TakeStep ==
  ASSUME QInv, Take
  PROVE  /\ done' = done - 1 /\ done' \in 0..UINT_MAX /\ done' \in Nat /\ taken' \in Nat
         /\ completes' \in 0..MaxCompletes /\ all' \in BOOLEAN
         /\ DoneIsBalance'
  <1>1. done \in 1..UINT_MAX /\ done' = Uint(done + UINT_MAX)
    BY DEF Take, QInv, CompletionTypeOK
  <1>2. done' = done - 1
    BY <1>1, UintValue
  <1>3. /\ done' \in 0..UINT_MAX /\ done' \in Nat /\ taken' \in Nat
        /\ completes' \in 0..MaxCompletes /\ all' \in BOOLEAN
    BY <1>1, <1>2, CompletionAssumption DEF Take, QInv, CompletionTypeOK
  <1>4. DoneIsBalance'
    <2>1. done + taken = done' + taken'
      BY <1>1, <1>2, CompletionAssumption DEF Take, QInv, CompletionTypeOK
    <2>2. QED
      BY <2>1 DEF Take, QInv, DoneIsBalance
  <1>5. QED
    BY <1>2, <1>3, <1>4

(* __remove_wait_queue() and return: the task leaves the queue and the     *)
(* wait together.                                                          *)
LEMMA LeaveStep ==
  ASSUME QInv, NEW t \in Tasks, on_rq[t], NEW q \in Seq(Tasks), LinkedOnce(q),
         Entries(q) = InWait \cup {t}, LeaveWait(t, q), UNCHANGED sig,
         done' \in 0..UINT_MAX, taken' \in Nat, completes' \in 0..MaxCompletes,
         all' \in BOOLEAN, DoneIsBalance'
  PROVE  QInv' /\ InWait' = InWait \ {t}
  <1> USE DEF QInv, LeaveWait
  <1>1. /\ list_del(t, q) \in Seq(Tasks) /\ LinkedOnce(list_del(t, q))
        /\ Entries(list_del(t, q)) = Entries(q) \ {t}
    <2>1. t \in Entries(q)
      OBVIOUS
    <2>2. QED
      BY <2>1, ListDel
  <1>2. CompletionTypeOK'
    BY <1>1 DEF CompletionTypeOK, TaskTypeOK, CompletionLabels, States
  <1>3. InWait' = InWait \ {t}
    BY DEF InWait, CompletionTypeOK, TaskTypeOK
  <1>4. NoDanglingEntry'
    BY <1>1, <1>3 DEF NoDanglingEntry
  <1>5. AwakeOnRq'
    BY DEF AwakeOnRq, CompletionTypeOK, TaskTypeOK
  <1>6. QED
    BY <1>2, <1>3, <1>4, <1>5

(* A turn of the loop of do_wait_for_common() without an event: leave on a *)
(* signal, or sleep on the queue.                                          *)
LEMMA WaitLoopStep ==
  ASSUME QInv, NEW t \in Tasks, on_rq[t], NEW q \in Seq(Tasks), LinkedOnce(q),
         Entries(q) = InWait \cup {t}, NEW s \in States,
         NEW tm \in {"none", "armed", "expired"}, wait_loop(t, q, s, tm)
  PROVE  CompletionIInv'
  <1> USE DEF wait_loop
  <1>0. EachEventWakes'
    BY NoEvent
  <1>1. /\ done' \in 0..UINT_MAX /\ taken' \in Nat /\ completes' \in 0..MaxCompletes
        /\ all' \in BOOLEAN /\ DoneIsBalance'
    BY DEF QInv, CompletionTypeOK, DoneIsBalance
  <1>2. CASE LeaveWait(t, q)
    BY <1>0, <1>1, <1>2, LeaveStep DEF CompletionIInv
  <1>3. CASE SleepInWait(t, q, s, tm)
    <2> USE <1>3 DEF SleepInWait, set_task_state, QInv
    <2>1. CompletionTypeOK'
      BY <1>1 DEF CompletionTypeOK, TaskTypeOK, CompletionLabels
    <2>2. InWait' = InWait \cup {t}
      BY DEF InWait, CompletionTypeOK, TaskTypeOK
    <2>3. NoDanglingEntry'
      BY <2>2 DEF NoDanglingEntry
    <2>4. AwakeOnRq'
      BY DEF AwakeOnRq, CompletionTypeOK, TaskTypeOK
    <2>5. QED
      BY <1>0, <1>1, <2>1, <2>3, <2>4 DEF CompletionIInv
  <1>4. QED
    BY <1>2, <1>3

(* The entry of do_wait_for_common(): take an event, or queue up.          *)
LEMMA DoWaitStep ==
  ASSUME CompletionIInv, NEW t \in Tasks, NEW s \in States,
         NEW tm \in {"none", "armed", "expired"}, do_wait_for_common(t, s, tm)
  PROVE  CompletionIInv'
  <1> USE DEF CompletionIInv
  <1>1. CASE Take /\ UNCHANGED <<taskVars, task_list, wait_mode>>
    <2> USE <1>1, TakeStep DEF taskVars
    <2>1. CompletionTypeOK'
      BY DEF QInv, CompletionTypeOK, TaskTypeOK
    <2>2. NoDanglingEntry' /\ AwakeOnRq' /\ DoneIsBalance'
      BY DEF QInv, NoDanglingEntry, AwakeOnRq, InWait
    <2>3. InWait' = InWait /\ \A u \in InWait : Asleep(u)' => Asleep(u)
      BY DEF InWait, Asleep
    <2>4. done' <= done
      BY CompletionAssumption DEF QInv, CompletionTypeOK
    <2>5. EachEventWakes'
      BY <2>3, <2>4, KeepsAwake
    <2>6. QED
      BY <2>1, <2>2, <2>5 DEF QInv
  <1>2. CASE wait_loop(t, list_add_tail(t, task_list), s, tm)
    <2> DEFINE q == list_add_tail(t, task_list)
    <2>1. t \notin InWait /\ on_rq[t] /\ task_list \in Seq(Tasks) /\ LinkedOnce(task_list)
      BY DEF do_wait_for_common, InWait, QInv, AwakeOnRq, CompletionTypeOK, NoDanglingEntry
    <2>2. q \in Seq(Tasks) /\ LinkedOnce(q) /\ Entries(q) = InWait \cup {t}
      BY <2>1, ListAddTail DEF QInv, NoDanglingEntry
    <2>3. wait_loop(t, q, s, tm)
      BY <1>2
    <2> HIDE DEF q
    <2>4. QED
      BY <2>1, <2>2, <2>3, WaitLoopStep
  <1>3. QED
    BY <1>1, <1>2 DEF do_wait_for_common

(* Back from schedule_timeout(): an event is taken by the waiter that      *)
(* leaves, so one waiter awake goes with one event.                        *)
LEMMA CompletionResumedStep ==
  ASSUME CompletionIInv, NEW t \in Tasks, wait_resumed(t)
  PROVE  CompletionIInv'
  <1> USE DEF CompletionIInv
  <1>0. /\ t \in InWait /\ ~Asleep(t) /\ on_rq[t] /\ task_list \in Seq(Tasks)
        /\ LinkedOnce(task_list) /\ Entries(task_list) = InWait \cup {t}
        /\ wait_mode[t] \in States /\ timer[t] \in {"none", "armed", "expired"}
    BY DEF wait_resumed, InWait, Asleep, QInv, AwakeOnRq, CompletionTypeOK, TaskTypeOK, NoDanglingEntry
  <1>1. CASE Take /\ LeaveWait(t, task_list) /\ UNCHANGED sig
    <2>1. QInv' /\ InWait' = InWait \ {t}
      BY <1>0, <1>1, TakeStep, LeaveStep
    <2>2. \A u \in InWait' : Asleep(u)' <=> Asleep(u)
      BY <1>1, <2>1 DEF LeaveWait, Asleep, InWait, QInv, CompletionTypeOK, TaskTypeOK
    <2>3. t \in Awake /\ Awake' = Awake \ {t}
      BY <1>0, <2>1, <2>2 DEF Awake
    <2>4. Cardinality(Awake') = Cardinality(Awake) - 1
      BY <2>3, AwakeCount, FS_RemoveElement
    <2>5. done' = done - 1 /\ done \in Nat /\ done' \in Nat
      BY <1>1, TakeStep, CompletionAssumption DEF QInv, CompletionTypeOK
    <2>6. (\E u \in InWait : Asleep(u)) => Cardinality(Awake) >= done
      BY DEF EachEventWakes, Awake
    <2>7. (\E u \in InWait' : Asleep(u)') => (\E u \in InWait : Asleep(u))
      BY <2>1, <2>2
    <2>8. (\E u \in InWait' : Asleep(u)') => Cardinality(Awake') >= done'
      BY <2>4, <2>5, <2>6, <2>7, AwakeCount
    <2>9. EachEventWakes'
      BY <2>8 DEF EachEventWakes, Awake
    <2>10. QED
      BY <2>1, <2>9
  <1>2. CASE /\ done = 0 /\ timer[t] = "expired" /\ LeaveWait(t, task_list)
             /\ UNCHANGED <<sig, done, completes, all, taken>>
    <2>1. /\ done' \in 0..UINT_MAX /\ taken' \in Nat /\ completes' \in 0..MaxCompletes
          /\ all' \in BOOLEAN /\ DoneIsBalance'
      BY <1>2 DEF QInv, CompletionTypeOK, DoneIsBalance
    <2>2. QInv'
      BY <1>0, <1>2, <2>1, LeaveStep
    <2>3. QED
      BY <1>2, <2>2, NoEvent
  <1>3. CASE wait_loop(t, task_list, wait_mode[t], timer[t])
    BY <1>0, <1>3, WaitLoopStep
  <1>4. QED
    BY <1>1, <1>2, <1>3 DEF wait_resumed

-----------------------------------------------------------------------------
(* A wakeup of any set of tasks moves nobody on or off the queue and puts  *)
(* nobody to sleep.                                                        *)
LEMMA WakeStep ==
  ASSUME QInv, NEW W, NEW mask, try_to_wake_up(W, mask), UNCHANGED <<pc, task_list, wait_mode>>,
         sig' \in [Tasks -> {"none", "plain", "fatal"}],
         timer' \in [Tasks -> {"none", "armed", "expired"}],
         done' \in 0..UINT_MAX, taken' \in Nat, completes' \in 0..MaxCompletes,
         all' \in BOOLEAN, DoneIsBalance'
  PROVE  /\ QInv' /\ InWait' = InWait
         /\ \A u \in InWait : Asleep(u)' => Asleep(u)
  <1> USE DEF QInv, try_to_wake_up
  <1>1. CompletionTypeOK'
    BY DEF CompletionTypeOK, TaskTypeOK, States
  <1>2. InWait' = InWait
    BY DEF InWait
  <1>3. NoDanglingEntry'
    BY <1>2 DEF NoDanglingEntry
  <1>4. AwakeOnRq'
    BY DEF AwakeOnRq, CompletionTypeOK, TaskTypeOK
  <1>5. \A u \in InWait : Asleep(u)' => Asleep(u)
    BY DEF Asleep, InWait, CompletionTypeOK, TaskTypeOK
  <1>6. QED
    BY <1>1, <1>2, <1>3, <1>4, <1>5

(* complete(): the walk stops at the first waiter that really slept, which *)
(* is then one more waiter awake; if nobody really slept, nobody is left   *)
(* asleep.                                                                 *)
LEMMA CompleteStep ==
  ASSUME CompletionIInv, complete
  PROVE  CompletionIInv'
  <1> USE DEF CompletionIInv
  <1>1. /\ done \in Nat /\ completes \in Nat /\ taken \in Nat /\ UINT_MAX \in Nat
        /\ done + 1 <= UINT_MAX
    <2>1. done \in Nat /\ completes \in 0..MaxCompletes /\ taken \in Nat /\ UINT_MAX \in Nat
      BY CompletionAssumption DEF QInv, CompletionTypeOK
    <2>2. done + taken = completes + (IF all THEN UINT_MAX \div 2 ELSE 0)
      BY DEF QInv, DoneIsBalance
    <2>3. UINT_MAX \div 2 \in Nat /\ MaxCompletes \in Nat
          /\ MaxCompletes + UINT_MAX \div 2 <= UINT_MAX
      BY CompletionAssumption
    <2>4. completes + 1 <= MaxCompletes
      BY <2>1, <2>3 DEF complete
    <2> DEFINE half == UINT_MAX \div 2
    <2> HIDE DEF half
    <2>5. half \in Nat /\ MaxCompletes + half <= UINT_MAX
          /\ done + taken = completes + (IF all THEN half ELSE 0)
      BY <2>2, <2>3 DEF half
    <2>6. QED
      BY <2>1, <2>3, <2>4, <2>5
  <1>2. done' = done + 1
    BY <1>1, UintValue DEF complete
  <1>3. /\ done' \in 0..UINT_MAX /\ taken' \in Nat /\ completes' \in 0..MaxCompletes
        /\ all' \in BOOLEAN
    BY <1>1, <1>2, CompletionAssumption DEF complete, QInv, CompletionTypeOK
  <1>4. DoneIsBalance'
    <2>1. done' + taken' = (done + taken) + 1
      BY <1>1, <1>2 DEF complete
    <2>2. completes' = completes + 1 /\ all' = all
      BY DEF complete
    <2>3. (IF all THEN UINT_MAX \div 2 ELSE 0) \in Nat
      BY CompletionAssumption
    <2>4. QED
      BY <1>1, <2>1, <2>2, <2>3 DEF QInv, DoneIsBalance
  <1>5. try_to_wake_up(Walked(1), TASK_NORMAL)
    BY DEF complete, __wake_up_common
  <1>6. /\ QInv' /\ InWait' = InWait
        /\ \A u \in InWait : Asleep(u)' => Asleep(u)
    BY <1>3, <1>4, <1>5, WakeStep DEF complete, QInv, CompletionTypeOK, TaskTypeOK
  <1>7. ASSUME NEW u \in InWait, Asleep(u)'
        PROVE  Cardinality(Awake') >= done'
    <2> DEFINE Hits == {i \in 1..Len(task_list) : ttwu_success(task_list[i], TASK_NORMAL)}
    <2>1. /\ Len(task_list) \in Nat
          /\ \A i \in 1..Len(task_list) : task_list[i] \in InWait
          /\ \A w \in InWait : w \in Tasks /\ \E i \in 1..Len(task_list) : task_list[i] = w
      BY DEF QInv, CompletionTypeOK, NoDanglingEntry, Entries, InWait
    <2>2. ASSUME NEW w \in InWait, w \in Walked(1), WakesUp(w, TASK_NORMAL)
          PROVE  ~Asleep(w)'
      BY <1>5, <2>1, <2>2 DEF try_to_wake_up, Asleep
    <2>3. Asleep(u) /\ WakesUp(u, TASK_NORMAL)
      <3>1. Asleep(u)
        BY <1>6, <1>7
      <3>2. QED
        BY <2>1, <3>1, NormalWakes DEF QInv, CompletionTypeOK, TaskTypeOK, WakesUp, Asleep
    <2>4. Hits # {}
      <3>1. PICK i \in 1..Len(task_list) : task_list[i] = u
        BY <2>1
      <3>2. i \notin {j \in 1..Len(task_list) :
                \A k \in 1..(j - 1) : ~ttwu_success(task_list[k], TASK_NORMAL)}
        BY <1>7, <2>2, <2>3, <3>1 DEF Walked
      <3>3. PICK k \in 1..(i - 1) : ttwu_success(task_list[k], TASK_NORMAL)
        BY <3>2
      <3>4. k \in 1..Len(task_list)
        BY <2>1, <3>1, <3>3
      <3>5. QED
        BY <3>3, <3>4
    <2>5. PICK k \in Hits : \A j \in Hits : k <= j
      <3>1. Hits \in SUBSET Nat
        BY <2>1
      <3> HIDE DEF Hits
      <3>2. QED
        BY <2>4, <3>1, Least
    <2> DEFINE w == task_list[k]
    <2>6. w \in InWait /\ WakesUp(w, TASK_NORMAL) /\ ~on_rq[w]
      BY <2>1, <2>5 DEF ttwu_success
    <2>7. w \in Walked(1)
      <3>1. \A j \in 1..(k - 1) : j \in 1..Len(task_list) /\ ~(k <= j)
        BY <2>1
      <3>2. \A j \in 1..(k - 1) : ~ttwu_success(task_list[j], TASK_NORMAL)
        BY <2>5, <3>1
      <3>3. QED
        BY <3>2 DEF Walked
    <2> HIDE DEF w, Hits
    <2>8. w \notin Awake /\ w \in Awake'
      <3>1. Asleep(w)
        BY <2>1, <2>6 DEF QInv, AwakeOnRq, Asleep
      <3>2. QED
        BY <1>6, <2>2, <2>6, <2>7, <3>1 DEF Awake
    <2>9. Awake \cup {w} \subseteq Awake' /\ Awake' \subseteq InWait
      BY <1>6, <2>8 DEF Awake
    <2>10. Cardinality(Awake \cup {w}) = Cardinality(Awake) + 1
      BY <2>8, AwakeCount, FS_AddElement
    <2>11. /\ Cardinality(Awake \cup {w}) <= Cardinality(Awake')
           /\ Cardinality(Awake') \in Nat
      BY <2>9, AwakeCount, FS_Subset
    <2>12. Cardinality(Awake) >= done
      BY <2>3 DEF EachEventWakes, Awake
    <2>13. QED
      BY <1>1, <1>2, <2>10, <2>11, <2>12, AwakeCount
  <1>8. EachEventWakes'
    BY <1>6, <1>7 DEF EachEventWakes, Awake
  <1>9. QED
    BY <1>6, <1>8

(* complete_all(): the walk goes to the end and leaves nobody asleep. *)
LEMMA CompleteAllStep ==
  ASSUME CompletionIInv, complete_all
  PROVE  CompletionIInv'
  <1> USE DEF CompletionIInv
  <1> DEFINE half == UINT_MAX \div 2
  <1>1. /\ half \in Nat /\ done \in Nat /\ completes \in Nat /\ taken \in Nat
        /\ UINT_MAX \in Nat /\ done + half <= UINT_MAX
    <2>1. done \in Nat /\ completes \in 0..MaxCompletes /\ taken \in Nat /\ UINT_MAX \in Nat
      BY CompletionAssumption DEF QInv, CompletionTypeOK
    <2>2. done + taken = completes
      BY <2>1 DEF QInv, DoneIsBalance, complete_all
    <2>3. half \in Nat /\ MaxCompletes \in Nat /\ MaxCompletes + half <= UINT_MAX
      BY CompletionAssumption
    <2> HIDE DEF half
    <2>4. QED
      BY <2>1, <2>2, <2>3
  <1>2. done' = done + half
    <2>1. done' = Uint(done + half)
      BY DEF complete_all
    <2> HIDE DEF half
    <2>2. QED
      BY <1>1, <2>1, UintValue
  <1>3. /\ done' \in 0..UINT_MAX /\ taken' \in Nat /\ completes' \in 0..MaxCompletes
        /\ all' \in BOOLEAN
    BY <1>1, <1>2 DEF complete_all, QInv, CompletionTypeOK
  <1>4. DoneIsBalance'
    <2>1. done + taken = completes
      BY <1>1 DEF QInv, DoneIsBalance, complete_all
    <2>2. completes' = completes /\ taken' = taken /\ all'
      BY DEF complete_all
    <2>3. done' + taken' = completes' + half
      BY <1>1, <1>2, <2>1, <2>2
    <2>4. QED
      BY <2>2, <2>3 DEF DoneIsBalance
  <1>5. try_to_wake_up(Walked(0), TASK_NORMAL)
    BY DEF complete_all, __wake_up_common
  <1>6. QInv' /\ InWait' = InWait
    BY <1>3, <1>4, <1>5, WakeStep DEF complete_all, QInv, CompletionTypeOK, TaskTypeOK
  <1>7. ASSUME NEW u \in InWait
        PROVE  ~Asleep(u)'
    <2>1. u \in Tasks /\ u \in Walked(0)
      BY DEF Walked, QInv, NoDanglingEntry, Entries, InWait
    <2>2. state[u] = TASK_RUNNING \/ WakesUp(u, TASK_NORMAL)
      BY <2>1, NormalWakes DEF QInv, CompletionTypeOK, TaskTypeOK, WakesUp
    <2>3. QED
      BY <1>5, <2>1, <2>2 DEF try_to_wake_up, Asleep
  <1>8. EachEventWakes'
    BY <1>6, <1>7 DEF EachEventWakes
  <1>9. QED
    BY <1>6, <1>8

(* INIT_COMPLETION() finds nobody waiting. *)
LEMMA ReinitStep ==
  ASSUME CompletionIInv, INIT_COMPLETION
  PROVE  CompletionIInv'
  <1> USE DEF CompletionIInv, INIT_COMPLETION, taskVars
  <1>0. 0 \in 0..UINT_MAX /\ 0 \in 0..MaxCompletes
    BY CompletionAssumption
  <1>1. CompletionTypeOK'
    BY <1>0 DEF QInv, CompletionTypeOK, TaskTypeOK
  <1>2. NoDanglingEntry' /\ AwakeOnRq' /\ InWait' = InWait
    BY DEF QInv, NoDanglingEntry, AwakeOnRq, InWait
  <1>3. DoneIsBalance'
    BY DEF DoneIsBalance
  <1>4. QED
    BY <1>1, <1>2, <1>3, NoEvent DEF QInv

(* The scheduler, the timer and the signal code. *)
LEMMA CompletionEnvStep ==
  ASSUME CompletionIInv, NEW t \in Tasks, CompletionScheduling(t) \/ Timers(t) \/ CompletionSignals(t)
  PROVE  CompletionIInv'
  <1> USE DEF CompletionIInv, compVars
  <1>1. UNCHANGED compVars
    BY DEF CompletionScheduling, Timers, CompletionSignals
  <1>2. /\ done' \in 0..UINT_MAX /\ taken' \in Nat /\ completes' \in 0..MaxCompletes
        /\ all' \in BOOLEAN /\ DoneIsBalance' /\ done' \in Nat /\ done' <= done
    BY <1>1, CompletionAssumption DEF QInv, CompletionTypeOK, DoneIsBalance
  <1>3. CASE deactivate_task(t)
    <2> USE <1>1, <1>3 DEF deactivate_task
    <2>1. CompletionTypeOK'
      BY DEF QInv, CompletionTypeOK, TaskTypeOK
    <2>2. NoDanglingEntry' /\ AwakeOnRq' /\ InWait' = InWait
      BY DEF QInv, NoDanglingEntry, AwakeOnRq, InWait, CompletionTypeOK, TaskTypeOK
    <2>3. \A u \in InWait : Asleep(u)' => Asleep(u)
      BY DEF Asleep
    <2>4. QED
      BY <1>2, <2>1, <2>2, <2>3, KeepsAwake DEF QInv
  <1>4. CASE schedule_returns(t)
    <2> USE <1>1, <1>4 DEF schedule_returns
    <2>1. CompletionTypeOK'
      BY DEF QInv, CompletionTypeOK, TaskTypeOK, CompletionLabels, States
    <2>2. InWait' = InWait
      BY DEF QInv, InWait, CompletionTypeOK, TaskTypeOK
    <2>3. NoDanglingEntry' /\ AwakeOnRq'
      BY <2>2 DEF QInv, NoDanglingEntry, AwakeOnRq, CompletionTypeOK, TaskTypeOK
    <2>4. \A u \in InWait : Asleep(u)' => Asleep(u)
      BY DEF Asleep, InWait, QInv, CompletionTypeOK, TaskTypeOK
    <2>5. QED
      BY <1>2, <2>1, <2>2, <2>3, <2>4, KeepsAwake DEF QInv
  <1>5. ASSUME NEW mask, try_to_wake_up({t}, mask), UNCHANGED pc,
               sig' \in [Tasks -> {"none", "plain", "fatal"}],
               timer' \in [Tasks -> {"none", "armed", "expired"}]
        PROVE  CompletionIInv'
    <2>1. /\ QInv' /\ InWait' = InWait
          /\ \A u \in InWait : Asleep(u)' => Asleep(u)
      BY <1>1, <1>2, <1>5, WakeStep
    <2>2. QED
      BY <1>2, <2>1, KeepsAwake
  <1>6. CASE process_timeout(t)
    <2>1. try_to_wake_up({t}, TASK_NORMAL) /\ UNCHANGED <<pc, sig>>
      BY <1>6 DEF process_timeout, wake_up_process
    <2>2. timer' \in [Tasks -> {"none", "armed", "expired"}]
      BY <1>6 DEF process_timeout, QInv, CompletionTypeOK, TaskTypeOK
    <2>3. QED
      BY <1>5, <2>1, <2>2 DEF QInv, CompletionTypeOK, TaskTypeOK
  <1>7. ASSUME NEW kind \in SignalKinds, signal_wake_up(t, kind)
        PROVE  CompletionIInv'
    <2>1. PICK mask : try_to_wake_up({t}, mask)
      BY <1>7 DEF signal_wake_up
    <2>2. sig' \in [Tasks -> {"none", "plain", "fatal"}] /\ UNCHANGED <<pc, timer>>
      BY <1>7, CompletionAssumption DEF signal_wake_up, QInv, CompletionTypeOK, TaskTypeOK
    <2>3. QED
      BY <1>5, <2>1, <2>2 DEF QInv, CompletionTypeOK, TaskTypeOK
  <1>8. CASE do_signal(t)
    <2> USE <1>1, <1>8 DEF do_signal
    <2>1. CompletionTypeOK'
      BY DEF QInv, CompletionTypeOK, TaskTypeOK, CompletionLabels
    <2>2. InWait' = InWait
      BY DEF QInv, InWait, CompletionTypeOK, TaskTypeOK
    <2>3. NoDanglingEntry' /\ AwakeOnRq'
      BY <2>2 DEF QInv, NoDanglingEntry, AwakeOnRq, CompletionTypeOK, TaskTypeOK
    <2>4. \A u \in InWait : Asleep(u)' => Asleep(u)
      BY DEF Asleep, InWait, QInv, CompletionTypeOK, TaskTypeOK
    <2>5. QED
      BY <1>2, <2>1, <2>2, <2>3, <2>4, KeepsAwake DEF QInv
  <1>9. QED
    BY <1>3, <1>4, <1>6, <1>7, <1>8 DEF CompletionScheduling, schedule, Timers, CompletionSignals

-----------------------------------------------------------------------------
(* A fresh completion satisfies the invariant. *)
LEMMA CompletionInitIInv == CompletionInit => CompletionIInv
  <1> SUFFICES ASSUME CompletionInit PROVE CompletionIInv
    OBVIOUS
  <1> USE DEF CompletionInit, TaskInit
  <1>0. 0 \in 0..UINT_MAX /\ 0 \in 0..MaxCompletes
    BY CompletionAssumption
  <1>1. CompletionTypeOK
    <2>1. TaskTypeOK(CompletionLabels)
      BY DEF TaskTypeOK, CompletionLabels, States
    <2>2. wait_mode \in [Tasks -> States] /\ task_list \in Seq(Tasks) /\ taken \in Nat
      BY DEF States
    <2>3. all \in BOOLEAN
      OBVIOUS
    <2>4. QED
      BY <1>0, <2>1, <2>2, <2>3 DEF CompletionTypeOK
  <1>2. InWait = {}
    BY DEF InWait
  <1>3. NoDanglingEntry /\ AwakeOnRq /\ DoneIsBalance /\ EachEventWakes
    BY <1>2 DEF NoDanglingEntry, LinkedOnce, Entries, AwakeOnRq, DoneIsBalance, EachEventWakes
  <1>4. QED
    BY <1>1, <1>3 DEF CompletionIInv, QInv

(* Every step preserves the invariant. *)
LEMMA CompletionNextIInv == CompletionIInv /\ [CompletionNext]_completionVars => CompletionIInv'
  <1> SUFFICES ASSUME CompletionIInv, [CompletionNext]_completionVars PROVE CompletionIInv'
    OBVIOUS
  <1>1. ASSUME NEW t \in Tasks, Calls(t)
        PROVE  CompletionIInv'
    <2>1. try_wait_for_completion(t) =>
            do_wait_for_common(t, TASK_UNINTERRUPTIBLE, "none")
      BY DEF try_wait_for_completion, do_wait_for_common
    <2>2. \E s \in States, tm \in {"none", "armed", "expired"} : do_wait_for_common(t, s, tm)
      BY <1>1, <2>1 DEF Calls, wait_for_completion, wait_for_completion_timeout,
         wait_for_completion_interruptible, wait_for_completion_interruptible_timeout,
         wait_for_completion_killable, wait_for_completion_killable_timeout, States
    <2>3. QED
      BY <2>2, DoWaitStep
  <1>2. ASSUME NEW t \in Tasks, wait_resumed(t)
        PROVE  CompletionIInv'
    BY <1>2, CompletionResumedStep
  <1>3. ASSUME NEW t \in Tasks, CompletionScheduling(t) \/ Timers(t) \/ CompletionSignals(t)
        PROVE  CompletionIInv'
    BY <1>3, CompletionEnvStep
  <1>4. CASE complete \/ complete_all \/ INIT_COMPLETION
    BY <1>4, CompleteStep, CompleteAllStep, ReinitStep
  <1>5. CASE UNCHANGED completionVars
    BY <1>5 DEF completionVars, taskVars, compVars, CompletionIInv, QInv, CompletionTypeOK, TaskTypeOK, AwakeOnRq,
       NoDanglingEntry, DoneIsBalance, EachEventWakes, InWait, Asleep
  <1>6. QED
    BY <1>1, <1>2, <1>3, <1>4, <1>5 DEF CompletionNext

(* The inductive invariant holds in every reachable state. *)
THEOREM CompletionInvariance == CompletionSpec => []CompletionIInv
  BY CompletionInitIInv, CompletionNextIInv, PTL DEF CompletionSpec

(* Every variable keeps its type: x->done never wraps, neither below zero  *)
(* in a wait nor over UINT_MAX in complete() or complete_all().            *)
THEOREM CompletionTypeCorrect == CompletionSpec => []CompletionTypeOK
  <1>1. CompletionIInv => CompletionTypeOK
    BY DEF CompletionIInv, QInv
  <1>2. QED
    BY CompletionInvariance, <1>1, PTL

(* x->done is the completions less the successful waits: no event is lost  *)
(* or taken twice, whatever timeouts and signals race with complete().     *)
THEOREM Balance == CompletionSpec => []DoneIsBalance
  <1>1. CompletionIInv => DoneIsBalance
    BY DEF CompletionIInv, QInv
  <1>2. QED
    BY CompletionInvariance, <1>1, PTL

(* The queue holds exactly the tasks inside do_wait_for_common(), so no    *)
(* on-stack wait_queue_t outlives its frame.                               *)
THEOREM QueueIsWaiters == CompletionSpec => []NoDanglingEntry
  <1>1. CompletionIInv => NoDanglingEntry
    BY DEF CompletionIInv, QInv
  <1>2. QED
    BY CompletionInvariance, <1>1, PTL

(* Never fewer waiters awake than events while somebody still sleeps: the  *)
(* one wakeup of complete() is enough, and a wakeup by a signal or a       *)
(* timeout that crosses it is not counted in its place.                    *)
THEOREM EventsWake == CompletionSpec => []EachEventWakes
  <1>1. CompletionIInv => EachEventWakes
    BY DEF CompletionIInv
  <1>2. QED
    BY CompletionInvariance, <1>1, PTL

=============================================================================
