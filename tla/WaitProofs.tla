----------------------------- MODULE WaitProofs -----------------------------
(***************************************************************************)
(* The safety properties of the wait queues, for every set of tasks: of    *)
(* wait_event() (WaitEvent) and of the page lock (PageLock), which share   *)
(* the steps of module WaitQueue and so one inductive invariant about the  *)
(* queue, WQInv.                                                           *)
(*                                                                         *)
(* The walk of a waker is not atomic, and what it relies on is that nobody *)
(* queues, removes an entry or returns past an entry that is still linked  *)
(* while it holds the lock.  On top of that, wait_event() needs that the   *)
(* exclusive waiters are queued behind the others, and the page lock that  *)
(* a locker that was woken and is killed has really been taken off the     *)
(* queue, and passes the wakeup on.                                        *)
(***************************************************************************)
EXTENDS WaitEvent, PageLock, KListProofs

(* The labels of the tasks in a wait function, in either user. *)
InsideLabels(L) ==
  /\ {"prep", "test", "schedule", "resumed", "finish", "finish_del", "abort"} \subseteq L
  /\ L \cap (WalkLabels \cup {"idle", "owner", "dead", "wake_check", "wake"}) = {}

(* Only a task inside schedule() that is not TASK_RUNNING can be off the   *)
(* run queue.                                                              *)
AwakeOnRq ==
  \A t \in Tasks : state[t] = TASK_RUNNING \/ pc[t] # "schedule" => on_rq[t]

(* The walker has the lock. *)
WalkerLocks == \A w \in Tasks : pc[w] \in WalkLabels <=> wq_lock = w

(* The queue is the entries whose pointers say so, and their tasks have    *)
(* not returned; an entry half out is the one the walker is removing.      *)
QueueLinked(L) ==
  /\ LinkedOnce(task_list)
  /\ Entries(task_list) = {t \in Tasks : link[t] = "in"}
  /\ \A t \in Tasks : link[t] # "out" => pc[t] \in L
  /\ \A t \in Tasks : link[t] = "half" =>
       /\ wq_lock \in Tasks /\ pc[wq_lock] = "walk_del2"
       /\ rest # <<>> /\ rest[1] = t

(* A task on its way to sleep, or asleep, is queued. *)
SleepersQueued ==
  \A t \in Tasks : pc[t] \in {"test", "schedule"} /\ state[t] # TASK_RUNNING => link[t] = "in"

(* Exclusive entries are behind all the others. *)
ExclusiveLast(x, q) ==
  \A i, j \in 1..Len(q) : i < j /\ x[q[i]] => x[q[j]]

(* The entries still to visit are queued; the one just woken is awake.     *)
WalkQueued ==
  \A w \in Tasks :
    /\ pc[w] \in WalkLabels => LinkedOnce(rest) /\ ExclusiveLast(excl, rest)
    /\ pc[w] \in {"walk", "walk_del"} => Entries(rest) \subseteq Entries(task_list)
    /\ pc[w] \in {"walk_del", "walk_del2"} =>
         /\ rest # <<>> /\ state[rest[1]] = TASK_RUNNING /\ flags = excl[rest[1]]
    /\ pc[w] = "walk_del2" =>
         link[rest[1]] = "half" /\ Entries(Tail(rest)) \subseteq Entries(task_list)

WQInv(L) ==
  /\ AwakeOnRq /\ WalkerLocks /\ QueueLinked(L) /\ SleepersQueued /\ WalkQueued
  /\ ExclusiveLast(excl, task_list)

-----------------------------------------------------------------------------
(* The types of the variables all waiting primitives share. *)
Types(Labs) == TaskTypeOK(Labs) /\ WaitQueueTypeOK

(* Queueing an exclusive entry at the tail or another one at the head, and *)
(* taking entries off, keeps the exclusive ones last.                      *)
LEMMA OrderKept ==
  ASSUME NEW q \in Seq(Tasks), NEW x, ExclusiveLast(x, q)
  PROVE  /\ \A e \in Tasks : x[e] => ExclusiveLast(x, list_add_tail(e, q))
         /\ \A e \in Tasks : ~x[e] => ExclusiveLast(x, list_add(e, q))
         /\ \A e \in Entries(q) : ExclusiveLast(x, list_del(e, q))
         /\ q # <<>> => ExclusiveLast(x, Tail(q))
  <1>1. ASSUME NEW e \in Tasks, x[e]
        PROVE  ExclusiveLast(x, list_add_tail(e, q))
    <2> DEFINE r == list_add_tail(e, q)
    <2>1. /\ Len(q) \in Nat /\ Len(r) = Len(q) + 1 /\ r[Len(q) + 1] = e
          /\ \A i \in 1..Len(q) : r[i] = q[i]
      BY DEF list_add_tail
    <2> HIDE DEF r
    <2>2. ASSUME NEW i \in 1..Len(r), NEW j \in 1..Len(r), i < j, x[r[i]]
          PROVE  x[r[j]]
      <3>1. CASE j = Len(q) + 1
        BY <1>1, <2>1, <3>1
      <3>2. CASE j # Len(q) + 1
        <4>1. i \in 1..Len(q) /\ j \in 1..Len(q)
          BY <2>1, <2>2, <3>2
        <4>2. QED
          BY <2>1, <2>2, <4>1 DEF ExclusiveLast
      <3>3. QED
        BY <3>1, <3>2
    <2>3. QED
      BY <2>2 DEF ExclusiveLast, r
  <1>2. ASSUME NEW e \in Tasks, ~x[e]
        PROVE  ExclusiveLast(x, list_add(e, q))
    <2>0. PICK r \in Seq(Tasks) : /\ r = list_add(e, q)
                                  /\ Len(r) = Len(q) + 1 /\ r[1] = e
                                  /\ \A i \in 1..Len(q) : r[i + 1] = q[i]
      BY ListAddAt
    <2>1. /\ Len(q) \in Nat /\ Len(r) = Len(q) + 1 /\ r[1] = e
          /\ \A i \in 1..Len(q) : r[i + 1] = q[i]
      BY <2>0
    <2>2. ASSUME NEW i \in 1..Len(r), NEW j \in 1..Len(r), i < j, x[r[i]]
          PROVE  x[r[j]]
      <3>1. i # 1
        BY <1>2, <2>1, <2>2
      <3>2. PICK m \in 1..Len(q), n \in 1..Len(q) : i = m + 1 /\ j = n + 1
        <4>1. i - 1 \in 1..Len(q) /\ j - 1 \in 1..Len(q) /\ i = (i - 1) + 1 /\ j = (j - 1) + 1
          BY <2>1, <2>2, <3>1
        <4>2. QED
          BY <4>1
      <3>3. m < n /\ r[i] = q[m] /\ r[j] = q[n]
        BY <2>1, <2>2, <3>2
      <3>4. QED
        BY <2>2, <3>3 DEF ExclusiveLast
    <2>3. QED
      BY <2>0, <2>2 DEF ExclusiveLast
  <1>3. ASSUME NEW e \in Entries(q)
        PROVE  ExclusiveLast(x, list_del(e, q))
    <2>1. ASSUME NEW i \in 1..Len(list_del(e, q)), NEW j \in 1..Len(list_del(e, q)),
                 i < j, x[list_del(e, q)[i]]
          PROVE  x[list_del(e, q)[j]]
      <3>1. PICK m \in 1..Len(q), n \in 1..Len(q) :
               m < n /\ list_del(e, q)[i] = q[m] /\ list_del(e, q)[j] = q[n]
        BY <2>1, ListDelOrder
      <3>2. QED
        BY <2>1, <3>1 DEF ExclusiveLast
    <2>2. QED
      BY <2>1 DEF ExclusiveLast
  <1>4. ASSUME q # <<>>
        PROVE  ExclusiveLast(x, Tail(q))
    <2>1. /\ Len(q) \in Nat /\ Len(Tail(q)) = Len(q) - 1
          /\ \A i \in 1..Len(Tail(q)) : Tail(q)[i] = q[i + 1] /\ i + 1 \in 1..Len(q)
      BY <1>4
    <2>2. QED
      BY <2>1 DEF ExclusiveLast
  <1>5. QED
    BY <1>1, <1>2, <1>3, <1>4

(* The entries a walker still has to visit or is removing are not out. *)
LEMMA RestNotOut ==
  ASSUME NEW L, WQInv(L), WaitQueueTypeOK, NEW w \in Tasks, pc[w] \in WalkLabels
  PROVE  \A i \in 1..Len(rest) : rest[i] \in Tasks /\ link[rest[i]] # "out"
  <1> SUFFICES ASSUME NEW i \in 1..Len(rest)
               PROVE  rest[i] \in Tasks /\ link[rest[i]] # "out"
    OBVIOUS
  <1>1. rest \in Seq(Tasks) /\ rest[i] \in Entries(rest) /\ rest[i] \in Tasks
    BY DEF WaitQueueTypeOK, Entries
  <1>2. CASE pc[w] \in {"walk", "walk_del"}
    BY <1>1, <1>2 DEF WQInv, WalkQueued, QueueLinked
  <1>3. CASE pc[w] = "walk_del2"
    <2>1. /\ link[rest[1]] = "half" /\ Entries(Tail(rest)) \subseteq Entries(task_list)
          /\ rest # <<>> /\ LinkedOnce(rest)
      BY <1>3 DEF WQInv, WalkQueued, WalkLabels
    <2>2. Head(rest) = rest[1] /\ Entries(Tail(rest)) = Entries(rest) \ {rest[1]}
      BY <1>1, <2>1, HeadTail
    <2>3. CASE rest[i] = rest[1]
      BY <1>1, <2>1, <2>3
    <2>4. CASE rest[i] # rest[1]
      BY <1>1, <2>1, <2>2, <2>4 DEF WQInv, QueueLinked
    <2>5. QED
      BY <2>3, <2>4
  <1>4. QED
    BY <1>2, <1>3 DEF WalkLabels

(* What WQInv(L) says of the stacks: the queue holds, and the walker       *)
(* stores to, only entries of tasks that are still in their wait function. *)
LEMMA QueueSafe ==
  ASSUME NEW L, WQInv(L), WaitQueueTypeOK
  PROVE  StackSafe({t \in Tasks : pc[t] \in L})
  <1>1. /\ LinkedOnce(task_list) /\ Entries(task_list) = {t \in Tasks : link[t] = "in"}
        /\ \A t \in Tasks : link[t] # "out" => pc[t] \in L
    BY DEF WQInv, QueueLinked
  <1>2. ASSUME NEW w \in Tasks, pc[w] \in {"walk_del", "walk_del2"}
        PROVE  rest[1] \in {t \in Tasks : pc[t] \in L}
    <2>1. rest # <<>> /\ rest \in Seq(Tasks) /\ pc[w] \in WalkLabels
      BY <1>2 DEF WaitQueueTypeOK, WQInv, WalkQueued, WalkLabels
    <2>2. rest[1] \in Tasks /\ link[rest[1]] # "out"
      BY <2>1, RestNotOut
    <2>3. QED
      BY <1>1, <2>2
  <1>3. QED
    BY <1>1, <1>2 DEF StackSafe

(* A step that leaves the queue and the walk alone, starts and ends no     *)
(* walk, puts nobody into a sleeping state and lets nobody whose entry is  *)
(* linked return.                                                          *)
LEMMA QueueAlone ==
  ASSUME NEW L, WQInv(L), WaitQueueTypeOK,
         UNCHANGED <<task_list, wq_lock, link, walkVars>>,
         \A u \in Tasks : pc'[u] # pc[u] => pc[u] \notin WalkLabels /\ pc'[u] \notin WalkLabels,
         \A u \in Tasks : link[u] # "out" => pc'[u] \in L /\ excl'[u] = excl[u],
         \A u \in Tasks : state'[u] \in {state[u], TASK_RUNNING},
         \A u \in Tasks : pc'[u] \in {"test", "schedule"} /\ state'[u] # TASK_RUNNING
                           => pc[u] \in {"test", "schedule"},
         AwakeOnRq'
  PROVE  WQInv(L)'
  <1> USE DEF walkVars
  <1>1. \A w \in Tasks : pc'[w] \in WalkLabels \/ pc[w] \in WalkLabels => pc'[w] = pc[w]
    OBVIOUS
  <1>2. WalkerLocks'
    BY <1>1 DEF WQInv, WalkerLocks
  <1>3. QueueLinked(L)'
    <2>1. \A t \in Tasks : link[t] = "half" => pc'[wq_lock] = "walk_del2" /\ wq_lock \in Tasks
      BY <1>1 DEF WQInv, QueueLinked, WalkLabels
    <2>2. QED
      BY <2>1 DEF WQInv, QueueLinked
  <1>4. SleepersQueued'
    BY DEF WQInv, SleepersQueued
  <1>5. ExclusiveLast(excl', task_list')
    <2>1. \A i \in 1..Len(task_list) : task_list[i] \in Tasks /\ link[task_list[i]] = "in"
      BY DEF WQInv, QueueLinked, Entries, WaitQueueTypeOK
    <2>2. QED
      BY <2>1 DEF WQInv, ExclusiveLast
  <1>6. WalkQueued'
    <2> SUFFICES ASSUME NEW w \in Tasks, pc'[w] \in WalkLabels
                 PROVE  /\ LinkedOnce(rest) /\ ExclusiveLast(excl', rest)
                        /\ pc[w] \in {"walk", "walk_del"} =>
                             Entries(rest) \subseteq Entries(task_list)
                        /\ pc[w] \in {"walk_del", "walk_del2"} =>
                             /\ rest # <<>> /\ state'[rest[1]] = TASK_RUNNING
                             /\ flags = excl'[rest[1]]
                        /\ pc[w] = "walk_del2" =>
                             /\ link[rest[1]] = "half"
                             /\ Entries(Tail(rest)) \subseteq Entries(task_list)
      BY <1>1 DEF WalkQueued, WalkLabels
    <2>1. pc[w] \in WalkLabels
      BY <1>1
    <2>2. \A i \in 1..Len(rest) : rest[i] \in Tasks /\ link[rest[i]] # "out"
      BY <2>1, RestNotOut
    <2>3. ExclusiveLast(excl', rest)
      BY <2>1, <2>2 DEF WQInv, WalkQueued, ExclusiveLast
    <2>4. rest # <<>> => 1 \in 1..Len(rest)
      BY DEF WaitQueueTypeOK
    <2>5. rest # <<>> => state'[rest[1]] \in {state[rest[1]], TASK_RUNNING}
                         /\ excl'[rest[1]] = excl[rest[1]]
      BY <2>2, <2>4
    <2>6. QED
      BY <2>1, <2>3, <2>5 DEF WQInv, WalkQueued
  <1>7. QED
    BY <1>2, <1>3, <1>4, <1>5, <1>6 DEF WQInv

(* While nobody has the lock, nobody walks and no entry is half out. *)
LEMMA FreeLock ==
  ASSUME NEW L, WQInv(L), WaitQueueTypeOK, wq_lock = NoTask
  PROVE  /\ \A w \in Tasks : pc[w] \notin WalkLabels
         /\ \A u \in Tasks : link[u] = "in" \/ link[u] = "out"
  <1>1. \A w \in Tasks : pc[w] \notin WalkLabels
    BY WaitQueueAssumption DEF WQInv, WalkerLocks
  <1>2. \A u \in Tasks : link[u] # "half"
    BY WaitQueueAssumption DEF WQInv, QueueLinked
  <1>3. QED
    BY <1>1, <1>2 DEF WaitQueueTypeOK

(* prepare_to_wait(): whether its entry was still queued or not, the task  *)
(* is queued once, on its side of the exclusive entries.                   *)
LEMMA PrepareStep ==
  ASSUME NEW L, InsideLabels(L), NEW Labs, Types(Labs), WQInv(L), NEW t \in Tasks,
         NEW s \in States, Goto(t, "prep", "test"), prepare_to_wait(t, s)
  PROVE  WaitQueueTypeOK' /\ WQInv(L)'
  <1> USE DEF Goto, prepare_to_wait, set_task_state, walkVars
  <1>1. /\ \A w \in Tasks : pc[w] \notin WalkLabels
        /\ \A u \in Tasks : link[u] = "in" \/ link[u] = "out"
    BY FreeLock DEF Types
  <1>2. \A w \in Tasks : pc'[w] \notin WalkLabels
    BY <1>1 DEF Types, TaskTypeOK, WalkLabels
  <1>3. /\ task_list \in Seq(Tasks) /\ LinkedOnce(task_list)
        /\ \A u \in Tasks : u \in Entries(task_list) <=> link[u] = "in"
        /\ Entries(task_list) \subseteq Tasks
    BY DEF Types, WaitQueueTypeOK, WQInv, QueueLinked
  <1>4. /\ task_list' \in Seq(Tasks) /\ LinkedOnce(task_list')
        /\ Entries(task_list') = Entries(task_list) \cup {t}
        /\ ExclusiveLast(excl', task_list')
    <2>1. ExclusiveLast(excl, task_list)
      BY DEF WQInv
    <2>2. CASE link[t] # "out"
      BY <1>1, <1>3, <2>1, <2>2 DEF ExclusiveLast
    <2>3. CASE link[t] = "out" /\ excl[t]
      <3>1. task_list' = list_add_tail(t, task_list) /\ t \notin Entries(task_list)
        BY <1>3, <2>3
      <3>2. ExclusiveLast(excl, list_add_tail(t, task_list))
        BY <1>3, <2>1, <2>3, OrderKept
      <3>3. QED
        BY <1>3, <3>1, <3>2, ListAddTail
    <2>4. CASE link[t] = "out" /\ ~excl[t]
      <3>1. task_list' = list_add(t, task_list) /\ t \notin Entries(task_list)
        BY <1>3, <2>4
      <3>2. ExclusiveLast(excl, list_add(t, task_list))
        BY <1>3, <2>1, <2>4, OrderKept
      <3>3. /\ list_add(t, task_list) \in Seq(Tasks) /\ LinkedOnce(list_add(t, task_list))
            /\ Entries(list_add(t, task_list)) = Entries(task_list) \cup {t}
        BY <1>3, <3>1, ListAdd
      <3>4. QED
        BY <3>1, <3>2, <3>3
    <2>5. QED
      BY <2>2, <2>3, <2>4
  <1>5. WaitQueueTypeOK'
    BY <1>4 DEF Types, WaitQueueTypeOK
  <1>6. AwakeOnRq' /\ SleepersQueued'
    BY DEF WQInv, AwakeOnRq, SleepersQueued, Types, TaskTypeOK, WaitQueueTypeOK
  <1>7. WalkerLocks' /\ WalkQueued'
    BY <1>2, WaitQueueAssumption DEF WalkerLocks, WalkQueued, WalkLabels
  <1>8. QueueLinked(L)'
    <2>1. \A u \in Tasks : link'[u] # "half" /\ (link'[u] = "in" <=> u = t \/ link[u] = "in")
      BY <1>1 DEF Types, WaitQueueTypeOK
    <2>2. Entries(task_list)' = {u \in Tasks : link'[u] = "in"}
      BY <1>3, <1>4, <2>1
    <2>3. \A u \in Tasks : link'[u] # "out" => pc'[u] \in L
      BY <1>1, <2>1 DEF Types, TaskTypeOK, WaitQueueTypeOK, WQInv, QueueLinked, InsideLabels
    <2>4. QED
      BY <1>4, <2>1, <2>2, <2>3 DEF QueueLinked
  <1>9. QED
    BY <1>4, <1>5, <1>6, <1>7, <1>8 DEF WQInv

(* A task that has the lock to itself takes its entry off the queue and    *)
(* goes on, awake: finish_wait() and abort_exclusive_wait().               *)
LEMMA UnlinkStep ==
  ASSUME NEW L, NEW Labs, Types(Labs), WQInv(L), NEW t \in Tasks,
         wq_lock = NoTask, Unlink(t), UNCHANGED <<wq_lock, excl, walkVars>>,
         NEW to, to \notin WalkLabels \cup {"test", "schedule"}, pc' = [pc EXCEPT ![t] = to],
         \A u \in Tasks : state'[u] \in {state[u], TASK_RUNNING}, AwakeOnRq'
  PROVE  WaitQueueTypeOK' /\ WQInv(L)'
  <1> USE DEF Unlink, walkVars
  <1>1. /\ \A w \in Tasks : pc[w] \notin WalkLabels
        /\ \A u \in Tasks : link[u] = "in" \/ link[u] = "out"
    BY FreeLock DEF Types
  <1>2. \A w \in Tasks : pc'[w] \notin WalkLabels
    BY <1>1 DEF Types, TaskTypeOK
  <1>3. /\ task_list \in Seq(Tasks) /\ LinkedOnce(task_list)
        /\ \A u \in Tasks : u \in Entries(task_list) <=> link[u] = "in"
        /\ Entries(task_list) \subseteq Tasks /\ ExclusiveLast(excl, task_list)
    BY DEF Types, WaitQueueTypeOK, WQInv, QueueLinked
  <1>4. /\ task_list' \in Seq(Tasks) /\ LinkedOnce(task_list')
        /\ Entries(task_list') = Entries(task_list) \ {t}
        /\ ExclusiveLast(excl', task_list')
    <2>1. CASE t \notin Entries(task_list)
      BY <1>3, <2>1
    <2>2. CASE t \in Entries(task_list)
      <3>1. ExclusiveLast(excl, list_del(t, task_list))
        BY <1>3, <2>2, OrderKept
      <3>2. QED
        BY <1>3, <2>2, <3>1, ListDel
    <2>3. QED
      BY <2>1, <2>2
  <1>5. WaitQueueTypeOK'
    BY <1>4 DEF Types, WaitQueueTypeOK
  <1>6. SleepersQueued'
    BY DEF WQInv, SleepersQueued, Types, TaskTypeOK, WaitQueueTypeOK
  <1>7. WalkerLocks' /\ WalkQueued'
    BY <1>2, WaitQueueAssumption DEF WalkerLocks, WalkQueued, WalkLabels
  <1>8. QueueLinked(L)'
    <2>1. \A u \in Tasks : link'[u] # "half" /\ (link'[u] = "in" <=> u # t /\ link[u] = "in")
      BY <1>1 DEF Types, WaitQueueTypeOK
    <2>2. Entries(task_list)' = {u \in Tasks : link'[u] = "in"}
      BY <1>3, <1>4, <2>1
    <2>3. \A u \in Tasks : link'[u] # "out" => u # t /\ link[u] # "out"
      BY <1>1, <2>1 DEF Types, WaitQueueTypeOK
    <2>4. \A u \in Tasks : link'[u] # "out" => pc'[u] \in L
      BY <2>3 DEF Types, TaskTypeOK, WQInv, QueueLinked
    <2>5. QED
      BY <1>4, <2>1, <2>2, <2>4 DEF QueueLinked
  <1>9. QED
    BY <1>4, <1>5, <1>6, <1>7, <1>8 DEF WQInv

(* A task takes the lock and starts a walk of the whole queue. *)
LEMMA StartWalkStep ==
  ASSUME NEW L, NEW Labs, Types(Labs), WQInv(L), NEW t \in Tasks,
         wq_lock = NoTask, link[t] = "out",
         NEW m \in SUBSET (TASK_NORMAL \cup TASK_KILLABLE), NEW n \in Int, StartWalk(t, m, n),
         UNCHANGED <<task_list, link, excl, flags>>,
         \A u \in Tasks : state'[u] \in {state[u], TASK_RUNNING}, AwakeOnRq'
  PROVE  WaitQueueTypeOK' /\ WQInv(L)'
  <1> USE DEF StartWalk
  <1>1. /\ \A w \in Tasks : pc[w] \notin WalkLabels
        /\ \A u \in Tasks : link[u] = "in" \/ link[u] = "out"
    BY FreeLock DEF Types
  <1>2. \A w \in Tasks : (pc'[w] \in WalkLabels <=> w = t) /\ pc'[t] = "walk"
    BY <1>1 DEF Types, TaskTypeOK, WalkLabels
  <1>3. WaitQueueTypeOK'
    BY DEF Types, WaitQueueTypeOK
  <1>4. WalkerLocks'
    BY <1>2, WaitQueueAssumption DEF WalkerLocks
  <1>5. QueueLinked(L)'
    <2>1. \A u \in Tasks : link[u] # "out" => pc'[u] = pc[u]
      BY DEF Types, TaskTypeOK
    <2>2. QED
      BY <1>1, <2>1 DEF WQInv, QueueLinked
  <1>6. SleepersQueued'
    BY DEF WQInv, SleepersQueued, Types, TaskTypeOK
  <1>7. WalkQueued'
    BY <1>2 DEF WQInv, WalkQueued, QueueLinked, WalkLabels
  <1>8. QED
    BY <1>3, <1>4, <1>5, <1>6, <1>7 DEF WQInv

(* The walk ends, after its last entry is off the queue. *)
LEMMA EndWalkStep ==
  ASSUME NEW L, InsideLabels(L), NEW Labs, Types(Labs), WQInv(L), NEW t \in Tasks, EndWalk(t),
         \/ pc[t] = "walk" /\ link' = link
         \/ pc[t] = "walk_del2" /\ link' = [link EXCEPT ![rest[1]] = "out"],
         UNCHANGED <<task_list, excl, state, on_rq>>
  PROVE  WaitQueueTypeOK' /\ WQInv(L)'
  <1> USE DEF EndWalk
  <1>1. wq_lock = t /\ \A w \in Tasks : pc[w] \in WalkLabels => w = t
    BY DEF WQInv, WalkerLocks, WalkLabels
  <1>2. \A w \in Tasks : pc'[w] \notin WalkLabels
    BY <1>1 DEF Types, TaskTypeOK, WalkLabels
  <1>3. \A u \in Tasks : pc'[u] = pc[u] \/ pc'[u] = "idle"
    BY DEF Types, TaskTypeOK
  <1>4. pc[t] = "walk_del2" => rest # <<>> /\ rest[1] \in Tasks /\ link[rest[1]] = "half"
    BY DEF WQInv, WalkQueued, Types, WaitQueueTypeOK
  <1>5. \A u \in Tasks : /\ link'[u] # "half" /\ (link'[u] = "in" <=> link[u] = "in")
                         /\ (link'[u] # "out" => link[u] # "out")
    <2>1. \A u \in Tasks : link[u] = "half" => pc[t] = "walk_del2" /\ rest[1] = u
      BY <1>1 DEF WQInv, QueueLinked
    <2>2. CASE pc[t] = "walk"
      BY <2>1, <2>2
    <2>3. CASE pc[t] = "walk_del2"
      <3>1. link' = [link EXCEPT ![rest[1]] = "out"]
        BY <2>3
      <3>2. QED
        BY <1>4, <2>1, <2>3, <3>1 DEF Types, WaitQueueTypeOK
    <2>4. QED
      BY <2>2, <2>3
  <1>6. WaitQueueTypeOK'
    <2>1. link' \in [Tasks -> {"in", "half", "out"}]
      BY DEF Types, WaitQueueTypeOK
    <2>2. rest' \in Seq(Tasks) /\ nr' \in Int /\ mask' \subseteq TASK_NORMAL \cup TASK_KILLABLE
      OBVIOUS
    <2>3. flags' \in BOOLEAN /\ wq_lock' \in Tasks \cup {NoTask}
      OBVIOUS
    <2>4. QED
      BY <2>1, <2>2, <2>3 DEF Types, WaitQueueTypeOK
  <1>7. AwakeOnRq' /\ SleepersQueued'
    BY <1>3, <1>5 DEF WQInv, AwakeOnRq, SleepersQueued
  <1>8. WalkerLocks' /\ WalkQueued'
    BY <1>2, WaitQueueAssumption DEF WalkerLocks, WalkQueued, WalkLabels
  <1>9. QueueLinked(L)'
    <2>1. \A u \in Tasks : link[u] # "out" => pc[u] \in L
      BY DEF WQInv, QueueLinked
    <2>2. link[t] = "out"
      BY <2>1 DEF InsideLabels, WalkLabels
    <2>3. QED
      BY <1>5, <2>2 DEF WQInv, QueueLinked, Types, TaskTypeOK
  <1>10. QED
    BY <1>6, <1>7, <1>8, <1>9 DEF WQInv

(* try_to_wake_up() leaves every task it touches runnable and running. *)
LEMMA WakeupStep ==
  ASSUME NEW Labs, TaskTypeOK(Labs), AwakeOnRq, NEW W, NEW m, try_to_wake_up(W, m)
  PROVE  /\ state' \in [Tasks -> States] /\ on_rq' \in [Tasks -> BOOLEAN]
         /\ \A u \in Tasks : state'[u] \in {state[u], TASK_RUNNING}
         /\ \A u \in Tasks : state'[u] # state[u] => u \in W
         /\ \A u \in Tasks : state'[u] = TASK_RUNNING \/ pc[u] # "schedule" => on_rq'[u]
         /\ \A u \in W \cap Tasks : state[u] \cap m # {} => state'[u] = TASK_RUNNING
  BY DEF try_to_wake_up, WakesUp, TaskTypeOK, AwakeOnRq, States

(* The walker skips an entry, or wakes its task without counting it. *)
LEMMA SkipStep ==
  ASSUME NEW L, NEW Labs, Types(Labs), WQInv(L), NEW t \in Tasks,
         pc[t] = "walk", rest # <<>>, rest' = Tail(rest),
         UNCHANGED <<pc, wq_lock, nr, mask, flags, task_list, link, excl>>,
         \A u \in Tasks : state'[u] \in {state[u], TASK_RUNNING}, AwakeOnRq'
  PROVE  WaitQueueTypeOK' /\ WQInv(L)'
  <1>1. rest \in Seq(Tasks) /\ LinkedOnce(rest) /\ ExclusiveLast(excl, rest)
        /\ Entries(rest) \subseteq Entries(task_list)
    BY DEF Types, WaitQueueTypeOK, WQInv, WalkQueued, WalkLabels
  <1>2. /\ Tail(rest) \in Seq(Tasks) /\ LinkedOnce(Tail(rest))
        /\ Entries(Tail(rest)) \subseteq Entries(task_list)
    BY <1>1, HeadTail
  <1>3. ExclusiveLast(excl, Tail(rest))
    BY <1>1, OrderKept
  <1>4. \A w \in Tasks : pc[w] \in WalkLabels => pc[w] = "walk" /\ wq_lock = t
    BY DEF WQInv, WalkerLocks, WalkLabels
  <1>5. WaitQueueTypeOK'
    BY <1>2 DEF Types, WaitQueueTypeOK
  <1>6. WalkerLocks' /\ SleepersQueued'
    BY DEF WQInv, WalkerLocks, SleepersQueued
  <1>7. QueueLinked(L)'
    <2>1. \A u \in Tasks : link[u] # "half"
      BY <1>4 DEF WQInv, QueueLinked, WalkLabels
    <2>2. QED
      BY <2>1 DEF WQInv, QueueLinked
  <1>8. WalkQueued'
    <2>1. \A w \in Tasks : pc[w] \notin {"walk_del", "walk_del2"}
      BY <1>4 DEF WalkLabels
    <2>2. QED
      BY <1>2, <1>3, <2>1 DEF WalkQueued, WalkLabels
  <1>9. QED
    BY <1>5, <1>6, <1>7, <1>8 DEF WQInv

(* The walker has woken a task that slept, and goes to remove its entry. *)
LEMMA HitStep ==
  ASSUME NEW L, InsideLabels(L), NEW Labs, Types(Labs), WQInv(L), NEW t \in Tasks,
         pc[t] = "walk", rest # <<>>, pc' = [pc EXCEPT ![t] = "walk_del"],
         flags' = excl[rest[1]],
         UNCHANGED <<rest, wq_lock, nr, mask, task_list, link, excl>>,
         \A u \in Tasks : state'[u] \in {state[u], TASK_RUNNING},
         state'[rest[1]] = TASK_RUNNING, AwakeOnRq'
  PROVE  WaitQueueTypeOK' /\ WQInv(L)'
  <1>1. rest \in Seq(Tasks) /\ rest[1] \in Tasks
    BY DEF Types, WaitQueueTypeOK
  <1>2. /\ LinkedOnce(rest) /\ ExclusiveLast(excl, rest)
        /\ Entries(rest) \subseteq Entries(task_list)
    BY DEF WQInv, WalkQueued, WalkLabels
  <1>3. wq_lock = t /\ \A w \in Tasks : pc[w] \in WalkLabels => w = t
    BY DEF WQInv, WalkerLocks, WalkLabels
  <1>4. \A w \in Tasks : /\ pc'[w] \in WalkLabels <=> w = t
                         /\ w # t => pc'[w] = pc[w]
                         /\ pc'[t] = "walk_del"
    BY <1>3 DEF Types, TaskTypeOK, WalkLabels
  <1>5. WaitQueueTypeOK'
    <2>1. flags' \in BOOLEAN
      BY <1>1 DEF Types, WaitQueueTypeOK
    <2>2. QED
      BY <2>1 DEF Types, WaitQueueTypeOK
  <1>6. WalkerLocks'
    BY <1>3, <1>4, WaitQueueAssumption DEF WalkerLocks
  <1>7. QueueLinked(L)'
    <2>1. \A u \in Tasks : link[u] # "half"
      BY <1>3 DEF WQInv, QueueLinked
    <2>2. link[t] = "out"
      BY DEF WQInv, QueueLinked, InsideLabels, WalkLabels
    <2>3. QED
      BY <1>4, <2>1, <2>2 DEF WQInv, QueueLinked
  <1>8. SleepersQueued'
    BY <1>4 DEF WQInv, SleepersQueued
  <1>9. WalkQueued'
    BY <1>2, <1>4 DEF WalkQueued, WalkLabels
  <1>10. QED
    BY <1>5, <1>6, <1>7, <1>8, <1>9 DEF WQInv

(* autoremove_wake_function(), first store: the entry leaves the queue. *)
LEMMA DelStep ==
  ASSUME NEW L, InsideLabels(L), NEW Labs, Types(Labs), WQInv(L), NEW t \in Tasks, walk_del(t)
  PROVE  WaitQueueTypeOK' /\ WQInv(L)'
  <1> USE DEF walk_del, Goto, walkVars
  <1>1. /\ rest \in Seq(Tasks) /\ rest # <<>> /\ rest[1] \in Tasks /\ LinkedOnce(rest)
        /\ ExclusiveLast(excl, rest) /\ Entries(rest) \subseteq Entries(task_list)
        /\ state[rest[1]] = TASK_RUNNING /\ flags = excl[rest[1]]
    BY DEF WQInv, WalkQueued, WalkLabels, Types, WaitQueueTypeOK
  <1>2. /\ rest[1] \in Entries(rest) /\ Entries(Tail(rest)) = Entries(rest) \ {rest[1]}
    BY <1>1, HeadTail
  <1>3. wq_lock = t /\ \A w \in Tasks : pc[w] \in WalkLabels => w = t
    BY DEF WQInv, WalkerLocks, WalkLabels
  <1>4. \A w \in Tasks : /\ pc'[w] \in WalkLabels <=> w = t
                         /\ w # t => pc'[w] = pc[w]
                         /\ pc'[t] = "walk_del2"
    BY <1>3 DEF Types, TaskTypeOK, WalkLabels
  <1>5. /\ task_list \in Seq(Tasks) /\ LinkedOnce(task_list)
        /\ \A u \in Tasks : u \in Entries(task_list) <=> link[u] = "in"
        /\ Entries(task_list) \subseteq Tasks /\ ExclusiveLast(excl, task_list)
    BY DEF Types, WaitQueueTypeOK, WQInv, QueueLinked
  <1>6. rest[1] \in Entries(task_list)
    BY <1>1, <1>2
  <1>7. /\ task_list' \in Seq(Tasks) /\ LinkedOnce(task_list')
        /\ Entries(task_list') = Entries(task_list) \ {rest[1]}
    BY <1>5, <1>6, ListDel
  <1>8. ExclusiveLast(excl', task_list')
    BY <1>5, <1>6, OrderKept
  <1>9. WaitQueueTypeOK'
    <2>1. link' \in [Tasks -> {"in", "half", "out"}]
      BY DEF Types, WaitQueueTypeOK
    <2>2. QED
      BY <1>7, <2>1 DEF Types, WaitQueueTypeOK
  <1>10. \A u \in Tasks : /\ u # rest[1] => link'[u] = link[u]
                          /\ link'[rest[1]] = "half" /\ link[rest[1]] = "in"
    BY <1>1, <1>5, <1>6 DEF Types, WaitQueueTypeOK
  <1>11. AwakeOnRq' /\ WalkerLocks' /\ SleepersQueued'
    <2>1. AwakeOnRq'
      BY <1>4 DEF WQInv, AwakeOnRq
    <2>2. WalkerLocks'
      BY <1>3, <1>4, WaitQueueAssumption DEF WalkerLocks
    <2>3. SleepersQueued'
      BY <1>1, <1>4, <1>10 DEF WQInv, SleepersQueued
    <2>4. QED
      BY <2>1, <2>2, <2>3
  <1>12. QueueLinked(L)'
    <2>1. \A u \in Tasks : link[u] # "half"
      BY <1>3 DEF WQInv, QueueLinked
    <2>2. \A u \in Tasks : link[u] # "out" => pc[u] \in L /\ u # t
      BY DEF WQInv, QueueLinked, InsideLabels, WalkLabels
    <2>3. Entries(task_list') = {u \in Tasks : link'[u] = "in"}
      BY <1>5, <1>7, <1>10
    <2>4. QED
      BY <1>1, <1>3, <1>4, <1>7, <1>10, <2>1, <2>2, <2>3 DEF QueueLinked
  <1>13. WalkQueued'
    BY <1>1, <1>2, <1>4, <1>7, <1>10 DEF WalkQueued, WalkLabels
  <1>14. QED
    BY <1>8, <1>9, <1>11, <1>12, <1>13 DEF WQInv

(* Second store: the entry is out, and the walk goes on or ends. *)
LEMMA Del2Step ==
  ASSUME NEW L, InsideLabels(L), NEW Labs, Types(Labs), WQInv(L), NEW t \in Tasks, walk_del2(t)
  PROVE  WaitQueueTypeOK' /\ WQInv(L)'
  <1>1. CASE EndWalk(t)
    BY <1>1, EndWalkStep DEF walk_del2
  <1>2. CASE ~EndWalk(t)
    <2>1. /\ pc[t] = "walk_del2" /\ link' = [link EXCEPT ![rest[1]] = "out"]
          /\ pc' = [pc EXCEPT ![t] = "walk"] /\ rest' = Tail(rest)
          /\ UNCHANGED <<wq_lock, flags, mask, state, on_rq, task_list, excl>>
      BY <1>2 DEF walk_del2
    <2>2. nr' \in Int
      BY <1>2 DEF walk_del2, Types, WaitQueueTypeOK
    <2>3. /\ rest \in Seq(Tasks) /\ rest # <<>> /\ rest[1] \in Tasks /\ LinkedOnce(rest)
          /\ ExclusiveLast(excl, rest) /\ Entries(Tail(rest)) \subseteq Entries(task_list)
          /\ link[rest[1]] = "half"
      BY <2>1 DEF WQInv, WalkQueued, WalkLabels, Types, WaitQueueTypeOK
    <2>4. Tail(rest) \in Seq(Tasks) /\ LinkedOnce(Tail(rest))
      BY <2>3, HeadTail
    <2>5. ExclusiveLast(excl, Tail(rest))
      BY <2>3, OrderKept
    <2>6. wq_lock = t /\ \A w \in Tasks : pc[w] \in WalkLabels => w = t
      BY <2>1 DEF WQInv, WalkerLocks, WalkLabels
    <2>7. \A w \in Tasks : /\ pc'[w] \in WalkLabels <=> w = t
                           /\ w # t => pc'[w] = pc[w]
                           /\ pc'[t] = "walk"
      BY <2>1, <2>6 DEF Types, TaskTypeOK, WalkLabels
    <2>8. \A u \in Tasks : /\ link'[u] # "half" /\ (link'[u] = "in" <=> link[u] = "in")
                           /\ (link'[u] # "out" => link[u] # "out")
      <3>1. \A u \in Tasks : link[u] = "half" => rest[1] = u
        BY DEF WQInv, QueueLinked
      <3>2. QED
        BY <2>1, <2>3, <3>1 DEF Types, WaitQueueTypeOK
    <2>9. WaitQueueTypeOK'
      <3>1. link' \in [Tasks -> {"in", "half", "out"}]
        BY <2>1 DEF Types, WaitQueueTypeOK
      <3>2. QED
        BY <2>1, <2>2, <2>4, <3>1 DEF Types, WaitQueueTypeOK
    <2>10. AwakeOnRq' /\ SleepersQueued'
      BY <2>1, <2>7, <2>8 DEF WQInv, AwakeOnRq, SleepersQueued
    <2>11. WalkerLocks'
      BY <2>1, <2>6, <2>7, WaitQueueAssumption DEF WalkerLocks
    <2>12. QueueLinked(L)'
      <3>1. \A u \in Tasks : link[u] # "out" => pc[u] \in L /\ u # t
        BY <2>1 DEF WQInv, QueueLinked, InsideLabels, WalkLabels
      <3>2. QED
        BY <2>1, <2>7, <2>8, <3>1 DEF WQInv, QueueLinked
    <2>13. WalkQueued'
      BY <2>1, <2>3, <2>4, <2>5, <2>7 DEF WalkQueued, WalkLabels
    <2>14. ExclusiveLast(excl', task_list')
      BY <2>1 DEF WQInv
    <2>15. QED
      BY <2>9, <2>10, <2>11, <2>12, <2>13, <2>14 DEF WQInv
  <1>3. QED
    BY <1>1, <1>2

(* __wake_up_common() at its next entry: the walk is over, or the entry's  *)
(* task is awake afterwards if the wakeup was for it.                      *)
LEMMA VisitStep ==
  ASSUME NEW L, InsideLabels(L), NEW Labs, Types(Labs), WQInv(L), NEW t \in Tasks,
         NEW runs \in BOOLEAN, walk_visit(t, runs)
  PROVE  /\ WaitQueueTypeOK' /\ WQInv(L)'
         /\ state' \in [Tasks -> States] /\ on_rq' \in [Tasks -> BOOLEAN]
         /\ \A u \in Tasks : state'[u] \in {state[u], TASK_RUNNING}
         /\ UNCHANGED <<sig, timer, task_list, link, excl>> /\ pc[t] = "walk"
         /\ \/ rest = <<>> /\ EndWalk(t)
            \/ /\ rest # <<>> /\ UNCHANGED <<nr, mask>>
               /\ runs /\ state[rest[1]] \cap mask # {} => state'[rest[1]] = TASK_RUNNING
               /\ \/ pc' = pc /\ rest' = Tail(rest)
                  \/ pc' = [pc EXCEPT ![t] = "walk_del"] /\ rest' = rest
  <1>1. rest \in Seq(Tasks) /\ (rest # <<>> => rest[1] \in Tasks)
    BY DEF Types, WaitQueueTypeOK
  <1>2. UNCHANGED <<sig, timer, task_list, link, excl>> /\ pc[t] = "walk"
    BY DEF walk_visit
  <1>3. CASE rest = <<>> /\ EndWalk(t) /\ UNCHANGED <<state, on_rq>>
    BY <1>2, <1>3, EndWalkStep DEF Types, TaskTypeOK
  <1>4. CASE /\ rest # <<>> /\ ~runs /\ rest' = Tail(rest)
             /\ UNCHANGED <<pc, state, on_rq, wq_lock, flags, nr, mask>>
    <2>1. AwakeOnRq'
      BY <1>4 DEF WQInv, AwakeOnRq
    <2>2. WaitQueueTypeOK' /\ WQInv(L)'
      BY <1>2, <1>4, <2>1, SkipStep
    <2>3. QED
      BY <1>2, <1>4, <2>2 DEF Types, TaskTypeOK
  <1>5. CASE /\ rest # <<>> /\ runs /\ try_to_wake_up({rest[1]}, mask)
             /\ UNCHANGED <<wq_lock, nr, mask>>
             /\ IF ttwu_success(rest[1], mask)
                  THEN /\ pc' = [pc EXCEPT ![t] = "walk_del"]
                       /\ flags' = excl[rest[1]]
                       /\ UNCHANGED rest
                  ELSE rest' = Tail(rest) /\ UNCHANGED <<pc, flags>>
    <2>1. /\ state' \in [Tasks -> States] /\ on_rq' \in [Tasks -> BOOLEAN]
          /\ \A u \in Tasks : state'[u] \in {state[u], TASK_RUNNING}
          /\ \A u \in Tasks : state'[u] = TASK_RUNNING \/ pc[u] # "schedule" => on_rq'[u]
          /\ state[rest[1]] \cap mask # {} => state'[rest[1]] = TASK_RUNNING
      BY <1>1, <1>5, WakeupStep DEF Types, WQInv
    <2>2. CASE ttwu_success(rest[1], mask)
      <3>1. /\ pc' = [pc EXCEPT ![t] = "walk_del"] /\ flags' = excl[rest[1]] /\ rest' = rest
            /\ state'[rest[1]] = TASK_RUNNING
        BY <1>5, <2>1, <2>2 DEF ttwu_success, WakesUp
      <3>2. AwakeOnRq'
        BY <1>2, <2>1, <3>1 DEF AwakeOnRq, Types, TaskTypeOK
      <3>3. WaitQueueTypeOK' /\ WQInv(L)'
        BY <1>2, <1>5, <2>1, <3>1, <3>2, HitStep
      <3>4. QED
        BY <1>2, <1>5, <2>1, <3>1, <3>3
    <2>3. CASE ~ttwu_success(rest[1], mask)
      <3>1. rest' = Tail(rest) /\ UNCHANGED <<pc, flags>>
        BY <1>5, <2>3
      <3>2. AwakeOnRq'
        BY <2>1, <3>1 DEF AwakeOnRq
      <3>3. WaitQueueTypeOK' /\ WQInv(L)'
        BY <1>2, <1>5, <2>1, <3>1, <3>2, SkipStep
      <3>4. QED
        BY <1>2, <1>5, <2>1, <3>1, <3>3
    <2>4. QED
      BY <2>2, <2>3
  <1>6. QED
    BY <1>3, <1>4, <1>5 DEF walk_visit

(* The scheduler, a timer or a signal acts on a task: nobody falls asleep  *)
(* that was not asleep, and the queue is not touched.                      *)
LEMMA TaskStep ==
  ASSUME NEW L, InsideLabels(L), NEW Labs, {"resumed", "dead"} \subseteq Labs,
         Types(Labs), WQInv(L), NEW t \in Tasks, UNCHANGED wqVars,
         \/ process_timeout(t) \/ do_signal(t) \/ schedule(t)
         \/ \E kind \in {"plain", "fatal"} : signal_wake_up(t, kind)
  PROVE  /\ TaskTypeOK(Labs)' /\ WaitQueueTypeOK' /\ WQInv(L)'
         /\ \A u \in Tasks : state'[u] \in {state[u], TASK_RUNNING}
         /\ \A u \in Tasks : Asleep(u)' => Asleep(u)
         /\ \A u \in Tasks : \/ pc'[u] = pc[u]
                             \/ pc[u] = "idle" /\ pc'[u] = "dead"
                             \/ pc[u] = "schedule" /\ pc'[u] = "resumed"
  <1>1. /\ TaskTypeOK(Labs)' /\ AwakeOnRq'
        /\ \A u \in Tasks : state'[u] \in {state[u], TASK_RUNNING}
        /\ \A u \in Tasks : \/ pc'[u] = pc[u]
                            \/ pc[u] = "idle" /\ pc'[u] = "dead"
                            \/ pc[u] = "schedule" /\ pc'[u] = "resumed"
    <2>1. CASE process_timeout(t)
      <3>1. /\ state' \in [Tasks -> States] /\ on_rq' \in [Tasks -> BOOLEAN]
            /\ \A u \in Tasks : state'[u] \in {state[u], TASK_RUNNING}
            /\ \A u \in Tasks : state'[u] = TASK_RUNNING \/ pc[u] # "schedule" => on_rq'[u]
        BY <2>1, WakeupStep DEF Types, WQInv, process_timeout, wake_up_process
      <3>2. QED
        BY <2>1, <3>1 DEF process_timeout, Types, TaskTypeOK, AwakeOnRq
    <2>2. CASE do_signal(t)
      <3>1. TaskTypeOK(Labs)'
        <4>1. sig' \in [Tasks -> {"none", "plain", "fatal"}] /\ pc' \in [Tasks -> Labs]
          BY <2>2 DEF do_signal, Types, TaskTypeOK
        <4>2. QED
          BY <2>2, <4>1 DEF do_signal, Types, TaskTypeOK
      <3>2. \A u \in Tasks : pc'[u] = pc[u] \/ (pc[u] = "idle" /\ pc'[u] = "dead")
        BY <2>2 DEF do_signal, Types, TaskTypeOK
      <3>3. QED
        BY <2>2, <3>1, <3>2 DEF do_signal, WQInv, AwakeOnRq
    <2>3. CASE schedule(t)
      BY <2>3 DEF schedule, deactivate_task, schedule_returns, Types, TaskTypeOK, WQInv, AwakeOnRq,
                  States
    <2>4. CASE \E kind \in {"plain", "fatal"} : signal_wake_up(t, kind)
      <3>1. PICK kind \in {"plain", "fatal"} : signal_wake_up(t, kind)
        BY <2>4
      <3>2. PICK m : try_to_wake_up({t}, m)
        BY <3>1 DEF signal_wake_up
      <3>3. /\ state' \in [Tasks -> States] /\ on_rq' \in [Tasks -> BOOLEAN]
            /\ \A u \in Tasks : state'[u] \in {state[u], TASK_RUNNING}
            /\ \A u \in Tasks : state'[u] = TASK_RUNNING \/ pc[u] # "schedule" => on_rq'[u]
        BY <3>2, WakeupStep DEF Types, WQInv
      <3>4. UNCHANGED <<pc, timer>> /\ sig' = [sig EXCEPT ![t] = kind]
        BY <3>1 DEF signal_wake_up
      <3>5. QED
        BY <3>3, <3>4 DEF Types, TaskTypeOK, AwakeOnRq
    <2>5. QED
      BY <2>1, <2>2, <2>3, <2>4
  <1>2. WaitQueueTypeOK' /\ UNCHANGED <<task_list, wq_lock, link, walkVars, excl>>
    BY DEF Types, WaitQueueTypeOK, wqVars, walkVars
  <1>3. \A u \in Tasks : Asleep(u)' => Asleep(u)
    BY <1>1 DEF Asleep
  <1>4. WQInv(L)'
    <2>1. \A u \in Tasks : pc'[u] # pc[u] => pc[u] \notin WalkLabels /\ pc'[u] \notin WalkLabels
      BY <1>1 DEF WalkLabels
    <2>2. \A u \in Tasks : link[u] # "out" => pc'[u] \in L /\ excl'[u] = excl[u]
      BY <1>1, <1>2 DEF WQInv, QueueLinked, InsideLabels
    <2>3. \A u \in Tasks : pc'[u] \in {"test", "schedule"} /\ state'[u] # TASK_RUNNING
                           => pc[u] \in {"test", "schedule"}
      BY <1>1
    <2>4. QED
      BY <1>1, <1>2, <2>1, <2>2, <2>3, QueueAlone DEF Types
  <1>5. QED
    BY <1>1, <1>2, <1>3, <1>4

-----------------------------------------------------------------------------
(* A waker that will get to t, whatever state t sleeps in. *)
WakerComing(t) ==
  \E w \in Tasks : \/ pc[w] = "wake"
                   \/ pc[w] \in WalkLabels /\ mask = TASK_NORMAL /\ t \in Entries(rest)

EventWakes ==
  \A t \in Tasks : Asleep(t) /\ ~excl[t] /\ condition => WakerComing(t)

(* The inductive invariant of wait_event(). *)
IInv == TypeOK /\ WQInv(WaitLabels) /\ EventWakes

(* The labels of wait_event() are those of a wait function. *)
LEMMA WaitInside == InsideLabels(WaitLabels) /\ Labels = Labels \cup WaitLabels
  BY DEF InsideLabels, WaitLabels, WalkLabels, Labels

(* A step that puts nobody to sleep, does not make the condition true and  *)
(* leaves the wakers alone.                                                *)
LEMMA EventAlone ==
  ASSUME EventWakes,
         \A u \in Tasks : Asleep(u)' => Asleep(u) /\ (excl'[u] \/ ~excl[u]),
         condition' => condition,
         \A w \in Tasks : pc[w] = "wake" => pc'[w] = "wake",
         \A w \in Tasks : pc[w] \in WalkLabels => pc'[w] \in WalkLabels,
         UNCHANGED <<mask, rest>>
  PROVE  EventWakes'
  BY DEF EventWakes, WakerComing

(* A call of the wait_event() family that has to wait. *)
LEMMA CallStep ==
  ASSUME IInv, NEW t \in Tasks, NEW call, NEW s \in States, NEW x \in BOOLEAN,
         NEW tm \in {"none", "armed", "expired"}, StartWait(t, call, s, tm, x)
  PROVE  IInv'
  <1> USE DEF StartWait, Goto
  <1>1. TypeOK'
    BY DEF IInv, TypeOK, TaskTypeOK, WaitQueueTypeOK, Labels, WaitLabels, walkVars
  <1>2. \A u \in Tasks : /\ u # t => pc'[u] = pc[u] /\ excl'[u] = excl[u]
                         /\ pc[t] = "idle" /\ pc'[t] = "prep"
    BY DEF IInv, TypeOK, TaskTypeOK, WaitQueueTypeOK
  <1>3. link[t] = "out"
    BY DEF IInv, WQInv, QueueLinked, WaitLabels
  <1>4. AwakeOnRq'
    BY <1>2 DEF IInv, WQInv, AwakeOnRq
  <1>5. WQInv(WaitLabels)'
    <2>1. \A u \in Tasks : link[u] # "out" => pc'[u] \in WaitLabels /\ excl'[u] = excl[u]
      BY <1>2, <1>3 DEF IInv, WQInv, QueueLinked
    <2>2. \A u \in Tasks : pc'[u] # pc[u] => pc[u] \notin WalkLabels /\ pc'[u] \notin WalkLabels
      BY <1>2 DEF WalkLabels
    <2>3. QED
      BY <1>2, <1>4, <2>1, <2>2, QueueAlone DEF IInv, TypeOK
  <1>6. EventWakes'
    <2>1. \A u \in Tasks : Asleep(u)' => Asleep(u) /\ (excl'[u] \/ ~excl[u])
      BY <1>2 DEF Asleep
    <2>2. QED
      BY <1>2, <2>1, EventAlone DEF IInv, walkVars, WalkLabels
  <1>7. QED
    BY <1>1, <1>5, <1>6 DEF IInv

(* A step of the task itself between the calls of the wait queue. *)
LEMMA OwnStep ==
  ASSUME IInv, NEW t \in Tasks, wait_test(t) \/ wait_resumed(t)
  PROVE  IInv'
  <1> USE DEF wait_test, wait_resumed, Goto
  <1>1. /\ pc[t] \in {"test", "resumed"}
        /\ pc' = [pc EXCEPT ![t] = pc'[t]]
        /\ pc'[t] \in {"prep", "schedule", "finish", "abort"}
        /\ pc'[t] = "schedule" => pc[t] = "test" /\ ~condition
        /\ UNCHANGED <<state, on_rq, sig, wqVars, condition, mode>>
    BY DEF IInv, TypeOK, TaskTypeOK
  <1>2. TypeOK'
    <2>1. timer' \in [Tasks -> {"none", "armed", "expired"}]
      BY DEF IInv, TypeOK, TaskTypeOK
    <2>2. ret' \in [Tasks -> {"true", "timeout", "intr"}]
      BY DEF IInv, TypeOK
    <2>3. pc' \in [Tasks -> Labels]
      BY <1>1 DEF IInv, TypeOK, TaskTypeOK, Labels, WaitLabels
    <2>4. QED
      BY <1>1, <2>1, <2>2, <2>3 DEF IInv, TypeOK, TaskTypeOK, WaitQueueTypeOK, wqVars
  <1>3. \A u \in Tasks : u # t => pc'[u] = pc[u]
    BY <1>1 DEF IInv, TypeOK, TaskTypeOK
  <1>4. AwakeOnRq'
    BY <1>1, <1>3 DEF IInv, WQInv, AwakeOnRq
  <1>5. WQInv(WaitLabels)'
    <2>1. \A u \in Tasks : link[u] # "out" => pc'[u] \in WaitLabels /\ excl'[u] = excl[u]
      BY <1>1, <1>3 DEF IInv, WQInv, QueueLinked, WaitLabels, wqVars
    <2>2. \A u \in Tasks : pc'[u] # pc[u] => pc[u] \notin WalkLabels /\ pc'[u] \notin WalkLabels
      BY <1>1, <1>3 DEF WalkLabels
    <2>3. \A u \in Tasks : pc'[u] \in {"test", "schedule"} => pc[u] \in {"test", "schedule"}
      BY <1>1, <1>3
    <2>4. UNCHANGED <<task_list, wq_lock, link, walkVars>>
      BY <1>1 DEF wqVars, walkVars
    <2>5. QED
      BY <1>1, <1>4, <2>1, <2>2, <2>3, <2>4, QueueAlone DEF IInv, TypeOK
  <1>6. EventWakes'
    <2>1. CASE condition
      <3>1. \A u \in Tasks : Asleep(u)' => Asleep(u) /\ (excl'[u] \/ ~excl[u])
        BY <1>1, <1>3, <2>1 DEF Asleep, wqVars
      <3>2. QED
        BY <1>1, <1>3, <3>1, EventAlone DEF IInv, wqVars, WalkLabels
    <2>2. CASE ~condition
      BY <1>1, <2>2 DEF EventWakes
    <2>3. QED
      BY <2>1, <2>2
  <1>7. QED
    BY <1>2, <1>5, <1>6 DEF IInv

(* prepare_to_wait(). *)
LEMMA EventPrepare ==
  ASSUME IInv, NEW t \in Tasks, wait_prepare(t)
  PROVE  IInv'
  <1>1. Types(Labels) /\ mode[t] \in States
    BY DEF IInv, TypeOK, Types
  <1>2. WaitQueueTypeOK' /\ WQInv(WaitLabels)'
    BY <1>1, PrepareStep, WaitInside DEF IInv, wait_prepare
  <1> USE DEF wait_prepare, prepare_to_wait, Goto, set_task_state
  <1>3. /\ \A u \in Tasks : u # t => pc'[u] = pc[u] /\ state'[u] = state[u]
        /\ pc[t] = "prep" /\ pc'[t] = "test"
    BY DEF IInv, TypeOK, TaskTypeOK
  <1>4. TypeOK'
    BY <1>1, <1>2 DEF IInv, TypeOK, TaskTypeOK, Labels, WaitLabels, eventVars, walkVars
  <1>5. EventWakes'
    <2>1. \A u \in Tasks : Asleep(u)' => Asleep(u) /\ (excl'[u] \/ ~excl[u])
      BY <1>3 DEF Asleep
    <2>2. QED
      BY <1>3, <2>1, EventAlone DEF IInv, walkVars, eventVars, WalkLabels
  <1>6. QED
    BY <1>2, <1>4, <1>5 DEF IInv

(* The end of a wait: finish_wait(), with and without the lock, and        *)
(* abort_exclusive_wait() that keeps its wakeup.                           *)
LEMMA EventLeave ==
  ASSUME IInv, NEW t \in Tasks, WaitQueueTypeOK', WQInv(WaitLabels)', Forget(t),
         pc[t] \in {"finish", "finish_del", "abort"}, NEW to \in {"idle", "finish_del"},
         pc' = [pc EXCEPT ![t] = to],
         state' = state \/ state' = [state EXCEPT ![t] = TASK_RUNNING],
         UNCHANGED <<on_rq, sig, timer, excl, walkVars>>
  PROVE  IInv'
  <1>1. /\ \A u \in Tasks : u # t => pc'[u] = pc[u] /\ state'[u] = state[u]
        /\ pc'[t] = to
    BY DEF IInv, TypeOK, TaskTypeOK
  <1>2. TypeOK'
    <2>1. mode' \in [Tasks -> States] /\ ret' \in [Tasks -> {"true", "timeout", "intr"}]
      BY DEF Forget, IInv, TypeOK, States
    <2>2. state' \in [Tasks -> States] /\ pc' \in [Tasks -> Labels]
      BY DEF IInv, TypeOK, TaskTypeOK, States, Labels, WaitLabels
    <2>3. QED
      BY <2>1, <2>2 DEF IInv, TypeOK, TaskTypeOK, Forget, walkVars
  <1>3. EventWakes'
    <2>1. \A u \in Tasks : Asleep(u)' => Asleep(u) /\ (excl'[u] \/ ~excl[u])
      BY <1>1 DEF Asleep
    <2>2. QED
      BY <1>1, <2>1, EventAlone DEF IInv, walkVars, Forget, WalkLabels
  <1>4. QED
    BY <1>2, <1>3 DEF IInv

(* finish_wait() looks without the lock: an entry that is out can go, any  *)
(* other one waits for the lock.                                           *)
LEMMA FinishStep ==
  ASSUME NEW L, InsideLabels(L), NEW Labs, Types(Labs), WQInv(L), NEW t \in Tasks,
         NEW to \in {"idle", "owner"}, finish_wait(t, to) \/ finish_wait_del(t, to)
  PROVE  /\ WaitQueueTypeOK' /\ WQInv(L)'
         /\ \E to2 \in {to, "finish_del"} : pc' = [pc EXCEPT ![t] = to2]
         /\ pc[t] \in {"finish", "finish_del"} /\ UNCHANGED <<on_rq, sig, timer, excl, walkVars>>
         /\ state' = state \/ state' = [state EXCEPT ![t] = TASK_RUNNING]
         /\ state'[t] = TASK_RUNNING \/ pc[t] = "finish_del"
  <1>1. CASE finish_wait(t, to)
    <2> USE <1>1 DEF finish_wait, Goto, set_task_state
    <2>1. PICK to2 \in {to, "finish_del"} : /\ pc' = [pc EXCEPT ![t] = to2]
                                            /\ to2 = to => link[t] = "out"
      OBVIOUS
    <2>2. /\ \A u \in Tasks : u # t => pc'[u] = pc[u] /\ state'[u] = state[u]
          /\ pc[t] = "finish" /\ pc'[t] = to2 /\ state'[t] = TASK_RUNNING
      BY <2>1 DEF Types, TaskTypeOK
    <2>3. AwakeOnRq'
      BY <2>2 DEF WQInv, AwakeOnRq
    <2>4. WaitQueueTypeOK'
      BY DEF Types, WaitQueueTypeOK, wqVars
    <2>5. WQInv(L)'
      <3>1. \A u \in Tasks : link[u] # "out" => pc'[u] \in L /\ excl'[u] = excl[u]
        BY <2>1, <2>2 DEF WQInv, QueueLinked, InsideLabels, wqVars
      <3>2. \A u \in Tasks : pc'[u] # pc[u] => pc[u] \notin WalkLabels /\ pc'[u] \notin WalkLabels
        BY <2>1, <2>2 DEF WalkLabels
      <3>3. \A u \in Tasks : pc'[u] \in {"test", "schedule"} => pc[u] \in {"test", "schedule"}
        BY <2>1, <2>2
      <3>4. UNCHANGED <<task_list, wq_lock, link, walkVars>>
        BY DEF wqVars, walkVars
      <3>5. QED
        BY <2>2, <2>3, <3>1, <3>2, <3>3, <3>4, QueueAlone DEF Types
    <2>6. UNCHANGED <<excl, walkVars>>
      BY DEF wqVars, walkVars
    <2>7. QED
      BY <2>1, <2>2, <2>4, <2>5, <2>6
  <1>2. CASE finish_wait_del(t, to)
    <2> USE <1>2 DEF finish_wait_del, Goto
    <2>1. \A u \in Tasks : pc'[u] = pc[u] \/ pc'[u] = to
      BY DEF Types, TaskTypeOK
    <2>2. AwakeOnRq'
      <3>1. \A u \in Tasks : on_rq[u] \/ (state[u] # TASK_RUNNING /\ pc[u] = "schedule" /\ u # t)
        BY DEF WQInv, AwakeOnRq
      <3>2. QED
        BY <3>1 DEF AwakeOnRq, Types, TaskTypeOK
    <2>3. to \notin WalkLabels \cup {"test", "schedule"}
      BY DEF WalkLabels
    <2>4. WaitQueueTypeOK' /\ WQInv(L)'
      BY <2>2, <2>3, UnlinkStep
    <2>5. QED
      BY <2>4
  <1>3. QED
    BY <1>1, <1>2

(* abort_exclusive_wait(): the entry was still queued and goes, or it was  *)
(* taken off by a waker and the task starts a walk for the next waiter.    *)
LEMMA AbortStep ==
  ASSUME NEW L, NEW Labs, Types(Labs), WQInv(L), NEW t \in Tasks,
         NEW m \in SUBSET (TASK_NORMAL \cup TASK_KILLABLE), abort_exclusive_wait(t, m)
  PROVE  WaitQueueTypeOK' /\ WQInv(L)'
  <1> USE DEF abort_exclusive_wait, set_task_state
  <1>1. \A u \in Tasks : state'[u] \in {state[u], TASK_RUNNING}
    BY DEF Types, TaskTypeOK
  <1>2. ASSUME NEW to, to # "schedule", pc' = [pc EXCEPT ![t] = to]
        PROVE  AwakeOnRq'
    <2>1. \A u \in Tasks : on_rq[u] \/ (state[u] # TASK_RUNNING /\ pc[u] = "schedule" /\ u # t)
      BY DEF WQInv, AwakeOnRq
    <2>2. QED
      BY <1>2, <2>1 DEF AwakeOnRq, Types, TaskTypeOK
  <1>3. CASE link[t] = "out" /\ ~list_empty(task_list) /\ StartWalk(t, m, 1)
             /\ UNCHANGED <<task_list, link, flags>>
    <2>1. AwakeOnRq'
      BY <1>2, <1>3 DEF StartWalk
    <2>2. QED
      BY <1>1, <1>3, <2>1, StartWalkStep
  <1>4. CASE pc' = [pc EXCEPT ![t] = "idle"] /\ Unlink(t) /\ UNCHANGED <<wq_lock, walkVars>>
    <2>1. AwakeOnRq'
      BY <1>2, <1>4
    <2>2. "idle" \notin WalkLabels \cup {"test", "schedule"}
      BY DEF WalkLabels
    <2>3. QED
      BY <1>1, <1>4, <2>1, <2>2, UnlinkStep
  <1>5. QED
    BY <1>3, <1>4

(* wait_event() returns. *)
LEMMA EventFinish ==
  ASSUME IInv, NEW t \in Tasks, wait_finish(t)
  PROVE  IInv'
  <1>1. Types(Labels)
    BY DEF IInv, TypeOK, Types
  <1>2. /\ WaitQueueTypeOK' /\ WQInv(WaitLabels)'
        /\ pc[t] \in {"finish", "finish_del"} /\ UNCHANGED <<on_rq, sig, timer, excl, walkVars>>
        /\ state' = state \/ state' = [state EXCEPT ![t] = TASK_RUNNING]
        /\ \E to2 \in {"idle", "finish_del"} : pc' = [pc EXCEPT ![t] = to2]
    BY <1>1, FinishStep, WaitInside DEF IInv, wait_finish
  <1>3. PICK to2 \in {"idle", "finish_del"} : pc' = [pc EXCEPT ![t] = to2]
    BY <1>2
  <1>4. QED
    BY <1>2, <1>3, EventLeave DEF wait_finish

(* An exclusive waiter is interrupted. *)
LEMMA EventAbort ==
  ASSUME IInv, NEW t \in Tasks, wait_abort(t)
  PROVE  IInv'
  <1> USE DEF wait_abort, abort_exclusive_wait
  <1>1. Types(Labels)
    BY DEF IInv, TypeOK, Types
  <1>2. WaitQueueTypeOK' /\ WQInv(WaitLabels)'
    <2>1. TASK_INTERRUPTIBLE \in SUBSET (TASK_NORMAL \cup TASK_KILLABLE)
      BY DEF TASK_INTERRUPTIBLE, TASK_NORMAL
    <2>2. QED
      BY <1>1, <2>1, AbortStep DEF IInv
  <1>3. CASE pc' = [pc EXCEPT ![t] = "idle"] /\ UNCHANGED walkVars
    BY <1>2, <1>3, EventLeave DEF set_task_state
  <1>4. CASE StartWalk(t, TASK_INTERRUPTIBLE, 1) /\ UNCHANGED <<task_list, link, flags>>
    <2> USE <1>4 DEF StartWalk, set_task_state
    <2>1. /\ \A u \in Tasks : u # t => pc'[u] = pc[u] /\ state'[u] = state[u]
          /\ pc'[t] = "walk" /\ pc[t] = "abort"
      BY DEF IInv, TypeOK, TaskTypeOK
    <2>2. TypeOK'
      <3>1. UNCHANGED <<condition, mode, ret>>
        BY <2>1 DEF Forget
      <3>2. state' \in [Tasks -> States] /\ pc' \in [Tasks -> Labels]
        BY DEF IInv, TypeOK, TaskTypeOK, States, Labels, WalkLabels
      <3>3. QED
        BY <1>2, <3>1, <3>2 DEF IInv, TypeOK, TaskTypeOK
    <2>3. \A w \in Tasks : pc[w] \notin WalkLabels
      BY FreeLock DEF IInv, TypeOK
    <2>4. EventWakes'
      <3> SUFFICES ASSUME NEW u \in Tasks, Asleep(u)', ~excl'[u], condition'
                   PROVE  \E w \in Tasks : pc'[w] = "wake"
        BY DEF EventWakes, WakerComing
      <3>1. Asleep(u) /\ ~excl[u] /\ condition
        BY <2>1 DEF Asleep, Forget
      <3>2. PICK w \in Tasks : pc[w] = "wake"
        BY <2>3, <3>1 DEF IInv, EventWakes, WakerComing
      <3>3. QED
        BY <2>1, <3>2
    <2>5. QED
      BY <1>2, <2>2, <2>4 DEF IInv
  <1>5. QED
    BY <1>3, <1>4

(* A waker takes the lock: every sleeper is on the queue it walks. *)
LEMMA EventWake ==
  ASSUME IInv, NEW t \in Tasks, wake_up(t) \/ wake_up_all(t)
  PROVE  IInv'
  <1>1. Types(Labels)
    BY DEF IInv, TypeOK, Types
  <1>2. PICK n \in {0, 1} : __wake_up(t, TASK_NORMAL, n) /\ UNCHANGED eventVars
    BY DEF wake_up, wake_up_all
  <1> USE <1>2 DEF __wake_up, StartWalk, eventVars
  <1>3. /\ \A u \in Tasks : u # t => pc'[u] = pc[u]
        /\ pc'[t] = "walk" /\ pc[t] = "wake"
    BY DEF IInv, TypeOK, TaskTypeOK
  <1>4. AwakeOnRq'
    BY <1>3 DEF IInv, WQInv, AwakeOnRq
  <1>5. WaitQueueTypeOK' /\ WQInv(WaitLabels)'
    <2>1. link[t] = "out"
      BY <1>3 DEF IInv, WQInv, QueueLinked, WaitLabels
    <2>2. n \in Int /\ TASK_NORMAL \in SUBSET (TASK_NORMAL \cup TASK_KILLABLE)
      OBVIOUS
    <2>3. QED
      BY <1>1, <1>4, <2>1, <2>2, StartWalkStep DEF IInv
  <1>6. TypeOK'
    <2>1. pc' \in [Tasks -> Labels]
      BY DEF IInv, TypeOK, TaskTypeOK, Labels, WalkLabels
    <2>2. QED
      BY <1>5, <2>1 DEF IInv, TypeOK, TaskTypeOK
  <1>7. EventWakes'
    <2> SUFFICES ASSUME NEW u \in Tasks, Asleep(u)'
                 PROVE  pc'[t] \in WalkLabels /\ mask' = TASK_NORMAL /\ u \in Entries(rest')
      BY DEF EventWakes, WakerComing
    <2>1. link[u] = "in"
      BY <1>3 DEF IInv, WQInv, SleepersQueued, Asleep
    <2>2. QED
      BY <1>3, <2>1 DEF IInv, WQInv, QueueLinked, WalkLabels
  <1>8. QED
    BY <1>5, <1>6, <1>7 DEF IInv

(* A sleeper's state is in the mask of wake_up(). *)
LEMMA NormalWakes ==
  ASSUME NEW s \in States, s # TASK_RUNNING
  PROVE  s \cap TASK_NORMAL # {}
  BY DEF States, TASK_RUNNING, TASK_INTERRUPTIBLE, TASK_UNINTERRUPTIBLE, TASK_KILLABLE,
         TASK_NORMAL

(* Who still sleeps after a step of the walker slept before, and a waker   *)
(* that has not started its walk is not the walker.                        *)
LEMMA WalkerOnly ==
  ASSUME NEW L, NEW Labs, Types(Labs), WQInv(L), NEW t \in Tasks, pc[t] \in WalkLabels,
         NEW to, to # "schedule", pc' = pc \/ pc' = [pc EXCEPT ![t] = to],
         \A u \in Tasks : state'[u] \in {state[u], TASK_RUNNING}
  PROVE  /\ \A u \in Tasks : Asleep(u)' => Asleep(u)
         /\ \A w \in Tasks : pc[w] \in WalkLabels => w = t
         /\ \A w \in Tasks : w # t => pc'[w] = pc[w]
  <1>1. \A w \in Tasks : pc[w] \in WalkLabels => w = t
    BY DEF WQInv, WalkerLocks
  <1>2. \A w \in Tasks : w # t => pc'[w] = pc[w]
    BY DEF Types, TaskTypeOK
  <1>3. pc'[t] # "schedule"
    BY DEF Types, TaskTypeOK, WalkLabels
  <1>4. QED
    BY <1>1, <1>2, <1>3 DEF Asleep

(* The walk of a waker leaves no sleeper out that is not exclusive.        *)
LEMMA EventVisit ==
  ASSUME IInv, NEW t \in Tasks, walk_visit(t, TRUE), UNCHANGED eventVars
  PROVE  IInv'
  <1>1. Types(Labels)
    BY DEF IInv, TypeOK, Types
  <1>2. TRUE \in BOOLEAN
    OBVIOUS
  <1>3. /\ WaitQueueTypeOK' /\ WQInv(WaitLabels)'
        /\ state' \in [Tasks -> States] /\ on_rq' \in [Tasks -> BOOLEAN]
        /\ \A u \in Tasks : state'[u] \in {state[u], TASK_RUNNING}
        /\ UNCHANGED <<sig, timer, task_list, link, excl>> /\ pc[t] = "walk"
        /\ \/ rest = <<>> /\ EndWalk(t)
           \/ /\ rest # <<>> /\ UNCHANGED <<nr, mask>>
              /\ state[rest[1]] \cap mask # {} => state'[rest[1]] = TASK_RUNNING
              /\ \/ pc' = pc /\ rest' = Tail(rest)
                 \/ pc' = [pc EXCEPT ![t] = "walk_del"] /\ rest' = rest
    BY <1>1, <1>2, VisitStep, WaitInside DEF IInv
  <1>4. pc[t] \in WalkLabels
    BY <1>3 DEF WalkLabels
  <1>5. PICK to \in {"idle", "walk_del"} : pc' = pc \/ pc' = [pc EXCEPT ![t] = to]
    BY <1>3 DEF EndWalk
  <1>6. /\ \A u \in Tasks : Asleep(u)' => Asleep(u)
        /\ \A w \in Tasks : pc[w] \in WalkLabels => w = t
        /\ \A w \in Tasks : w # t => pc'[w] = pc[w]
    BY <1>1, <1>3, <1>4, <1>5, WalkerOnly DEF IInv
  <1>7. TypeOK'
    <2>1. nr' <= 1
      BY <1>3 DEF IInv, TypeOK, EndWalk
    <2>2. pc' \in [Tasks -> Labels]
      BY <1>5 DEF IInv, TypeOK, TaskTypeOK, Labels, WalkLabels
    <2>3. QED
      BY <1>3, <2>1, <2>2 DEF IInv, TypeOK, TaskTypeOK, eventVars
  <1>8. EventWakes'
    <2> SUFFICES ASSUME NEW u \in Tasks, Asleep(u)', ~excl'[u], condition'
                 PROVE  WakerComing(u)'
      BY DEF EventWakes
    <2>1. Asleep(u) /\ ~excl[u] /\ condition
      BY <1>3, <1>6 DEF eventVars
    <2>2. PICK w \in Tasks : \/ pc[w] = "wake"
                             \/ pc[w] \in WalkLabels /\ mask = TASK_NORMAL /\ u \in Entries(rest)
      BY <2>1 DEF IInv, EventWakes, WakerComing
    <2>3. CASE pc[w] = "wake"
      BY <1>3, <1>6, <2>3 DEF WakerComing
    <2>4. CASE mask = TASK_NORMAL /\ u \in Entries(rest)
      <3>1. rest \in Seq(Tasks) /\ rest # <<>>
        BY <2>4 DEF Entries, IInv, TypeOK, WaitQueueTypeOK
      <3>2. /\ mask' = TASK_NORMAL
            /\ state[rest[1]] \cap mask # {} => state'[rest[1]] = TASK_RUNNING
            /\ \/ pc' = pc /\ rest' = Tail(rest)
               \/ pc' = [pc EXCEPT ![t] = "walk_del"] /\ rest' = rest
        BY <1>3, <2>4, <3>1
      <3>3. u # rest[1]
        <4>1. state[u] \in States /\ state[u] # TASK_RUNNING /\ state'[u] # TASK_RUNNING
          BY <2>1 DEF IInv, TypeOK, TaskTypeOK, Asleep
        <4>2. QED
          BY <2>4, <3>2, <4>1, NormalWakes
      <3>4. u \in Entries(rest')
        <4>1. LinkedOnce(rest) /\ Head(rest) = rest[1]
          BY <1>4, <3>1 DEF IInv, WQInv, WalkQueued
        <4>2. Entries(Tail(rest)) = Entries(rest) \ {rest[1]}
          BY <3>1, <4>1, HeadTail
        <4>3. QED
          BY <2>4, <3>2, <3>3, <4>2
      <3>5. pc'[t] \in WalkLabels
        BY <1>4, <3>2 DEF IInv, TypeOK, TaskTypeOK, WalkLabels
      <3>6. QED
        BY <3>2, <3>4, <3>5 DEF WakerComing
    <2>5. QED
      BY <2>2, <2>3, <2>4
  <1>9. QED
    BY <1>3, <1>7, <1>8 DEF IInv

(* The walker's first store to the entry of a task it woke. *)
LEMMA EventDel ==
  ASSUME IInv, NEW t \in Tasks, walk_del(t), UNCHANGED eventVars
  PROVE  IInv'
  <1>1. Types(Labels)
    BY DEF IInv, TypeOK, Types
  <1>2. WaitQueueTypeOK' /\ WQInv(WaitLabels)'
    BY <1>1, DelStep, WaitInside DEF IInv
  <1> USE DEF walk_del, Goto, walkVars, eventVars
  <1>3. TypeOK'
    <2>1. pc' \in [Tasks -> Labels]
      BY DEF IInv, TypeOK, TaskTypeOK, Labels, WalkLabels
    <2>2. QED
      BY <1>2, <2>1 DEF IInv, TypeOK, TaskTypeOK
  <1>4. EventWakes'
    <2>1. \A u \in Tasks : /\ pc'[u] = "schedule" => pc[u] = "schedule"
                           /\ pc[u] = "wake" => pc'[u] = "wake"
                           /\ pc[u] \in WalkLabels => pc'[u] \in WalkLabels
      BY DEF IInv, TypeOK, TaskTypeOK, WalkLabels
    <2>2. \A u \in Tasks : Asleep(u)' => Asleep(u) /\ (excl'[u] \/ ~excl[u])
      BY <2>1 DEF Asleep
    <2>3. QED
      BY <2>1, <2>2, EventAlone DEF IInv
  <1>5. QED
    BY <1>2, <1>3, <1>4 DEF IInv

(* The walker's second store.  If the walk ends here, it ends behind an    *)
(* exclusive entry, and so do the entries it has not visited.              *)
LEMMA EventDel2 ==
  ASSUME IInv, NEW t \in Tasks, walk_del2(t), UNCHANGED eventVars
  PROVE  IInv'
  <1>1. Types(Labels) /\ pc[t] = "walk_del2" /\ pc[t] \in WalkLabels
    BY DEF IInv, TypeOK, Types, walk_del2, WalkLabels
  <1>2. WaitQueueTypeOK' /\ WQInv(WaitLabels)'
    BY <1>1, Del2Step, WaitInside DEF IInv
  <1>3. /\ UNCHANGED <<state, on_rq, sig, timer, task_list, excl, condition, mode, ret>>
        /\ \/ flags /\ EndWalk(t)
           \/ pc' = [pc EXCEPT ![t] = "walk"] /\ rest' = Tail(rest) /\ UNCHANGED mask
    BY DEF walk_del2, eventVars
  <1>4. nr' <= 1
    <2>1. nr \in Int /\ nr <= 1
      BY DEF IInv, TypeOK, WaitQueueTypeOK
    <2>2. nr' \in {0, nr, nr - 1}
      BY DEF walk_del2, EndWalk
    <2>3. QED
      BY <2>1, <2>2
  <1>5. PICK to \in {"idle", "walk"} : pc' = [pc EXCEPT ![t] = to]
    BY <1>3 DEF EndWalk
  <1>6. /\ \A u \in Tasks : Asleep(u)' => Asleep(u)
        /\ \A w \in Tasks : pc[w] \in WalkLabels => w = t
        /\ \A w \in Tasks : w # t => pc'[w] = pc[w]
    BY <1>1, <1>3, <1>5, WalkerOnly DEF IInv
  <1>7. TypeOK'
    <2>1. pc' \in [Tasks -> Labels]
      BY <1>5 DEF IInv, TypeOK, TaskTypeOK, Labels, WalkLabels
    <2>2. QED
      BY <1>2, <1>3, <1>4, <2>1 DEF IInv, TypeOK, TaskTypeOK
  <1>8. EventWakes'
    <2> SUFFICES ASSUME NEW u \in Tasks, Asleep(u)', ~excl'[u], condition'
                 PROVE  WakerComing(u)'
      BY DEF EventWakes
    <2>1. Asleep(u) /\ ~excl[u] /\ condition
      BY <1>3, <1>6
    <2>2. PICK w \in Tasks : \/ pc[w] = "wake"
                             \/ pc[w] \in WalkLabels /\ mask = TASK_NORMAL /\ u \in Entries(rest)
      BY <2>1 DEF IInv, EventWakes, WakerComing
    <2>3. CASE pc[w] = "wake"
      BY <1>1, <1>6, <2>3 DEF WakerComing
    <2>4. CASE mask = TASK_NORMAL /\ u \in Entries(rest)
      <3>1. /\ rest \in Seq(Tasks) /\ rest # <<>> /\ LinkedOnce(rest)
            /\ ExclusiveLast(excl, rest) /\ state[rest[1]] = TASK_RUNNING
            /\ flags = excl[rest[1]] /\ Head(rest) = rest[1]
        BY <1>1 DEF IInv, TypeOK, WaitQueueTypeOK, WQInv, WalkQueued
      <3>2. u # rest[1]
        BY <2>1, <3>1 DEF Asleep
      <3>3. u \in Entries(Tail(rest))
        BY <2>4, <3>1, <3>2, HeadTail
      <3>4. ~flags
        <4>1. PICK i \in 1..Len(rest) : u = rest[i]
          BY <2>4 DEF Entries
        <4>2. 1 \in 1..Len(rest) /\ 1 < i
          BY <3>1, <3>2, <4>1
        <4>3. excl[rest[1]] => excl[u]
          BY <3>1, <4>1, <4>2 DEF ExclusiveLast
        <4>4. QED
          BY <2>1, <3>1, <4>3
      <3>5. /\ pc' = [pc EXCEPT ![t] = "walk"] /\ rest' = Tail(rest) /\ UNCHANGED mask
        BY <1>3, <3>4
      <3>6. pc'[t] \in WalkLabels
        BY <3>5 DEF IInv, TypeOK, TaskTypeOK, WalkLabels
      <3>7. QED
        BY <2>4, <3>3, <3>5, <3>6 DEF WakerComing
    <2>5. QED
      BY <2>2, <2>3, <2>4
  <1>9. QED
    BY <1>2, <1>7, <1>8 DEF IInv

(* The condition becomes true, and from here on a waker is on its way; or  *)
(* it becomes false.                                                       *)
LEMMA EventPost ==
  ASSUME IInv, NEW t \in Tasks, Post(t) \/ Consume(t)
  PROVE  IInv'
  <1>1. UNCHANGED <<state, on_rq, sig, timer, wqVars, mode, ret>> /\ condition' \in BOOLEAN
    BY DEF Post, Consume, taskVars
  <1>2. \A u \in Tasks : /\ u # t => pc'[u] = pc[u]
                         /\ pc[t] = "idle" /\ pc'[t] \in {"idle", "wake"}
                         /\ condition' => pc'[t] = "wake"
    BY DEF Post, Consume, Goto, taskVars, IInv, TypeOK, TaskTypeOK
  <1>3. TypeOK'
    <2>1. pc' \in [Tasks -> Labels]
      BY DEF Post, Consume, Goto, taskVars, IInv, TypeOK, TaskTypeOK, Labels
    <2>2. QED
      BY <1>1, <2>1 DEF IInv, TypeOK, TaskTypeOK, WaitQueueTypeOK, wqVars
  <1>4. WQInv(WaitLabels)'
    <2>1. UNCHANGED <<task_list, wq_lock, link, walkVars, excl>>
      BY <1>1 DEF wqVars, walkVars
    <2>2. AwakeOnRq'
      BY <1>1, <1>2 DEF IInv, WQInv, AwakeOnRq
    <2>3. \A u \in Tasks : link[u] # "out" => pc'[u] \in WaitLabels /\ excl'[u] = excl[u]
      BY <1>2, <2>1 DEF IInv, WQInv, QueueLinked, WaitLabels
    <2>4. \A u \in Tasks : pc'[u] # pc[u] => pc[u] \notin WalkLabels /\ pc'[u] \notin WalkLabels
      BY <1>2 DEF WalkLabels
    <2>5. QED
      BY <1>1, <1>2, <2>1, <2>2, <2>3, <2>4, QueueAlone DEF IInv, TypeOK
  <1>5. EventWakes'
    BY <1>2 DEF EventWakes, WakerComing
  <1>6. QED
    BY <1>3, <1>4, <1>5 DEF IInv

(* The scheduler, a timeout or a signal. *)
LEMMA EventTask ==
  ASSUME IInv, NEW t \in Tasks, Timeout(t) \/ Signals(t) \/ Scheduling(t)
  PROVE  IInv'
  <1>1. Types(Labels) /\ {"resumed", "dead"} \subseteq Labels
    BY DEF IInv, TypeOK, Types, Labels, WaitLabels
  <1>2. /\ UNCHANGED <<wqVars, eventVars>>
        /\ \/ process_timeout(t) \/ do_signal(t) \/ schedule(t)
           \/ \E kind \in {"plain", "fatal"} : signal_wake_up(t, kind)
    BY WaitEventAssumption DEF Timeout, Signals, Scheduling
  <1>3. /\ TaskTypeOK(Labels)' /\ WaitQueueTypeOK' /\ WQInv(WaitLabels)'
        /\ \A u \in Tasks : Asleep(u)' => Asleep(u)
        /\ \A u \in Tasks : \/ pc'[u] = pc[u]
                            \/ pc[u] = "idle" /\ pc'[u] = "dead"
                            \/ pc[u] = "schedule" /\ pc'[u] = "resumed"
    BY <1>1, <1>2, TaskStep, WaitInside DEF IInv
  <1>4. TypeOK'
    BY <1>2, <1>3 DEF IInv, TypeOK, eventVars, wqVars
  <1>5. EventWakes'
    <2>1. \A w \in Tasks : /\ pc[w] = "wake" => pc'[w] = "wake"
                           /\ pc[w] \in WalkLabels => pc'[w] \in WalkLabels
      BY <1>3 DEF WalkLabels
    <2>2. UNCHANGED <<mask, rest, excl, condition>>
      BY <1>2 DEF wqVars, eventVars
    <2>3. QED
      BY <1>3, <2>1, <2>2, EventAlone DEF IInv
  <1>6. QED
    BY <1>3, <1>4, <1>5 DEF IInv

(* All tasks are idle, and the queue is empty. *)
LEMMA InitIInv == Init => IInv
  <1> SUFFICES ASSUME Init
               PROVE  IInv
    OBVIOUS
  <1> USE DEF Init, TaskInit, WaitQueueInit
  <1>1. \A u \in Tasks : pc[u] = "idle" /\ link[u] = "out" /\ on_rq[u]
    OBVIOUS
  <1>2. TaskTypeOK(Labels)
    BY DEF TaskTypeOK, Labels, States
  <1>3. WaitQueueTypeOK
    <2>1. <<>> \in Seq(Tasks) /\ nr \in Int /\ wq_lock \in Tasks \cup {NoTask}
      OBVIOUS
    <2>2. flags \in BOOLEAN
      OBVIOUS
    <2>3. QED
      BY <2>1, <2>2 DEF WaitQueueTypeOK
  <1>4. TypeOK
    <2>1. condition \in BOOLEAN
      OBVIOUS
    <2>2. QED
      BY <1>2, <1>3, <2>1 DEF TypeOK, States
  <1>5. WQInv(WaitLabels)
    <2>1. AwakeOnRq /\ WalkerLocks /\ SleepersQueued /\ WalkQueued
      BY <1>1, WaitQueueAssumption DEF AwakeOnRq, WalkerLocks, SleepersQueued,
                                         WalkQueued, WalkLabels
    <2>2. Len(task_list) = 0 /\ Entries(task_list) = {}
      BY DEF Entries
    <2>3. QueueLinked(WaitLabels) /\ ExclusiveLast(excl, task_list)
      BY <1>1, <2>2 DEF QueueLinked, LinkedOnce, ExclusiveLast
    <2>4. QED
      BY <2>1, <2>3 DEF WQInv
  <1>6. EventWakes
    BY DEF EventWakes
  <1>7. QED
    BY <1>4, <1>5, <1>6 DEF IInv

(* Every step keeps the invariant. *)
LEMMA NextIInv == IInv /\ [Next]_vars => IInv'
  <1> SUFFICES ASSUME IInv, [Next]_vars
               PROVE  IInv'
    OBVIOUS
  <1>1. CASE UNCHANGED vars
    BY <1>1 DEF IInv, TypeOK, TaskTypeOK, WaitQueueTypeOK, WQInv, AwakeOnRq, WalkerLocks,
                QueueLinked, SleepersQueued, WalkQueued, EventWakes, WakerComing, Asleep,
                vars, taskVars, wqVars, eventVars
  <1>2. CASE Next
    <2>1. PICK t \in Tasks : \/ Calls(t) \/ Steps(t) \/ Lockers(t) \/ Post(t) \/ Consume(t)
                             \/ Timeout(t) \/ Scheduling(t) \/ Signals(t)
      BY <1>2 DEF Next
    <2>2. CASE Calls(t)
      <3>1. /\ TASK_UNINTERRUPTIBLE \in States /\ TASK_INTERRUPTIBLE \in States
            /\ TASK_KILLABLE \in States /\ TRUE \in BOOLEAN /\ FALSE \in BOOLEAN
            /\ "none" \in {"none", "armed", "expired"} /\ "armed" \in {"none", "armed", "expired"}
        BY DEF States
      <3>2. CASE wait_event(t)
        BY <3>1, <3>2, CallStep DEF wait_event
      <3>3. CASE wait_event_timeout(t)
        BY <3>1, <3>3, CallStep DEF wait_event_timeout
      <3>4. CASE wait_event_interruptible(t)
        BY <3>1, <3>4, CallStep DEF wait_event_interruptible
      <3>5. CASE wait_event_interruptible_timeout(t)
        BY <3>1, <3>5, CallStep DEF wait_event_interruptible_timeout
      <3>6. CASE wait_event_interruptible_exclusive(t)
        BY <3>1, <3>6, CallStep DEF wait_event_interruptible_exclusive
      <3>7. CASE wait_event_killable(t)
        BY <3>1, <3>7, CallStep DEF wait_event_killable
      <3>8. QED
        BY <2>2, <3>2, <3>3, <3>4, <3>5, <3>6, <3>7 DEF Calls
    <2>3. CASE Steps(t)
      BY <2>3, OwnStep, EventVisit, EventDel, EventDel2 DEF Steps, Walk
    <2>4. CASE Lockers(t)
      BY <2>4, EventPrepare, EventFinish, EventAbort, EventWake DEF Lockers
    <2>5. QED
      BY <2>1, <2>2, <2>3, <2>4, EventPost, EventTask
  <1>3. QED
    BY <1>1, <1>2

(* The inductive invariant of wait_event() holds in every reachable state. *)
THEOREM Invariance == Spec => []IInv
  BY InitIInv, NextIInv, PTL DEF Spec

(* The variables of wait_event() keep their types, whatever the tasks, the *)
(* calls they use and the signals sent.                                    *)
THEOREM TypeCorrect == Spec => []TypeOK
  <1>1. IInv => TypeOK
    BY DEF IInv
  <1>2. QED
    BY <1>1, Invariance, PTL

(* autoremove_wake_function() never stores to the stack of a task whose    *)
(* finish_wait() returned without the lock, and the queue holds no such    *)
(* entry.                                                                  *)
THEOREM NoScribble == Spec => []NoStackScribble
  <1>1. IInv => NoStackScribble
    BY QueueSafe DEF IInv, TypeOK, NoStackScribble, Inside
  <1>2. QED
    BY <1>1, Invariance, PTL

(* A non-exclusive waiter of wait_event() never sleeps past the condition: *)
(* when it is true, the task is awake or a waker will visit its entry.     *)
THEOREM EventNotMissed == Spec => []NoLostWakeup
  <1>1. IInv => NoLostWakeup
    BY DEF IInv, EventWakes, WakerComing, NoLostWakeup, Waking
  <1>2. QED
    BY <1>1, Invariance, PTL

-----------------------------------------------------------------------------
(* Who waits for what: lockers wait for PG_locked, and only they may be    *)
(* killed; a walker has the mask of a wakeup that every sleeper hears.     *)
BitWaiters ==
  \A t \in Tasks :
    /\ state[t] # TASK_INTERRUPTIBLE
    /\ pc[t] \in BitWaitLabels =>
         /\ mode[t] \in {TASK_UNINTERRUPTIBLE, TASK_KILLABLE}
         /\ excl[t] => key[t] = "locked"
         /\ mode[t] = TASK_KILLABLE => excl[t]
    /\ pc[t] = "abort" => mode[t] = TASK_KILLABLE
    /\ pc[t] \in WalkLabels => nr = 1 /\ mask \in {TASK_NORMAL, TASK_KILLABLE}

(* A locker that is awake and that no signal can divert: it will look at   *)
(* the bit again, or was taken off the queue and passes the wakeup on.     *)
Sure(u) ==
  /\ pc[u] \in BitWaitLabels /\ excl[u] /\ ~Asleep(u)
  /\ pc[u] \in {"schedule", "resumed", "abort"} /\ mode[u] = TASK_KILLABLE => Consumed(u)

SureLocker(b) == \E u \in Tasks : Sure(u) /\ key[u] = b

(* A waker w that has still to get to t, if t waits for its bit. *)
Wakes(w, t) ==
  \/ pc[w] \in {"wake_check", "wake"}
  \/ pc[w] \in WalkLabels /\ t \in Entries(rest)

BitWaker(b, t) == \E w \in Tasks : Wakes(w, t) /\ key[w] = b

BitWakes ==
  \A t \in Tasks :
    Asleep(t) /\ ~bit[key[t]] => BitWaker(key[t], t) \/ (excl[t] /\ SureLocker(key[t]))

(* The inductive invariant of the page lock. *)
PageIInv ==
  PageTypeOK /\ WQInv(BitWaitLabels) /\ BitWaiters /\ LockedMeansOwned /\ BitWakes

(* The labels of a bit wait are those of a wait function. *)
LEMMA BitInside == InsideLabels(BitWaitLabels)
  BY DEF InsideLabels, BitWaitLabels, WalkLabels

(* A step that puts nobody to sleep for a clear bit, clears no bit, and    *)
(* keeps the wakers and the lockers that are sure to come, unless those    *)
(* have set the bit.                                                       *)
LEMMA BitFrame ==
  ASSUME BitWakes, key \in [Tasks -> Bits],
         \A u \in Tasks : Asleep(u)' /\ ~bit'[key'[u]] =>
           /\ Asleep(u) /\ ~bit[key[u]] /\ key'[u] = key[u] /\ excl'[u] = excl[u]
           /\ \A w \in Tasks : Wakes(w, u) /\ key[w] = key[u] => Wakes(w, u)' /\ key'[w] = key[w],
         \A v \in Tasks : Sure(v) => (Sure(v)' /\ key'[v] = key[v]) \/ bit'[key[v]]
  PROVE  BitWakes'
  <1> SUFFICES ASSUME NEW u \in Tasks, Asleep(u)', ~bit'[key'[u]]
               PROVE  BitWaker(key[u], u)' \/ (excl'[u] /\ SureLocker(key[u])')
    BY DEF BitWakes
  <1>1. /\ Asleep(u) /\ ~bit[key[u]] /\ key'[u] = key[u] /\ excl'[u] = excl[u]
        /\ \A w \in Tasks : Wakes(w, u) /\ key[w] = key[u] => Wakes(w, u)' /\ key'[w] = key[w]
    OBVIOUS
  <1>2. CASE BitWaker(key[u], u)
    BY <1>1, <1>2 DEF BitWaker
  <1>3. CASE excl[u] /\ SureLocker(key[u])
    BY <1>1, <1>3 DEF SureLocker
  <1>4. QED
    BY <1>1, <1>2, <1>3 DEF BitWakes

(* The page has the same owner as before. *)
LEMMA OwnersKept ==
  ASSUME LockedMeansOwned, bit'["locked"] = bit["locked"],
         \A u \in Tasks : u \in Owners' <=> u \in Owners
  PROVE  LockedMeansOwned'
  <1>1. Owners' = Owners
    BY DEF Owners
  <1>2. QED
    BY <1>1 DEF LockedMeansOwned

(* A task goes from one place outside the walk to another, with the queue, *)
(* the walk and the state of the tasks as they were.                       *)
LEMMA PageMove ==
  ASSUME PageTypeOK, WQInv(BitWaitLabels), NEW t \in Tasks, NEW to \in PageLabels,
         pc[t] \notin WalkLabels \cup {"schedule"}, to \notin WalkLabels,
         pc' = [pc EXCEPT ![t] = to],
         UNCHANGED <<state, on_rq, sig, timer, task_list, wq_lock, link, walkVars>>,
         link[t] = "out" \/ (to \in BitWaitLabels /\ excl' = excl),
         to \in {"test", "schedule"} => pc[t] = "test",
         NEW x \in BOOLEAN, excl' = [excl EXCEPT ![t] = x] \/ excl' = excl
  PROVE  /\ TaskTypeOK(PageLabels)' /\ WaitQueueTypeOK' /\ WQInv(BitWaitLabels)'
         /\ \A u \in Tasks : u # t => pc'[u] = pc[u] /\ excl'[u] = excl[u]
         /\ pc'[t] = to
         /\ \A u \in Tasks : Consumed(u)' <=> Consumed(u)
         /\ \A w, u \in Tasks : w # t => (Wakes(w, u)' <=> Wakes(w, u))
  <1>1. TaskTypeOK(PageLabels)'
    BY DEF PageTypeOK, TaskTypeOK
  <1>2. WaitQueueTypeOK'
    BY DEF PageTypeOK, WaitQueueTypeOK, walkVars
  <1>3. /\ \A u \in Tasks : u # t => pc'[u] = pc[u] /\ excl'[u] = excl[u]
        /\ pc'[t] = to
    BY DEF PageTypeOK, WaitQueueTypeOK, TaskTypeOK
  <1>4. AwakeOnRq'
    BY <1>3 DEF AwakeOnRq, WQInv
  <1>5. WQInv(BitWaitLabels)'
    <2>1. \A u \in Tasks : link[u] # "out" => pc'[u] \in BitWaitLabels /\ excl'[u] = excl[u]
      BY <1>3 DEF WQInv, QueueLinked
    <2>2. \A u \in Tasks : pc'[u] # pc[u] => pc[u] \notin WalkLabels /\ pc'[u] \notin WalkLabels
      BY <1>3
    <2>3. \A u \in Tasks : pc'[u] \in {"test", "schedule"} /\ state'[u] # TASK_RUNNING
                           => pc[u] \in {"test", "schedule"}
      BY <1>3
    <2>4. QED
      BY <1>4, <2>1, <2>2, <2>3, QueueAlone DEF PageTypeOK
  <1>6. \A u \in Tasks : Consumed(u)' <=> Consumed(u)
    <2>1. \A w \in Tasks : pc'[w] = "walk_del" <=> pc[w] = "walk_del"
      BY <1>3 DEF WalkLabels
    <2>2. QED
      BY <2>1 DEF Consumed, walkVars
  <1>7. \A w, u \in Tasks : w # t => (Wakes(w, u)' <=> Wakes(w, u))
    BY <1>3 DEF Wakes, walkVars
  <1>8. QED
    BY <1>1, <1>2, <1>3, <1>5, <1>6, <1>7

(* trylock_page() takes a page that has no owner. *)
LEMMA PageTrylock ==
  ASSUME PageIInv, NEW t \in Tasks, trylock_page(t)
  PROVE  PageIInv'
  <1> USE DEF trylock_page, Goto
  <1>1. UNCHANGED <<state, on_rq, sig, timer, task_list, wq_lock, link, excl, walkVars>>
    BY DEF wqVars, walkVars
  <1>2. /\ "owner" \in PageLabels /\ "owner" \notin WalkLabels
        /\ pc[t] \notin WalkLabels \cup {"schedule"} /\ link[t] = "out" /\ TRUE \in BOOLEAN
    BY DEF PageLabels, WalkLabels, PageIInv, WQInv, QueueLinked, BitWaitLabels
  <1>3. /\ TaskTypeOK(PageLabels)' /\ WaitQueueTypeOK' /\ WQInv(BitWaitLabels)'
        /\ \A u \in Tasks : u # t => pc'[u] = pc[u]
        /\ pc'[t] = "owner"
        /\ \A u \in Tasks : Consumed(u)' <=> Consumed(u)
        /\ \A w, u \in Tasks : w # t => (Wakes(w, u)' <=> Wakes(w, u))
    BY <1>1, <1>2, PageMove DEF PageIInv
  <1>4. PageTypeOK'
    <2>1. bit' \in [Bits -> BOOLEAN]
      BY DEF PageIInv, PageTypeOK
    <2>2. QED
      BY <1>1, <1>3, <2>1 DEF PageIInv, PageTypeOK, walkVars
  <1>5. BitWaiters'
    BY <1>1, <1>3 DEF PageIInv, BitWaiters, walkVars, BitWaitLabels, WalkLabels
  <1>6. LockedMeansOwned'
    <2>1. bit'["locked"]
      BY DEF PageIInv, PageTypeOK, Bits
    <2>2. Owners' = {t}
      BY <1>1, <1>3 DEF PageIInv, LockedMeansOwned, Owners
    <2>3. QED
      BY <2>1, <2>2 DEF LockedMeansOwned
  <1>7. BitWakes'
    <2>1. \A b \in Bits : ~bit'[b] => ~bit[b]
      BY DEF PageIInv, PageTypeOK, Bits
    <2>2. key \in [Tasks -> Bits]
      BY DEF PageIInv, PageTypeOK
    <2>3. \A u \in Tasks : Asleep(u)' => Asleep(u)
      BY <1>1, <1>3 DEF Asleep
    <2>4. \A u \in Tasks : ~Wakes(t, u) /\ ~Sure(t)
      BY DEF Wakes, WalkLabels, Sure, BitWaitLabels
    <2>5. \A v \in Tasks : Sure(v) => Sure(v)'
      BY <1>1, <1>3, <2>4 DEF Sure, Asleep
    <2>6. \A w, u \in Tasks : Wakes(w, u) => Wakes(w, u)'
      BY <1>3, <2>4
    <2>7. QED
      BY <1>1, <2>1, <2>2, <2>3, <2>5, <2>6, BitFrame DEF PageIInv
  <1>8. QED
    BY <1>3, <1>4, <1>5, <1>6, <1>7 DEF PageIInv

(* A caller that finds the bit set sets up its wait. *)
LEMMA PageCall ==
  ASSUME PageIInv, NEW t \in Tasks, NEW b \in Bits, NEW x \in BOOLEAN,
         NEW s \in {TASK_UNINTERRUPTIBLE, TASK_KILLABLE},
         x => b = "locked", s = TASK_KILLABLE => x, StartBitWait(t, b, s, x)
  PROVE  PageIInv'
  <1> USE DEF StartBitWait, Goto
  <1>1. /\ "prep" \in PageLabels /\ "prep" \notin WalkLabels
        /\ pc[t] \notin WalkLabels \cup {"schedule"} /\ link[t] = "out"
    BY DEF PageLabels, WalkLabels, PageIInv, WQInv, QueueLinked, BitWaitLabels
  <1>2. /\ TaskTypeOK(PageLabels)' /\ WaitQueueTypeOK' /\ WQInv(BitWaitLabels)'
        /\ \A u \in Tasks : u # t => pc'[u] = pc[u] /\ excl'[u] = excl[u]
        /\ pc'[t] = "prep"
        /\ \A u \in Tasks : Consumed(u)' <=> Consumed(u)
        /\ \A w, u \in Tasks : w # t => (Wakes(w, u)' <=> Wakes(w, u))
    BY <1>1, PageMove DEF PageIInv
  <1>3. PageTypeOK'
    <2>1. key' \in [Tasks -> Bits] /\ mode' \in [Tasks -> States]
      BY DEF PageIInv, PageTypeOK, States
    <2>2. QED
      BY <1>2, <2>1 DEF PageIInv, PageTypeOK, walkVars
  <1>4. /\ \A u \in Tasks : u # t => key'[u] = key[u] /\ mode'[u] = mode[u]
        /\ key'[t] = b /\ mode'[t] = s /\ excl'[t] = x
    BY DEF PageIInv, PageTypeOK, WaitQueueTypeOK
  <1>5. BitWaiters'
    <2> SUFFICES ASSUME NEW u \in Tasks
                 PROVE  /\ state[u] # TASK_INTERRUPTIBLE
                        /\ pc'[u] \in BitWaitLabels =>
                             /\ mode'[u] \in {TASK_UNINTERRUPTIBLE, TASK_KILLABLE}
                             /\ excl'[u] => key'[u] = "locked"
                             /\ mode'[u] = TASK_KILLABLE => excl'[u]
                        /\ pc'[u] = "abort" => mode'[u] = TASK_KILLABLE
                        /\ pc'[u] \in WalkLabels => nr = 1 /\ mask \in {TASK_NORMAL, TASK_KILLABLE}
      BY DEF BitWaiters, walkVars
    <2>1. CASE u = t
      BY <1>1, <1>2, <1>4, <2>1 DEF PageIInv, BitWaiters
    <2>2. CASE u # t
      BY <1>2, <1>4, <2>2 DEF PageIInv, BitWaiters
    <2>3. QED
      BY <2>1, <2>2
  <1>6. LockedMeansOwned'
    <2>1. \A u \in Tasks : u \in Owners' <=> u \in Owners
      BY <1>2 DEF Owners
    <2>2. QED
      BY <2>1, OwnersKept DEF PageIInv
  <1>7. BitWakes'
    <2>1. key \in [Tasks -> Bits]
      BY DEF PageIInv, PageTypeOK
    <2>2. \A u \in Tasks : Asleep(u)' => Asleep(u) /\ u # t
      BY <1>2 DEF Asleep
    <2>3. \A u \in Tasks : ~Wakes(t, u) /\ ~Sure(t)
      BY DEF Wakes, WalkLabels, Sure, BitWaitLabels
    <2>4. \A v \in Tasks : Sure(v) => Sure(v)' /\ key'[v] = key[v]
      BY <1>2, <1>4, <2>3 DEF Sure, Asleep
    <2>5. \A w, u \in Tasks : Wakes(w, u) => Wakes(w, u)' /\ key'[w] = key[w]
      BY <1>2, <1>4, <2>3
    <2>6. QED
      BY <1>2, <1>4, <2>1, <2>2, <2>4, <2>5, BitFrame DEF PageIInv
  <1>8. QED
    BY <1>2, <1>3, <1>5, <1>6, <1>7 DEF PageIInv

(* The owner starts writeback. *)
LEMMA PageStartIO ==
  ASSUME PageIInv, NEW t \in Tasks, set_page_writeback(t)
  PROVE  PageIInv'
  <1> USE DEF set_page_writeback, taskVars, wqVars
  <1>1. PageTypeOK'
    BY DEF PageIInv, PageTypeOK, TaskTypeOK, WaitQueueTypeOK
  <1>2. WQInv(BitWaitLabels)' /\ BitWaiters'
    BY DEF PageIInv, WQInv, AwakeOnRq, WalkerLocks, QueueLinked, SleepersQueued, WalkQueued,
           BitWaiters
  <1>3. LockedMeansOwned'
    <2>1. bit'["locked"] = bit["locked"]
      BY DEF PageIInv, PageTypeOK, Bits
    <2>2. \A u \in Tasks : u \in Owners' <=> u \in Owners
      BY DEF Owners
    <2>3. QED
      BY <2>1, <2>2, OwnersKept DEF PageIInv
  <1>4. BitWakes'
    <2>1. key \in [Tasks -> Bits] /\ \A b \in Bits : ~bit'[b] => ~bit[b]
      BY DEF PageIInv, PageTypeOK, Bits
    <2>2. \A u \in Tasks : /\ Asleep(u)' <=> Asleep(u)
                           /\ Sure(u)' <=> Sure(u)
                           /\ \A w \in Tasks : Wakes(w, u)' <=> Wakes(w, u)
      BY DEF Asleep, Sure, Consumed, Wakes
    <2>3. QED
      BY <2>1, <2>2, BitFrame DEF PageIInv
  <1>5. QED
    BY <1>1, <1>2, <1>3, <1>4 DEF PageIInv

(* A bit is cleared, by the owner of the page or at the end of the I/O:    *)
(* whoever waits for it has a waker.                                       *)
LEMMA PageClear ==
  ASSUME PageIInv, NEW t \in Tasks, unlock_page(t) \/ end_page_writeback(t)
  PROVE  PageIInv'
  <1>1. PICK b \in Bits, from \in {"idle", "owner"} :
          ClearBit(t, from, b) /\ (b = "locked" <=> from = "owner")
    BY DEF unlock_page, end_page_writeback, Bits
  <1> USE <1>1 DEF ClearBit, Goto
  <1>2. UNCHANGED <<state, on_rq, sig, timer, task_list, wq_lock, link, excl, walkVars>>
    BY DEF wqVars, walkVars
  <1>3. /\ "wake_check" \in PageLabels /\ "wake_check" \notin WalkLabels
        /\ pc[t] \notin WalkLabels \cup {"schedule"} /\ link[t] = "out" /\ TRUE \in BOOLEAN
    BY DEF PageLabels, WalkLabels, PageIInv, WQInv, QueueLinked, BitWaitLabels
  <1>4. /\ TaskTypeOK(PageLabels)' /\ WaitQueueTypeOK' /\ WQInv(BitWaitLabels)'
        /\ \A u \in Tasks : u # t => pc'[u] = pc[u]
        /\ pc'[t] = "wake_check"
        /\ \A u \in Tasks : Consumed(u)' <=> Consumed(u)
        /\ \A w, u \in Tasks : w # t => (Wakes(w, u)' <=> Wakes(w, u))
    BY <1>2, <1>3, PageMove DEF PageIInv
  <1>5. /\ \A u \in Tasks : u # t => key'[u] = key[u]
        /\ key'[t] = b /\ bit'[b] = FALSE
        /\ \A c \in Bits : c # b => bit'[c] = bit[c]
    BY DEF PageIInv, PageTypeOK
  <1>6. PageTypeOK'
    <2>1. bit' \in [Bits -> BOOLEAN] /\ key' \in [Tasks -> Bits]
      BY DEF PageIInv, PageTypeOK
    <2>2. QED
      BY <1>2, <1>4, <2>1 DEF PageIInv, PageTypeOK, walkVars
  <1>7. BitWaiters'
    BY <1>2, <1>4, <1>5 DEF PageIInv, BitWaiters, walkVars, BitWaitLabels, WalkLabels
  <1>8. LockedMeansOwned'
    <2>1. CASE b = "locked"
      <3>1. pc[t] = "owner" /\ Owners' = {}
        BY <1>2, <1>4, <2>1 DEF PageIInv, LockedMeansOwned, Owners
      <3>2. QED
        BY <1>5, <2>1, <3>1 DEF LockedMeansOwned
    <2>2. CASE b # "locked"
      <3>1. pc[t] = "idle" /\ \A u \in Tasks : u \in Owners' <=> u \in Owners
        BY <1>2, <1>4, <2>2 DEF Owners
      <3>2. bit'["locked"] = bit["locked"]
        BY <1>5, <2>2 DEF Bits
      <3>3. QED
        BY <3>1, <3>2, OwnersKept DEF PageIInv
    <2>3. QED
      BY <2>1, <2>2
  <1>9. BitWakes'
    <2> SUFFICES ASSUME NEW u \in Tasks, Asleep(u)', ~bit'[key'[u]]
                 PROVE  BitWaker(key[u], u)' \/ (excl'[u] /\ SureLocker(key[u])')
      BY DEF BitWakes
    <2>1. Asleep(u) /\ u # t /\ key'[u] = key[u] /\ key[u] \in Bits
      BY <1>2, <1>4, <1>5 DEF Asleep, PageIInv, PageTypeOK
    <2>2. CASE key[u] = b
      BY <1>4, <1>5, <2>1, <2>2 DEF BitWaker, Wakes
    <2>3. CASE key[u] # b
      <3>1. ~bit[key[u]]
        BY <1>5, <2>1, <2>3
      <3>2. ~Wakes(t, u) /\ ~Sure(t)
        BY DEF Wakes, WalkLabels, Sure, BitWaitLabels
      <3>3. CASE BitWaker(key[u], u)
        BY <1>4, <1>5, <2>1, <3>2, <3>3 DEF BitWaker
      <3>4. CASE excl[u] /\ SureLocker(key[u])
        <4>1. PICK v \in Tasks : Sure(v) /\ key[v] = key[u]
          BY <3>4 DEF SureLocker
        <4>2. v # t /\ Sure(v)'
          BY <1>2, <1>4, <3>2, <4>1 DEF Sure, Asleep
        <4>3. QED
          BY <1>2, <1>5, <2>1, <3>4, <4>1, <4>2 DEF SureLocker
      <3>5. QED
        BY <2>1, <3>1, <3>3, <3>4 DEF PageIInv, BitWakes
    <2>4. QED
      BY <2>2, <2>3
  <1>10. QED
    BY <1>4, <1>6, <1>7, <1>8, <1>9 DEF PageIInv

(* A waiter looks at its bit and goes to sleep only if it is set, or comes *)
(* back from sleep, perhaps killed.                                        *)
LEMMA PageLook ==
  ASSUME PageIInv, NEW t \in Tasks, bit_wait_test(t) \/ sleep_on_page(t)
  PROVE  PageIInv'
  <1>1. PICK from \in {"test", "resumed"}, to \in {"schedule", "again", "abort"} :
          /\ pc[t] = from /\ pc' = [pc EXCEPT ![t] = to]
          /\ to = "schedule" => from = "test" /\ bit[key[t]]
          /\ to = "abort" => from = "resumed" /\ mode[t] = TASK_KILLABLE
          /\ UNCHANGED <<state, on_rq, sig, timer, wqVars, pageVars>>
    BY DEF bit_wait_test, sleep_on_page, Goto
  <1>2. UNCHANGED <<task_list, wq_lock, link, excl, walkVars, bit, key, mode>>
    BY <1>1 DEF wqVars, walkVars, pageVars
  <1>3. /\ to \in PageLabels /\ to \notin WalkLabels /\ to \in BitWaitLabels
        /\ pc[t] \notin WalkLabels \cup {"schedule"} /\ pc[t] \in BitWaitLabels /\ TRUE \in BOOLEAN
    BY <1>1 DEF PageLabels, WalkLabels, BitWaitLabels
  <1>4. /\ TaskTypeOK(PageLabels)' /\ WaitQueueTypeOK' /\ WQInv(BitWaitLabels)'
        /\ \A u \in Tasks : u # t => pc'[u] = pc[u]
        /\ pc'[t] = to
        /\ \A u \in Tasks : Consumed(u)' <=> Consumed(u)
        /\ \A w, u \in Tasks : w # t => (Wakes(w, u)' <=> Wakes(w, u))
    BY <1>1, <1>2, <1>3, PageMove DEF PageIInv
  <1>5. PageTypeOK'
    BY <1>2, <1>4 DEF PageIInv, PageTypeOK, walkVars
  <1>6. BitWaiters'
    <2>1. state' = state /\ UNCHANGED <<excl, key, mode, nr, mask>>
      BY <1>1, <1>2 DEF walkVars
    <2>2. QED
      BY <1>1, <1>3, <1>4, <2>1 DEF PageIInv, BitWaiters
  <1>7. LockedMeansOwned'
    <2>1. \A u \in Tasks : u \in Owners' <=> u \in Owners
      BY <1>1, <1>2, <1>4 DEF Owners
    <2>2. QED
      BY <1>2, <2>1, OwnersKept DEF PageIInv
  <1>8. BitWakes'
    <2>1. key \in [Tasks -> Bits]
      BY DEF PageIInv, PageTypeOK
    <2>2. \A u \in Tasks : Asleep(u)' /\ ~bit'[key'[u]] => Asleep(u)
      BY <1>1, <1>2, <1>4 DEF Asleep
    <2>3. \A u \in Tasks : ~Wakes(t, u)
      BY <1>1 DEF Wakes, WalkLabels
    <2>4. \A w, u \in Tasks : Wakes(w, u) => Wakes(w, u)'
      BY <1>4, <2>3
    <2>5. \A v \in Tasks : Sure(v) => Sure(v)' \/ bit'[key[v]]
      <3> SUFFICES ASSUME NEW v \in Tasks, Sure(v), ~bit[key[v]]
                   PROVE  Sure(v)'
        BY <1>2
      <3>1. CASE v # t
        BY <1>1, <1>2, <1>4, <3>1 DEF Sure, Asleep
      <3>2. CASE v = t
        <4>1. to \in {"again", "abort"}
          BY <1>1, <3>2
        <4>2. to = "abort" => Consumed(t)
          BY <1>1, <3>2 DEF Sure
        <4>3. QED
          BY <1>1, <1>2, <1>3, <1>4, <3>2, <4>1, <4>2 DEF Sure, Asleep
      <3>3. QED
        BY <3>1, <3>2
    <2>6. QED
      BY <1>2, <2>1, <2>2, <2>4, <2>5, BitFrame DEF PageIInv
  <1>9. QED
    BY <1>4, <1>5, <1>6, <1>7, <1>8 DEF PageIInv

(* The loop condition: a locker that finds the bit clear has set it. *)
LEMMA PageAgain ==
  ASSUME PageIInv, NEW t \in Tasks, bit_wait_again(t)
  PROVE  PageIInv'
  <1>1. PICK to \in {"prep", "finish"} :
          /\ pc[t] = "again" /\ pc' = [pc EXCEPT ![t] = to]
          /\ to = "prep" <=> bit[key[t]]
          /\ UNCHANGED <<state, on_rq, sig, timer, wqVars, key, mode>>
    BY DEF bit_wait_again, Goto
  <1>2. UNCHANGED <<task_list, wq_lock, link, excl, walkVars>>
    BY <1>1 DEF wqVars, walkVars
  <1>3. /\ to \in PageLabels /\ to \notin WalkLabels /\ to \in BitWaitLabels
        /\ pc[t] \notin WalkLabels \cup {"schedule"} /\ pc[t] \in BitWaitLabels /\ TRUE \in BOOLEAN
    BY <1>1 DEF PageLabels, WalkLabels, BitWaitLabels
  <1>4. /\ TaskTypeOK(PageLabels)' /\ WaitQueueTypeOK' /\ WQInv(BitWaitLabels)'
        /\ \A u \in Tasks : u # t => pc'[u] = pc[u]
        /\ pc'[t] = to
        /\ \A u \in Tasks : Consumed(u)' <=> Consumed(u)
        /\ \A w, u \in Tasks : w # t => (Wakes(w, u)' <=> Wakes(w, u))
    BY <1>1, <1>2, <1>3, PageMove DEF PageIInv
  <1>5. /\ bit \in [Bits -> BOOLEAN] /\ key \in [Tasks -> Bits]
        /\ bit' = [bit EXCEPT ![key[t]] = TRUE] \/ (~excl[t] /\ bit' = bit)
    BY DEF PageIInv, PageTypeOK, bit_wait_again
  <1>6. /\ bit' \in [Bits -> BOOLEAN]
        /\ \A b \in Bits : bit[b] => bit'[b]
        /\ excl[t] => bit'[key[t]]
        /\ excl[t] => key[t] = "locked"
    BY <1>1, <1>3, <1>5 DEF PageIInv, BitWaiters
  <1>7. PageTypeOK'
    BY <1>1, <1>2, <1>4, <1>6 DEF PageIInv, PageTypeOK, walkVars
  <1>8. BitWaiters'
    <2>1. state' = state /\ UNCHANGED <<excl, key, mode, nr, mask>>
      BY <1>1, <1>2 DEF walkVars
    <2>2. QED
      BY <1>1, <1>3, <1>4, <2>1 DEF PageIInv, BitWaiters
  <1>9. LockedMeansOwned'
    <2>1. CASE excl[t] /\ to = "finish"
      <3>1. ~bit["locked"] /\ bit'["locked"]
        BY <1>1, <1>6, <2>1
      <3>2. Owners' = {t}
        BY <1>1, <1>2, <1>4, <2>1, <3>1 DEF PageIInv, LockedMeansOwned, Owners
      <3>3. QED
        BY <3>1, <3>2 DEF LockedMeansOwned
    <2>2. CASE ~excl[t] \/ to = "prep"
      <3>1. \A u \in Tasks : u \in Owners' <=> u \in Owners
        BY <1>1, <1>2, <1>4, <2>2 DEF Owners
      <3>2. bit'["locked"] = bit["locked"]
        <4>1. CASE ~excl[t]
          BY <4>1 DEF bit_wait_again
        <4>2. CASE excl[t] /\ to = "prep"
          BY <1>1, <1>6, <4>2 DEF bit_wait_again, PageIInv, PageTypeOK
        <4>3. QED
          BY <2>2, <4>1, <4>2
      <3>3. QED
        BY <3>1, <3>2, OwnersKept DEF PageIInv
    <2>3. QED
      BY <2>1, <2>2
  <1>10. BitWakes'
    <2>1. \A u \in Tasks : Asleep(u)' => Asleep(u)
      BY <1>1, <1>4 DEF Asleep
    <2>2. \A u \in Tasks : ~Wakes(t, u)
      BY <1>1 DEF Wakes, WalkLabels
    <2>3. \A w, u \in Tasks : Wakes(w, u) => Wakes(w, u)'
      BY <1>4, <2>2
    <2>4. \A v \in Tasks : Sure(v) => Sure(v)' \/ bit'[key[v]]
      <3> SUFFICES ASSUME NEW v \in Tasks, Sure(v), v # t
                   PROVE  Sure(v)'
        BY <1>6 DEF Sure
      <3>1. QED
        BY <1>1, <1>2, <1>4 DEF Sure, Asleep
    <2>5. \A u \in Tasks : ~bit'[key[u]] => ~bit[key[u]]
      BY <1>5, <1>6
    <2>6. QED
      BY <1>1, <1>2, <1>5, <2>1, <2>3, <2>4, <2>5, BitFrame DEF PageIInv
  <1>11. QED
    BY <1>4, <1>7, <1>8, <1>9, <1>10 DEF PageIInv

(* wake_up_page() skips the walk only if the queue is empty, and then      *)
(* nobody sleeps: whoever sleeps is queued.                                *)
LEMMA PageCheck ==
  ASSUME PageIInv, NEW t \in Tasks, wake_up_page(t)
  PROVE  PageIInv'
  <1>1. PICK to \in {"idle", "wake"} :
          /\ pc[t] = "wake_check" /\ pc' = [pc EXCEPT ![t] = to]
          /\ to = "idle" => list_empty(task_list)
          /\ UNCHANGED <<state, on_rq, sig, timer, wqVars>>
    BY DEF wake_up_page, Goto
  <1>2. UNCHANGED <<task_list, wq_lock, link, excl, walkVars>>
    BY <1>1 DEF wqVars, walkVars
  <1>3. /\ to \in PageLabels /\ to \notin WalkLabels \cup BitWaitLabels
        /\ pc[t] \notin WalkLabels \cup {"schedule"} /\ link[t] = "out" /\ TRUE \in BOOLEAN
    BY <1>1 DEF PageLabels, WalkLabels, PageIInv, WQInv, QueueLinked, BitWaitLabels
  <1>4. /\ TaskTypeOK(PageLabels)' /\ WaitQueueTypeOK' /\ WQInv(BitWaitLabels)'
        /\ \A u \in Tasks : u # t => pc'[u] = pc[u]
        /\ pc'[t] = to
        /\ \A u \in Tasks : Consumed(u)' <=> Consumed(u)
        /\ \A w, u \in Tasks : w # t => (Wakes(w, u)' <=> Wakes(w, u))
    BY <1>1, <1>2, <1>3, PageMove DEF PageIInv
  <1>5. /\ key' \in [Tasks -> Bits] /\ mode' \in [Tasks -> States] /\ bit' = bit
        /\ \A u \in Tasks : u # t => key'[u] = key[u] /\ mode'[u] = mode[u]
        /\ to = "wake" => key'[t] = key[t]
    BY <1>4 DEF wake_up_page, ForgetKey, PageIInv, PageTypeOK, States, Bits
  <1>6. PageTypeOK'
    BY <1>2, <1>4, <1>5 DEF PageIInv, PageTypeOK, walkVars
  <1>7. BitWaiters'
    <2>1. state' = state /\ UNCHANGED <<excl, nr, mask>>
      BY <1>1, <1>2 DEF walkVars
    <2>2. QED
      BY <1>1, <1>3, <1>4, <1>5, <2>1 DEF PageIInv, BitWaiters
  <1>8. LockedMeansOwned'
    <2>1. \A u \in Tasks : u \in Owners' <=> u \in Owners
      BY <1>1, <1>2, <1>4 DEF Owners
    <2>2. QED
      BY <1>5, <2>1, OwnersKept DEF PageIInv
  <1>9. BitWakes'
    <2>1. \A u \in Tasks : Asleep(u)' => Asleep(u) /\ u # t
      BY <1>1, <1>4 DEF Asleep
    <2>2. CASE to = "idle"
      <3>1. Entries(task_list) = {}
        BY <1>1, <2>2 DEF list_empty, Entries
      <3>2. \A u \in Tasks : ~Asleep(u)
        BY <3>1 DEF PageIInv, WQInv, SleepersQueued, QueueLinked, Asleep
      <3>3. QED
        BY <2>1, <3>2 DEF BitWakes
    <2>3. CASE to = "wake"
      <3>1. \A w, u \in Tasks : Wakes(w, u) => Wakes(w, u)' /\ key'[w] = key[w]
        BY <1>4, <1>5, <2>3 DEF Wakes
      <3>2. \A v \in Tasks : Sure(v) => Sure(v)' /\ key'[v] = key[v]
        <4>1. ~Sure(t)
          BY <1>1 DEF Sure, BitWaitLabels
        <4>2. QED
          BY <1>1, <1>2, <1>4, <1>5, <4>1 DEF Sure, Asleep
      <3>3. key \in [Tasks -> Bits]
        BY DEF PageIInv, PageTypeOK
      <3>4. QED
        BY <1>2, <1>5, <2>1, <3>1, <3>2, <3>3, BitFrame DEF PageIInv
    <2>4. QED
      BY <2>2, <2>3
  <1>10. QED
    BY <1>4, <1>6, <1>7, <1>8, <1>9 DEF PageIInv

(* prepare_to_wait() of a bit wait. *)
LEMMA PagePrepare ==
  ASSUME PageIInv, NEW t \in Tasks, bit_wait_prepare(t)
  PROVE  PageIInv'
  <1>1. Types(PageLabels) /\ mode[t] \in States
    BY DEF PageIInv, PageTypeOK, Types
  <1>2. WaitQueueTypeOK' /\ WQInv(BitWaitLabels)'
    BY <1>1, PrepareStep, BitInside DEF PageIInv, bit_wait_prepare
  <1>3. /\ wq_lock = NoTask /\ pc[t] = "prep" /\ pc' = [pc EXCEPT ![t] = "test"]
        /\ state' = [state EXCEPT ![t] = mode[t]] /\ link' = [link EXCEPT ![t] = "in"]
        /\ UNCHANGED <<on_rq, sig, timer, wq_lock, excl, walkVars, bit, key, mode>>
    BY DEF bit_wait_prepare, prepare_to_wait, Goto, set_task_state, pageVars
  <1>4. /\ \A u \in Tasks : u # t => pc'[u] = pc[u] /\ state'[u] = state[u] /\ link'[u] = link[u]
        /\ pc'[t] = "test" /\ state'[t] = mode[t]
    BY <1>3 DEF PageIInv, PageTypeOK, TaskTypeOK, WaitQueueTypeOK
  <1>5. PageTypeOK'
    <2>1. state' \in [Tasks -> States] /\ pc' \in [Tasks -> PageLabels]
      BY <1>1, <1>3 DEF PageIInv, PageTypeOK, TaskTypeOK, PageLabels, BitWaitLabels
    <2>2. QED
      BY <1>2, <1>3, <2>1 DEF PageIInv, PageTypeOK, TaskTypeOK, walkVars
  <1>6. BitWaiters'
    <2>1. mode[t] \in {TASK_UNINTERRUPTIBLE, TASK_KILLABLE} /\ pc[t] \in BitWaitLabels
      BY <1>3 DEF PageIInv, BitWaiters, BitWaitLabels
    <2>2. mode[t] # TASK_INTERRUPTIBLE
      BY <2>1 DEF TASK_UNINTERRUPTIBLE, TASK_KILLABLE, TASK_INTERRUPTIBLE
    <2>3. "test" \in BitWaitLabels /\ "test" \notin WalkLabels /\ UNCHANGED <<nr, mask>>
      BY <1>3 DEF BitWaitLabels, WalkLabels, walkVars
    <2>4. QED
      BY <1>3, <1>4, <2>1, <2>2, <2>3 DEF PageIInv, BitWaiters
  <1>7. LockedMeansOwned'
    <2>1. \A u \in Tasks : u \in Owners' <=> u \in Owners
      BY <1>3, <1>4 DEF Owners
    <2>2. QED
      BY <1>3, <2>1, OwnersKept DEF PageIInv
  <1>8. BitWakes'
    <2>1. key \in [Tasks -> Bits]
      BY DEF PageIInv, PageTypeOK
    <2>2. \A u \in Tasks : Asleep(u)' => Asleep(u)
      BY <1>3, <1>4 DEF Asleep
    <2>3. \A w, u \in Tasks : Wakes(w, u) => Wakes(w, u)'
      BY <1>3, <1>4 DEF Wakes, walkVars, WalkLabels
    <2>4. \A v \in Tasks : Sure(v) => Sure(v)'
      <3> SUFFICES ASSUME NEW v \in Tasks, Sure(v)
                   PROVE  Sure(v)'
        OBVIOUS
      <3>1. CASE v = t
        BY <1>3, <1>4, <3>1 DEF Sure, Asleep, BitWaitLabels
      <3>2. CASE v # t
        <4>1. \A w \in Tasks : pc[w] # "walk_del"
          BY <1>3, FreeLock DEF PageIInv, PageTypeOK, WalkLabels
        <4>2. Consumed(v) => Consumed(v)'
          BY <1>4, <3>2, <4>1 DEF Consumed
        <4>3. QED
          BY <1>3, <1>4, <3>2, <4>2 DEF Sure, Asleep
      <3>3. QED
        BY <3>1, <3>2
    <2>5. QED
      BY <1>3, <2>1, <2>2, <2>3, <2>4, BitFrame DEF PageIInv
  <1>9. QED
    BY <1>2, <1>5, <1>6, <1>7, <1>8 DEF PageIInv

(* A bit wait ends: a locker of it owns the page, so that nobody relied on *)
(* it to wake the next one; and a task that gives up was not woken.        *)
LEMMA PageLeave ==
  ASSUME PageIInv, NEW t \in Tasks, WaitQueueTypeOK', WQInv(BitWaitLabels)', ForgetKey(t),
         pc[t] \in {"finish", "finish_del", "abort"}, NEW to \in {"idle", "owner", "finish_del"},
         pc' = [pc EXCEPT ![t] = to],
         pc[t] = "abort" => ~Sure(t) /\ to = "idle",
         pc[t] # "abort" => to \in {Return(t), "finish_del"},
         state' = state \/ state' = [state EXCEPT ![t] = TASK_RUNNING],
         \A u \in Tasks : u # t => link'[u] = link[u],
         UNCHANGED <<on_rq, sig, timer, excl, walkVars>>
  PROVE  PageIInv'
  <1>1. /\ \A u \in Tasks : u # t => pc'[u] = pc[u] /\ state'[u] = state[u]
        /\ pc'[t] = to
        /\ \A u \in Tasks : state'[u] \in {state[u], TASK_RUNNING}
    BY DEF PageIInv, PageTypeOK, TaskTypeOK
  <1>2. /\ key' \in [Tasks -> Bits] /\ mode' \in [Tasks -> States] /\ bit' = bit
        /\ \A u \in Tasks : u # t => key'[u] = key[u] /\ mode'[u] = mode[u]
        /\ to = "finish_del" => key'[t] = key[t] /\ mode'[t] = mode[t]
    BY <1>1 DEF ForgetKey, PageIInv, PageTypeOK, States, Bits
  <1>3. PageTypeOK'
    <2>1. state' \in [Tasks -> States] /\ pc' \in [Tasks -> PageLabels]
      BY DEF PageIInv, PageTypeOK, TaskTypeOK, States, PageLabels, BitWaitLabels
    <2>2. QED
      BY <1>2, <2>1 DEF PageIInv, PageTypeOK, TaskTypeOK, walkVars
  <1>4. BitWaiters'
    <2>1. pc[t] \in BitWaitLabels /\ to \notin WalkLabels /\ to # "abort"
          /\ (to \in BitWaitLabels => to = "finish_del")
      BY DEF BitWaitLabels, WalkLabels
    <2>2. UNCHANGED <<nr, mask, excl>> /\ TASK_RUNNING # TASK_INTERRUPTIBLE
      BY DEF walkVars, TASK_RUNNING, TASK_INTERRUPTIBLE
    <2>3. \A u \in Tasks : state'[u] # TASK_INTERRUPTIBLE
      BY <1>1, <2>2 DEF PageIInv, BitWaiters
    <2>4. QED
      BY <1>1, <1>2, <2>1, <2>2, <2>3 DEF PageIInv, BitWaiters
  <1>5. LockedMeansOwned'
    <2>1. t \in Owners' <=> t \in Owners
      BY <1>1 DEF Owners, Return
    <2>2. \A u \in Tasks : u \in Owners' <=> u \in Owners
      BY <1>1, <2>1 DEF Owners
    <2>3. QED
      BY <1>2, <2>2, OwnersKept DEF PageIInv
  <1>6. BitWakes'
    <2>1. key \in [Tasks -> Bits]
      BY DEF PageIInv, PageTypeOK
    <2>2. \A u \in Tasks : Asleep(u)' => Asleep(u) /\ u # t
      BY <1>1 DEF Asleep
    <2>3. \A w, u \in Tasks : Wakes(w, u) => w # t /\ Wakes(w, u)'
      BY <1>1 DEF Wakes, walkVars, WalkLabels
    <2>4. \A v \in Tasks : Sure(v) => (Sure(v)' /\ key'[v] = key[v]) \/ bit'[key[v]]
      <3> SUFFICES ASSUME NEW v \in Tasks, Sure(v)
                   PROVE  (Sure(v)' /\ key'[v] = key[v]) \/ bit'[key[v]]
        OBVIOUS
      <3>1. CASE v = t
        <4>1. v \in Owners
          BY <3>1 DEF Owners, Sure
        <4>2. bit["locked"] /\ key[v] = "locked"
          BY <4>1 DEF PageIInv, LockedMeansOwned, BitWaiters, Sure
        <4>3. QED
          BY <1>2, <4>2
      <3>2. CASE v # t
        <4>1. \A w \in Tasks : pc[w] = "walk_del" => pc'[w] = "walk_del"
          BY <1>1
        <4>2. Consumed(v) => Consumed(v)'
          BY <3>2, <4>1 DEF Consumed, walkVars
        <4>3. QED
          BY <1>1, <1>2, <3>2, <4>2 DEF Sure, Asleep
      <3>3. QED
        BY <3>1, <3>2
    <2>5. QED
      BY <1>2, <2>1, <2>2, <2>3, <2>4, BitFrame DEF PageIInv
  <1>7. QED
    BY <1>3, <1>4, <1>5, <1>6 DEF PageIInv

(* finish_wait() of a bit wait. *)
LEMMA PageFinish ==
  ASSUME PageIInv, NEW t \in Tasks, bit_wait_finish(t)
  PROVE  PageIInv'
  <1>1. Types(PageLabels) /\ Return(t) \in {"idle", "owner"}
    BY DEF PageIInv, PageTypeOK, Types, Return
  <1>2. /\ WaitQueueTypeOK' /\ WQInv(BitWaitLabels)'
        /\ pc[t] \in {"finish", "finish_del"} /\ UNCHANGED <<on_rq, sig, timer, excl, walkVars>>
        /\ state' = state \/ state' = [state EXCEPT ![t] = TASK_RUNNING]
        /\ \E to2 \in {Return(t), "finish_del"} : pc' = [pc EXCEPT ![t] = to2]
    BY <1>1, FinishStep, BitInside DEF PageIInv, bit_wait_finish
  <1>3. PICK to2 \in {Return(t), "finish_del"} : pc' = [pc EXCEPT ![t] = to2]
    BY <1>2
  <1>4. link' = link \/ link' = [link EXCEPT ![t] = "out"]
    BY DEF bit_wait_finish, finish_wait, finish_wait_del, Unlink, wqVars
  <1>5. \A u \in Tasks : u # t => link'[u] = link[u]
    BY <1>4 DEF PageIInv, PageTypeOK, WaitQueueTypeOK
  <1>6. to2 \in {"idle", "owner", "finish_del"}
    BY <1>1, <1>3
  <1>7. ForgetKey(t)
    BY DEF bit_wait_finish
  <1>8. QED
    BY <1>2, <1>3, <1>5, <1>6, <1>7, PageLeave

(* A waker or a killed locker starts a walk: every sleeper is on the queue *)
(* it walks, and whoever relied on the locker has it as a waker now.       *)
LEMMA PageStart ==
  ASSUME PageIInv, NEW t \in Tasks, WaitQueueTypeOK', WQInv(BitWaitLabels)',
         pc[t] \in {"wake", "abort"}, wq_lock = NoTask, NEW m \in {TASK_NORMAL, TASK_KILLABLE},
         StartWalk(t, m, 1), UNCHANGED <<bit, key, mode, link, task_list>>,
         state' = state \/ state' = [state EXCEPT ![t] = TASK_RUNNING],
         UNCHANGED <<on_rq, sig, timer, excl>>
  PROVE  PageIInv'
  <1> USE DEF StartWalk
  <1>1. /\ \A u \in Tasks : u # t => pc'[u] = pc[u] /\ state'[u] = state[u]
        /\ pc'[t] = "walk" /\ \A u \in Tasks : state'[u] \in {state[u], TASK_RUNNING}
    BY DEF PageIInv, PageTypeOK, TaskTypeOK
  <1>2. \A w \in Tasks : pc[w] \notin WalkLabels
    BY FreeLock DEF PageIInv, PageTypeOK
  <1>3. PageTypeOK'
    <2>1. state' \in [Tasks -> States] /\ pc' \in [Tasks -> PageLabels]
      BY DEF PageIInv, PageTypeOK, TaskTypeOK, States, PageLabels, WalkLabels
    <2>2. QED
      BY <2>1 DEF PageIInv, PageTypeOK, TaskTypeOK
  <1>4. BitWaiters'
    <2>1. "walk" \notin BitWaitLabels /\ TASK_RUNNING # TASK_INTERRUPTIBLE
      BY DEF BitWaitLabels, TASK_RUNNING, TASK_INTERRUPTIBLE
    <2>2. \A u \in Tasks : state'[u] # TASK_INTERRUPTIBLE
      BY <1>1, <2>1 DEF PageIInv, BitWaiters
    <2>3. QED
      BY <1>1, <2>1, <2>2 DEF PageIInv, BitWaiters
  <1>5. LockedMeansOwned'
    <2>1. \A u \in Tasks : u \in Owners' <=> u \in Owners
      BY <1>1 DEF Owners
    <2>2. QED
      BY <2>1, OwnersKept DEF PageIInv
  <1>6. BitWakes'
    <2> SUFFICES ASSUME NEW u \in Tasks, Asleep(u)', ~bit[key[u]]
                 PROVE  BitWaker(key[u], u)' \/ (excl[u] /\ SureLocker(key[u])')
      BY DEF BitWakes
    <2>1. Asleep(u) /\ u # t
      BY <1>1 DEF Asleep
    <2>2. u \in Entries(rest')
      BY <2>1 DEF PageIInv, WQInv, SleepersQueued, QueueLinked, Asleep
    <2>3. Wakes(t, u)'
      BY <1>1, <2>2 DEF Wakes, WalkLabels
    <2>4. CASE BitWaker(key[u], u)
      <3>1. PICK w \in Tasks : Wakes(w, u) /\ key[w] = key[u]
        BY <2>4 DEF BitWaker
      <3>2. Wakes(w, u)'
        <4>1. CASE w = t
          BY <2>3, <4>1
        <4>2. CASE w # t
          BY <1>1, <1>2, <3>1, <4>2 DEF Wakes
        <4>3. QED
          BY <4>1, <4>2
      <3>3. QED
        BY <3>1, <3>2 DEF BitWaker
    <2>5. CASE excl[u] /\ SureLocker(key[u])
      <3>1. PICK v \in Tasks : Sure(v) /\ key[v] = key[u]
        BY <2>5 DEF SureLocker
      <3>2. CASE v = t
        BY <2>3, <3>1, <3>2 DEF BitWaker
      <3>3. CASE v # t
        <4>1. \A w \in Tasks : pc[w] # "walk_del"
          BY <1>2 DEF WalkLabels
        <4>2. Consumed(v) => Consumed(v)'
          BY <4>1 DEF Consumed
        <4>3. Sure(v)'
          BY <1>1, <3>1, <3>3, <4>2 DEF Sure, Asleep
        <4>4. QED
          BY <2>5, <3>1, <4>3 DEF SureLocker
      <3>4. QED
        BY <3>2, <3>3
    <2>6. QED
      BY <2>1, <2>4, <2>5 DEF PageIInv, BitWakes
  <1>7. QED
    BY <1>3, <1>4, <1>5, <1>6 DEF PageIInv

(* __wake_up_bit() takes the lock. *)
LEMMA PageWake ==
  ASSUME PageIInv, NEW t \in Tasks, __wake_up_bit(t)
  PROVE  PageIInv'
  <1> USE DEF __wake_up_bit, __wake_up, pageVars
  <1>1. Types(PageLabels) /\ pc[t] = "wake" /\ link[t] = "out" /\ wq_lock = NoTask
    BY DEF PageIInv, PageTypeOK, Types, WQInv, QueueLinked, BitWaitLabels
  <1>2. AwakeOnRq'
    <2>1. \A u \in Tasks : pc'[u] = "schedule" <=> pc[u] = "schedule"
      BY <1>1 DEF StartWalk, PageIInv, PageTypeOK, TaskTypeOK
    <2>2. QED
      BY <2>1 DEF PageIInv, WQInv, AwakeOnRq
  <1>3. 1 \in Int /\ TASK_NORMAL \in SUBSET (TASK_NORMAL \cup TASK_KILLABLE)
    OBVIOUS
  <1>4. WaitQueueTypeOK' /\ WQInv(BitWaitLabels)'
    BY <1>1, <1>2, <1>3, StartWalkStep DEF PageIInv
  <1>5. QED
    BY <1>1, <1>4, PageStart

(* A killed locker passes on the wakeup it has consumed, unless nobody is  *)
(* there to take it.                                                       *)
LEMMA PageAbort ==
  ASSUME PageIInv, NEW t \in Tasks, bit_wait_abort(t)
  PROVE  PageIInv'
  <1> USE DEF bit_wait_abort, abort_exclusive_wait, set_task_state
  <1>1. /\ Types(PageLabels) /\ mode[t] = TASK_KILLABLE /\ pc[t] = "abort" /\ wq_lock = NoTask
        /\ ForgetKey(t)
    BY DEF PageIInv, PageTypeOK, Types, BitWaiters
  <1>2. WaitQueueTypeOK' /\ WQInv(BitWaitLabels)'
    <2>1. mode[t] \in SUBSET (TASK_NORMAL \cup TASK_KILLABLE)
      BY <1>1
    <2>2. QED
      BY <1>1, <2>1, AbortStep DEF PageIInv
  <1>3. CASE StartWalk(t, mode[t], 1) /\ UNCHANGED <<task_list, link, flags>>
    <2>1. pc'[t] = "walk"
      BY <1>3 DEF StartWalk, PageIInv, PageTypeOK, TaskTypeOK
    <2>2. UNCHANGED <<bit, key, mode>>
      BY <1>1, <2>1 DEF ForgetKey
    <2>3. QED
      BY <1>1, <1>2, <1>3, <2>2, PageStart
  <1>4. CASE /\ link[t] # "out" \/ list_empty(task_list)
             /\ pc' = [pc EXCEPT ![t] = "idle"] /\ Unlink(t) /\ UNCHANGED <<wq_lock, walkVars>>
    <2>1. \A u \in Tasks : u # t => link'[u] = link[u]
      BY <1>4 DEF Unlink, PageIInv, PageTypeOK, WaitQueueTypeOK
    <2>2. CASE link[t] # "out"
      <3>1. link[t] = "in" /\ \A w \in Tasks : pc[w] # "walk_del"
        BY <1>1, <2>2, FreeLock DEF PageIInv, PageTypeOK, WalkLabels
      <3>2. ~Sure(t)
        BY <1>1, <3>1 DEF Sure, Consumed
      <3>3. QED
        BY <1>1, <1>2, <1>4, <2>1, <3>2, PageLeave
    <2>3. CASE list_empty(task_list)
      <3>1. Entries(task_list) = {}
        BY <2>3 DEF list_empty, Entries
      <3>2. \A u \in Tasks : ~Asleep(u)
        BY <3>1 DEF PageIInv, WQInv, SleepersQueued, QueueLinked, Asleep
      <3>3. /\ \A u \in Tasks : u # t => pc'[u] = pc[u] /\ state'[u] = state[u]
            /\ pc'[t] = "idle" /\ \A u \in Tasks : state'[u] \in {state[u], TASK_RUNNING}
        BY <1>4 DEF PageIInv, PageTypeOK, TaskTypeOK
      <3>4. /\ key' \in [Tasks -> Bits] /\ mode' \in [Tasks -> States] /\ bit' = bit
            /\ \A u \in Tasks : u # t => key'[u] = key[u] /\ mode'[u] = mode[u]
        BY <1>1, <3>3 DEF ForgetKey, PageIInv, PageTypeOK, States, Bits
      <3>5. PageTypeOK'
        <4>1. state' \in [Tasks -> States] /\ pc' \in [Tasks -> PageLabels]
          BY <1>4 DEF PageIInv, PageTypeOK, TaskTypeOK, States, PageLabels
        <4>2. QED
          BY <1>2, <1>4, <3>4, <4>1 DEF PageIInv, PageTypeOK, TaskTypeOK, walkVars
      <3>6. BitWaiters'
        <4>1. "idle" \notin BitWaitLabels \cup WalkLabels /\ TASK_RUNNING # TASK_INTERRUPTIBLE
              /\ UNCHANGED <<nr, mask, excl>>
          BY <1>4 DEF BitWaitLabels, WalkLabels, walkVars, TASK_RUNNING, TASK_INTERRUPTIBLE
        <4>2. \A u \in Tasks : state'[u] # TASK_INTERRUPTIBLE
          BY <3>3, <4>1 DEF PageIInv, BitWaiters
        <4>3. QED
          BY <3>3, <3>4, <4>1, <4>2 DEF PageIInv, BitWaiters
      <3>7. LockedMeansOwned'
        <4>1. \A u \in Tasks : u \in Owners' <=> u \in Owners
          BY <1>1, <3>3 DEF Owners
        <4>2. QED
          BY <3>4, <4>1, OwnersKept DEF PageIInv
      <3>8. BitWakes'
        BY <3>2, <3>3 DEF BitWakes, Asleep
      <3>9. QED
        BY <1>2, <3>5, <3>6, <3>7, <3>8 DEF PageIInv
    <2>4. QED
      BY <1>4, <2>2, <2>3
  <1>5. QED
    BY <1>3, <1>4

(* A step of the walker, apart from what it does to the queue and to those *)
(* who wait for a wakeup.                                                  *)
LEMMA WalkerStep ==
  ASSUME PageIInv, NEW t \in Tasks, pc[t] \in WalkLabels, NEW to \in WalkLabels \cup {"idle"},
         pc' = [pc EXCEPT ![t] = to], WaitQueueTypeOK', nr' \in {0, 1},
         to # "idle" => UNCHANGED <<nr, mask>>, ForgetKey(t),
         state' \in [Tasks -> States], on_rq' \in [Tasks -> BOOLEAN],
         \A u \in Tasks : state'[u] \in {state[u], TASK_RUNNING}, UNCHANGED <<sig, timer, excl>>
  PROVE  /\ PageTypeOK' /\ BitWaiters' /\ LockedMeansOwned'
         /\ \A u \in Tasks : u # t => pc'[u] = pc[u] /\ key'[u] = key[u] /\ mode'[u] = mode[u]
         /\ \A u \in Tasks : pc[u] \in WalkLabels => u = t
         /\ pc'[t] = to /\ (to # "idle" => key'[t] = key[t])
         /\ bit' = bit /\ key \in [Tasks -> Bits]
         /\ \A u \in Tasks : Asleep(u)' => Asleep(u) /\ u # t
  <1>1. /\ \A u \in Tasks : u # t => pc'[u] = pc[u]
        /\ pc'[t] = to
    BY DEF PageIInv, PageTypeOK, TaskTypeOK
  <1>2. to # "schedule" /\ to # "abort" /\ to # "owner" /\ to \notin {"finish", "finish_del"}
        /\ to \notin BitWaitLabels
    BY DEF WalkLabels, BitWaitLabels
  <1>3. /\ key' \in [Tasks -> Bits] /\ mode' \in [Tasks -> States] /\ bit' = bit
        /\ key \in [Tasks -> Bits]
        /\ \A u \in Tasks : u # t => key'[u] = key[u] /\ mode'[u] = mode[u]
        /\ to # "idle" => key'[t] = key[t]
    BY <1>1, <1>2 DEF ForgetKey, PageIInv, PageTypeOK, States, Bits
  <1>4. PageTypeOK'
    <2>1. pc' \in [Tasks -> PageLabels]
      BY DEF PageIInv, PageTypeOK, TaskTypeOK, PageLabels
    <2>2. QED
      BY <1>3, <2>1 DEF PageIInv, PageTypeOK, TaskTypeOK
  <1>5. \A u \in Tasks : pc[u] \in WalkLabels => u = t
    BY DEF PageIInv, WQInv, WalkerLocks
  <1>6. BitWaiters'
    <2>1. TASK_RUNNING # TASK_INTERRUPTIBLE /\ "idle" \notin WalkLabels
      BY DEF TASK_RUNNING, TASK_INTERRUPTIBLE, WalkLabels
    <2>2. \A u \in Tasks : state'[u] # TASK_INTERRUPTIBLE
      BY <2>1 DEF PageIInv, BitWaiters
    <2>3. QED
      BY <1>1, <1>2, <1>3, <1>5, <2>1, <2>2 DEF PageIInv, BitWaiters
  <1>7. LockedMeansOwned'
    <2>1. \A u \in Tasks : u \in Owners' <=> u \in Owners
      BY <1>1, <1>2 DEF Owners, WalkLabels
    <2>2. QED
      BY <1>3, <2>1, OwnersKept DEF PageIInv
  <1>8. \A u \in Tasks : Asleep(u)' => Asleep(u) /\ u # t
    BY <1>1, <1>2 DEF Asleep
  <1>9. QED
    BY <1>1, <1>3, <1>4, <1>5, <1>6, <1>7, <1>8

(* A sleeper's state is in the mask of every wakeup of the page lock. *)
LEMMA BitMaskWakes ==
  ASSUME PageIInv, NEW w \in Tasks, pc[w] \in WalkLabels, NEW u \in Tasks, state[u] # TASK_RUNNING
  PROVE  state[u] \cap mask # {}
  <1>1. state[u] \in {TASK_UNINTERRUPTIBLE, TASK_KILLABLE}
    BY DEF PageIInv, PageTypeOK, TaskTypeOK, States, BitWaiters
  <1>2. mask \in {TASK_NORMAL, TASK_KILLABLE}
    BY DEF PageIInv, BitWaiters
  <1>3. "UNINTERRUPTIBLE" \in state[u] /\ "UNINTERRUPTIBLE" \in mask
    BY <1>1, <1>2 DEF TASK_UNINTERRUPTIBLE, TASK_KILLABLE, TASK_NORMAL
  <1>4. QED
    BY <1>3

(* The walk visits an entry: its task is awake afterwards, or waits for    *)
(* another bit, or the bit is set again.                                   *)
LEMMA PageVisit ==
  ASSUME PageIInv, NEW t \in Tasks, ForgetKey(t),
         walk_visit(t, rest # <<>> /\ wake_bit_function(rest[1]))
  PROVE  PageIInv'
  <1>1. Types(PageLabels)
    BY DEF PageIInv, PageTypeOK, Types
  <1>2. PICK runs \in BOOLEAN : /\ walk_visit(t, runs)
                                /\ rest # <<>> => (runs <=> wake_bit_function(rest[1]))
    <2>1. (rest # <<>> /\ wake_bit_function(rest[1])) \in BOOLEAN
      OBVIOUS
    <2>2. QED
      BY <2>1
  <1>3. /\ WaitQueueTypeOK' /\ WQInv(BitWaitLabels)'
        /\ state' \in [Tasks -> States] /\ on_rq' \in [Tasks -> BOOLEAN]
        /\ \A u \in Tasks : state'[u] \in {state[u], TASK_RUNNING}
        /\ UNCHANGED <<sig, timer, task_list, link, excl>> /\ pc[t] = "walk"
        /\ \/ rest = <<>> /\ EndWalk(t)
           \/ /\ rest # <<>> /\ UNCHANGED <<nr, mask>>
              /\ runs /\ state[rest[1]] \cap mask # {} => state'[rest[1]] = TASK_RUNNING
              /\ \/ pc' = pc /\ rest' = Tail(rest)
                 \/ pc' = [pc EXCEPT ![t] = "walk_del"] /\ rest' = rest
    BY <1>1, <1>2, VisitStep, BitInside DEF PageIInv
  <1>4. pc[t] \in WalkLabels /\ pc[t] = "walk" /\ wq_lock = t
    BY <1>3 DEF WalkLabels, PageIInv, WQInv, WalkerLocks
  <1>5. PICK to \in {"idle", "walk", "walk_del"} :
          pc' = [pc EXCEPT ![t] = to] /\ (rest # <<>> <=> to # "idle")
    <2>1. pc' = pc => pc' = [pc EXCEPT ![t] = "walk"]
      BY <1>4 DEF PageIInv, PageTypeOK, TaskTypeOK
    <2>2. QED
      BY <1>3, <2>1 DEF EndWalk
  <1>6. /\ PageTypeOK' /\ BitWaiters' /\ LockedMeansOwned'
        /\ \A u \in Tasks : u # t => pc'[u] = pc[u] /\ key'[u] = key[u] /\ mode'[u] = mode[u]
        /\ \A u \in Tasks : pc[u] \in WalkLabels => u = t
        /\ pc'[t] = to /\ (to # "idle" => key'[t] = key[t])
        /\ bit' = bit /\ key \in [Tasks -> Bits]
        /\ \A u \in Tasks : Asleep(u)' => Asleep(u) /\ u # t
    <2>1. to \in WalkLabels \cup {"idle"} /\ (to # "idle" => UNCHANGED <<nr, mask>>)
      BY <1>3, <1>5 DEF WalkLabels
    <2>2. nr' \in {0, 1}
      BY <1>3 DEF EndWalk, PageIInv, PageTypeOK
    <2>3. QED
      BY <1>3, <1>4, <1>5, <2>1, <2>2, WalkerStep
  <1>7. BitWakes'
    <2>1. \A v \in Tasks : Sure(v) => Sure(v)' /\ key'[v] = key[v]
      <3>1. ~Sure(t)
        BY <1>4 DEF Sure, BitWaitLabels
      <3>2. \A w \in Tasks : pc[w] # "walk_del"
        BY <1>4, <1>6 DEF WalkLabels
      <3>3. \A v \in Tasks : Consumed(v) => Consumed(v)'
        BY <1>3, <3>2 DEF Consumed
      <3>4. QED
        BY <1>3, <1>6, <3>1, <3>3 DEF Sure
    <2>2. ASSUME NEW u \in Tasks, Asleep(u)', ~bit[key[u]], NEW w \in Tasks, Wakes(w, u),
                 key[w] = key[u]
          PROVE  Wakes(w, u)' /\ key'[w] = key[w]
      <3>1. Asleep(u) /\ u # t
        BY <1>6, <2>2
      <3>2. CASE w # t
        BY <1>6, <2>2, <3>2 DEF Wakes
      <3>3. CASE w = t
        <4>1. u \in Entries(rest) /\ rest \in Seq(Tasks) /\ rest # <<>>
          BY <1>4, <2>2, <3>3 DEF Wakes, Entries, PageIInv, PageTypeOK, WaitQueueTypeOK
        <4>2. u # rest[1]
          <5> SUFFICES ASSUME u = rest[1]
                       PROVE  FALSE
            OBVIOUS
          <5>1. runs
            BY <1>2, <1>4, <2>2, <3>3, <4>1 DEF wake_bit_function
          <5>2. state[u] # TASK_RUNNING /\ state'[u] # TASK_RUNNING
            BY <2>2, <3>1 DEF Asleep
          <5>3. state[u] \cap mask # {}
            BY <1>4, <5>2, BitMaskWakes
          <5>4. QED
            BY <1>3, <4>1, <5>1, <5>2, <5>3
        <4>3. u \in Entries(rest')
          <5>1. LinkedOnce(rest) /\ Head(rest) = rest[1]
            BY <1>4, <4>1 DEF PageIInv, WQInv, WalkQueued
          <5>2. Entries(Tail(rest)) = Entries(rest) \ {rest[1]}
            BY <4>1, <5>1, HeadTail
          <5>3. QED
            BY <1>3, <4>1, <4>2, <5>2
        <4>4. to \in WalkLabels /\ to # "idle"
          BY <1>5, <4>1 DEF WalkLabels
        <4>5. QED
          BY <1>6, <3>3, <4>3, <4>4 DEF Wakes
      <3>4. QED
        BY <3>2, <3>3
    <2>3. QED
      BY <1>3, <1>6, <2>1, <2>2, BitFrame DEF PageIInv
  <1>8. QED
    BY <1>3, <1>6, <1>7 DEF PageIInv

(* The walker's first store to the entry of a locker or waiter it woke. *)
LEMMA PageDel ==
  ASSUME PageIInv, NEW t \in Tasks, ForgetKey(t), walk_del(t)
  PROVE  PageIInv'
  <1>1. Types(PageLabels)
    BY DEF PageIInv, PageTypeOK, Types
  <1>2. WaitQueueTypeOK' /\ WQInv(BitWaitLabels)'
    BY <1>1, DelStep, BitInside DEF PageIInv
  <1>3. /\ pc[t] = "walk_del" /\ pc' = [pc EXCEPT ![t] = "walk_del2"]
        /\ link' = [link EXCEPT ![rest[1]] = "half"]
        /\ UNCHANGED <<state, on_rq, sig, timer, wq_lock, excl, walkVars>>
    BY DEF walk_del, Goto
  <1>4. pc[t] \in WalkLabels /\ "walk_del2" \in WalkLabels \cup {"idle"}
    BY <1>3 DEF WalkLabels
  <1>5. /\ PageTypeOK' /\ BitWaiters' /\ LockedMeansOwned'
        /\ \A u \in Tasks : u # t => pc'[u] = pc[u] /\ key'[u] = key[u] /\ mode'[u] = mode[u]
        /\ \A u \in Tasks : pc[u] \in WalkLabels => u = t
        /\ pc'[t] = "walk_del2" /\ key'[t] = key[t]
        /\ bit' = bit /\ key \in [Tasks -> Bits]
        /\ \A u \in Tasks : Asleep(u)' => Asleep(u) /\ u # t
    <2>1. /\ UNCHANGED <<nr, mask, sig, timer, excl>> /\ nr' \in {0, 1}
          /\ state' \in [Tasks -> States] /\ on_rq' \in [Tasks -> BOOLEAN]
          /\ \A u \in Tasks : state'[u] \in {state[u], TASK_RUNNING}
      BY <1>3 DEF PageIInv, PageTypeOK, TaskTypeOK, walkVars
    <2>2. QED
      BY <1>2, <1>3, <1>4, <2>1, WalkerStep
  <1>6. BitWakes'
    <2>1. rest[1] \in Tasks /\ rest # <<>> /\ rest' = rest /\ state' = state
      BY <1>3 DEF PageIInv, PageTypeOK, WaitQueueTypeOK, WQInv, WalkQueued, walkVars
    <2>2. \A v \in Tasks : Consumed(v) => Consumed(v)'
      <3>1. \A w \in Tasks : pc[w] = "walk_del" => w = t
        BY <1>5 DEF WalkLabels
      <3>2. \A v \in Tasks : Consumed(v) => link[v] # "in" \/ v = rest[1]
        BY <3>1 DEF Consumed
      <3>3. \A v \in Tasks : link[v] # "in" \/ v = rest[1] => link'[v] # "in"
        BY <1>3, <2>1 DEF PageIInv, PageTypeOK, WaitQueueTypeOK
      <3>4. QED
        BY <3>2, <3>3 DEF Consumed
    <2>3. \A v \in Tasks : Sure(v) => Sure(v)' /\ key'[v] = key[v]
      <3>1. ~Sure(t)
        BY <1>3 DEF Sure, BitWaitLabels
      <3>2. QED
        BY <1>3, <1>5, <2>2, <3>1 DEF Sure
    <2>4. \A w, u \in Tasks : Wakes(w, u) => Wakes(w, u)' /\ key'[w] = key[w]
      BY <1>4, <1>5, <2>1 DEF Wakes, WalkLabels
    <2>5. QED
      BY <1>3, <1>5, <2>3, <2>4, BitFrame DEF PageIInv
  <1>7. QED
    BY <1>2, <1>5, <1>6 DEF PageIInv

(* The walker's second store.  A walk that ends behind a locker leaves     *)
(* only lockers behind, and the one it woke is off the queue and awake: it *)
(* sets the bit, or is killed and wakes the next one.                      *)
LEMMA PageDel2 ==
  ASSUME PageIInv, NEW t \in Tasks, ForgetKey(t), walk_del2(t)
  PROVE  PageIInv'
  <1>1. Types(PageLabels)
    BY DEF PageIInv, PageTypeOK, Types
  <1>2. WaitQueueTypeOK' /\ WQInv(BitWaitLabels)'
    BY <1>1, Del2Step, BitInside DEF PageIInv
  <1>3. /\ pc[t] = "walk_del2" /\ pc[t] \in WalkLabels
        /\ link' = [link EXCEPT ![rest[1]] = "out"]
        /\ UNCHANGED <<state, on_rq, sig, timer, task_list, excl>>
    BY DEF walk_del2, WalkLabels
  <1>4. nr = 1
    BY <1>3 DEF PageIInv, BitWaiters
  <1>5. \/ flags /\ EndWalk(t)
        \/ /\ ~flags /\ pc' = [pc EXCEPT ![t] = "walk"] /\ rest' = Tail(rest)
           /\ UNCHANGED <<nr, mask>>
    BY <1>4 DEF walk_del2
  <1>6. PICK to \in {"idle", "walk"} : pc' = [pc EXCEPT ![t] = to] /\ (to = "idle" <=> flags)
    BY <1>5 DEF EndWalk
  <1>7. /\ PageTypeOK' /\ BitWaiters' /\ LockedMeansOwned'
        /\ \A u \in Tasks : u # t => pc'[u] = pc[u] /\ key'[u] = key[u] /\ mode'[u] = mode[u]
        /\ \A u \in Tasks : pc[u] \in WalkLabels => u = t
        /\ pc'[t] = to /\ (to # "idle" => key'[t] = key[t])
        /\ bit' = bit /\ key \in [Tasks -> Bits]
        /\ \A u \in Tasks : Asleep(u)' => Asleep(u) /\ u # t
    <2>1. /\ to \in WalkLabels \cup {"idle"} /\ (to # "idle" => UNCHANGED <<nr, mask>>)
          /\ nr' \in {0, 1}
      BY <1>4, <1>5, <1>6 DEF WalkLabels, EndWalk
    <2>2. /\ state' \in [Tasks -> States] /\ on_rq' \in [Tasks -> BOOLEAN]
          /\ \A u \in Tasks : state'[u] \in {state[u], TASK_RUNNING}
      BY <1>3 DEF PageIInv, PageTypeOK, TaskTypeOK
    <2>3. QED
      BY <1>2, <1>3, <1>6, <2>1, <2>2, WalkerStep
  <1>8. PICK c \in Tasks : c = rest[1]
    BY <1>3 DEF PageIInv, PageTypeOK, WaitQueueTypeOK, WQInv, WalkQueued
  <1>9. /\ rest \in Seq(Tasks) /\ rest # <<>> /\ LinkedOnce(rest) /\ Head(rest) = c
        /\ ExclusiveLast(excl, rest) /\ state[c] = TASK_RUNNING /\ flags = excl[c]
        /\ link[c] = "half" /\ Entries(Tail(rest)) \subseteq Entries(task_list)
    BY <1>3, <1>8 DEF PageIInv, PageTypeOK, WaitQueueTypeOK, WQInv, WalkQueued
  <1>10. pc[c] \in BitWaitLabels /\ c # t
    BY <1>3, <1>9 DEF PageIInv, WQInv, QueueLinked, BitWaitLabels
  <1>11. link'[c] = "out" /\ \A v \in Tasks : v # c => link'[v] = link[v]
    BY <1>3, <1>8 DEF PageIInv, PageTypeOK, WaitQueueTypeOK
  <1>12. \A v \in Tasks : Sure(v) => Sure(v)' /\ key'[v] = key[v]
    <2>1. ~Sure(t)
      BY <1>3 DEF Sure, BitWaitLabels
    <2>2. \A w \in Tasks : pc[w] # "walk_del"
      BY <1>3, <1>7 DEF WalkLabels
    <2>3. \A v \in Tasks : Consumed(v) => Consumed(v)'
      BY <1>11, <2>2 DEF Consumed
    <2>4. QED
      BY <1>3, <1>7, <2>1, <2>3 DEF Sure
  <1>13. BitWakes'
    <2> SUFFICES ASSUME NEW u \in Tasks, Asleep(u)', ~bit'[key'[u]]
                 PROVE  BitWaker(key[u], u)' \/ (excl'[u] /\ SureLocker(key[u])')
      BY DEF BitWakes
    <2>1. Asleep(u) /\ u # t /\ u # c /\ ~bit[key[u]] /\ key'[u] = key[u]
      BY <1>7, <1>9 DEF Asleep
    <2>2. CASE excl[u] /\ SureLocker(key[u])
      BY <1>3, <1>12, <2>1, <2>2 DEF SureLocker
    <2>3. CASE BitWaker(key[u], u)
      <3>1. PICK w \in Tasks : Wakes(w, u) /\ key[w] = key[u]
        BY <2>3 DEF BitWaker
      <3>2. CASE w # t
        <4>1. Wakes(w, u)'
          BY <1>7, <3>1, <3>2 DEF Wakes
        <4>2. QED
          BY <1>7, <2>1, <3>1, <3>2, <4>1 DEF BitWaker
      <3>3. CASE w = t /\ ~flags
        <4>1. u \in Entries(rest)
          BY <1>3, <3>1, <3>3 DEF Wakes
        <4>2. u \in Entries(Tail(rest))
          BY <1>9, <2>1, <4>1, HeadTail
        <4>3. Wakes(t, u)' /\ key'[t] = key[t]
          BY <1>5, <1>6, <1>7, <3>3, <4>2 DEF Wakes, WalkLabels
        <4>4. QED
          BY <2>1, <3>1, <3>3, <4>3 DEF BitWaker
      <3>4. CASE w = t /\ flags
        <4>1. u \in Entries(rest)
          BY <1>3, <3>1, <3>4 DEF Wakes
        <4>2. PICK i \in 1..Len(rest) : u = rest[i]
          BY <4>1 DEF Entries
        <4>3. 1 \in 1..Len(rest) /\ 1 < i
          BY <1>8, <1>9, <2>1, <4>2
        <4>4. excl[c] /\ excl[u]
          BY <1>8, <1>9, <3>4, <4>2, <4>3 DEF ExclusiveLast
        <4>5. pc[u] \in BitWaitLabels
          BY <2>1 DEF Asleep, BitWaitLabels
        <4>6. key[c] = "locked" /\ key[u] = "locked"
          BY <1>10, <4>4, <4>5 DEF PageIInv, BitWaiters
        <4>7. Sure(c)' /\ key'[c] = key[c]
          BY <1>3, <1>7, <1>9, <1>10, <1>11, <4>4 DEF Sure, Asleep, Consumed
        <4>8. QED
          BY <1>3, <2>1, <4>4, <4>6, <4>7 DEF SureLocker
      <3>5. QED
        BY <3>2, <3>3, <3>4
    <2>4. QED
      BY <2>1, <2>2, <2>3 DEF PageIInv, BitWakes
  <1>14. QED
    BY <1>2, <1>7, <1>13 DEF PageIInv

(* The scheduler or a fatal signal. *)
LEMMA PageTask ==
  ASSUME PageIInv, NEW t \in Tasks, PageSignals(t) \/ PageScheduling(t)
  PROVE  PageIInv'
  <1>1. Types(PageLabels) /\ {"resumed", "dead"} \subseteq PageLabels
    BY DEF PageIInv, PageTypeOK, Types, PageLabels, BitWaitLabels
  <1>2. /\ UNCHANGED <<wqVars, pageVars>>
        /\ \/ do_signal(t) \/ schedule(t)
           \/ \E kind \in {"plain", "fatal"} : signal_wake_up(t, kind)
    BY DEF PageSignals, PageScheduling
  <1>3. /\ TaskTypeOK(PageLabels)' /\ WaitQueueTypeOK' /\ WQInv(BitWaitLabels)'
        /\ \A u \in Tasks : state'[u] \in {state[u], TASK_RUNNING}
        /\ \A u \in Tasks : Asleep(u)' => Asleep(u)
        /\ \A u \in Tasks : \/ pc'[u] = pc[u]
                            \/ pc[u] = "idle" /\ pc'[u] = "dead"
                            \/ pc[u] = "schedule" /\ pc'[u] = "resumed"
    BY <1>1, <1>2, TaskStep, BitInside DEF PageIInv
  <1>4. UNCHANGED <<link, excl, rest, nr, mask, bit, key, mode>>
    BY <1>2 DEF wqVars, pageVars
  <1>5. PageTypeOK'
    BY <1>3, <1>4 DEF PageIInv, PageTypeOK
  <1>6. \A u \in Tasks : /\ pc'[u] \in BitWaitLabels <=> pc[u] \in BitWaitLabels
                         /\ pc'[u] \in WalkLabels \cup {"abort", "wake", "wake_check", "owner",
                                                        "finish", "finish_del"} \/
                            pc[u] \in WalkLabels \cup {"abort", "wake", "wake_check", "owner",
                                                       "finish", "finish_del"} => pc'[u] = pc[u]
    BY <1>3 DEF BitWaitLabels, WalkLabels
  <1>7. BitWaiters'
    <2>1. TASK_RUNNING # TASK_INTERRUPTIBLE
      BY DEF TASK_RUNNING, TASK_INTERRUPTIBLE
    <2>2. \A u \in Tasks : state'[u] # TASK_INTERRUPTIBLE
      BY <1>3, <2>1 DEF PageIInv, BitWaiters
    <2>3. QED
      BY <1>4, <1>6, <2>2 DEF PageIInv, BitWaiters
  <1>8. LockedMeansOwned'
    <2>1. \A u \in Tasks : u \in Owners' <=> u \in Owners
      BY <1>4, <1>6 DEF Owners
    <2>2. QED
      BY <1>4, <2>1, OwnersKept DEF PageIInv
  <1>9. BitWakes'
    <2>1. key \in [Tasks -> Bits]
      BY DEF PageIInv, PageTypeOK
    <2>2. \A w, u \in Tasks : Wakes(w, u) => Wakes(w, u)'
      BY <1>4, <1>6 DEF Wakes
    <2>3. \A v \in Tasks : Consumed(v) => Consumed(v)'
      <3>1. \A w \in Tasks : pc[w] = "walk_del" => pc'[w] = "walk_del"
        BY <1>6 DEF WalkLabels
      <3>2. QED
        BY <1>4, <3>1 DEF Consumed
    <2>4. \A v \in Tasks : Sure(v) => Sure(v)'
      BY <1>3, <1>4, <1>6, <2>3 DEF Sure
    <2>5. QED
      BY <1>3, <1>4, <2>1, <2>2, <2>4, BitFrame DEF PageIInv
  <1>10. QED
    BY <1>3, <1>5, <1>7, <1>8, <1>9 DEF PageIInv

(* The page is unlocked, no writeback is in progress, nobody waits. *)
LEMMA InitPageIInv == PageInit => PageIInv
  <1> SUFFICES ASSUME PageInit
               PROVE  PageIInv
    OBVIOUS
  <1> USE DEF PageInit, TaskInit, WaitQueueInit
  <1>1. \A u \in Tasks : pc[u] = "idle" /\ link[u] = "out" /\ on_rq[u] /\ state[u] = TASK_RUNNING
    OBVIOUS
  <1>2. TaskTypeOK(PageLabels)
    BY DEF TaskTypeOK, PageLabels, States
  <1>3. WaitQueueTypeOK
    <2>1. <<>> \in Seq(Tasks) /\ nr \in Int /\ wq_lock \in Tasks \cup {NoTask}
      OBVIOUS
    <2>2. flags \in BOOLEAN
      OBVIOUS
    <2>3. QED
      BY <2>1, <2>2 DEF WaitQueueTypeOK
  <1>4. PageTypeOK
    <2>1. bit \in [Bits -> BOOLEAN] /\ key \in [Tasks -> Bits]
      BY DEF Bits
    <2>2. QED
      BY <1>2, <1>3, <2>1 DEF PageTypeOK, States
  <1>5. WQInv(BitWaitLabels)
    <2>1. AwakeOnRq /\ WalkerLocks /\ SleepersQueued /\ WalkQueued
      BY <1>1, WaitQueueAssumption DEF AwakeOnRq, WalkerLocks, SleepersQueued,
                                         WalkQueued, WalkLabels
    <2>2. Len(task_list) = 0 /\ Entries(task_list) = {}
      BY DEF Entries
    <2>3. QueueLinked(BitWaitLabels) /\ ExclusiveLast(excl, task_list)
      BY <1>1, <2>2 DEF QueueLinked, LinkedOnce, ExclusiveLast
    <2>4. QED
      BY <2>1, <2>3 DEF WQInv
  <1>6. BitWaiters /\ BitWakes
    BY <1>1 DEF BitWaiters, BitWakes, Asleep, BitWaitLabels, WalkLabels, TASK_RUNNING,
                TASK_INTERRUPTIBLE
  <1>7. LockedMeansOwned
    <2>1. Owners = {} /\ ~bit["locked"]
      BY <1>1 DEF Owners, Bits
    <2>2. QED
      BY <2>1 DEF LockedMeansOwned
  <1>8. QED
    BY <1>4, <1>5, <1>6, <1>7 DEF PageIInv

(* Every step of the page lock keeps the invariant. *)
LEMMA NextPageIInv == PageIInv /\ [PageNext]_pageLockVars => PageIInv'
  <1> SUFFICES ASSUME PageIInv, [PageNext]_pageLockVars
               PROVE  PageIInv'
    OBVIOUS
  <1>1. CASE UNCHANGED pageLockVars
    BY <1>1 DEF PageIInv, PageTypeOK, TaskTypeOK, WaitQueueTypeOK, WQInv, AwakeOnRq, WalkerLocks,
                QueueLinked, SleepersQueued, WalkQueued, BitWaiters, LockedMeansOwned, Owners,
                BitWakes, BitWaker, Wakes, SureLocker, Sure, Consumed, Asleep,
                pageLockVars, taskVars, wqVars, pageVars
  <1>2. CASE PageNext
    <2>1. PICK t \in Tasks : \/ PageCalls(t) \/ PageSteps(t) \/ PageLockers(t) \/ unlock_page(t)
                             \/ PageScheduling(t) \/ PageSignals(t)
      BY <1>2 DEF PageNext
    <2>2. CASE PageCalls(t)
      <3>1. /\ TRUE \in BOOLEAN /\ FALSE \in BOOLEAN /\ "locked" \in Bits
            /\ TASK_UNINTERRUPTIBLE # TASK_KILLABLE
        BY DEF Bits, TASK_UNINTERRUPTIBLE, TASK_KILLABLE
      <3>2. CASE lock_page(t)
        BY <3>1, <3>2, PageTrylock, PageCall DEF lock_page
      <3>3. CASE lock_page_killable(t)
        BY <3>1, <3>3, PageTrylock, PageCall DEF lock_page_killable
      <3>4. CASE \E b \in Bits : wait_on_page_bit(t, b)
        BY <3>1, <3>4, PageCall DEF wait_on_page_bit
      <3>5. QED
        BY <2>2, <3>2, <3>3, <3>4, PageStartIO, PageClear DEF PageCalls
    <2>3. CASE PageSteps(t)
      BY <2>3, PageLook, PageAgain, PageCheck, PageVisit, PageDel, PageDel2 DEF PageSteps, PageWalk
    <2>4. CASE PageLockers(t)
      BY <2>4, PagePrepare, PageFinish, PageAbort, PageWake DEF PageLockers
    <2>5. QED
      BY <2>1, <2>2, <2>3, <2>4, PageClear, PageTask
  <1>3. QED
    BY <1>1, <1>2

(* The inductive invariant of the page lock holds in every reachable       *)
(* state.                                                                  *)
THEOREM PageInvariance == PageSpec => []PageIInv
  BY InitPageIInv, NextPageIInv, PTL DEF PageSpec

(* The variables of the page lock keep their types; every walk is for one  *)
(* exclusive waiter, whoever starts it.                                    *)
THEOREM PageTypeCorrect == PageSpec => []PageTypeOK
  <1>1. PageIInv => PageTypeOK
    BY DEF PageIInv
  <1>2. QED
    BY <1>1, PageInvariance, PTL

(* PG_locked is set exactly while one task owns the page, counting the     *)
(* locker that has set the bit and is still in finish_wait().              *)
THEOREM PageOwned == PageSpec => []LockedMeansOwned
  <1>1. PageIInv => LockedMeansOwned
    BY DEF PageIInv
  <1>2. QED
    BY <1>1, PageInvariance, PTL

(* The walk of __wake_up_bit(), and the one a killed locker starts, store  *)
(* only to entries of tasks that are still in __wait_on_bit().             *)
THEOREM PageNoScribble == PageSpec => []StackSafe(InBitWait)
  <1>1. PageIInv => StackSafe(InBitWait)
    BY QueueSafe DEF PageIInv, PageTypeOK, InBitWait
  <1>2. QED
    BY <1>1, PageInvariance, PTL

(* Nobody sleeps for a clear bit unless a wakeup is on its way, although   *)
(* unlock_page() looks at the queue without its lock, wakes one locker     *)
(* only, and that locker may be killed before it sets the bit.             *)
THEOREM PageNotMissed == PageSpec => []NoLostBitWakeup
  <1>1. PageIInv => NoLostBitWakeup
    <2> SUFFICES ASSUME PageIInv, NEW t \in Tasks, Asleep(t), ~bit[key[t]]
                 PROVE  WakingBit(key[t], t) \/ (excl[t] /\ LockerComing(key[t]))
      BY DEF NoLostBitWakeup
    <2>1. CASE BitWaker(key[t], t)
      BY <2>1 DEF BitWaker, Wakes, WakingBit
    <2>2. CASE excl[t] /\ SureLocker(key[t])
      <3>1. PICK u \in Tasks : Sure(u) /\ key[u] = key[t]
        BY <2>2 DEF SureLocker
      <3>2. GivesUp(u) => Consumed(u)
        BY <3>1 DEF GivesUp, Sure, PageIInv, BitWaiters
      <3>3. QED
        BY <2>2, <3>1, <3>2 DEF LockerComing, InBitWait, Sure
    <2>3. QED
      BY <2>1, <2>2 DEF PageIInv, BitWakes
  <1>2. QED
    BY <1>1, PageInvariance, PTL

=============================================================================
