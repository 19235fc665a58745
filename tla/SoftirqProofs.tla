--------------------------- MODULE SoftirqProofs ---------------------------
(***************************************************************************)
(* Proofs about what two softirqs do.                                      *)
(*                                                                         *)
(* Tasklet's safety properties, for any number of CPUs, tasklets and       *)
(* threads.  The two bits of a tasklet are two tokens: RUN is held by the  *)
(* softirq that has the tasklet locked, SCHED by whoever has to see that   *)
(* it is run.  The count is the number of threads that disabled it.        *)
(*                                                                         *)
(* TimerWheel's, for every width of the vectors, every set of timers and   *)
(* all the timeouts that words of that width can tell from the past.  A    *)
(* time is seen as its distance from timer_jiffies, a signed number.  The  *)
(* slots of the wheel come up in an order; a timer is in the slot that     *)
(* comes up when less than one slot is left to its time.                   *)
(***************************************************************************)
EXTENDS Tasklet, TimerWheel, KListProofs, FiniteSetTheorems

(* The softirq of CPU k has tasklet t locked by tasklet_trylock(). *)
Holds(k, t) == soft[k] \in {"count", "clear", "run", "resched", "unlock"} /\ cur[k] = t

(* What the softirq, the interrupt and the thread have in hand, by where   *)
(* they are.                                                               *)
HandInv ==
  /\ \A k \in CPUs :
       /\ soft[k] \in {"count", "clear", "run", "resched", "unlock", "requeue"} <=> cur[k] \in Tasklets
       /\ soft[k] \in {"none", "take", "check"} => list[k] = <<>>
       /\ irq[k] = "queue" <=> irqt[k] \in Jobs
  /\ \A p \in Threads : pc[p] # "idle" <=> arg[p] \in Jobs

(* RUN is a lock: whoever has it set it, and nobody else has it. *)
RunInv ==
  \A t \in Tasklets :
    /\ \A k \in CPUs : Holds(k, t) => RUN[t]
    /\ \A k, l \in CPUs : Holds(k, t) /\ Holds(l, t) => k = l

Disablers(t) == {p \in Threads : pc[p] \in {"dwait", "disabled", "nosync"} /\ arg[p][1] = t}

CountInv == \A t \in Tasklets : count[t] = Cardinality(Disablers(t))

(* SCHED is in one place at most, and set exactly when it is in one. *)
Token(t) ==
  /\ \A x, w, y, z : At(t, x, w) /\ At(t, y, z) => x = y /\ w = z
  /\ SCHED[t] <=> \E x, w : At(t, x, w)

TokenInv == \A t \in Tasklets : Token(t)

ListsOnce == \A k \in CPUs : LinkedOnce(list[k]) /\ \A v \in Vecs : LinkedOnce(vec[k][v])

KilledIsQuiet == \A p \in Threads : pc[p] = "kclear" => \A k \in CPUs : ~Executes(k, arg[p][1])

(* The inductive invariant. *)
IInv ==
  /\ TypeOK /\ HandInv /\ RunInv /\ CountInv /\ DisabledIsQuiet
  /\ ListsOnce /\ TokenInv /\ KilledIsQuiet

-----------------------------------------------------------------------------
(* The steps that a softirq takes inside tasklet_action(). *)
ActionStep(k) ==
  \/ take_list(k) \/ tasklet_trylock(k) \/ read_count(k) \/ clear_sched(k)
  \/ func_reschedules(k) \/ func_queue(k) \/ func_returns(k) \/ tasklet_unlock(k)
  \/ requeue(k) \/ action_returns(k)

(* The steps that start or end a pass of __do_softirq(), or are those of   *)
(* ksoftirqd.                                                              *)
PassStep(k) == irq_exit(k) \/ irq_other(k) \/ restart(k) \/ run_ksoftirqd(k)

(* The steps of a thread. *)
ThreadStep(p) == Thread(p) \/ \E t \in Tasklets : Calls(p, t)

(* Every step is one of these. *)
LEMMA StepKinds ==
  ASSUME Next
  PROVE  \/ \E k \in CPUs : ActionStep(k) \/ PassStep(k) \/ irq_queue(k)
         \/ \E k \in CPUs, t \in Tasklets, v \in Vecs : irq_tasklet_schedule(k, t, v)
         \/ \E p \in Threads : ThreadStep(p)
  BY DEF Next, Irq, Softirq, ActionStep, PassStep, ThreadStep

(* A pass that starts or ends, and ksoftirqd, move no tasklet. *)
LEMMA PassFrame ==
  ASSUME TypeOK, NEW k \in CPUs, PassStep(k)
  PROVE  /\ UNCHANGED <<shared, vec, list, cur, src, irqt, threadVars>>
         /\ \/ soft' = soft
            \/ /\ soft[k] \in {"none", "check"}
               /\ \E s \in {"none", "take"} : soft' = Set(soft, k, s)
         /\ irq' = irq \/ (irq[k] = "exit" /\ irq' = Set(irq, k, "none"))
         /\ pending' = pending \/ pending' = Set(pending, k, {})
         /\ mask' = mask \/ mask' = Set(mask, k, pending[k])
         /\ max_restart' = max_restart
              \/ \E n \in 0..MAX_SOFTIRQ_RESTART : max_restart' = Set(max_restart, k, n)
         /\ kd' = kd \/ \E s \in {"test", "schedule", "loop"} : kd' = Set(kd, k, s)
         /\ asleep' = asleep \/ \E b \in BOOLEAN : asleep' = Set(asleep, k, b)
  <1> USE TaskletAssumption DEF shared, irqVars, kdVars, threadVars
  <1>0. 0 \in 0..MAX_SOFTIRQ_RESTART /\ MAX_SOFTIRQ_RESTART \in 0..MAX_SOFTIRQ_RESTART
        /\ (max_restart[k] > 1 => max_restart[k] - 1 \in 0..MAX_SOFTIRQ_RESTART)
    BY DEF TypeOK
  <1>1. CASE irq_exit(k)
    BY <1>0, <1>1 DEF irq_exit, BeginPass
  <1>2. CASE irq_other(k)
    BY <1>0, <1>2 DEF irq_other, ThreadRuns, BeginPass
  <1>3. CASE restart(k)
    BY <1>0, <1>3 DEF restart, BeginPass, wakeup_softirqd
  <1>4. CASE run_ksoftirqd(k)
    BY <1>0, <1>4 DEF run_ksoftirqd, kd_test, kd_schedule_returns, kd_loop, KdStep, ThreadRuns, BeginPass
  <1>5. QED
    BY <1>1, <1>2, <1>3, <1>4 DEF PassStep

(* __tasklet_schedule() puts one tasklet on one list of one CPU. *)
LEMMA EnqueueLists ==
  ASSUME TypeOK, NEW t \in Tasklets, NEW v \in Vecs, NEW k \in CPUs, Enqueue(t, v, k)
  PROVE  /\ vec' \in [CPUs -> [Vecs -> Seq(Tasklets)]] /\ pending' \in [CPUs -> SUBSET Vecs]
         /\ \A l \in CPUs, u \in Vecs :
              /\ ~(l = k /\ u = v) => vec'[l][u] = vec[l][u]
              /\ Entries(vec'[l][u]) = IF l = k /\ u = v THEN Entries(vec[l][u]) \cup {t}
                                                        ELSE Entries(vec[l][u])
         /\ LinkedOnce(vec[k][v]) /\ t \notin Entries(vec[k][v]) => LinkedOnce(vec'[k][v])
  <1> DEFINE q == list_add_tail(t, vec[k][v])
  <1>1. vec[k][v] \in Seq(Tasklets)
    BY DEF TypeOK
  <1>2. /\ q \in Seq(Tasklets) /\ Entries(q) = Entries(vec[k][v]) \cup {t}
        /\ LinkedOnce(vec[k][v]) /\ t \notin Entries(vec[k][v]) => LinkedOnce(q)
    BY <1>1, ListAddTail
  <1>3. vec' = [vec EXCEPT ![k][v] = q] /\ pending' = [pending EXCEPT ![k] = @ \cup {v}]
    BY DEF Enqueue, list_add_tail
  <1> HIDE DEF q
  <1>4. /\ vec' \in [CPUs -> [Vecs -> Seq(Tasklets)]] /\ pending' \in [CPUs -> SUBSET Vecs]
        /\ vec'[k][v] = q
        /\ \A l \in CPUs, u \in Vecs : ~(l = k /\ u = v) => vec'[l][u] = vec[l][u]
    BY <1>2, <1>3 DEF TypeOK
  <1>5. QED
    BY <1>2, <1>4

-----------------------------------------------------------------------------
(* The invariant in parts that are proved one after the other.  TypeOK is  *)
(* split, because the range of the count follows from CountInv.            *)
CountType == count \in [Tasklets -> 0..Cardinality(Threads)]

BitTypes ==
  /\ SCHED \in [Tasklets -> BOOLEAN] /\ RUN \in [Tasklets -> BOOLEAN]

ListTypes ==
  /\ vec \in [CPUs -> [Vecs -> Seq(Tasklets)]] /\ pending \in [CPUs -> SUBSET Vecs]
  /\ list \in [CPUs -> Seq(Tasklets)]

SoftTypes ==
  /\ soft \in [CPUs -> {"none"} \cup SoftLabels]
  /\ mask \in [CPUs -> SUBSET Vecs] /\ src \in [CPUs -> Vecs]
  /\ cur \in [CPUs -> Tasklets \cup {NoTasklet}]
  /\ max_restart \in [CPUs -> 0..MAX_SOFTIRQ_RESTART]

CallerTypes ==
  /\ irq \in [CPUs -> {"none", "queue", "exit"}]
  /\ irqt \in [CPUs -> Jobs \cup {NoJob}]
  /\ kd \in [CPUs -> {"test", "schedule", "loop"}]
  /\ asleep \in [CPUs -> BOOLEAN]
  /\ pc \in [Threads -> ThreadLabels]
  /\ arg \in [Threads -> Jobs \cup {NoJob}]

(* The parts make up TypeOK. *)
LEMMA TypeParts ==
  /\ TypeOK <=> CountType /\ BitTypes /\ ListTypes /\ SoftTypes /\ CallerTypes
  /\ TypeOK' <=> CountType' /\ BitTypes' /\ ListTypes' /\ SoftTypes' /\ CallerTypes'
  BY DEF TypeOK, CountType, BitTypes, ListTypes, SoftTypes, CallerTypes

(* The first and the second part of a job, and the job that is none. *)
LEMMA JobParts ==
  /\ \A t \in Tasklets, v \in Vecs : <<t, v>> \in Jobs /\ <<t, v>>[1] = t /\ <<t, v>>[2] = v
  /\ \A j \in Jobs : j[1] \in Tasklets /\ j[2] \in Vecs
  /\ NoJob \notin Jobs /\ NoJob[1] \notin Tasklets
  BY TaskletAssumption DEF Jobs, NoJob

(* Types and hands, for the steps of a pass and of ksoftirqd. *)
LEMMA PassTypes ==
  ASSUME TypeOK, HandInv, NEW k \in CPUs, PassStep(k)
  PROVE  TypeOK' /\ HandInv'
  <1>0. CountType /\ BitTypes /\ ListTypes /\ SoftTypes /\ CallerTypes
    BY TypeParts
  <1>1. UNCHANGED <<shared, vec, list, cur, src, irqt, threadVars>>
    BY PassFrame
  <1>2. CountType' /\ BitTypes'
    BY <1>0, <1>1 DEF CountType, BitTypes, shared
  <1>3. pending' = pending \/ pending' = Set(pending, k, {})
    BY PassFrame
  <1>4. ListTypes'
    BY <1>0, <1>1, <1>3 DEF ListTypes, Set
  <1>5. \/ soft' = soft
        \/ /\ soft[k] \in {"none", "check"}
           /\ \E s \in {"none", "take"} : soft' = Set(soft, k, s)
    BY PassFrame
  <1>6. SoftTypes'
    <2>1. soft' \in [CPUs -> {"none"} \cup SoftLabels]
      BY <1>0, <1>5 DEF SoftTypes, SoftLabels, Set
    <2>2. mask' = mask \/ mask' = Set(mask, k, pending[k])
      BY PassFrame
    <2>3. mask' \in [CPUs -> SUBSET Vecs] /\ src' \in [CPUs -> Vecs]
      BY <1>0, <1>1, <2>2 DEF SoftTypes, ListTypes, Set
    <2>4. \/ max_restart' = max_restart
          \/ \E n \in 0..MAX_SOFTIRQ_RESTART : max_restart' = Set(max_restart, k, n)
      BY PassFrame
    <2>5. max_restart' \in [CPUs -> 0..MAX_SOFTIRQ_RESTART]
      BY <1>0, <2>4 DEF SoftTypes, Set
    <2>6. QED
      BY <1>0, <1>1, <2>1, <2>3, <2>5 DEF SoftTypes
  <1>7. irq' = irq \/ (irq[k] = "exit" /\ irq' = Set(irq, k, "none"))
    BY PassFrame
  <1>8. CallerTypes'
    <2>1. irq' \in [CPUs -> {"none", "queue", "exit"}]
      BY <1>0, <1>7 DEF CallerTypes, Set
    <2>2. /\ kd' = kd \/ \E s \in {"test", "schedule", "loop"} : kd' = Set(kd, k, s)
          /\ asleep' = asleep \/ \E b \in BOOLEAN : asleep' = Set(asleep, k, b)
      BY PassFrame
    <2>3. /\ kd' \in [CPUs -> {"test", "schedule", "loop"}]
          /\ asleep' \in [CPUs -> BOOLEAN]
      BY <1>0, <2>2 DEF CallerTypes, Set
    <2>4. QED
      BY <1>0, <1>1, <2>1, <2>3 DEF CallerTypes, threadVars
  <1>9. HandInv'
    <2>1. \A l \in CPUs : soft'[l] = soft[l] \/ {soft[l], soft'[l]} \subseteq {"none", "check", "take"}
      BY <1>0, <1>5 DEF SoftTypes, Set
    <2>2. \A l \in CPUs : irq'[l] = "queue" <=> irq[l] = "queue"
      BY <1>0, <1>7 DEF CallerTypes, Set
    <2>3. QED
      BY <1>1, <2>1, <2>2 DEF HandInv, threadVars
  <1>10. QED
    BY <1>2, <1>4, <1>6, <1>8, <1>9, TypeParts

-----------------------------------------------------------------------------
(* The SCHED bit of one tasklet stays where it is. *)
LEMMA TokenKeeps ==
  ASSUME NEW t, Token(t), SCHED'[t] <=> SCHED[t],
         \A a, b : At(t, a, b)' <=> At(t, a, b)
  PROVE  Token(t)'
  BY DEF Token

(* From one place to another. *)
LEMMA TokenMoves ==
  ASSUME NEW t, Token(t), NEW x, NEW w, NEW y, NEW z, At(t, x, w), SCHED'[t] <=> SCHED[t],
         \A a, b : At(t, a, b)' <=> (At(t, a, b) /\ ~(a = x /\ b = w)) \/ (a = y /\ b = z)
  PROVE  Token(t)'
  BY DEF Token

(* From a place to nobody. *)
LEMMA TokenDropped ==
  ASSUME NEW t, Token(t), NEW x, NEW w, At(t, x, w), ~SCHED'[t],
         \A a, b : At(t, a, b)' <=> At(t, a, b) /\ ~(a = x /\ b = w)
  PROVE  Token(t)'
  BY DEF Token

(* A step that lets no CPU enter a handler leaves a disabled or a killed   *)
(* tasklet alone.                                                          *)
LEMMA QuietKeeps ==
  ASSUME HandInv, DisabledIsQuiet, KilledIsQuiet, UNCHANGED threadVars,
         \A l \in CPUs, t \in Tasklets : Executes(l, t)' => Executes(l, t)
  PROVE  DisabledIsQuiet' /\ KilledIsQuiet'
  <1>1. \A p \in Threads : pc[p] # "idle" => arg[p][1] \in Tasklets
    BY JobParts DEF HandInv
  <1>2. \A l \in CPUs, p \in Threads : pc[p] # "idle" =>
          (Executes(l, arg[p][1])' => Executes(l, arg[p][1]))
    BY <1>1 DEF threadVars, Executes
  <1>3. QED
    BY <1>2 DEF DisabledIsQuiet, KilledIsQuiet, threadVars

(* What a step inside tasklet_action() leaves alone. *)
LEMMA ActionFrame ==
  ASSUME NEW k \in CPUs, ActionStep(k)
  PROVE  UNCHANGED <<count, max_restart, irqVars, kdVars, threadVars>>
  BY DEF ActionStep, take_list, tasklet_trylock, read_count, clear_sched, func_reschedules,
     func_queue, func_returns, tasklet_unlock, requeue, action_returns, SoftStep, shared

(* So its proof only has to look at the rest. *)
LEMMA ActionKeeps ==
  ASSUME IInv, NEW k \in CPUs, ActionStep(k), BitTypes', ListTypes', SoftTypes',
         \A l \in CPUs :
            /\ soft'[l] \in {"count", "clear", "run", "resched", "unlock", "requeue"}
                 <=> cur'[l] \in Tasklets
            /\ soft'[l] \in {"none", "take", "check"} => list'[l] = <<>>,
         RunInv', ListsOnce', TokenInv', DisabledIsQuiet', KilledIsQuiet'
  PROVE  IInv'
  <1>1. UNCHANGED <<count, max_restart, irqVars, kdVars, threadVars>>
    BY ActionFrame
  <1>2. TypeOK'
    <2>1. CountType' /\ CallerTypes'
      BY <1>1, TypeParts DEF IInv, CountType, CallerTypes, irqVars, kdVars, threadVars
    <2>2. QED
      BY <2>1, TypeParts
  <1>3. HandInv'
    BY <1>1 DEF IInv, HandInv, irqVars, threadVars
  <1>4. CountInv'
    BY <1>1 DEF IInv, CountInv, Disablers, threadVars
  <1>5. QED
    BY <1>2, <1>3, <1>4 DEF IInv

(* tasklet_action() takes the list of its CPU over. *)
LEMMA TakeListStep ==
  ASSUME IInv, NEW k \in CPUs, take_list(k)
  PROVE  IInv'
  <1> DEFINE v == IF "HI" \in mask[k] THEN "HI" ELSE "TASKLET"
  <1>1. /\ v \in Vecs /\ soft[k] = "take" /\ soft' = Set(soft, k, "loop")
        /\ mask' = Set(mask, k, mask[k] \ {v}) /\ src' = Set(src, k, v)
        /\ list' = Set(list, k, vec[k][v]) /\ vec' = [vec EXCEPT ![k][v] = <<>>]
        /\ UNCHANGED <<SCHED, RUN, pending, cur, max_restart, irqVars, threadVars>>
    BY DEF take_list, SoftStep, shared, Vecs
  <1> HIDE DEF v
  <1>2. BitTypes /\ ListTypes /\ SoftTypes /\ HandInv /\ ListsOnce
    BY TypeParts DEF IInv
  <1>3. list[k] = <<>>
    BY <1>1, <1>2 DEF HandInv
  <1>4. BitTypes' /\ ListTypes' /\ SoftTypes'
    <2>1. vec' \in [CPUs -> [Vecs -> Seq(Tasklets)]]
      BY <1>1, <1>2 DEF ListTypes
    <2>2. list' \in [CPUs -> Seq(Tasklets)]
      BY <1>1, <1>2 DEF ListTypes, Set
    <2>3. SoftTypes'
      BY <1>1, <1>2 DEF SoftTypes, Set, SoftLabels
    <2>4. QED
      BY <1>1, <1>2, <2>1, <2>2, <2>3 DEF BitTypes, ListTypes
  <1>5. /\ \A l \in CPUs : /\ soft'[l] = IF l = k THEN "loop" ELSE soft[l]
                           /\ list'[l] = IF l = k THEN vec[k][v] ELSE list[l]
        /\ \A l \in CPUs, u \in Vecs :
             vec'[l][u] = IF l = k /\ u = v THEN <<>> ELSE vec[l][u]
    BY <1>1, <1>2 DEF ListTypes, SoftTypes, Set
  <1>6. /\ \A l \in CPUs :
            /\ soft'[l] \in {"count", "clear", "run", "resched", "unlock", "requeue"}
                 <=> cur'[l] \in Tasklets
            /\ soft'[l] \in {"none", "take", "check"} => list'[l] = <<>>
    BY <1>1, <1>2, <1>5 DEF HandInv
  <1>7. RunInv'
    BY <1>1, <1>5 DEF IInv, RunInv, Holds
  <1>8. ListsOnce'
    BY <1>1, <1>2, <1>5 DEF ListsOnce, LinkedOnce
  <1>9. TokenInv'
    <2> SUFFICES ASSUME NEW t \in Tasklets PROVE Token(t)'
      BY DEF TokenInv
    <2>1. Token(t) /\ ~At(t, k, "list")
      BY <1>3 DEF IInv, TokenInv, At, Entries, Vecs
    <2>2. \A a \in CPUs : (soft'[a] \in {"count", "clear", "resched", "unlock", "requeue"}) <=>
                          (soft[a] \in {"count", "clear", "resched", "unlock", "requeue"})
      BY <1>1, <1>5
    <2>3. CASE At(t, k, v)
      <3>1. \A a, b : At(t, a, b)' <=>
              (At(t, a, b) /\ ~(a = k /\ b = v)) \/ (a = k /\ b = "list")
        BY <1>1, <1>5, <2>1, <2>2, <2>3 DEF At, Entries, Vecs, irqVars, threadVars
      <3>2. QED
        BY <1>1, <2>1, <2>3, <3>1, TokenMoves
    <2>4. CASE ~At(t, k, v)
      <3>1. \A a, b : At(t, a, b)' <=> At(t, a, b)
        BY <1>1, <1>5, <2>1, <2>2, <2>4 DEF At, Entries, Vecs, irqVars, threadVars
      <3>2. QED
        BY <1>1, <2>1, <3>1, TokenKeeps
    <2>5. QED
      BY <2>3, <2>4
  <1>10. DisabledIsQuiet' /\ KilledIsQuiet'
    <2>1. \A l \in CPUs, t \in Tasklets : Executes(l, t)' => Executes(l, t)
      BY <1>1, <1>5 DEF Executes
    <2>2. QED
      BY <1>1, <2>1, QuietKeeps DEF IInv
  <1>11. QED
    BY <1>4, <1>6, <1>7, <1>8, <1>9, <1>10, ActionKeeps DEF ActionStep

(* tasklet_trylock(): the tasklet is taken off the list, and locked if RUN *)
(* was clear.                                                              *)
LEMMA TrylockStep ==
  ASSUME IInv, NEW k \in CPUs, tasklet_trylock(k)
  PROVE  IInv'
  <1> DEFINE h == Head(list[k])
  <1>1. /\ list[k] # <<>> /\ soft[k] = "loop"
        /\ cur' = Set(cur, k, h) /\ list' = Set(list, k, Tail(list[k])) /\ RUN' = Set(RUN, h, TRUE)
        /\ \/ ~RUN[h] /\ soft' = Set(soft, k, "count")
           \/ RUN[h] /\ soft' = Set(soft, k, "requeue")
        /\ UNCHANGED <<SCHED, vec, pending, mask, src, max_restart, irqVars, threadVars>>
    BY DEF tasklet_trylock, SoftStep, percpu
  <1>2. BitTypes /\ ListTypes /\ SoftTypes /\ HandInv /\ ListsOnce
    BY TypeParts DEF IInv
  <1>3. /\ h \in Entries(list[k]) /\ h \in Tasklets /\ Tail(list[k]) \in Seq(Tasklets)
        /\ LinkedOnce(Tail(list[k])) /\ Entries(Tail(list[k])) = Entries(list[k]) \ {h}
    <2>1. list[k] \in Seq(Tasklets) /\ LinkedOnce(list[k])
      BY <1>2 DEF ListTypes, ListsOnce
    <2>2. QED
      BY <1>1, <2>1, HeadTail, ListEmpty
  <1> HIDE DEF h
  <1>4. BitTypes' /\ ListTypes' /\ SoftTypes'
    <2>1. BitTypes' /\ ListTypes'
      BY <1>1, <1>2, <1>3 DEF BitTypes, ListTypes, Set
    <2>2. SoftTypes'
      BY <1>1, <1>2, <1>3 DEF SoftTypes, Set, SoftLabels
    <2>3. QED
      BY <2>1, <2>2
  <1>5. /\ \A l \in CPUs : l # k => /\ soft'[l] = soft[l] /\ cur'[l] = cur[l]
                                   /\ list'[l] = list[l]
        /\ cur'[k] = h /\ list'[k] = Tail(list[k])
        /\ \/ ~RUN[h] /\ soft'[k] = "count"
           \/ RUN[h] /\ soft'[k] = "requeue"
        /\ RUN'[h] /\ \A t \in Tasklets : t # h => RUN'[t] = RUN[t]
    BY <1>1, <1>2, <1>3 DEF BitTypes, ListTypes, SoftTypes, Set
  <1>6. /\ \A l \in CPUs :
            /\ soft'[l] \in {"count", "clear", "run", "resched", "unlock", "requeue"}
                 <=> cur'[l] \in Tasklets
            /\ soft'[l] \in {"none", "take", "check"} => list'[l] = <<>>
    BY <1>2, <1>3, <1>5 DEF HandInv
  <1>7. RunInv'
    <2>1. \A l \in CPUs, t \in Tasklets : Holds(l, t)' => Holds(l, t) \/ (l = k /\ t = h /\ ~RUN[h])
      BY <1>5 DEF Holds
    <2>2. RunInv
      BY DEF IInv
    <2>3. \A l \in CPUs, t \in Tasklets : Holds(l, t)' => RUN'[t]
      BY <1>5, <2>1, <2>2 DEF RunInv
    <2>4. \A l, m \in CPUs, t \in Tasklets : Holds(l, t)' /\ Holds(m, t)' => l = m
      BY <2>1, <2>2 DEF RunInv
    <2>5. QED
      BY <2>3, <2>4 DEF RunInv
  <1>8. ListsOnce'
    BY <1>1, <1>2, <1>3, <1>5 DEF ListsOnce
  <1>9. TokenInv'
    <2> SUFFICES ASSUME NEW t \in Tasklets PROVE Token(t)'
      BY DEF TokenInv
    <2>1. Token(t) /\ ~At(t, k, "cur")
      BY <1>1 DEF IInv, TokenInv, At, Vecs
    <2>2. CASE t = h
      <3>1. At(t, k, "list")
        BY <1>3, <2>2 DEF At
      <3>2. \A a, b : At(t, a, b)' <=>
              (At(t, a, b) /\ ~(a = k /\ b = "list")) \/ (a = k /\ b = "cur")
        BY <1>1, <1>3, <1>5, <2>1, <2>2 DEF At, Vecs, irqVars, threadVars
      <3>3. QED
        BY <1>1, <2>1, <3>1, <3>2, TokenMoves
    <2>3. CASE t # h
      <3>1. \A a, b : At(t, a, b)' <=> At(t, a, b)
        BY <1>1, <1>3, <1>5, <2>1, <2>3 DEF At, Vecs, irqVars, threadVars
      <3>2. QED
        BY <1>1, <2>1, <3>1, TokenKeeps
    <2>4. QED
      BY <2>2, <2>3
  <1>10. DisabledIsQuiet' /\ KilledIsQuiet'
    <2>1. \A l \in CPUs, t \in Tasklets : Executes(l, t)' => Executes(l, t)
      BY <1>5 DEF Executes
    <2>2. QED
      BY <1>1, <2>1, QuietKeeps DEF IInv
  <1>11. QED
    BY <1>4, <1>6, <1>7, <1>8, <1>9, <1>10, ActionKeeps DEF ActionStep

(* atomic_read(&t->count) under the RUN lock: a tasklet whose count is     *)
(* zero has no disabler, and one whose SCHED bit this CPU has is not being *)
(* killed, so entering the handler breaks no promise.                      *)
LEMMA ReadCountStep ==
  ASSUME IInv, NEW k \in CPUs, read_count(k)
  PROVE  IInv'
  <1> DEFINE c == cur[k]
  <1>1. /\ soft[k] = "count"
        /\ \/ count[c] = 0 /\ soft' = Set(soft, k, "clear")
           \/ count[c] # 0 /\ soft' = Set(soft, k, "unlock")
        /\ UNCHANGED <<SCHED, RUN, vec, pending, mask, list, cur, src, max_restart, irqVars, threadVars>>
    BY DEF read_count, SoftStep, shared, percpu
  <1>2. BitTypes /\ ListTypes /\ SoftTypes /\ HandInv /\ ListsOnce
    BY TypeParts DEF IInv
  <1> HIDE DEF c
  <1>3. c \in Tasklets
    BY <1>1, <1>2 DEF HandInv, c
  <1>4. BitTypes' /\ ListTypes' /\ SoftTypes'
    BY <1>1, <1>2 DEF BitTypes, ListTypes, SoftTypes, Set, SoftLabels
  <1>5. /\ \A l \in CPUs : l # k => soft'[l] = soft[l]
        /\ \/ count[c] = 0 /\ soft'[k] = "clear"
           \/ count[c] # 0 /\ soft'[k] = "unlock"
    BY <1>1, <1>2 DEF SoftTypes, Set
  <1>6. /\ \A l \in CPUs :
            /\ soft'[l] \in {"count", "clear", "run", "resched", "unlock", "requeue"}
                 <=> cur'[l] \in Tasklets
            /\ soft'[l] \in {"none", "take", "check"} => list'[l] = <<>>
    BY <1>1, <1>2, <1>5 DEF HandInv
  <1>7. RunInv'
    <2>1. \A l \in CPUs, t \in Tasklets : Holds(l, t)' <=> Holds(l, t)
      BY <1>1, <1>5 DEF Holds
    <2>2. QED
      BY <1>1, <2>1 DEF IInv, RunInv
  <1>8. ListsOnce'
    BY <1>1, <1>2 DEF ListsOnce
  <1>9. TokenInv'
    <2> SUFFICES ASSUME NEW t \in Tasklets PROVE Token(t)'
      BY DEF TokenInv
    <2>1. \A a, b : At(t, a, b)' <=> At(t, a, b)
      BY <1>1, <1>5 DEF At, irqVars, threadVars
    <2>2. QED
      BY <1>1, <2>1, TokenKeeps DEF IInv, TokenInv
  <1>10. DisabledIsQuiet' /\ KilledIsQuiet'
    <2>1. \A l \in CPUs, t \in Tasklets :
            Executes(l, t)' => Executes(l, t) \/ (l = k /\ t = c /\ count[c] = 0)
      BY <1>1, <1>5 DEF Executes, c
    <2>2. ASSUME NEW p \in Threads, pc[p] \in {"disabled", "kclear"}
          PROVE  arg[p][1] \in Tasklets /\ ~(arg[p][1] = c /\ count[c] = 0)
      <3>1. arg[p][1] \in Tasklets
        BY <1>2, <2>2, JobParts DEF HandInv
      <3>2. CASE pc[p] = "kclear"
        <4>1. arg[p][1] = c => At(c, p, "kill") /\ At(c, k, "cur")
          BY <1>1, <1>3, <3>2 DEF At, c
        <4>2. QED
          BY <1>3, <3>1, <4>1 DEF IInv, TokenInv, Token
      <3>3. CASE pc[p] = "disabled"
        <4>1. arg[p][1] = c => p \in Disablers(c)
          BY <3>3 DEF Disablers
        <4>2. IsFiniteSet(Disablers(c))
          BY TaskletAssumption, FS_Subset DEF Disablers
        <4>3. arg[p][1] = c => Cardinality(Disablers(c)) # 0
          BY <4>1, <4>2, FS_EmptySet
        <4>4. QED
          BY <1>3, <3>1, <4>3 DEF IInv, CountInv
      <3>4. QED
        BY <2>2, <3>2, <3>3
    <2>3. \A p \in Threads : pc[p] \in {"disabled", "kclear"} =>
            \A l \in CPUs : Executes(l, arg[p][1])' => Executes(l, arg[p][1])
      BY <1>1, <2>1, <2>2 DEF Executes, threadVars
    <2>4. QED
      BY <1>1, <2>3 DEF IInv, DisabledIsQuiet, KilledIsQuiet, threadVars
  <1>11. QED
    BY <1>4, <1>6, <1>7, <1>8, <1>9, <1>10, ActionKeeps DEF ActionStep

(* A step of tasklet_action() that goes from one label to another with the *)
(* same list, and lets go of the tasklet in hand if it returns to the      *)
(* loop.                                                                   *)
LEMMA LabelStep ==
  ASSUME IInv, NEW k \in CPUs, ActionStep(k), NEW to \in SoftLabels, soft' = Set(soft, k, to),
         UNCHANGED <<list, mask>>, src' \in [CPUs -> Vecs],
         \/ cur' = cur
         \/ cur' = Set(cur, k, NoTasklet) /\ to = "loop",
         to \in {"count", "clear", "run", "resched", "unlock", "requeue"} <=> cur'[k] \in Tasklets,
         to \in {"none", "take", "check"} => list[k] = <<>>,
         to \in {"clear", "run", "resched"} => soft[k] \in {"clear", "run", "resched"},
         BitTypes', ListTypes', RunInv', ListsOnce', TokenInv'
  PROVE  IInv'
  <1>1. SoftTypes /\ HandInv /\ UNCHANGED <<max_restart, threadVars>>
    BY TypeParts, ActionFrame DEF IInv
  <1>2. /\ soft'[k] = to /\ \A l \in CPUs : l # k => soft'[l] = soft[l] /\ cur'[l] = cur[l]
        /\ cur'[k] = cur[k] \/ to = "loop"
    BY <1>1 DEF SoftTypes, Set
  <1>3. SoftTypes'
    BY <1>1 DEF SoftTypes, Set
  <1>4. \A l \in CPUs :
          /\ soft'[l] \in {"count", "clear", "run", "resched", "unlock", "requeue"}
               <=> cur'[l] \in Tasklets
          /\ soft'[l] \in {"none", "take", "check"} => list'[l] = <<>>
    BY <1>1, <1>2 DEF HandInv
  <1>5. DisabledIsQuiet' /\ KilledIsQuiet'
    <2>1. \A l \in CPUs, t \in Tasklets : Executes(l, t)' => Executes(l, t)
      BY <1>2 DEF Executes
    <2>2. QED
      BY <1>1, <2>1, QuietKeeps DEF IInv
  <1>6. QED
    BY <1>3, <1>4, <1>5, ActionKeeps

(* tasklet_action() clears SCHED: the bit is given up, the lock is kept.   *)
LEMMA ClearSchedStep ==
  ASSUME IInv, NEW k \in CPUs, clear_sched(k)
  PROVE  IInv'
  <1> DEFINE c == cur[k]
  <1>1. /\ soft[k] = "clear" /\ soft' = Set(soft, k, "run") /\ SCHED' = Set(SCHED, c, FALSE)
        /\ UNCHANGED <<RUN, vec, pending, mask, list, cur, src, irqVars, threadVars>>
    BY DEF clear_sched, SoftStep, percpu
  <1> HIDE DEF c
  <1>2. BitTypes /\ ListTypes /\ SoftTypes /\ HandInv /\ ListsOnce
    BY TypeParts DEF IInv
  <1>3. c \in Tasklets
    BY <1>1, <1>2 DEF HandInv, c
  <1>4. /\ soft'[k] = "run" /\ \A l \in CPUs : l # k => soft'[l] = soft[l]
        /\ ~SCHED'[c] /\ \A t \in Tasklets : t # c => SCHED'[t] = SCHED[t]
    BY <1>1, <1>2, <1>3 DEF SoftTypes, BitTypes, Set
  <1>5. BitTypes' /\ ListTypes'
    BY <1>1, <1>2, <1>3 DEF BitTypes, ListTypes, Set
  <1>6. RunInv'
    <2>1. \A l \in CPUs, t \in Tasklets : Holds(l, t)' <=> Holds(l, t)
      BY <1>1, <1>4 DEF Holds
    <2>2. QED
      BY <1>1, <2>1 DEF IInv, RunInv
  <1>7. ListsOnce'
    BY <1>1, <1>2 DEF ListsOnce
  <1>8. TokenInv'
    <2> SUFFICES ASSUME NEW t \in Tasklets PROVE Token(t)'
      BY DEF TokenInv
    <2>1. Token(t)
      BY DEF IInv, TokenInv
    <2>2. CASE t = c
      <3>1. At(t, k, "cur")
        BY <1>1, <2>2 DEF At, c
      <3>2. \A a, b : At(t, a, b)' <=> At(t, a, b) /\ ~(a = k /\ b = "cur")
        BY <1>1, <1>4 DEF At, Vecs, irqVars, threadVars
      <3>3. QED
        BY <1>4, <2>1, <2>2, <3>1, <3>2, TokenDropped
    <2>3. CASE t # c
      <3>1. \A a, b : At(t, a, b)' <=> At(t, a, b)
        BY <1>1, <1>4, <2>3 DEF At, irqVars, threadVars, c
      <3>2. QED
        BY <1>4, <2>1, <2>3, <3>1, TokenKeeps
    <2>4. QED
      BY <2>2, <2>3
  <1>9. ActionStep(k) /\ "run" \in SoftLabels /\ src' \in [CPUs -> Vecs] /\ cur'[k] \in Tasklets
    BY <1>1, <1>2, <1>3 DEF ActionStep, SoftLabels, SoftTypes, c
  <1>10. QED
    BY <1>1, <1>5, <1>6, <1>7, <1>8, <1>9, LabelStep

(* The handler takes SCHED again, for its own tasklet. *)
LEMMA FuncReschedulesStep ==
  ASSUME IInv, NEW k \in CPUs, func_reschedules(k)
  PROVE  IInv'
  <1> DEFINE c == cur[k]
  <1>1. /\ soft[k] = "run" /\ soft' = Set(soft, k, "resched")
        /\ ~SCHED[c] /\ SCHED' = Set(SCHED, c, TRUE)
        /\ UNCHANGED <<RUN, vec, pending, mask, list, cur, src, irqVars, threadVars>>
    BY DEF func_reschedules, SoftStep, percpu
  <1> HIDE DEF c
  <1>2. BitTypes /\ ListTypes /\ SoftTypes /\ HandInv /\ ListsOnce
    BY TypeParts DEF IInv
  <1>3. c \in Tasklets
    BY <1>1, <1>2 DEF HandInv, c
  <1>4. /\ soft'[k] = "resched" /\ \A l \in CPUs : l # k => soft'[l] = soft[l]
        /\ SCHED'[c] /\ \A t \in Tasklets : t # c => SCHED'[t] = SCHED[t]
    BY <1>1, <1>2, <1>3 DEF SoftTypes, BitTypes, Set
  <1>5. BitTypes' /\ ListTypes'
    BY <1>1, <1>2, <1>3 DEF BitTypes, ListTypes, Set
  <1>6. RunInv'
    <2>1. \A l \in CPUs, t \in Tasklets : Holds(l, t)' <=> Holds(l, t)
      BY <1>1, <1>4 DEF Holds
    <2>2. QED
      BY <1>1, <2>1 DEF IInv, RunInv
  <1>7. ListsOnce'
    BY <1>1, <1>2 DEF ListsOnce
  <1>8. TokenInv'
    <2> SUFFICES ASSUME NEW t \in Tasklets PROVE Token(t)'
      BY DEF TokenInv
    <2>1. Token(t)
      BY DEF IInv, TokenInv
    <2>2. CASE t = c
      <3>1. \A a, b : At(t, a, b)' <=> At(t, a, b) \/ (a = k /\ b = "cur")
        BY <1>1, <1>4, <2>2 DEF At, Vecs, irqVars, threadVars, c
      <3>2. ~SCHED[t] /\ SCHED'[t]
        BY <1>1, <1>4, <2>2
      <3>3. QED
        BY <2>1, <3>1, <3>2 DEF Token
    <2>3. CASE t # c
      <3>1. \A a, b : At(t, a, b)' <=> At(t, a, b)
        BY <1>1, <1>4, <2>3 DEF At, irqVars, threadVars, c
      <3>2. QED
        BY <1>4, <2>1, <2>3, <3>1, TokenKeeps
    <2>4. QED
      BY <2>2, <2>3
  <1>9. ActionStep(k) /\ "resched" \in SoftLabels /\ src' \in [CPUs -> Vecs] /\ cur'[k] \in Tasklets
    BY <1>1, <1>2, <1>3 DEF ActionStep, SoftLabels, SoftTypes, c
  <1>10. QED
    BY <1>1, <1>5, <1>6, <1>7, <1>8, <1>9, LabelStep

(* func_returns() and tasklet_unlock() give the RUN lock up. *)
LEMMA UnlockStep ==
  ASSUME IInv, NEW k \in CPUs, func_returns(k) \/ tasklet_unlock(k)
  PROVE  IInv'
  <1> DEFINE c == cur[k]
  <1>1. /\ RUN' = Set(RUN, c, FALSE)
        /\ UNCHANGED <<SCHED, vec, pending, mask, list, src, irqVars, threadVars>>
        /\ \/ /\ soft[k] = "run" /\ soft' = Set(soft, k, "loop")
              /\ cur' = Set(cur, k, NoTasklet)
           \/ soft[k] = "unlock" /\ soft' = Set(soft, k, "requeue") /\ cur' = cur
    BY DEF func_returns, tasklet_unlock, SoftStep, percpu
  <1> HIDE DEF c
  <1>2. BitTypes /\ ListTypes /\ SoftTypes /\ HandInv /\ ListsOnce
    BY TypeParts DEF IInv
  <1>3. c \in Tasklets
    BY <1>1, <1>2 DEF HandInv, c
  <1>4. /\ \A l \in CPUs : l # k => soft'[l] = soft[l] /\ cur'[l] = cur[l]
        /\ \/ soft[k] = "run" /\ soft'[k] = "loop" /\ cur'[k] = NoTasklet
           \/ soft[k] = "unlock" /\ soft'[k] = "requeue" /\ cur'[k] = cur[k]
        /\ \A t \in Tasklets : t # c => RUN'[t] = RUN[t]
    BY <1>1, <1>2, <1>3 DEF SoftTypes, BitTypes, Set
  <1>5. BitTypes' /\ ListTypes'
    BY <1>1, <1>2, <1>3 DEF BitTypes, ListTypes, Set
  <1>6. RunInv'
    <2>1. \A l \in CPUs, t \in Tasklets : Holds(l, t)' => Holds(l, t) /\ l # k
      BY <1>4 DEF Holds
    <2>2. Holds(k, c) /\ RunInv
      BY <1>1 DEF Holds, IInv, c
    <2>3. \A l \in CPUs, t \in Tasklets : Holds(l, t)' => t # c
      BY <1>3, <2>1, <2>2 DEF RunInv
    <2>4. QED
      BY <1>4, <2>1, <2>2, <2>3 DEF RunInv
  <1>7. ListsOnce'
    BY <1>1, <1>2 DEF ListsOnce
  <1>8. TokenInv'
    <2> SUFFICES ASSUME NEW t \in Tasklets PROVE Token(t)'
      BY DEF TokenInv
    <2>1. \A a, b : At(t, a, b)' <=> At(t, a, b)
      BY <1>1, <1>4 DEF At, irqVars, threadVars
    <2>2. QED
      BY <1>1, <2>1, TokenKeeps DEF IInv, TokenInv
  <1>9. ActionStep(k) /\ src' \in [CPUs -> Vecs] /\ {"loop", "requeue"} \subseteq SoftLabels
    BY <1>1, <1>2 DEF ActionStep, SoftLabels, SoftTypes
  <1>10. CASE soft[k] = "run"
    <2>1. soft' = Set(soft, k, "loop") /\ cur' = Set(cur, k, NoTasklet) /\ cur'[k] \notin Tasklets
      BY <1>1, <1>4, <1>10, TaskletAssumption
    <2>2. QED
      BY <1>1, <1>5, <1>6, <1>7, <1>8, <1>9, <2>1, LabelStep
  <1>11. CASE soft[k] = "unlock"
    <2>1. soft' = Set(soft, k, "requeue") /\ cur' = cur /\ cur'[k] \in Tasklets
      BY <1>1, <1>3, <1>4, <1>11 DEF c
    <2>2. QED
      BY <1>1, <1>5, <1>6, <1>7, <1>8, <1>9, <2>1, LabelStep
  <1>12. QED
    BY <1>1, <1>10, <1>11

(* The end of the list. *)
LEMMA ActionReturnsStep ==
  ASSUME IInv, NEW k \in CPUs, action_returns(k)
  PROVE  IInv'
  <1>1. PICK to \in {"check", "take"} : soft' = Set(soft, k, to)
    BY DEF action_returns, SoftStep
  <1>2. /\ soft[k] = "loop" /\ list[k] = <<>> /\ src' = Set(src, k, "TASKLET")
        /\ UNCHANGED <<SCHED, RUN, vec, pending, mask, list, cur, irqVars, threadVars>>
    BY DEF action_returns, SoftStep, shared, percpu
  <1>3. BitTypes /\ ListTypes /\ SoftTypes /\ HandInv /\ ListsOnce
    BY TypeParts DEF IInv
  <1>4. soft'[k] = to /\ \A l \in CPUs : l # k => soft'[l] = soft[l]
    BY <1>1, <1>3 DEF SoftTypes, Set
  <1>5. BitTypes' /\ ListTypes' /\ ListsOnce'
    BY <1>2, <1>3 DEF BitTypes, ListTypes, ListsOnce
  <1>6. RunInv'
    <2>1. \A l \in CPUs, t \in Tasklets : Holds(l, t)' <=> Holds(l, t)
      BY <1>2, <1>4 DEF Holds
    <2>2. QED
      BY <1>2, <2>1 DEF IInv, RunInv
  <1>7. TokenInv'
    <2> SUFFICES ASSUME NEW t \in Tasklets PROVE Token(t)'
      BY DEF TokenInv
    <2>1. \A a, b : At(t, a, b)' <=> At(t, a, b)
      BY <1>2, <1>4 DEF At, irqVars, threadVars
    <2>2. QED
      BY <1>2, <2>1, TokenKeeps DEF IInv, TokenInv
  <1>8. /\ ActionStep(k) /\ src' \in [CPUs -> Vecs] /\ to \in SoftLabels /\ cur'[k] \notin Tasklets
    BY <1>2, <1>3 DEF ActionStep, SoftLabels, SoftTypes, HandInv, Set, Vecs
  <1>9. QED
    BY <1>1, <1>2, <1>5, <1>6, <1>7, <1>8, LabelStep

(* A tasklet goes back to the list of its CPU, from its own handler or     *)
(* because it could not be run.                                            *)
LEMMA ActionQueueStep ==
  ASSUME IInv, NEW k \in CPUs, func_queue(k) \/ requeue(k)
  PROVE  IInv'
  <1> DEFINE c == cur[k]
             v == src[k]
  <1>1. /\ Enqueue(c, v, k)
        /\ UNCHANGED <<SCHED, RUN, mask, list, src, irqVars, threadVars>>
        /\ \/ soft[k] = "resched" /\ soft' = Set(soft, k, "run") /\ cur' = cur
           \/ /\ soft[k] = "requeue" /\ soft' = Set(soft, k, "loop")
              /\ cur' = Set(cur, k, NoTasklet)
    BY DEF func_queue, requeue, SoftStep, shared
  <1>2. BitTypes /\ ListTypes /\ SoftTypes /\ HandInv /\ ListsOnce
    BY TypeParts DEF IInv
  <1>3. c \in Tasklets /\ v \in Vecs
    BY <1>1, <1>2 DEF HandInv, SoftTypes
  <1> HIDE DEF c, v
  <1>4. /\ \A l \in CPUs : l # k => soft'[l] = soft[l] /\ cur'[l] = cur[l]
        /\ \/ soft[k] = "resched" /\ soft'[k] = "run" /\ cur'[k] = cur[k]
           \/ soft[k] = "requeue" /\ soft'[k] = "loop" /\ cur'[k] = NoTasklet
    BY <1>1, <1>2 DEF SoftTypes, Set
  <1>5. /\ vec' \in [CPUs -> [Vecs -> Seq(Tasklets)]] /\ pending' \in [CPUs -> SUBSET Vecs]
        /\ \A l \in CPUs, u \in Vecs :
             /\ ~(l = k /\ u = v) => vec'[l][u] = vec[l][u]
             /\ Entries(vec'[l][u]) = IF l = k /\ u = v THEN Entries(vec[l][u]) \cup {c}
                                                       ELSE Entries(vec[l][u])
        /\ LinkedOnce(vec[k][v]) /\ c \notin Entries(vec[k][v]) => LinkedOnce(vec'[k][v])
    BY <1>1, <1>3, EnqueueLists DEF IInv
  <1>6. BitTypes' /\ ListTypes'
    BY <1>1, <1>2, <1>5 DEF BitTypes, ListTypes
  <1>7. RunInv'
    <2>1. \A l \in CPUs, t \in Tasklets : Holds(l, t)' <=> Holds(l, t)
      BY <1>4 DEF Holds
    <2>2. QED
      BY <1>1, <2>1 DEF IInv, RunInv
  <1>8. Token(c) /\ At(c, k, "cur") /\ ~At(c, k, v)
    <2>1. Token(c) /\ At(c, k, "cur")
      BY <1>1, <1>3 DEF IInv, TokenInv, At, c
    <2>2. v # "cur"
      BY <1>3 DEF Vecs
    <2>3. QED
      BY <2>1, <2>2 DEF Token
  <1>9. ListsOnce'
    <2>1. c \notin Entries(vec[k][v])
      BY <1>3, <1>8 DEF At
    <2>2. QED
      BY <1>1, <1>2, <1>3, <1>5, <2>1 DEF ListsOnce
  <1>10. TokenInv'
    <2> SUFFICES ASSUME NEW t \in Tasklets PROVE Token(t)'
      BY DEF TokenInv
    <2>1. CASE t = c
      <3>a. \A a, b : (a \in CPUs /\ b \in Vecs /\ t \in Entries(vec'[a][b]))
                        <=> (a \in CPUs /\ b \in Vecs /\ t \in Entries(vec[a][b])) \/ (a = k /\ b = v)
        BY <1>3, <1>5, <2>1
      <3>b. \A a \in CPUs :
              (cur'[a] = t /\ soft'[a] \in {"count", "clear", "resched", "unlock", "requeue"})
                <=> (cur[a] = t /\ soft[a] \in {"count", "clear", "resched", "unlock", "requeue"} /\ a # k)
        BY <1>4
      <3>1. \A a, b : At(t, a, b)' <=>
              (At(t, a, b) /\ ~(a = k /\ b = "cur")) \/ (a = k /\ b = v)
        BY <1>1, <1>3, <3>a, <3>b DEF At, Vecs, irqVars, threadVars
      <3>2. QED
        BY <1>1, <1>8, <2>1, <3>1, TokenMoves
    <2>2. CASE t # c
      <3>a. \A a \in CPUs, b \in Vecs : t \in Entries(vec'[a][b]) <=> t \in Entries(vec[a][b])
        BY <1>5, <2>2
      <3>b. \A a \in CPUs :
              (cur'[a] = t /\ soft'[a] \in {"count", "clear", "resched", "unlock", "requeue"})
                <=> (cur[a] = t /\ soft[a] \in {"count", "clear", "resched", "unlock", "requeue"})
        BY <1>4, <2>2 DEF c
      <3>1. \A a, b : At(t, a, b)' <=> At(t, a, b)
        BY <1>1, <3>a, <3>b DEF At, irqVars, threadVars
      <3>2. QED
        BY <1>1, <3>1, TokenKeeps DEF IInv, TokenInv
    <2>3. QED
      BY <2>1, <2>2
  <1>11. ActionStep(k) /\ src' \in [CPUs -> Vecs] /\ {"loop", "run"} \subseteq SoftLabels
    BY <1>1, <1>2 DEF ActionStep, SoftLabels, SoftTypes
  <1>12. CASE soft[k] = "resched"
    <2>1. soft' = Set(soft, k, "run") /\ cur' = cur /\ cur'[k] \in Tasklets
      BY <1>1, <1>3, <1>4, <1>12 DEF c
    <2>2. QED
      BY <1>1, <1>6, <1>7, <1>9, <1>10, <1>11, <1>12, <2>1, LabelStep
  <1>13. CASE soft[k] = "requeue"
    <2>1. soft' = Set(soft, k, "loop") /\ cur' = Set(cur, k, NoTasklet) /\ cur'[k] \notin Tasklets
      BY <1>1, <1>4, <1>13, TaskletAssumption
    <2>2. QED
      BY <1>1, <1>6, <1>7, <1>9, <1>10, <1>11, <2>1, LabelStep
  <1>14. QED
    BY <1>1, <1>12, <1>13

-----------------------------------------------------------------------------
(* A pass starts or ends, or ksoftirqd takes a step. *)
LEMMA PassInv ==
  ASSUME IInv, NEW k \in CPUs, PassStep(k)
  PROVE  IInv'
  <1>1. TypeOK' /\ HandInv' /\ SoftTypes
    BY PassTypes, TypeParts DEF IInv
  <1>2. UNCHANGED <<SCHED, RUN, count, vec, list, cur, irqt, threadVars>>
    BY PassFrame DEF IInv, shared
  <1>3. \/ soft' = soft
        \/ /\ soft[k] \in {"none", "check"}
           /\ \E s \in {"none", "take"} : soft' = Set(soft, k, s)
    BY PassFrame DEF IInv
  <1>4. \A l \in CPUs : soft'[l] = soft[l] \/ {soft[l], soft'[l]} \subseteq {"none", "check", "take"}
    BY <1>1, <1>3 DEF SoftTypes, Set
  <1>5. RunInv'
    <2>1. \A l \in CPUs, t \in Tasklets : Holds(l, t)' <=> Holds(l, t)
      BY <1>2, <1>4 DEF Holds
    <2>2. QED
      BY <1>2, <2>1 DEF IInv, RunInv
  <1>6. CountInv' /\ ListsOnce'
    BY <1>2 DEF IInv, CountInv, Disablers, ListsOnce, threadVars
  <1>7. TokenInv'
    <2> SUFFICES ASSUME NEW t \in Tasklets PROVE Token(t)'
      BY DEF TokenInv
    <2>1. \A a, b : At(t, a, b)' <=> At(t, a, b)
      BY <1>2, <1>4 DEF At, threadVars
    <2>2. QED
      BY <1>2, <2>1, TokenKeeps DEF IInv, TokenInv
  <1>8. DisabledIsQuiet' /\ KilledIsQuiet'
    <2>1. \A l \in CPUs, t \in Tasklets : Executes(l, t)' => Executes(l, t)
      BY <1>2, <1>4 DEF Executes
    <2>2. QED
      BY <1>2, <2>1, QuietKeeps DEF IInv
  <1>9. QED
    BY <1>1, <1>5, <1>6, <1>7, <1>8 DEF IInv

(* The steps of a hard interrupt leave the softirqs, the locks and the     *)
(* threads alone.                                                          *)
LEMMA IrqKeeps ==
  ASSUME IInv, UNCHANGED <<RUN, count, softVars, kdVars, threadVars>>,
         BitTypes', ListTypes', irq' \in [CPUs -> {"none", "queue", "exit"}],
         irqt' \in [CPUs -> Jobs \cup {NoJob}],
         \A l \in CPUs : irq'[l] = "queue" <=> irqt'[l] \in Jobs,
         ListsOnce', TokenInv'
  PROVE  IInv'
  <1>1. CountType' /\ SoftTypes' /\ CallerTypes'
    BY TypeParts DEF IInv, CountType, SoftTypes, CallerTypes, softVars, kdVars, threadVars
  <1>2. TypeOK'
    BY <1>1, TypeParts
  <1>3. HandInv' /\ CountInv'
    BY DEF IInv, HandInv, CountInv, Disablers, softVars, threadVars
  <1>4. RunInv'
    BY DEF IInv, RunInv, Holds, softVars
  <1>5. DisabledIsQuiet' /\ KilledIsQuiet'
    BY DEF IInv, DisabledIsQuiet, KilledIsQuiet, Executes, softVars, threadVars
  <1>6. QED
    BY <1>2, <1>3, <1>4, <1>5 DEF IInv

(* An interrupt handler takes SCHED. *)
LEMMA IrqScheduleStep ==
  ASSUME IInv, NEW k \in CPUs, NEW t \in Tasklets, NEW v \in Vecs, irq_tasklet_schedule(k, t, v)
  PROVE  IInv'
  <1> DEFINE j == <<t, v>>
  <1>0. j \in Jobs /\ j[1] = t
    BY JobParts
  <1>1. /\ irq[k] = "none" /\ ~SCHED[t] /\ SCHED' = Set(SCHED, t, TRUE)
        /\ irq' = Set(irq, k, "queue") /\ irqt' = Set(irqt, k, j)
        /\ UNCHANGED <<RUN, count, vec, pending, softVars, kdVars, threadVars>>
    BY DEF irq_tasklet_schedule, percpu
  <1> HIDE DEF j
  <1>2. BitTypes /\ ListTypes /\ CallerTypes /\ HandInv /\ ListsOnce
    BY TypeParts DEF IInv
  <1>3. /\ irq'[k] = "queue" /\ irqt'[k] = j
        /\ \A l \in CPUs : l # k => irq'[l] = irq[l] /\ irqt'[l] = irqt[l]
        /\ SCHED'[t] /\ \A u \in Tasklets : u # t => SCHED'[u] = SCHED[u]
    BY <1>1, <1>2 DEF CallerTypes, BitTypes, Set
  <1>4. /\ BitTypes' /\ ListTypes' /\ ListsOnce'
        /\ irq' \in [CPUs -> {"none", "queue", "exit"}]
        /\ irqt' \in [CPUs -> Jobs \cup {NoJob}]
    <2>1. BitTypes'
      BY <1>1, <1>2 DEF BitTypes, Set
    <2>2. ListTypes' /\ ListsOnce'
      BY <1>1, <1>2 DEF ListTypes, ListsOnce, softVars
    <2>3. QED
      BY <1>0, <1>1, <1>2, <2>1, <2>2 DEF CallerTypes, Set
  <1>5. \A l \in CPUs : irq'[l] = "queue" <=> irqt'[l] \in Jobs
    BY <1>0, <1>2, <1>3 DEF HandInv
  <1>6. irqt[k][1] \notin Tasklets
    BY <1>1, <1>2, JobParts DEF HandInv, CallerTypes
  <1>7. TokenInv'
    <2> SUFFICES ASSUME NEW u \in Tasklets PROVE Token(u)'
      BY DEF TokenInv
    <2>1. Token(u)
      BY DEF IInv, TokenInv
    <2>2. \A l \in CPUs : irqt'[l][1] = u <=> (irqt[l][1] = u \/ (l = k /\ u = t))
      BY <1>0, <1>3, <1>6
    <2>3. \A a, b : At(u, a, b)' <=> At(u, a, b) \/ (u = t /\ a = k /\ b = "irq")
      BY <1>1, <2>2 DEF At, softVars, threadVars
    <2>4. CASE u = t
      <3>1. ~SCHED[u] /\ SCHED'[u]
        BY <1>1, <1>3, <2>4
      <3>2. \A a, b : At(u, a, b)' <=> At(u, a, b) \/ (a = k /\ b = "irq")
        BY <2>3, <2>4
      <3>3. QED
        BY <2>1, <3>1, <3>2 DEF Token
    <2>5. CASE u # t
      <3>1. \A a, b : At(u, a, b)' <=> At(u, a, b)
        BY <2>3, <2>5
      <3>2. QED
        BY <1>3, <2>1, <2>5, <3>1, TokenKeeps
    <2>6. QED
      BY <2>4, <2>5
  <1>8. QED
    BY <1>1, <1>4, <1>5, <1>7, IrqKeeps

(* It queues the tasklet on its own CPU. *)
LEMMA IrqQueueStep ==
  ASSUME IInv, NEW k \in CPUs, irq_queue(k)
  PROVE  IInv'
  <1> DEFINE c == irqt[k][1]
             v == irqt[k][2]
  <1>1. /\ irq[k] = "queue" /\ Enqueue(c, v, k)
        /\ irq' = Set(irq, k, "exit") /\ irqt' = Set(irqt, k, NoJob)
        /\ UNCHANGED <<SCHED, RUN, count, softVars, kdVars, threadVars>>
    BY DEF irq_queue, shared
  <1>2. BitTypes /\ ListTypes /\ CallerTypes /\ HandInv /\ ListsOnce
    BY TypeParts DEF IInv
  <1>3. c \in Tasklets /\ v \in Vecs
    BY <1>1, <1>2, JobParts DEF HandInv
  <1> HIDE DEF c, v
  <1>4. /\ irq'[k] = "exit" /\ irqt'[k] = NoJob
        /\ \A l \in CPUs : l # k => irq'[l] = irq[l] /\ irqt'[l] = irqt[l]
    BY <1>1, <1>2 DEF CallerTypes, Set
  <1>5. /\ vec' \in [CPUs -> [Vecs -> Seq(Tasklets)]] /\ pending' \in [CPUs -> SUBSET Vecs]
        /\ \A l \in CPUs, u \in Vecs :
             /\ ~(l = k /\ u = v) => vec'[l][u] = vec[l][u]
             /\ Entries(vec'[l][u]) = IF l = k /\ u = v THEN Entries(vec[l][u]) \cup {c}
                                                       ELSE Entries(vec[l][u])
        /\ LinkedOnce(vec[k][v]) /\ c \notin Entries(vec[k][v]) => LinkedOnce(vec'[k][v])
    BY <1>1, <1>3, EnqueueLists DEF IInv
  <1>6. /\ BitTypes' /\ ListTypes' /\ irq' \in [CPUs -> {"none", "queue", "exit"}]
        /\ irqt' \in [CPUs -> Jobs \cup {NoJob}]
    BY <1>1, <1>2, <1>5 DEF BitTypes, ListTypes, CallerTypes, Set, softVars
  <1>7. \A l \in CPUs : irq'[l] = "queue" <=> irqt'[l] \in Jobs
    BY <1>2, <1>4, JobParts DEF HandInv
  <1>8. Token(c) /\ At(c, k, "irq") /\ ~At(c, k, v)
    <2>1. Token(c) /\ At(c, k, "irq")
      BY <1>3 DEF IInv, TokenInv, At, c
    <2>2. v # "irq"
      BY <1>3 DEF Vecs
    <2>3. QED
      BY <2>1, <2>2 DEF Token
  <1>9. ListsOnce'
    <2>1. c \notin Entries(vec[k][v])
      BY <1>3, <1>8 DEF At
    <2>2. QED
      BY <1>1, <1>2, <1>3, <1>5, <2>1 DEF ListsOnce, softVars
  <1>10. TokenInv'
    <2> SUFFICES ASSUME NEW t \in Tasklets PROVE Token(t)'
      BY DEF TokenInv
    <2>1. \A a, b : (a \in CPUs /\ b \in Vecs /\ t \in Entries(vec'[a][b]))
                      <=> (a \in CPUs /\ b \in Vecs /\ t \in Entries(vec[a][b]))
                            \/ (t = c /\ a = k /\ b = v)
      <3>1. ASSUME NEW a \in CPUs, NEW b \in Vecs
            PROVE  t \in Entries(vec'[a][b]) <=> t \in Entries(vec[a][b]) \/ (t = c /\ a = k /\ b = v)
        <4>1. Entries(vec'[a][b]) = IF a = k /\ b = v THEN Entries(vec[a][b]) \cup {c} ELSE Entries(vec[a][b])
          BY <1>5
        <4>2. QED
          BY <4>1
      <3>2. QED
        BY <1>3, <3>1
    <2>2. \A a \in CPUs : irqt'[a][1] = t <=> (irqt[a][1] = t /\ ~(t = c /\ a = k))
      BY <1>4, JobParts DEF c
    <2>3. \A a, b : At(t, a, b)' <=>
            (At(t, a, b) /\ ~(t = c /\ a = k /\ b = "irq")) \/ (t = c /\ a = k /\ b = v)
      BY <1>1, <1>3, <2>1, <2>2 DEF At, Vecs, softVars, threadVars
    <2>4. CASE t = c
      <3>1. \A a, b : At(t, a, b)' <=> (At(t, a, b) /\ ~(a = k /\ b = "irq")) \/ (a = k /\ b = v)
        BY <2>3, <2>4
      <3>2. QED
        BY <1>1, <1>8, <2>4, <3>1, TokenMoves
    <2>5. CASE t # c
      <3>1. \A a, b : At(t, a, b)' <=> At(t, a, b)
        BY <2>3, <2>5
      <3>2. QED
        BY <1>1, <3>1, TokenKeeps DEF IInv, TokenInv
    <2>6. QED
      BY <2>4, <2>5
  <1>11. QED
    BY <1>1, <1>6, <1>7, <1>9, <1>10, IrqKeeps

-----------------------------------------------------------------------------
(* A step of a thread changes where that thread is and what it is about. *)
LEMMA CallFrame ==
  ASSUME IInv, NEW p \in Threads, NEW from, NEW to \in ThreadLabels, NEW j, Call(p, from, to, j),
         to # "idle" => j \in Jobs
  PROVE  /\ pc' \in [Threads -> ThreadLabels] /\ arg' \in [Threads -> Jobs \cup {NoJob}]
         /\ pc[p] = from /\ pc'[p] = to /\ arg'[p] = IF to = "idle" THEN NoJob ELSE j
         /\ \A q \in Threads : q # p => pc'[q] = pc[q] /\ arg'[q] = arg[q]
         /\ UNCHANGED <<softVars, irqVars, kd>>
  <1>1. pc \in [Threads -> ThreadLabels] /\ arg \in [Threads -> Jobs \cup {NoJob}]
    BY TypeParts DEF IInv, CallerTypes
  <1>2. QED
    BY <1>1 DEF Call, Set

(* The places of SCHED after it, when no list has changed. *)
LEMMA CallPlaces ==
  ASSUME IInv, NEW p \in Threads, NEW from, NEW to \in ThreadLabels, NEW j, Call(p, from, to, j),
         to # "idle" => j \in Jobs, vec' = vec, NEW t \in Tasklets
  PROVE  \A a, b : At(t, a, b)' <=>
           IF a = p /\ b \in {"queue", "kill"}
             THEN j[1] = t /\ ((b = "queue" /\ to = "queue") \/ (b = "kill" /\ to \in {"kwait", "kclear"}))
             ELSE At(t, a, b)
  <1>1. /\ pc'[p] = to /\ arg'[p] = IF to = "idle" THEN NoJob ELSE j
        /\ \A q \in Threads : q # p => pc'[q] = pc[q] /\ arg'[q] = arg[q]
        /\ UNCHANGED <<softVars, irqVars>>
    BY CallFrame
  <1>2. \A a \in Threads :
          (pc'[a] = "queue" /\ arg'[a][1] = t) <=>
             IF a = p THEN to = "queue" /\ j[1] = t ELSE pc[a] = "queue" /\ arg[a][1] = t
    BY <1>1
  <1>3. \A a \in Threads :
          (pc'[a] \in {"kwait", "kclear"} /\ arg'[a][1] = t) <=>
             IF a = p THEN to \in {"kwait", "kclear"} /\ j[1] = t
                      ELSE pc[a] \in {"kwait", "kclear"} /\ arg[a][1] = t
    BY <1>1
  <1>4. QED
    BY <1>1, <1>2, <1>3 DEF At, Vecs, softVars, irqVars

(* What is left to show of a thread's step: the bits and the count it      *)
(* changed, the token, and that a tasklet it waited for is quiet.          *)
LEMMA CallKeeps ==
  ASSUME IInv, NEW p \in Threads, NEW from, NEW to \in ThreadLabels, NEW j, Call(p, from, to, j),
         to # "idle" => j \in Jobs,
         RUN' = RUN, SCHED' \in [Tasklets -> BOOLEAN], count' \in [Tasklets -> Nat],
         vec' \in [CPUs -> [Vecs -> Seq(Tasklets)]], pending' \in [CPUs -> SUBSET Vecs],
         asleep' \in [CPUs -> BOOLEAN],
         CountInv', ListsOnce', TokenInv',
         to \in {"disabled", "kclear"} => \A k \in CPUs : ~Executes(k, j[1])
  PROVE  IInv'
  <1>1. /\ pc' \in [Threads -> ThreadLabels] /\ arg' \in [Threads -> Jobs \cup {NoJob}]
        /\ pc'[p] = to /\ arg'[p] = IF to = "idle" THEN NoJob ELSE j
        /\ \A q \in Threads : q # p => pc'[q] = pc[q] /\ arg'[q] = arg[q]
        /\ UNCHANGED <<softVars, irqVars, kd>>
    BY CallFrame
  <1>2. CountType /\ BitTypes /\ ListTypes /\ SoftTypes /\ CallerTypes /\ HandInv
    BY TypeParts DEF IInv
  <1>3. CountType'
    <2> SUFFICES ASSUME NEW t \in Tasklets PROVE count'[t] \in 0..Cardinality(Threads)
      BY DEF CountType
    <2>1. count'[t] = Cardinality(Disablers(t)')
      BY DEF CountInv
    <2>2. Disablers(t)' \subseteq Threads /\ IsFiniteSet(Threads)
      BY TaskletAssumption DEF Disablers
    <2>3. /\ Cardinality(Threads) \in Nat /\ Cardinality(Disablers(t)') \in Nat
          /\ Cardinality(Disablers(t)') <= Cardinality(Threads)
      BY <2>2, FS_Subset, FS_CardinalityType
    <2>4. QED
      BY <2>1, <2>3
  <1>4. TypeOK'
    <2>1. BitTypes' /\ ListTypes' /\ SoftTypes'
      BY <1>1, <1>2 DEF BitTypes, ListTypes, SoftTypes, softVars
    <2>2. CallerTypes'
      BY <1>1, <1>2 DEF CallerTypes, irqVars
    <2>3. QED
      BY <1>3, <2>1, <2>2, TypeParts
  <1>5. HandInv'
    <2>1. NoJob \notin Jobs
      BY JobParts
    <2>2. pc'[p] # "idle" <=> arg'[p] \in Jobs
      BY <1>1, <2>1
    <2>3. \A q \in Threads : pc[q] # "idle" <=> arg[q] \in Jobs
      BY <1>2 DEF HandInv
    <2>4. \A q \in Threads : pc'[q] # "idle" <=> arg'[q] \in Jobs
      BY <1>1, <2>2, <2>3
    <2>5. QED
      BY <1>1, <1>2, <2>4 DEF HandInv, softVars, irqVars
  <1>6. RunInv'
    BY <1>1 DEF IInv, RunInv, Holds, softVars
  <1>8. DisabledIsQuiet'
    <2> SUFFICES ASSUME NEW q \in Threads, pc'[q] = "disabled", NEW l \in CPUs
                 PROVE  ~Executes(l, arg[q][1])'
      BY DEF DisabledIsQuiet
    <2>1. ~Executes(l, arg'[q][1])
      BY <1>1 DEF IInv, DisabledIsQuiet
    <2>2. QED
      BY <1>1, <2>1 DEF Executes, softVars
  <1>9. KilledIsQuiet'
    <2> SUFFICES ASSUME NEW q \in Threads, pc'[q] = "kclear", NEW l \in CPUs
                 PROVE  ~Executes(l, arg[q][1])'
      BY DEF KilledIsQuiet
    <2>1. ~Executes(l, arg'[q][1])
      BY <1>1 DEF IInv, KilledIsQuiet
    <2>2. QED
      BY <1>1, <2>1 DEF Executes, softVars
  <1>10. QED
    BY <1>4, <1>5, <1>6, <1>8, <1>9 DEF IInv

(* A step that is no tasklet_disable() and no tasklet_enable() changes no  *)
(* set of disablers.                                                       *)
LEMMA SameDisablers ==
  ASSUME IInv, NEW p \in Threads, NEW from, NEW to \in ThreadLabels, NEW j, Call(p, from, to, j),
         to # "idle" => j \in Jobs, count' = count,
         from \in {"dwait", "disabled", "nosync"} <=> to \in {"dwait", "disabled", "nosync"},
         from \in {"dwait", "disabled", "nosync"} => j = arg[p]
  PROVE  CountInv' /\ count' \in [Tasklets -> Nat]
  <1>1. /\ pc[p] = from /\ pc'[p] = to /\ arg'[p] = IF to = "idle" THEN NoJob ELSE j
        /\ \A q \in Threads : q # p => pc'[q] = pc[q] /\ arg'[q] = arg[q]
    BY CallFrame
  <1>2. \A t : Disablers(t)' = Disablers(t)
    BY <1>1 DEF Disablers
  <1>3. count \in [Tasklets -> Nat]
    <2>1. 0..Cardinality(Threads) \subseteq Nat
      OBVIOUS
    <2>2. QED
      BY <2>1, TypeParts DEF IInv, CountType
  <1>4. QED
    BY <1>2, <1>3 DEF IInv, CountInv

(* What a thread's step leaves alone when it only takes, gives or waits    *)
(* for a bit.                                                              *)
LEMMA BitCall ==
  ASSUME IInv, NEW p \in Threads, NEW from, NEW to \in ThreadLabels, NEW j, Call(p, from, to, j),
         to # "idle" => j \in Jobs, UNCHANGED <<RUN, count, vec, pending, asleep>>,
         SCHED' \in [Tasklets -> BOOLEAN],
         from \in {"dwait", "disabled", "nosync"} <=> to \in {"dwait", "disabled", "nosync"},
         from \in {"dwait", "disabled", "nosync"} => j = arg[p],
         TokenInv', to \in {"disabled", "kclear"} => ~RUN[j[1]]
  PROVE  IInv'
  <1>1. CountInv' /\ count' \in [Tasklets -> Nat] /\ UNCHANGED softVars
    BY SameDisablers, CallFrame
  <1>2. /\ vec' \in [CPUs -> [Vecs -> Seq(Tasklets)]] /\ pending' \in [CPUs -> SUBSET Vecs]
        /\ asleep' \in [CPUs -> BOOLEAN]
    BY TypeParts DEF IInv, ListTypes, CallerTypes
  <1>3. ListsOnce'
    BY <1>1 DEF IInv, ListsOnce, softVars
  <1>4. to \in {"disabled", "kclear"} => \A k \in CPUs : ~Executes(k, j[1])
    <2>1. to \in {"disabled", "kclear"} => j[1] \in Tasklets
      BY JobParts
    <2>2. \A k \in CPUs : Executes(k, j[1]) => Holds(k, j[1])
      BY DEF Executes, Holds
    <2>3. QED
      BY <2>1, <2>2 DEF IInv, RunInv
  <1>5. QED
    BY <1>1, <1>2, <1>3, <1>4, CallKeeps

(* A thread's step that leaves SCHED where it is. *)
LEMMA TokenCall ==
  ASSUME IInv, NEW p \in Threads, NEW from, NEW to \in ThreadLabels, NEW j, Call(p, from, to, j),
         to # "idle" => j \in Jobs, UNCHANGED <<SCHED, vec>>,
         from # "queue" /\ to # "queue",
         from \in {"kwait", "kclear"} <=> to \in {"kwait", "kclear"},
         from \in {"kwait", "kclear"} => j = arg[p]
  PROVE  TokenInv'
  <1> SUFFICES ASSUME NEW t \in Tasklets PROVE Token(t)'
    BY DEF TokenInv
  <1>1. \A a, b : At(t, a, b)' <=>
          IF a = p /\ b \in {"queue", "kill"}
            THEN j[1] = t /\ ((b = "queue" /\ to = "queue") \/ (b = "kill" /\ to \in {"kwait", "kclear"}))
            ELSE At(t, a, b)
    BY CallPlaces
  <1>2. pc[p] = from
    BY CallFrame
  <1>3. ~At(t, p, "queue") /\ (At(t, p, "kill") <=> from \in {"kwait", "kclear"} /\ arg[p][1] = t)
    BY <1>2 DEF At, Vecs
  <1>4. \A a, b : At(t, a, b)' <=> At(t, a, b)
    BY <1>1, <1>3
  <1>5. QED
    BY <1>4, TokenKeeps DEF IInv, TokenInv

(* tasklet_schedule() takes SCHED. *)
LEMMA ScheduleStep ==
  ASSUME IInv, NEW p \in Threads, NEW t \in Tasklets, NEW v \in Vecs, tasklet_schedule(p, t, v)
  PROVE  IInv'
  <1> DEFINE j == <<t, v>>
  <1>0. j \in Jobs /\ j[1] = t /\ "queue" \in ThreadLabels
    BY JobParts DEF ThreadLabels
  <1>1. /\ ~SCHED[t] /\ Call(p, "idle", "queue", j) /\ SCHED' = Set(SCHED, t, TRUE)
        /\ UNCHANGED <<RUN, count, vec, pending, asleep>>
    BY DEF tasklet_schedule, percpu
  <1> HIDE DEF j
  <1>2. /\ SCHED' \in [Tasklets -> BOOLEAN] /\ SCHED'[t]
        /\ \A u \in Tasklets : u # t => SCHED'[u] = SCHED[u]
    BY <1>1, TypeParts DEF IInv, BitTypes, Set
  <1>3. TokenInv'
    <2> SUFFICES ASSUME NEW u \in Tasklets PROVE Token(u)'
      BY DEF TokenInv
    <2>1. Token(u) /\ pc[p] = "idle"
      BY <1>0, <1>1, CallFrame DEF IInv, TokenInv
    <2>2. ~At(u, p, "queue") /\ ~At(u, p, "kill")
      BY <2>1 DEF At, Vecs
    <2>3. \A a, b : At(u, a, b)' <=>
            IF a = p /\ b \in {"queue", "kill"}
              THEN t = u /\ b = "queue"
              ELSE At(u, a, b)
      BY <1>0, <1>1, CallPlaces
    <2>4. CASE u = t
      <3>1. ~SCHED[u] /\ SCHED'[u]
        BY <1>1, <1>2, <2>4
      <3>2. \A a, b : At(u, a, b)' <=> At(u, a, b) \/ (a = p /\ b = "queue")
        BY <2>2, <2>3, <2>4
      <3>3. QED
        BY <2>1, <3>1, <3>2 DEF Token
    <2>5. CASE u # t
      <3>1. \A a, b : At(u, a, b)' <=> At(u, a, b)
        BY <2>2, <2>3, <2>5
      <3>2. QED
        BY <1>2, <2>1, <2>5, <3>1, TokenKeeps
    <2>6. QED
      BY <2>4, <2>5
  <1>4. QED
    BY <1>0, <1>1, <1>2, <1>3, BitCall

(* The arguments of a thread that is in a call. *)
LEMMA CallArg ==
  ASSUME IInv, NEW p \in Threads, pc[p] # "idle"
  PROVE  arg[p] \in Jobs /\ arg[p][1] \in Tasklets /\ arg[p][2] \in Vecs
  BY JobParts DEF IInv, HandInv

(* tasklet_kill() takes SCHED, if nobody has it. *)
LEMMA KillSetStep ==
  ASSUME IInv, NEW p \in Threads, kill_set(p)
  PROVE  IInv'
  <1> DEFINE j == arg[p]
             c == j[1]
  <1>0. pc[p] = "kill"
    BY DEF kill_set
  <1>1. /\ Call(p, "kill", IF SCHED[c] THEN "yield" ELSE "kwait", j)
        /\ SCHED' = Set(SCHED, c, TRUE)
        /\ UNCHANGED <<RUN, count, vec, pending, asleep>>
    BY DEF kill_set, percpu
  <1>2. j \in Jobs /\ c \in Tasklets /\ {"yield", "kwait"} \subseteq ThreadLabels
    BY <1>0, CallArg DEF ThreadLabels
  <1> HIDE DEF j
  <1>3. /\ SCHED' \in [Tasklets -> BOOLEAN] /\ SCHED'[c]
        /\ \A u \in Tasklets : u # c => SCHED'[u] = SCHED[u]
    BY <1>1, <1>2, TypeParts DEF IInv, BitTypes, Set
  <1>4. CASE SCHED[c]
    <2>1. Call(p, "kill", "yield", j)
      BY <1>1, <1>4
    <2>2. SCHED' = SCHED
      BY <1>1, <1>2, <1>4, TypeParts DEF IInv, BitTypes, Set
    <2>3. TokenInv'
      BY <1>1, <1>2, <2>1, <2>2, TokenCall
    <2>4. QED
      BY <1>1, <1>2, <1>3, <2>1, <2>3, BitCall
  <1>5. CASE ~SCHED[c]
    <2>1. Call(p, "kill", "kwait", j)
      BY <1>1, <1>5
    <2>2. TokenInv'
      <3> SUFFICES ASSUME NEW u \in Tasklets PROVE Token(u)'
        BY DEF TokenInv
      <3>1. Token(u)
        BY DEF IInv, TokenInv
      <3>2. ~At(u, p, "queue") /\ ~At(u, p, "kill")
        BY <1>0 DEF At, Vecs
      <3>3. \A a, b : At(u, a, b)' <=>
              IF a = p /\ b \in {"queue", "kill"}
                THEN c = u /\ b = "kill"
                ELSE At(u, a, b)
        BY <1>1, <1>2, <2>1, CallPlaces
      <3>4. CASE u = c
        <4>1. ~SCHED[u] /\ SCHED'[u]
          BY <1>3, <1>5, <3>4
        <4>2. \A a, b : At(u, a, b)' <=> At(u, a, b) \/ (a = p /\ b = "kill")
          BY <3>2, <3>3, <3>4
        <4>3. QED
          BY <3>1, <4>1, <4>2 DEF Token
      <3>5. CASE u # c
        <4>1. \A a, b : At(u, a, b)' <=> At(u, a, b)
          BY <3>2, <3>3, <3>5
        <4>2. QED
          BY <1>3, <3>1, <3>5, <4>1, TokenKeeps
      <3>6. QED
        BY <3>4, <3>5
    <2>3. QED
      BY <1>1, <1>2, <1>3, <2>1, <2>2, BitCall
  <1>6. QED
    BY <1>4, <1>5

(* tasklet_kill() gives SCHED back. *)
LEMMA KillClearStep ==
  ASSUME IInv, NEW p \in Threads, kill_clear(p)
  PROVE  IInv'
  <1> DEFINE j == arg[p]
             c == j[1]
  <1>1. /\ pc[p] = "kclear" /\ Call(p, "kclear", "idle", j) /\ SCHED' = Set(SCHED, c, FALSE)
        /\ UNCHANGED <<RUN, count, vec, pending, asleep>>
    BY DEF kill_clear, percpu, Call
  <1>2. c \in Tasklets /\ "idle" \in ThreadLabels
    BY <1>1, CallArg DEF ThreadLabels
  <1>3. /\ SCHED' \in [Tasklets -> BOOLEAN] /\ ~SCHED'[c]
        /\ \A u \in Tasklets : u # c => SCHED'[u] = SCHED[u]
    BY <1>1, <1>2, TypeParts DEF IInv, BitTypes, Set
  <1>4. TokenInv'
    <2> SUFFICES ASSUME NEW u \in Tasklets PROVE Token(u)'
      BY DEF TokenInv
    <2>1. Token(u)
      BY DEF IInv, TokenInv
    <2>2. ~At(u, p, "queue") /\ (At(u, p, "kill") <=> c = u)
      BY <1>1 DEF At, Vecs
    <2>3. \A a, b : At(u, a, b)' <=> ~(a = p /\ b \in {"queue", "kill"}) /\ At(u, a, b)
      BY <1>1, <1>2, CallPlaces
    <2>4. CASE u = c
      <3>1. At(u, p, "kill") /\ ~SCHED'[u]
        BY <1>3, <2>2, <2>4
      <3>2. \A a, b : At(u, a, b)' <=> At(u, a, b) /\ ~(a = p /\ b = "kill")
        BY <2>2, <2>3
      <3>3. QED
        BY <2>1, <3>1, <3>2, TokenDropped
    <2>5. CASE u # c
      <3>1. \A a, b : At(u, a, b)' <=> At(u, a, b)
        BY <2>2, <2>3, <2>5
      <3>2. QED
        BY <1>3, <2>1, <2>5, <3>1, TokenKeeps
    <2>6. QED
      BY <2>4, <2>5
  <1>5. QED
    BY <1>1, <1>2, <1>3, <1>4, BitCall

(* The calls and the waits that change no bit. *)
LEMMA WaitStep ==
  ASSUME IInv, NEW p \in Threads,
         \/ \E t \in Tasklets : tasklet_kill(p, t)
         \/ disable_wait(p) \/ kill_yield(p) \/ kill_wait(p)
  PROVE  IInv'
  <1>0. {"kill", "disabled", "kclear"} \subseteq ThreadLabels /\ SCHED \in [Tasklets -> BOOLEAN]
    BY TypeParts DEF ThreadLabels, IInv, BitTypes
  <1>1. UNCHANGED <<SCHED, RUN, count, vec, pending, asleep>>
    BY DEF tasklet_kill, disable_wait, kill_yield, kill_wait, shared, percpu
  <1>2. CASE \E t \in Tasklets : tasklet_kill(p, t)
    <2>1. PICK t \in Tasklets : Call(p, "idle", "kill", <<t, "TASKLET">>)
      BY <1>2 DEF tasklet_kill
    <2>2. <<t, "TASKLET">> \in Jobs
      BY JobParts DEF Vecs
    <2>3. TokenInv'
      BY <1>0, <1>1, <2>1, <2>2, TokenCall
    <2>4. QED
      BY <1>0, <1>1, <2>1, <2>2, <2>3, BitCall
  <1>3. CASE kill_yield(p)
    <2>1. pc[p] = "yield" /\ Call(p, "yield", "kill", arg[p])
      BY <1>3 DEF kill_yield
    <2>2. arg[p] \in Jobs
      BY <2>1, CallArg
    <2>3. TokenInv'
      BY <1>0, <1>1, <2>1, <2>2, TokenCall
    <2>4. QED
      BY <1>0, <1>1, <2>1, <2>2, <2>3, BitCall
  <1>4. CASE disable_wait(p)
    <2>1. pc[p] = "dwait" /\ ~RUN[arg[p][1]] /\ Call(p, "dwait", "disabled", arg[p])
      BY <1>4 DEF disable_wait
    <2>2. arg[p] \in Jobs
      BY <2>1, CallArg
    <2>3. TokenInv'
      BY <1>0, <1>1, <2>1, <2>2, TokenCall
    <2>4. QED
      BY <1>0, <1>1, <2>1, <2>2, <2>3, BitCall
  <1>5. CASE kill_wait(p)
    <2>1. pc[p] = "kwait" /\ ~RUN[arg[p][1]] /\ Call(p, "kwait", "kclear", arg[p])
      BY <1>5 DEF kill_wait
    <2>2. arg[p] \in Jobs
      BY <2>1, CallArg
    <2>3. TokenInv'
      BY <1>0, <1>1, <2>1, <2>2, TokenCall
    <2>4. QED
      BY <1>0, <1>1, <2>1, <2>2, <2>3, BitCall
  <1>6. QED
    BY <1>2, <1>3, <1>4, <1>5

(* __tasklet_schedule() in a thread: SCHED goes from the thread to a list. *)
LEMMA QueueStep ==
  ASSUME IInv, NEW p \in Threads, NEW k \in CPUs, __tasklet_schedule(p, k)
  PROVE  IInv'
  <1> DEFINE j == arg[p]
             c == j[1]
             v == j[2]
  <1>1. /\ pc[p] = "queue" /\ Call(p, "queue", "idle", j) /\ Enqueue(c, v, k)
        /\ asleep' = Set(asleep, k, FALSE) /\ UNCHANGED <<SCHED, RUN, count>>
    BY DEF __tasklet_schedule, Call, wakeup_softirqd, shared
  <1>2. c \in Tasklets /\ v \in Vecs /\ "idle" \in ThreadLabels
    BY <1>1, CallArg DEF ThreadLabels
  <1> HIDE DEF v
  <1>3. /\ pc'[p] = "idle" /\ arg'[p] = NoJob
        /\ \A q \in Threads : q # p => pc'[q] = pc[q] /\ arg'[q] = arg[q]
        /\ UNCHANGED <<softVars, irqVars>>
    BY <1>1, <1>2, CallFrame
  <1>4. /\ vec' \in [CPUs -> [Vecs -> Seq(Tasklets)]] /\ pending' \in [CPUs -> SUBSET Vecs]
        /\ \A l \in CPUs, u \in Vecs :
             /\ ~(l = k /\ u = v) => vec'[l][u] = vec[l][u]
             /\ Entries(vec'[l][u]) = IF l = k /\ u = v THEN Entries(vec[l][u]) \cup {c}
                                                       ELSE Entries(vec[l][u])
        /\ LinkedOnce(vec[k][v]) /\ c \notin Entries(vec[k][v]) => LinkedOnce(vec'[k][v])
    BY <1>1, <1>2, EnqueueLists DEF IInv
  <1>5. Token(c) /\ At(c, p, "queue") /\ ~At(c, k, v)
    <2>1. Token(c) /\ At(c, p, "queue")
      BY <1>1, <1>2 DEF IInv, TokenInv, At
    <2>2. v # "queue"
      BY <1>2 DEF Vecs
    <2>3. QED
      BY <2>1, <2>2 DEF Token
  <1>6. ListsOnce'
    <2>1. c \notin Entries(vec[k][v])
      BY <1>2, <1>5 DEF At
    <2>2. QED
      BY <1>2, <1>3, <1>4, <2>1 DEF IInv, ListsOnce, softVars
  <1> HIDE DEF c, j
  <1>7. TokenInv'
    <2> SUFFICES ASSUME NEW t \in Tasklets PROVE Token(t)'
      BY DEF TokenInv
    <2>1. \A a, b : (a \in CPUs /\ b \in Vecs /\ t \in Entries(vec'[a][b]))
                      <=> (a \in CPUs /\ b \in Vecs /\ t \in Entries(vec[a][b]))
                            \/ (t = c /\ a = k /\ b = v)
      BY <1>2, <1>4
    <2>2. \A a \in Threads :
            (pc'[a] = "queue" /\ arg'[a][1] = t) <=> (pc[a] = "queue" /\ arg[a][1] = t /\ ~(t = c /\ a = p))
      BY <1>1, <1>3 DEF c, j
    <2>3. \A a \in Threads :
            (pc'[a] \in {"kwait", "kclear"} /\ arg'[a][1] = t)
              <=> (pc[a] \in {"kwait", "kclear"} /\ arg[a][1] = t)
      BY <1>1, <1>3
    <2>4. \A a, b : At(t, a, b)' <=>
            (At(t, a, b) /\ ~(t = c /\ a = p /\ b = "queue")) \/ (t = c /\ a = k /\ b = v)
      <3>1. v \in Vecs /\ v \notin {"list", "cur", "irq", "queue", "kill"} /\ k \in CPUs /\ p \in Threads
        BY <1>2 DEF Vecs
      <3>2. UNCHANGED <<list, soft, cur, irqt>>
        BY <1>3 DEF softVars, irqVars
      <3>3. "queue" \notin Vecs
        BY DEF Vecs
      <3>4. QED
        BY <2>1, <2>2, <2>3, <3>1, <3>2, <3>3 DEF At
    <2>5. CASE t = c
      <3>1. \A a, b : At(t, a, b)' <=> (At(t, a, b) /\ ~(a = p /\ b = "queue")) \/ (a = k /\ b = v)
        BY <2>4, <2>5
      <3>2. Token(t) /\ At(t, p, "queue") /\ (SCHED'[t] <=> SCHED[t])
        BY <1>1, <1>5, <2>5
      <3>3. QED
        BY <3>1, <3>2 DEF Token
    <2>6. CASE t # c
      <3>1. \A a, b : At(t, a, b)' <=> At(t, a, b)
        BY <2>4, <2>6
      <3>2. QED
        BY <1>1, <3>1, TokenKeeps DEF IInv, TokenInv
    <2>7. QED
      BY <2>5, <2>6
  <1>8. CountInv' /\ count' \in [Tasklets -> Nat]
    BY <1>1, <1>2, SameDisablers
  <1>9. SCHED' \in [Tasklets -> BOOLEAN] /\ asleep' \in [CPUs -> BOOLEAN]
    BY <1>1, TypeParts DEF IInv, BitTypes, CallerTypes, Set
  <1>10. QED
    BY <1>1, <1>2, <1>4, <1>6, <1>7, <1>8, <1>9, CallKeeps

(* A call that changes the count of one tasklet and no bit. *)
LEMMA CountCall ==
  ASSUME IInv, NEW p \in Threads, NEW from, NEW to \in ThreadLabels, NEW j, Call(p, from, to, j),
         to # "idle" => j \in Jobs, UNCHANGED <<SCHED, RUN, vec, pending, asleep>>,
         from \notin {"queue", "kwait", "kclear"}, to \in {"idle", "dwait", "nosync"},
         NEW c \in Tasklets, NEW n \in Nat, count' = Set(count, c, n), n = Cardinality(Disablers(c)'),
         \A t \in Tasklets : t # c => Disablers(t)' = Disablers(t)
  PROVE  IInv'
  <1>1. count \in [Tasklets -> Nat]
    <2>1. 0..Cardinality(Threads) \subseteq Nat
      OBVIOUS
    <2>2. QED
      BY <2>1, TypeParts DEF IInv, CountType
  <1>2. count' \in [Tasklets -> Nat] /\ count'[c] = n /\ \A t \in Tasklets : t # c => count'[t] = count[t]
    BY <1>1 DEF Set
  <1>3. CountInv'
    <2> SUFFICES ASSUME NEW t \in Tasklets PROVE count'[t] = Cardinality(Disablers(t)')
      BY DEF CountInv
    <2>1. CASE t = c
      BY <1>2, <2>1
    <2>2. CASE t # c
      BY <1>2, <2>2 DEF IInv, CountInv
    <2>3. QED
      BY <2>1, <2>2
  <1>4. TokenInv' /\ UNCHANGED softVars
    BY TokenCall, CallFrame
  <1>5. /\ vec' \in [CPUs -> [Vecs -> Seq(Tasklets)]] /\ pending' \in [CPUs -> SUBSET Vecs]
        /\ asleep' \in [CPUs -> BOOLEAN] /\ SCHED' \in [Tasklets -> BOOLEAN]
    BY TypeParts DEF IInv, ListTypes, CallerTypes, BitTypes
  <1>6. ListsOnce'
    BY <1>4 DEF IInv, ListsOnce, softVars
  <1>7. QED
    BY <1>2, <1>3, <1>4, <1>5, <1>6, CallKeeps

(* tasklet_disable() and tasklet_disable_nosync() count one disabler more. *)
LEMMA DisableStep ==
  ASSUME IInv, NEW p \in Threads, NEW t \in Tasklets,
         tasklet_disable(p, t) \/ tasklet_disable_nosync(p, t)
  PROVE  IInv'
  <1> DEFINE j == <<t, "TASKLET">>
  <1>0. j \in Jobs /\ j[1] = t
    BY JobParts DEF Vecs
  <1>1. PICK to \in {"dwait", "nosync"} : Call(p, "idle", to, j)
    BY DEF tasklet_disable, tasklet_disable_nosync
  <1>2. count' = Set(count, t, count[t] + 1) /\ UNCHANGED <<SCHED, RUN, vec, pending, asleep>>
    BY DEF tasklet_disable, tasklet_disable_nosync, percpu
  <1> HIDE DEF j
  <1>3. to \in ThreadLabels
    BY DEF ThreadLabels
  <1>4. /\ pc[p] = "idle" /\ pc'[p] = to /\ arg'[p] = j
        /\ \A q \in Threads : q # p => pc'[q] = pc[q] /\ arg'[q] = arg[q]
    BY <1>0, <1>1, <1>3, CallFrame
  <1>5. /\ p \notin Disablers(t) /\ Disablers(t)' = Disablers(t) \cup {p}
        /\ \A u \in Tasklets : u # t => Disablers(u)' = Disablers(u)
    BY <1>0, <1>4 DEF Disablers
  <1>6. IsFiniteSet(Disablers(t))
    BY TaskletAssumption, FS_Subset DEF Disablers
  <1>7. /\ Cardinality(Disablers(t)') = Cardinality(Disablers(t)) + 1
        /\ Cardinality(Disablers(t)) \in Nat
    BY <1>5, <1>6, FS_AddElement, FS_CardinalityType
  <1>8. count[t] + 1 \in Nat /\ count[t] + 1 = Cardinality(Disablers(t)')
    BY <1>7 DEF IInv, CountInv
  <1>9. QED
    BY <1>0, <1>1, <1>2, <1>3, <1>5, <1>8, CountCall

(* tasklet_enable() counts one less. *)
LEMMA EnableStep ==
  ASSUME IInv, NEW p \in Threads, tasklet_enable(p)
  PROVE  IInv'
  <1>0. PICK j, c : j = arg[p] /\ c = j[1]
    OBVIOUS
  <1>1. PICK from \in {"disabled", "nosync"} : Call(p, from, "idle", j)
    BY <1>0 DEF tasklet_enable
  <1>2. /\ count' = Set(count, c, count[c] - 1) /\ UNCHANGED <<SCHED, RUN, vec, pending, asleep>>
        /\ "idle" \in ThreadLabels
    BY <1>0 DEF tasklet_enable, percpu, ThreadLabels
  <1>3. /\ pc[p] = from /\ pc'[p] = "idle"
        /\ \A q \in Threads : q # p => pc'[q] = pc[q] /\ arg'[q] = arg[q]
    BY <1>1, <1>2, CallFrame
  <1>4. c \in Tasklets
    BY <1>0, <1>3, CallArg
  <1>5. /\ p \in Disablers(c) /\ Disablers(c)' = Disablers(c) \ {p}
        /\ \A u \in Tasklets : u # c => Disablers(u)' = Disablers(u)
    BY <1>0, <1>3 DEF Disablers
  <1>6. IsFiniteSet(Disablers(c))
    BY TaskletAssumption, FS_Subset DEF Disablers
  <1>7. IsFiniteSet(Disablers(c)') /\ Cardinality(Disablers(c)') = Cardinality(Disablers(c)) - 1
    BY <1>5, <1>6, FS_RemoveElement
  <1>8. Cardinality(Disablers(c)') \in Nat
    BY <1>7, FS_CardinalityType
  <1>9. count[c] - 1 \in Nat /\ count[c] - 1 = Cardinality(Disablers(c)')
    BY <1>4, <1>7, <1>8 DEF IInv, CountInv
  <1>10. QED
    BY <1>1, <1>2, <1>4, <1>5, <1>9, CountCall

-----------------------------------------------------------------------------
(* tasklet_init() has run, and nothing has happened yet. *)
LEMMA InitIInv ==
  ASSUME Init
  PROVE  IInv
  <1>1. /\ 0 \in 0..Cardinality(Threads) /\ 0 \in 0..MAX_SOFTIRQ_RESTART
    BY TaskletAssumption, FS_CardinalityType
  <1>2. TypeOK
    BY <1>1 DEF Init, TypeOK, SoftLabels, ThreadLabels, Vecs, Jobs, NoJob
  <1>3. HandInv /\ RunInv /\ DisabledIsQuiet /\ KilledIsQuiet
    BY JobParts, TaskletAssumption
       DEF Init, HandInv, RunInv, Holds, DisabledIsQuiet, KilledIsQuiet, Executes
  <1>4. CountInv
    <2>1. \A t \in Tasklets : Disablers(t) = {}
      BY DEF Init, Disablers
    <2>2. QED
      BY <2>1, FS_EmptySet DEF Init, CountInv
  <1>5. ListsOnce
    BY DEF Init, ListsOnce, LinkedOnce
  <1>6. TokenInv
    <2> SUFFICES ASSUME NEW t \in Tasklets PROVE Token(t)
      BY DEF TokenInv
    <2>1. \A a, b : ~At(t, a, b)
      BY JobParts DEF Init, At, Entries
    <2>2. ~SCHED[t]
      BY DEF Init
    <2>3. QED
      BY <2>1, <2>2 DEF Token
  <1>7. QED
    BY <1>2, <1>3, <1>4, <1>5, <1>6 DEF IInv

(* Every step preserves the invariant. *)
LEMMA NextIInv ==
  ASSUME IInv, [Next]_vars
  PROVE  IInv'
  <1>1. CASE Next
    <2>1. ASSUME NEW k \in CPUs, ActionStep(k) PROVE IInv'
      BY <2>1, TakeListStep, TrylockStep, ReadCountStep, ClearSchedStep, FuncReschedulesStep,
         ActionQueueStep, UnlockStep, ActionReturnsStep DEF ActionStep
    <2>2. ASSUME NEW k \in CPUs, PassStep(k) \/ irq_queue(k) PROVE IInv'
      BY <2>2, PassInv, IrqQueueStep
    <2>3. ASSUME NEW p \in Threads, ThreadStep(p) PROVE IInv'
      BY <2>3, ScheduleStep, QueueStep, DisableStep, WaitStep, EnableStep, KillSetStep, KillClearStep
         DEF ThreadStep, Thread, Kill, Calls
    <2>4. QED
      BY <1>1, <2>1, <2>2, <2>3, IrqScheduleStep, StepKinds
  <1>2. CASE UNCHANGED vars
    <2>1. UNCHANGED <<SCHED, RUN, count, vec, pending, soft, mask, list, cur, src, max_restart,
                      irq, irqt, kd, asleep, pc, arg>>
      BY <1>2 DEF vars, shared, percpu, softVars, irqVars, kdVars, threadVars
    <2>2. TypeOK' /\ HandInv'
      BY <2>1 DEF IInv, TypeOK, HandInv
    <2>3. RunInv' /\ CountInv' /\ DisabledIsQuiet' /\ KilledIsQuiet' /\ ListsOnce'
      BY <2>1 DEF IInv, RunInv, Holds, CountInv, Disablers, DisabledIsQuiet, KilledIsQuiet,
         Executes, ListsOnce
    <2>4. TokenInv'
      BY <2>1 DEF IInv, TokenInv, Token, At
    <2>5. QED
      BY <2>2, <2>3, <2>4 DEF IInv
  <1>3. QED
    BY <1>1, <1>2

(* The invariant holds in every reachable state of the tasklets of         *)
(* kernel/softirq.c, whatever the CPUs, the tasklets and the callers.      *)
THEOREM Invariance == Spec => []IInv
  <1>1. Init => IInv
    BY InitIInv
  <1>2. IInv /\ [Next]_vars => IInv'
    BY NextIInv
  <1>3. QED
    BY <1>1, <1>2, PTL DEF Spec

(* The variables have their types; above all t->count never goes below     *)
(* zero, nor above the number of callers.                                  *)
THEOREM TypeCorrect == Spec => []TypeOK
  <1>1. IInv => TypeOK
    BY DEF IInv
  <1>2. QED
    BY <1>1, Invariance, PTL

(* tasklet_trylock() lets one CPU at a time into the handler. *)
THEOREM HandlerSerialized == Spec => []Serialized
  <1>1. IInv => Serialized
    BY DEF IInv, RunInv, Serialized, Executes, Holds
  <1>2. QED
    BY <1>1, Invariance, PTL

(* tasklet_disable() returns only when the handler is not running, and it  *)
(* is not entered again before tasklet_enable().                           *)
THEOREM DisableWaits == Spec => []DisabledIsQuiet
  <1>1. IInv => DisabledIsQuiet
    BY DEF IInv
  <1>2. QED
    BY <1>1, Invariance, PTL

(* TASKLET_STATE_SCHED is held in exactly one place while it is set: a     *)
(* tasklet is on one list once, and test_and_clear_bit() in                *)
(* tasklet_action() always finds the bit set.                              *)
THEOREM OneToken == Spec => []SchedIsToken
  <1>1. ASSUME IInv PROVE SchedIsToken
    <2>1. ASSUME NEW t \in Tasklets PROVE Cardinality(Tokens(t)) = IF SCHED[t] THEN 1 ELSE 0
      <3>1. Token(t)
        BY <1>1 DEF IInv, TokenInv
      <3>2. CASE ~SCHED[t]
        <4>1. Tokens(t) = {}
          BY <3>1, <3>2 DEF Token, Tokens
        <4>2. QED
          BY <3>2, <4>1, FS_EmptySet
      <3>3. CASE SCHED[t]
        <4>1. PICK x, w : At(t, x, w)
          BY <3>1, <3>3 DEF Token
        <4>2. x \in CPUs \cup Threads /\ w \in Places
          BY <4>1 DEF At, Places
        <4>3. ASSUME NEW e \in (CPUs \cup Threads) \X Places
              PROVE  At(t, e[1], e[2]) <=> e = <<x, w>>
          BY <3>1, <4>1, <4>2 DEF Token
        <4>4. Tokens(t) = {<<x, w>>}
          BY <4>2, <4>3 DEF Tokens
        <4>5. QED
          BY <3>3, <4>4, FS_Singleton
      <3>4. QED
        BY <3>2, <3>3
    <2>2. QED
      BY <1>1, <2>1 DEF IInv, ListsOnce, KilledIsQuiet, SchedIsToken
  <1>2. QED
    BY <1>1, Invariance, PTL

-----------------------------------------------------------------------------
(* The timer wheel.  First its numbers: the powers of two. *)

(* The widths of the vectors add up to the width of a word. *)
LEMMA ShiftType ==
  /\ Shift[1] = 0 /\ \A l \in 1..5 : Bits[l] \in Nat \ {0} /\ Shift[l + 1] = Shift[l] + Bits[l]
  /\ \A l \in 1..6 : Shift[l] \in 0..Shift[6]
  /\ Shift[6] \in Nat
  <1>1. /\ Bits[1] \in Nat \ {0} /\ Bits[2] \in Nat \ {0} /\ Bits[3] \in Nat \ {0}
        /\ Bits[4] \in Nat \ {0} /\ Bits[5] \in Nat \ {0}
    BY TimerWheelAssumption
  <1>2. /\ Shift[1] = 0 /\ Shift[2] = Shift[1] + Bits[1] /\ Shift[3] = Shift[2] + Bits[2]
        /\ Shift[4] = Shift[3] + Bits[3] /\ Shift[5] = Shift[4] + Bits[4] /\ Shift[6] = Shift[5] + Bits[5]
    BY <1>1 DEF Shift
  <1>3. \A l \in 1..5 : l = 1 \/ l = 2 \/ l = 3 \/ l = 4 \/ l = 5
    OBVIOUS
  <1>4. \A l \in 1..6 : l = 1 \/ l = 2 \/ l = 3 \/ l = 4 \/ l = 5 \/ l = 6
    OBVIOUS
  <1>5. \A l \in 1..5 : Bits[l] \in Nat \ {0} /\ Shift[l + 1] = Shift[l] + Bits[l]
    BY <1>1, <1>2, <1>3
  <1>6. Shift[6] \in Nat /\ \A l \in 1..6 : Shift[l] \in 0..Shift[6]
    BY <1>1, <1>2, <1>4
  <1>7. QED
    BY <1>2, <1>5, <1>6

(* BIT[n] is the n-th power of 2. *)
LEMMA BitRec ==
  /\ BIT \in [0..Shift[6] -> Nat] /\ BIT[0] = 1
  /\ \A n \in 0..(Shift[6] - 1) : BIT[n + 1] = 2 * BIT[n]
  <1> DEFINE W == Shift[6]
             Prefix(n, g) == /\ g \in [0..n -> Nat] /\ g[0] = 1
                             /\ \A m \in 0..(n - 1) : g[m + 1] = 2 * g[m]
             G == {n \in 0..W : \E g : Prefix(n, g)}
             Rec(S) == S = [n \in 0..W |-> IF n = 0 THEN 1 ELSE 2 * S[n - 1]]
             Z == CHOOSE S : Rec(S)
  <1>0. W \in Nat
    BY ShiftType
  <1>z. BIT = Z
    BY DEF BIT
  <1> HIDE DEF W
  <1>1. 0 \in G
    <2>1. Prefix(0, [x \in 0..0 |-> 1])
      BY <1>0
    <2> HIDE DEF Prefix
    <2>2. QED
      BY <1>0, <2>1
  <1>2. ASSUME NEW n \in 0..(W - 1), n \in G PROVE n + 1 \in G
    <2>1. PICK g : Prefix(n, g)
      BY <1>2
    <2> DEFINE h == [x \in 0..(n + 1) |-> IF x = n + 1 THEN 2 * g[n] ELSE g[x]]
    <2>2. g[n] \in Nat
      BY <1>0, <2>1
    <2>3. Prefix(n + 1, h)
      BY <1>0, <2>1, <2>2
    <2> HIDE DEF Prefix
    <2>4. QED
      BY <1>0, <2>3
  <1>3. G = 0..W
    <2> HIDE DEF G
    <2>1. G \in SUBSET (0..W)
      BY DEF G
    <2>2. QED
      BY <1>0, <1>1, <1>2, <2>1, Induct
  <1>4. PICK g : Prefix(W, g)
    <2> HIDE DEF Prefix
    <2>1. QED
      BY <1>0, <1>3
  <1>5. Rec(g)
    <2> DEFINE h == [n \in 0..W |-> IF n = 0 THEN 1 ELSE 2 * g[n - 1]]
    <2>1. ASSUME NEW n \in 0..W PROVE g[n] = h[n]
      <3>1. CASE n = 0
        BY <1>4, <3>1
      <3>2. CASE n # 0
        <4>1. n - 1 \in 0..(W - 1) /\ (n - 1) + 1 = n
          BY <1>0, <3>2
        <4>2. QED
          BY <1>4, <3>2, <4>1
      <3>3. QED
        BY <3>1, <3>2
    <2> HIDE DEF h
    <2>2. h = [n \in 0..W |-> h[n]] /\ g = [n \in 0..W |-> g[n]]
      BY <1>4 DEF h
    <2>3. g = h
      BY <2>1, <2>2
    <2>4. QED
      BY <2>3 DEF h
  <1>6. Rec(Z)
    <2> HIDE DEF Rec
    <2>1. QED
      BY <1>5
  <1>7. /\ Z[0] = 1 /\ \A n \in 0..(W - 1) : Z[n + 1] = 2 * Z[n]
        /\ Z = [n \in 0..W |-> Z[n]]
    <2> HIDE DEF Z
    <2>1. Z[0] = 1
      BY <1>0, <1>6
    <2>2. \A n \in 0..(W - 1) : Z[n + 1] = 2 * Z[n]
      BY <1>0, <1>6
    <2>3. QED
      BY <1>6, <2>1, <2>2
  <1> HIDE DEF Z, Rec, Prefix, G
  <1> DEFINE H == {n \in 0..W : Z[n] \in Nat}
  <1>8. H = 0..W
    <2>1. 0 \in H
      BY <1>0, <1>7
    <2>2. ASSUME NEW n \in 0..(W - 1), n \in H PROVE n + 1 \in H
      <3>1. Z[n + 1] = 2 * Z[n] /\ Z[n] \in Nat /\ n + 1 \in 0..W
        BY <1>0, <1>7, <2>2
      <3>2. QED
        BY <3>1
    <2>3. H \in SUBSET (0..W)
      OBVIOUS
    <2> HIDE DEF H
    <2>4. QED
      BY <1>0, <2>1, <2>2, <2>3, Induct
  <1>9. Z \in [0..W -> Nat]
    BY <1>7, <1>8
  <1>10. QED
    BY <1>z, <1>7, <1>9 DEF W

(* A power of 2 is not zero. *)
LEMMA BitPositive ==
  ASSUME NEW n \in 0..Shift[6]
  PROVE  BIT[n] \in Nat \ {0}
  <1> DEFINE W == Shift[6]
             G == {m \in 0..W : BIT[m] # 0}
  <1>0. W \in Nat /\ BIT \in [0..W -> Nat] /\ BIT[0] = 1
        /\ \A m \in 0..(W - 1) : BIT[m + 1] = 2 * BIT[m]
    BY ShiftType, BitRec
  <1> HIDE DEF W
  <1>1. 0 \in G
    BY <1>0
  <1>2. ASSUME NEW m \in 0..(W - 1), m \in G PROVE m + 1 \in G
    <2>1. BIT[m + 1] = 2 * BIT[m] /\ BIT[m] \in Nat /\ BIT[m] # 0 /\ m + 1 \in 0..W
      BY <1>0, <1>2
    <2>2. QED
      BY <2>1
  <1>3. G = 0..W
    <2>1. G \in SUBSET (0..W)
      OBVIOUS
    <2> HIDE DEF G
    <2>2. QED
      BY <1>0, <1>1, <1>2, <2>1, Induct
  <1>4. n \in G
    BY <1>3 DEF W
  <1>5. QED
    BY <1>0, <1>4 DEF W

(* Shifting by a and by b is shifting by a + b. *)
LEMMA BitAdd ==
  ASSUME NEW a \in Nat, NEW b \in Nat, a + b <= Shift[6]
  PROVE  BIT[a + b] = BIT[a] * BIT[b] /\ BIT[a] \in Nat /\ BIT[b] \in Nat
  <1> DEFINE W == Shift[6]
             G == {n \in 0..b : BIT[a + n] = BIT[a] * BIT[n]}
  <1>0. W \in Nat /\ BIT \in [0..W -> Nat] /\ BIT[0] = 1 /\ a + b <= W
        /\ \A n \in 0..(W - 1) : BIT[n + 1] = 2 * BIT[n]
    BY ShiftType, BitRec
  <1> HIDE DEF W
  <1>1. 0 \in G
    BY <1>0
  <1>2. ASSUME NEW n \in 0..(b - 1), n \in G PROVE n + 1 \in G
    <2>1. BIT[a + (n + 1)] = 2 * BIT[a + n] /\ BIT[n + 1] = 2 * BIT[n] /\ BIT[n] \in Nat /\ BIT[a] \in Nat
      <3>1. a + n \in 0..(W - 1) /\ n \in 0..(W - 1) /\ a + (n + 1) = (a + n) + 1 /\ a \in 0..W /\ n \in 0..W
        BY <1>0
      <3>2. QED
        BY <1>0, <3>1
    <2>2. BIT[a + n] = BIT[a] * BIT[n]
      BY <1>2
    <2>3. BIT[a + (n + 1)] = BIT[a] * BIT[n + 1]
      BY <2>1, <2>2
    <2>4. QED
      BY <2>3
  <1>3. b \in G
    <2>1. G \in SUBSET (0..b)
      OBVIOUS
    <2> HIDE DEF G
    <2>2. G = 0..b
      BY <1>1, <1>2, <2>1, Induct
    <2>3. QED
      BY <2>2
  <1>4. a \in 0..W /\ b \in 0..W
    BY <1>0
  <1>5. QED
    BY <1>0, <1>3, <1>4

(* The bits of a word are those of its vectors. *)
LEMMA Units ==
  /\ Unit[1] = 1
  /\ \A l \in 1..6 : Unit[l] \in Nat \ {0}
  /\ \A l \in 1..5 : /\ Size[l] \in Nat /\ Size[l] >= 2 /\ Unit[l + 1] = Unit[l] * Size[l]
                    /\ \E x \in Nat \ {0} : Size[l] = 2 * x
  <1>0. /\ Shift[6] \in Nat /\ BIT \in [0..Shift[6] -> Nat] /\ BIT[0] = 1
        /\ \A n \in 0..(Shift[6] - 1) : BIT[n + 1] = 2 * BIT[n]
    BY ShiftType, BitRec
  <1>1. Unit[1] = 1
    BY <1>0, ShiftType DEF Unit
  <1>2. \A l \in 1..6 : Unit[l] = BIT[Shift[l]]
    BY DEF Unit
  <1>3. ASSUME NEW l \in 1..5
        PROVE  /\ Size[l] \in Nat /\ Size[l] >= 2 /\ Unit[l + 1] = Unit[l] * Size[l]
               /\ \E x \in Nat \ {0} : Size[l] = 2 * x
    <2> DEFINE b == Bits[l]
    <2>1. b \in Nat \ {0} /\ Shift[l + 1] = Shift[l] + b /\ Shift[l] \in Nat /\ Shift[l] + b <= Shift[6]
      <3>1. l + 1 \in 1..6 /\ l \in 1..6
        OBVIOUS
      <3>2. QED
        BY <3>1, ShiftType
    <2>2. Size[l] = BIT[b] /\ Unit[l + 1] = BIT[Shift[l] + b] /\ Unit[l] = BIT[Shift[l]]
      <3>1. l + 1 \in 1..6 /\ l \in 1..6
        OBVIOUS
      <3>2. QED
        BY <1>2, <2>1, <3>1 DEF Size
    <2> HIDE DEF b
    <2>3. Unit[l + 1] = Unit[l] * Size[l] /\ Unit[l] \in Nat /\ Size[l] \in Nat
      BY <2>1, <2>2, BitAdd
    <2>5. BIT[b] # 0
      <3>1. b \in 0..Shift[6]
        BY <1>0, <2>1
      <3>2. QED
        BY <1>0, <3>1, BitPositive
    <2>6. BIT[b] = 2 * BIT[b - 1] /\ BIT[b - 1] \in Nat
      <3>1. b - 1 \in 0..(Shift[6] - 1) /\ (b - 1) + 1 = b /\ b - 1 \in 0..Shift[6]
        BY <1>0, <2>1
      <3>2. QED
        BY <1>0, <3>1
    <2>7. Size[l] >= 2 /\ \E x \in Nat \ {0} : Size[l] = 2 * x
      BY <2>2, <2>5, <2>6
    <2>8. QED
      BY <2>3, <2>7
  <1>4. ASSUME NEW l \in 1..6 PROVE Unit[l] \in Nat \ {0}
    <2>1. Shift[l] \in 0..Shift[6]
      BY ShiftType
    <2>2. QED
      BY <1>0, <1>2, <2>1, BitPositive
  <1>5. QED
    BY <1>1, <1>3, <1>4

(* A product of positive numbers is not smaller than either. *)
LEMMA Product ==
  ASSUME NEW a \in Nat \ {0}, NEW b \in Nat \ {0}
  PROVE  a * b \in Nat \ {0} /\ a * b >= a /\ a * b >= b
  OBVIOUS

(* The limits of the code as fractions of a word. *)
LEMMA WordFacts ==
  /\ Word \in Nat \ {0} /\ Half \in Nat /\ NEXT_TIMER_MAX_DELTA \in Nat
  /\ Word = 2 * Half /\ Half = 2 * NEXT_TIMER_MAX_DELTA + 2
  /\ NEXT_TIMER_MAX_DELTA >= 7 /\ Size[1] - 1 <= NEXT_TIMER_MAX_DELTA
  <1>1. /\ Unit[1] = 1 /\ Unit[2] = Unit[1] * Size[1] /\ Unit[3] = Unit[2] * Size[2] /\ Unit[4] = Unit[3] * Size[3]
        /\ Unit[5] = Unit[4] * Size[4] /\ Unit[6] = Unit[5] * Size[5]
        /\ Size[1] \in Nat /\ Size[2] \in Nat /\ Size[3] \in Nat /\ Size[4] \in Nat /\ Size[5] \in Nat
        /\ Size[1] >= 2 /\ Size[2] >= 2 /\ Size[3] >= 2
    BY Units, 1 \in 1..5, 2 \in 1..5, 3 \in 1..5, 4 \in 1..5, 5 \in 1..5
  <1>2. PICK x \in Nat \ {0} : Size[4] = 2 * x
    BY Units, 4 \in 1..5
  <1>3. PICK y \in Nat \ {0} : Size[5] = 2 * y
    BY Units, 5 \in 1..5
  <1> DEFINE u == Unit[4]
             M == u * (x * y)
  <1>4. Unit[2] = Size[1]
    BY <1>1
  <1>5. Unit[3] \in Nat /\ Unit[3] >= 2 * Size[1]
    BY <1>1, <1>4
  <1>6. u \in Nat /\ u >= 4 * Size[1]
    <2>1. Unit[3] * Size[3] >= 2 * Unit[3]
      BY <1>1, <1>5
    <2>2. QED
      BY <1>1, <1>5, <2>1
  <1>7. Word = 4 * M
    <2>1. Word = (u * (2 * x)) * (2 * y)
      BY <1>1, <1>2, <1>3 DEF Word
    <2> HIDE DEF u
    <2>2. QED
      BY <1>6, <2>1
  <1>8. M \in Nat /\ M >= u
    <2> HIDE DEF u
    <2>1. x * y \in Nat \ {0} /\ u \in Nat \ {0}
      BY <1>1, <1>6, Product
    <2>2. QED
      BY <2>1, Product
  <1> HIDE DEF M
  <1>9. Half = 2 * M /\ NEXT_TIMER_MAX_DELTA = M - 1
    <2>1. Word \div 2 = 2 * M
      BY <1>7, <1>8
    <2>2. Word \div 4 = M
      BY <1>7, <1>8
    <2>3. QED
      BY <2>1, <2>2 DEF Half, NEXT_TIMER_MAX_DELTA
  <1>10. QED
    BY <1>1, <1>6, <1>7, <1>8, <1>9

(* The slots of a vector are divided into those of the one below. *)
LEMMA UnitDivides ==
  ASSUME NEW k \in 1..6, NEW l \in 1..6, k <= l
  PROVE  \E m \in Nat \ {0} : Unit[l] = Unit[k] * m
  <1> DEFINE G == {n \in 0..(6 - k) : \E m \in Nat \ {0} : Unit[k + n] = Unit[k] * m}
  <1>1. 0 \in G
    <2>1. Unit[k + 0] = Unit[k] * 1 /\ 1 \in Nat \ {0} /\ 0 \in 0..(6 - k)
      BY Units
    <2>2. QED
      BY <2>1
  <1>2. ASSUME NEW n \in 0..((6 - k) - 1), n \in G PROVE n + 1 \in G
    <2>1. PICK m \in Nat \ {0} : Unit[k + n] = Unit[k] * m
      BY <1>2
    <2>2. /\ k + n \in 1..5 /\ k + (n + 1) = (k + n) + 1 /\ n + 1 \in 0..(6 - k)
      OBVIOUS
    <2>3. Unit[k + (n + 1)] = (Unit[k] * m) * Size[k + n] /\ Size[k + n] \in Nat \ {0} /\ Unit[k] \in Nat
      BY <2>1, <2>2, Units
    <2> DEFINE s == Size[k + n]
               p == m * s
    <2>4. Unit[k + (n + 1)] = Unit[k] * p /\ p \in Nat \ {0}
      <3>1. s \in Nat \ {0}
        BY <2>3
      <3> HIDE DEF s
      <3>2. p \in Nat \ {0}
        BY <3>1, Product
      <3>3. (Unit[k] * m) * s = Unit[k] * p
        BY <2>3, <3>1
      <3>4. QED
        BY <2>3, <3>2, <3>3 DEF s
    <2> HIDE DEF p
    <2>5. QED
      BY <2>2, <2>4
  <1>3. l - k \in G
    <2>1. G \in SUBSET (0..(6 - k)) /\ 6 - k \in Nat /\ l - k \in 0..(6 - k)
      OBVIOUS
    <2> HIDE DEF G
    <2>2. G = 0..(6 - k)
      BY <1>1, <1>2, <2>1, Induct
    <2>3. QED
      BY <2>1, <2>2
  <1>4. k + (l - k) = l
    OBVIOUS
  <1>5. QED
    BY <1>3, <1>4

-----------------------------------------------------------------------------
(* How far the time a is after the time b, for the comparisons of          *)
(* jiffies.h: a signed word.                                               *)
Gap(a, b) == LET d == (a - b) % Word IN IF d < Half THEN d ELSE d - Word

(* It is the difference but for words that have wrapped around. *)
LEMMA GapType ==
  ASSUME NEW a \in Int, NEW b \in Int
  PROVE  Gap(a, b) \in (-Half)..(Half - 1) /\ \E q \in Int : a = b + Gap(a, b) + Word * q
  <1> DEFINE d == (a - b) % Word
             q == (a - b) \div Word
  <1>1. d \in 0..(Word - 1) /\ q \in Int /\ a - b = Word * q + d
    BY WordFacts, ModRange, a - b \in Int
  <1>2. Gap(a, b) = IF d < Half THEN d ELSE d - Word
    BY DEF Gap
  <1> HIDE DEF d, q
  <1>3. CASE d < Half
    BY <1>1, <1>2, <1>3, WordFacts
  <1>4. CASE ~(d < Half)
    <2>1. Gap(a, b) = d - Word /\ q + 1 \in Int
      BY <1>1, <1>2, <1>4
    <2>2. a = b + (d - Word) + Word * (q + 1)
      BY <1>1, WordFacts
    <2>3. d - Word \in (-Half)..(Half - 1)
      BY <1>1, <1>4, WordFacts
    <2>4. QED
      BY <2>1, <2>2, <2>3
  <1>5. QED
    BY <1>3, <1>4

(* A difference in the range of a signed word is it. *)
LEMMA GapIs ==
  ASSUME NEW a \in Int, NEW b \in Int, NEW z \in (-Half)..(Half - 1), NEW q \in Int,
         a = b + z + Word * q
  PROVE  Gap(a, b) = z
  <1>0. Word \in Nat \ {0} /\ Half \in Nat /\ Word = 2 * Half
    BY WordFacts
  <1>1. CASE z >= 0
    <2>1. a - b = Word * q + z /\ z \in 0..(Word - 1) /\ a - b \in Int
      BY <1>0, <1>1
    <2>2. (a - b) % Word = z
      BY <1>0, <2>1, ModUnique
    <2>3. z < Half
      BY <1>0
    <2>4. QED
      BY <2>2, <2>3 DEF Gap
  <1>2. CASE z < 0
    <2> DEFINE p == q - 1
               y == z + Word
    <2>1. a - b = Word * p + y /\ y \in 0..(Word - 1) /\ a - b \in Int /\ p \in Int
      BY <1>0, <1>2
    <2>2. (a - b) % Word = y
      <3> HIDE DEF p, y
      <3>1. QED
        BY <1>0, <2>1, ModUnique
    <2>3. z + Word >= Half /\ z + Word - Word = z
      BY <1>0
    <2>4. QED
      BY <1>0, <2>2, <2>3 DEF Gap
  <1>3. QED
    BY <1>0, <1>1, <1>2

(* Two times that are not half a word apart, seen from a third. *)
LEMMA GapDiff ==
  ASSUME NEW a \in Int, NEW b \in Int, NEW c \in Int,
         Gap(a, c) - Gap(b, c) \in (-Half)..(Half - 1)
  PROVE  Gap(a, b) = Gap(a, c) - Gap(b, c)
  <1> DEFINE x == Gap(a, c)
             y == Gap(b, c)
  <1>1. PICK p \in Int : a = c + x + Word * p
    BY GapType
  <1>2. PICK q \in Int : b = c + y + Word * q
    BY GapType
  <1>3. x \in Int /\ y \in Int /\ Word \in Int /\ x - y \in (-Half)..(Half - 1) /\ p - q \in Int
    BY GapType, WordFacts
  <1> HIDE DEF x, y
  <1>4. a = b + (x - y) + Word * (p - q)
    BY <1>1, <1>2, <1>3
  <1>5. Gap(a, b) = x - y
    BY <1>3, <1>4, GapIs
  <1>6. QED
    BY <1>5 DEF x, y

(* A time that was computed from another. *)
LEMMA GapSum ==
  ASSUME NEW c \in Int, NEW n \in (-Half)..(Half - 1)
  PROVE  Gap((c + n) % Word, c) = n /\ (c + n) % Word \in Words
  <1> DEFINE w == (c + n) % Word
             q == (c + n) \div Word
  <1>0. n \in Int /\ Word \in Int /\ c + n \in Int
    BY WordFacts
  <1>1. w \in 0..(Word - 1) /\ q \in Int /\ c + n = Word * q + w /\ n \in Int /\ Word \in Int
    BY <1>0, WordFacts, ModRange
  <1> HIDE DEF w, q
  <1>2. w = c + n + Word * (-q) /\ -q \in Int
    BY <1>1
  <1>3. Gap(w, c) = n
    BY <1>1, <1>2, GapIs
  <1>4. QED
    BY <1>1, <1>3 DEF w, Words

(* What the macros of jiffies.h compare. *)
LEMMA Compare ==
  ASSUME NEW a \in Int, NEW b \in Int
  PROVE  (time_before(a, b) <=> Gap(a, b) < 0) /\ (time_before_eq(a, b) <=> Gap(b, a) >= 0)
  <1>1. ASSUME NEW x \in Int, NEW y \in Int PROVE time_before(x, y) <=> Gap(x, y) < 0
    <2>1. (x - y) % Word \in 0..(Word - 1)
      BY WordFacts, ModRange, x - y \in Int
    <2>2. QED
      BY <2>1, WordFacts DEF time_before, Gap
  <1>2. Gap(b, a) \in Int
    BY GapType
  <1>3. QED
    BY <1>1, <1>2 DEF time_before_eq

-----------------------------------------------------------------------------
(* Two words that differ do so in a highest bit. *)
LEMMA LastBit ==
  ASSUME NEW a \in Words, NEW b \in Words, a # b
  PROVE  last_bit(a, b) \in 0..(Shift[6] - 1) /\ a \div BIT[last_bit(a, b)] # b \div BIT[last_bit(a, b)]
  <1> DEFINE W == Shift[6]
             S == {n \in 0..W : a \div BIT[n] = b \div BIT[n]}
  <1>0. W \in Nat /\ BIT[0] = 1 /\ BIT[W] = Word /\ Word \in Nat \ {0} /\ a \in 0..(Word - 1) /\ b \in 0..(Word - 1)
    BY ShiftType, BitRec, WordFacts, 6 \in 1..6 DEF Word, Unit, Words
  <1> HIDE DEF W
  <1>1. W \in S
    <2>1. a \div Word = 0 /\ b \div Word = 0
      BY <1>0, DivUnique, a = Word * 0 + a, b = Word * 0 + b
    <2>2. QED
      BY <1>0, <2>1
  <1>2. PICK k \in S : \A j \in S : k <= j
    BY <1>1, Least, S \in SUBSET Nat
  <1>3. k # 0
    <2>1. a \div 1 = a /\ b \div 1 = b
      BY <1>0
    <2>2. QED
      BY <1>0, <1>2, <2>1
  <1>4. k - 1 \in 0..(W - 1) /\ (k - 1) + 1 = k /\ k - 1 \notin S
    BY <1>0, <1>2, <1>3
  <1>5. a \div BIT[k - 1] # b \div BIT[k - 1] /\ a \div BIT[(k - 1) + 1] = b \div BIT[(k - 1) + 1]
    BY <1>0, <1>2, <1>4
  <1>6. \E i \in 0..(W - 1) : a \div BIT[i] # b \div BIT[i] /\ a \div BIT[i + 1] = b \div BIT[i + 1]
    BY <1>4, <1>5
  <1>7. QED
    BY <1>6 DEF last_bit, W

(* apply_slack() rounds the limit down to no less than the time asked for. *)
LEMMA SlackBetween ==
  ASSUME NEW e \in Words, NEW limit \in Words, limit # e
  PROVE  LET r == limit - (limit % BIT[last_bit(e, limit)])
         IN  r \in Words /\ r <= limit /\ (e < limit => e <= r)
  <1> DEFINE P == BIT[last_bit(e, limit)]
             r == limit - (limit % P)
             x == e \div P
             y == limit \div P
  <1>1. P \in Nat \ {0} /\ x # y
    <2>1. last_bit(e, limit) \in 0..Shift[6]
      BY LastBit, ShiftType
    <2>2. QED
      BY <2>1, LastBit, BitPositive
  <1>2. e \in Nat /\ limit \in Nat /\ limit \in 0..(Word - 1)
    BY WordFacts DEF Words
  <1> HIDE DEF P
  <1>3. /\ limit % P \in 0..(P - 1) /\ y \in Int /\ limit = P * y + (limit % P)
        /\ e % P \in 0..(P - 1) /\ x \in Int /\ e = P * x + (e % P)
    BY <1>1, <1>2, ModRange
  <1> HIDE DEF x, y
  <1>4. r = P * y /\ y >= 0
    BY <1>1, <1>2, <1>3
  <1>5. e < limit => x < y
    <2>1. SUFFICES ASSUME e < limit, x > y PROVE FALSE
      BY <1>1, <1>3
    <2>2. P * x >= P * (y + 1)
      BY <1>1, <1>3, <2>1
    <2>3. P * (y + 1) = P * y + P
      BY <1>1, <1>3
    <2>4. QED
      BY <1>1, <1>2, <1>3, <2>1, <2>2, <2>3
  <1>6. e < limit => e <= r
    <2>1. SUFFICES ASSUME x < y PROVE e <= r
      BY <1>5
    <2>2. P * y >= P * (x + 1)
      BY <1>1, <1>3, <2>1
    <2>3. P * (x + 1) = P * x + P
      BY <1>1, <1>3
    <2>4. QED
      BY <1>1, <1>2, <1>3, <1>4, <2>2, <2>3
  <1>7. r <= limit /\ r >= 0 /\ r \in Int
    BY <1>1, <1>2, <1>3, <1>4
  <1> HIDE DEF r
  <1>8. r \in Words
    BY <1>2, <1>7, WordFacts DEF Words
  <1>9. QED
    BY <1>6, <1>7, <1>8 DEF r, P

(* How far apart the times can be that the code compares. *)
Reach == MaxLate + MaxSleep + MaxLag

(* The constants of the callers. *)
LEMMA Callers ==
  /\ Offsets \subseteq Int /\ Slacks \subseteq {-1} \cup Nat /\ AutoSlack \in Nat \ {0}
  /\ MaxLag \in Nat \ {0} /\ MaxLag <= NEXT_TIMER_MAX_DELTA
  /\ MaxLate \in Nat /\ MaxSleep \in Nat /\ MaxSleep >= NEXT_TIMER_MAX_DELTA + 1
  /\ Reach \in Nat /\ Reach = MaxLate + MaxSleep + MaxLag /\ Reach < Half
  <1>1. /\ Offsets \subseteq Int /\ Slacks \subseteq {-1} \cup Nat /\ AutoSlack \in Nat \ {0}
        /\ MaxLag \in Nat \ {0} /\ MaxLag <= NEXT_TIMER_MAX_DELTA
        /\ MaxLate \in Nat /\ MaxSleep \in Nat /\ MaxSleep >= NEXT_TIMER_MAX_DELTA + 1
    BY TimerWheelAssumption, WordFacts
  <1>2. 0 + 0 + MaxLate + MaxSleep + MaxLag < Half
    BY OffsetsAssumption, 0 # -1, 0 \in Offsets \cup {0}, 0 \in Slacks \cup {0}
  <1>3. QED
    BY <1>1, <1>2, WordFacts DEF Reach

(* The limit is a word, and apply_slack() does not pass it. *)
LEMMA SlackApplied ==
  ASSUME NEW e \in Words, NEW s \in {-1} \cup Nat, NEW now \in Words
  PROVE  LET limit == expires_limit(e, s, now)
             r == apply_slack(e, s, now)
         IN  limit \in Words /\ r \in Words /\ (r - e) % Word <= (limit - e) % Word
  <1> DEFINE limit == expires_limit(e, s, now)
             r == apply_slack(e, s, now)
  <1> SUFFICES limit \in Words /\ r \in Words /\ (r - e) % Word <= (limit - e) % Word
    OBVIOUS
  <1>0. /\ e \in Nat /\ e < Word /\ now \in Nat /\ now < Word /\ Word \in Nat \ {0} /\ Words = 0..(Word - 1)
        /\ AutoSlack \in Nat \ {0}
    BY WordFacts, Callers DEF Words
  <1>1. limit \in Words
    <2>1. \A n \in Int : n % Word \in Words
      BY <1>0, ModRange
    <2>2. CASE s # -1
      <3>1. e + s \in Int /\ limit = (e + s) % Word
        BY <1>0, <2>2 DEF expires_limit
      <3>2. QED
        BY <2>1, <3>1
    <2>3. CASE s = -1 /\ time_before(now, e)
      <3>1. (e - now) % Word \in Nat
        BY <1>0, ModRange, e - now \in Int
      <3>2. e + ((e - now) % Word) \div AutoSlack \in Int
        BY <1>0, <3>1
      <3>3. limit = (e + ((e - now) % Word) \div AutoSlack) % Word
        BY <2>3 DEF expires_limit
      <3>4. QED
        BY <2>1, <3>2, <3>3
    <2>4. CASE s = -1 /\ ~time_before(now, e)
      BY <2>4 DEF expires_limit
    <2>5. QED
      BY <2>2, <2>3, <2>4
  <1>2. r = IF limit = e THEN e ELSE limit - (limit % BIT[last_bit(e, limit)])
    BY DEF apply_slack
  <1> HIDE DEF limit, r
  <1>3. CASE limit = e
    <2>1. r = e /\ (e - e) % Word \in Int
      BY <1>0, <1>2, <1>3, ModRange, e - e \in Int
    <2>2. QED
      BY <1>1, <1>3, <2>1
  <1>4. CASE limit # e
    <2>1. r \in Words /\ r <= limit /\ (e < limit => e <= r) /\ r \in Nat /\ limit \in Nat /\ limit < Word
      BY <1>0, <1>1, <1>2, <1>4, SlackBetween
    <2>2. CASE e < limit
      <3>1. (r - e) % Word = r - e /\ (limit - e) % Word = limit - e
        BY <1>0, <2>1, <2>2, ModSmall, r - e \in 0..(Word - 1), limit - e \in 0..(Word - 1)
      <3>2. QED
        BY <1>0, <1>1, <2>1, <3>1
    <2>3. CASE limit < e
      <3>1. (r - e) % Word = (r - e) + Word
        <4> DEFINE y == (r - e) + Word
        <4>1. y \in 0..(Word - 1) /\ r - e = Word * (-1) + y /\ r - e \in Int /\ -1 \in Int
          BY <1>0, <2>1, <2>3
        <4> HIDE DEF y
        <4>2. (r - e) % Word = y
          BY <1>0, <4>1, ModUnique
        <4>3. QED
          BY <4>2 DEF y
      <3>2. (limit - e) % Word = (limit - e) + Word
        <4> DEFINE y == (limit - e) + Word
        <4>1. y \in 0..(Word - 1) /\ limit - e = Word * (-1) + y /\ limit - e \in Int /\ -1 \in Int
          BY <1>0, <2>1, <2>3
        <4> HIDE DEF y
        <4>2. (limit - e) % Word = y
          BY <1>0, <4>1, ModUnique
        <4>3. QED
          BY <4>2 DEF y
      <3>3. QED
        BY <1>0, <1>1, <2>1, <3>1, <3>2
    <2>4. QED
      BY <1>0, <1>4, <2>1, <2>2, <2>3
  <1>5. QED
    BY <1>3, <1>4 DEF limit, r

(* How far the limit is from the time asked for. *)
LEMMA LimitNear ==
  ASSUME NEW now \in Words, NEW o \in Offsets, NEW s \in Slacks
  PROVE  LET e == (now + o) % Word
         IN  /\ e \in Words
             /\ \E y \in Nat : /\ (expires_limit(e, s, now) - e) % Word <= y
                               /\ o + y <= Half - Reach - 1
  <1> DEFINE e == (now + o) % Word
             A == AutoSlack
             B == Half - Reach - 1
             limit == expires_limit(e, s, now)
  <1> SUFFICES e \in Words /\ \E y \in Nat : (limit - e) % Word <= y /\ o + y <= B
    OBVIOUS
  <1>0. /\ o \in Int /\ now \in Nat /\ Word \in Nat \ {0} /\ now < Word /\ A \in Nat \ {0}
        /\ Word = 2 * Half /\ Half \in Nat /\ MaxLate \in Nat /\ MaxSleep \in Nat /\ MaxLag \in Nat
        /\ Reach = MaxLate + MaxSleep + MaxLag /\ Reach < Half /\ B \in Nat
    BY WordFacts, Callers DEF Words
  <1>1. e \in Words /\ e \in Int
    BY <1>0, ModRange, now + o \in Int DEF Words
  <1>e. \A n \in (-Half)..(Half - 1) : n = o => Gap(e, now) = n
    BY <1>0, GapSum
  <1> HIDE DEF e
  <1>2. -MaxLate <= o /\ o + (IF s = -1 THEN o \div A ELSE s) + MaxLate + MaxSleep + MaxLag < Half
    BY OffsetsAssumption
  <1>3. CASE s # -1
    <2>1. s \in Nat /\ limit = (e + s) % Word
      BY <1>3, Callers DEF expires_limit
    <2>2. (limit - e) % Word = s % Word
      <3>1. (((e + s) % Word) + (-e)) % Word = ((e + s) + (-e)) % Word
        <4>1. e + s \in Int /\ -e \in Int
          BY <1>1, <2>1
        <4>2. QED
          BY <1>0, <4>1, ModAdd
      <3>2. (e + s) % Word \in Int
        BY <1>0, <1>1, <2>1, ModRange
      <3>3. ((e + s) % Word) + (-e) = ((e + s) % Word) - e /\ (e + s) + (-e) = s
        BY <1>1, <2>1, <3>2
      <3>4. QED
        BY <2>1, <3>1, <3>3
    <2>3. s % Word <= s
      BY <1>0, <2>1
    <2>4. o + s <= B
      BY <1>0, <1>2, <1>3, <2>1
    <2>5. QED
      BY <1>1, <2>1, <2>2, <2>3, <2>4
  <1>4. CASE s = -1 /\ o > 0
    <2>1. o \div A \in Nat /\ o + (o \div A) <= B
      BY <1>0, <1>2, <1>4
    <2>2. o < Half /\ -o \in (-Half)..(Half - 1) /\ o \in (-Half)..(Half - 1)
      BY <1>0, <1>4, <2>1
    <2>3. Gap(e, now) = o
      BY <2>2, <1>e
    <2>4. PICK q \in Int : e = now + o + Word * q
      <3>1. now \in Int
        BY <1>0
      <3>2. PICK q \in Int : e = now + Gap(e, now) + Word * q
        BY <1>1, <3>1, GapType
      <3>3. QED
        BY <2>3, <3>2
    <2>5. Gap(now, e) = -o
      <3> DEFINE y == -o
                 r == -q
      <3>1. now = e + y + Word * r /\ r \in Int /\ y \in (-Half)..(Half - 1) /\ now \in Int
        BY <1>0, <1>1, <2>2, <2>4
      <3> HIDE DEF y, r
      <3>2. Gap(now, e) = y
        BY <1>1, <3>1, GapIs
      <3>3. QED
        BY <3>2 DEF y
    <2>6. time_before(now, e)
      BY <1>0, <1>1, <1>4, <2>5, Compare
    <2>7. (e - now) % Word = o
      <3>1. e - now = Word * q + o /\ o \in 0..(Word - 1) /\ e - now \in Int
        BY <1>0, <1>1, <1>4, <2>2, <2>4
      <3>2. QED
        BY <1>0, <3>1, ModUnique
    <2>8. limit = (e + (o \div A)) % Word
      BY <1>4, <2>6, <2>7 DEF expires_limit
    <2>9. (limit - e) % Word <= o \div A
      <3> DEFINE y == o \div A
      <3>0. y \in Nat
        BY <2>1
      <3> HIDE DEF y
      <3>1. (((e + y) % Word) + (-e)) % Word = ((e + y) + (-e)) % Word
        <4>1. e + y \in Int /\ -e \in Int
          BY <1>1, <3>0
        <4>2. QED
          BY <1>0, <4>1, ModAdd
      <3>2. (e + y) % Word \in Int
        BY <1>0, <1>1, <3>0, ModRange
      <3>3. ((e + y) % Word) + (-e) = ((e + y) % Word) - e /\ (e + y) + (-e) = y
        BY <1>1, <3>0, <3>2
      <3>4. y % Word <= y
        BY <1>0, <3>0
      <3>5. QED
        BY <2>8, <3>1, <3>3, <3>4 DEF y
    <2>10. QED
      BY <1>1, <2>1, <2>9
  <1>5. CASE s = -1 /\ o <= 0
    <2>1. -o \in (-Half)..(Half - 1) /\ o \in (-Half)..(Half - 1)
      BY <1>0, <1>2, <1>5
    <2>2. Gap(e, now) = o
      BY <2>1, <1>e
    <2>3. PICK q \in Int : e = now + o + Word * q
      <3>1. now \in Int
        BY <1>0
      <3>2. PICK q \in Int : e = now + Gap(e, now) + Word * q
        BY <1>1, <3>1, GapType
      <3>3. QED
        BY <2>2, <3>2
    <2>4. Gap(now, e) = -o
      <3> DEFINE y == -o
                 r == -q
      <3>1. now = e + y + Word * r /\ r \in Int /\ y \in (-Half)..(Half - 1) /\ now \in Int
        BY <1>0, <1>1, <2>1, <2>3
      <3> HIDE DEF y, r
      <3>2. Gap(now, e) = y
        BY <1>1, <3>1, GapIs
      <3>3. QED
        BY <3>2 DEF y
    <2>5. ~time_before(now, e)
      BY <1>0, <1>1, <1>5, <2>4, Compare
    <2>6. limit = e
      BY <1>5, <2>5 DEF expires_limit
    <2>7. (limit - e) % Word <= 0
      <3>1. limit - e = 0 /\ 0 \in 0..(Word - 1)
        BY <1>0, <1>1, <2>6
      <3>2. QED
        BY <1>0, <3>1, ModSmall
    <2>8. o + 0 <= B
      BY <1>0, <1>5
    <2>9. QED
      BY <1>1, <2>7, <2>8
  <1>6. QED
    BY <1>0, <1>3, <1>4, <1>5

(* A caller's timer expires at o + x jiffies from now, within the bounds.  *)
LEMMA Armed ==
  ASSUME NEW now \in Words, NEW o \in Offsets, NEW e,
         \/ e = (now + o) % Word
         \/ \E s \in Slacks : e = apply_slack((now + o) % Word, s, now)
  PROVE  \E y \in Int : /\ e = (now + y) % Word /\ -MaxLate <= y
                        /\ y <= Half - Reach - 1
  <1> DEFINE f == (now + o) % Word
             B == Half - Reach - 1
  <1>0. /\ o \in Int /\ now \in Nat /\ Word \in Nat \ {0} /\ Half \in Nat /\ MaxLate \in Nat
        /\ -MaxLate <= o /\ o <= B /\ f \in Words /\ f \in 0..(Word - 1)
    <2>1. o \in Int /\ now \in Nat /\ Word \in Nat \ {0} /\ Half \in Nat /\ MaxLate \in Nat
      BY WordFacts, Callers DEF Words
    <2>2. -MaxLate <= o /\ o <= B
      <3>1. -MaxLate <= o /\ o + 0 + MaxLate + MaxSleep + MaxLag < Half
        BY OffsetsAssumption, 0 # -1
      <3>2. QED
        BY <2>1, <3>1, Callers
    <2>3. f \in Words /\ f \in 0..(Word - 1)
      BY <2>1, ModRange, now + o \in Int DEF Words
    <2>4. QED
      BY <2>1, <2>2, <2>3
  <1>1. CASE e = f
    BY <1>0, <1>1
  <1>2. ASSUME NEW s \in Slacks, e = apply_slack(f, s, now)
        PROVE  \E y \in Int : e = (now + y) % Word /\ -MaxLate <= y /\ y <= B
    <2>0. \A n \in Int : (f + n) % Word = ((now + o) + n) % Word
      <3>1. now + o \in Int
        BY <1>0
      <3>2. QED
        BY <1>0, <3>1, ModAdd
    <2> DEFINE x == (e - f) % Word
    <2>1. PICK b \in Nat : (expires_limit(f, s, now) - f) % Word <= b /\ o + b <= B
      BY LimitNear
    <2>2. e \in Words /\ x <= (expires_limit(f, s, now) - f) % Word /\ expires_limit(f, s, now) \in Words
      BY <1>0, <1>2, SlackApplied, Callers
    <2> HIDE DEF f
    <2>3. e \in 0..(Word - 1) /\ expires_limit(f, s, now) \in Int
      BY <1>0, <2>2 DEF Words
    <2>4. x \in 0..(Word - 1) /\ (expires_limit(f, s, now) - f) % Word \in Int
      <3> DEFINE u == e - f
                 v == expires_limit(f, s, now) - f
      <3>1. u \in Int /\ v \in Int
        BY <1>0, <2>3
      <3> HIDE DEF u, v
      <3>2. u % Word \in 0..(Word - 1) /\ v % Word \in Int
        BY <1>0, <3>1, ModRange
      <3>3. QED
        BY <3>2 DEF u, v
    <2>5. (x + f) % Word = e
      <3>1. (x + f) % Word = ((e - f) + f) % Word
        <4>1. e - f \in Int /\ f \in Int
          BY <1>0, <2>3
        <4>2. QED
          BY <1>0, <4>1, ModAdd
      <3>2. (e - f) + f = e /\ e % Word = e
        BY <1>0, <2>3, ModSmall
      <3>3. QED
        BY <3>1, <3>2
    <2> HIDE DEF x
    <2>6. (f + x) % Word = ((now + o) + x) % Word
      BY <2>0, <2>4
    <2>7. e = (now + (o + x)) % Word
      <3>1. x + f = f + x /\ (now + o) + x = now + (o + x)
        BY <1>0, <2>4
      <3>2. QED
        BY <2>5, <2>6, <3>1
    <2>8. o + x \in Int /\ -MaxLate <= o + x /\ o + x <= B
      <3> DEFINE c == (expires_limit(f, s, now) - f) % Word
      <3>1. x \in Nat /\ c \in Int /\ x <= c /\ c <= b /\ o + b <= B /\ B \in Int
        BY <1>0, <2>1, <2>2, <2>4, Callers
      <3> HIDE DEF B, c
      <3>2. QED
        BY <1>0, <3>1
    <2>9. QED
      BY <2>7, <2>8
  <1>3. QED
    BY <1>1, <1>2

(* apply_slack() keeps its promise at every moment. *)
LEMMA SlackAlways ==
  ASSUME jiffies \in Words
  PROVE  SlackInRange
  <1> SUFFICES ASSUME NEW o \in Offsets, NEW s \in Slacks
               PROVE  LET e == (jiffies + o) % Word IN
                        (apply_slack(e, s, jiffies) - e) % Word <= (expires_limit(e, s, jiffies) - e) % Word
    BY DEF SlackInRange
  <1>1. (jiffies + o) % Word \in Words
    BY WordFacts, Callers, ModRange, jiffies + o \in Int DEF Words
  <1>2. QED
    BY <1>1, SlackApplied, Callers

-----------------------------------------------------------------------------
(* Where a timer that expires at e can be when the base is at tj: late     *)
(* ones in the slot that comes up, the others in a slot that comes up, for *)
(* the first time from now, when less than one slot is left to e.          *)
FiledAt(p, e, tj) ==
  IF Gap(e, tj) < 0 THEN p = <<1, tj % Size[1]>>
  ELSE \E l \in Levels : /\ p = <<l, INDEX(l, e)>>
                         /\ Gap(e, tj) - (e % Unit[l]) \in 0..(Unit[l + 1] - 1)

(* The slots of a vector. *)
LEMMA IndexType ==
  ASSUME NEW l \in Levels, NEW j \in Words
  PROVE  /\ INDEX(l, j) \in 0..(Size[l] - 1) /\ <<l, INDEX(l, j)>> \in Slots
         /\ INDEX(1, j) = j % Size[1] /\ <<1, j % Size[1]>> \in Slots
  <1>0. Unit[1] = 1 /\ \A k \in Levels : Size[k] \in Nat \ {0} /\ Unit[k] \in Nat \ {0}
    BY Units DEF Levels
  <1>1. j \in Int /\ 1 \in Levels
    BY WordFacts DEF Words, Levels
  <1>2. ASSUME NEW k \in Levels PROVE INDEX(k, j) \in 0..(Size[k] - 1)
    <2>1. j \div Unit[k] \in Int
      BY <1>0, <1>1, ModRange
    <2>2. QED
      BY <1>0, <2>1, ModRange DEF INDEX
  <1>3. ASSUME NEW k \in Levels, NEW i \in 0..(Size[k] - 1) PROVE <<k, i>> \in Slots
    BY DEF Slots
  <1>4. INDEX(1, j) = j % Size[1]
    BY <1>0, <1>1 DEF INDEX
  <1>5. QED
    BY <1>1, <1>2, <1>3, <1>4

(* internal_add_timer() files a timer, and not in a slot of a higher       *)
(* vector that comes up now.                                               *)
LEMMA AddFiles ==
  ASSUME NEW e \in Words, NEW tj \in Words
  PROVE  LET p == internal_add_timer(e, tj)
         IN  /\ p \in Slots
             /\ Gap(e, tj) < 0 => p = <<1, tj % Size[1]>>
             /\ Gap(e, tj) >= 0 => \E l \in Levels :
                  /\ p = <<l, INDEX(l, e)>>
                  /\ Gap(e, tj) - (e % Unit[l]) \in 0..(Unit[l + 1] - 1)
                  /\ l = 1 \/ Gap(e, tj) > e % Unit[l]
  <1> DEFINE p == internal_add_timer(e, tj)
             d == (e - tj) % Word
             L == {5} \cup {k \in 1..4 : d < Unit[k + 1]}
             l == Min(L)
             z == Gap(e, tj)
  <1> SUFFICES /\ p \in Slots
               /\ z < 0 => p = <<1, tj % Size[1]>>
               /\ z >= 0 => \E k \in Levels :
                    /\ p = <<k, INDEX(k, e)>>
                    /\ z - (e % Unit[k]) \in 0..(Unit[k + 1] - 1)
                    /\ k = 1 \/ z > e % Unit[k]
    OBVIOUS
  <1>0. e \in Int /\ tj \in Int /\ e \in Nat /\ Word \in Nat \ {0} /\ Half \in Nat /\ Word = 2 * Half
    BY WordFacts DEF Words
  <1>1. d \in 0..(Word - 1)
    BY <1>0, ModRange, e - tj \in Int
  <1>2. z = IF d < Half THEN d ELSE d - Word
    BY DEF Gap
  <1>3. p = IF d >= Half THEN <<1, tj % Size[1]>> ELSE <<l, INDEX(l, e)>>
    BY DEF internal_add_timer, INDEX
  <1>4. l \in L /\ \A k \in L : l <= k
    <2>1. PICK k \in L : \A i \in L : k <= i
      BY Least, L \in SUBSET Nat
    <2> HIDE DEF L
    <2>2. QED
      BY <2>1 DEF Min
  <1>5. l \in 1..5 /\ (l # 5 => d < Unit[l + 1]) /\ \A k \in 1..4 : k < l => ~(d < Unit[k + 1])
    <2> HIDE DEF l, d
    <2>1. l \in 1..5 /\ (l # 5 => d < Unit[l + 1])
      BY <1>4
    <2>2. \A k \in 1..4 : d < Unit[k + 1] => l <= k
      BY <1>4
    <2>3. QED
      BY <2>1, <2>2
  <1> HIDE DEF p, d, L, l, z
  <1>6. /\ Unit[l] \in Nat \ {0} /\ Unit[l + 1] \in Nat /\ Unit[1] = 1 /\ Unit[6] = Word
        /\ (l # 1 => l - 1 \in 1..4 /\ (l - 1) + 1 = l)
    BY <1>5, Units, l + 1 \in 1..6 DEF Word
  <1>7. e % Unit[l] \in 0..(Unit[l] - 1)
    BY <1>0, <1>6, ModRange
  <1>8. CASE d >= Half
    <2>1. z < 0 /\ p = <<1, tj % Size[1]>>
      BY <1>0, <1>1, <1>2, <1>3, <1>8
    <2>2. p \in Slots
      <3>1. 1 \in Levels
        BY DEF Levels
      <3>2. QED
        BY <2>1, <3>1, IndexType
    <2>3. ~(z >= 0)
      BY <1>0, <1>1, <1>2, <1>8
    <2>4. QED
      BY <2>1, <2>2, <2>3
  <1>9. CASE ~(d >= Half)
    <2>1. z = d /\ z >= 0 /\ p = <<l, INDEX(l, e)>> /\ l \in Levels
      BY <1>0, <1>1, <1>2, <1>3, <1>5, <1>9 DEF Levels
    <2>2. d < Unit[l + 1]
      <3>1. CASE l = 5
        BY <1>0, <1>1, <1>6, <3>1
      <3>2. QED
        BY <1>5, <3>1
    <2>3. l # 1 => d >= Unit[l]
      BY <1>1, <1>5, <1>6
    <2>4. l = 1 => e % Unit[l] = 0
      BY <1>6, <1>7
    <2>5. z - (e % Unit[l]) \in 0..(Unit[l + 1] - 1) /\ (l = 1 \/ z > e % Unit[l])
      BY <1>1, <1>6, <1>7, <2>1, <2>2, <2>3, <2>4
    <2>6. p \in Slots /\ ~(z < 0)
      <3>1. <<l, INDEX(l, e)>> \in Slots
        BY <2>1, IndexType
      <3>2. ~(z < 0)
        BY <1>1, <2>1
      <3>3. QED
        BY <2>1, <3>1, <3>2
    <2>7. QED
      BY <2>1, <2>5, <2>6
  <1>10. QED
    BY <1>8, <1>9

(* When a slot comes up, it does in all the vectors below too. *)
LEMMA Aligned ==
  ASSUME NEW e \in Words, NEW j \in Words, NEW l \in Levels, Gap(e, j) = e % Unit[l]
  PROVE  INDEX(l, e) = INDEX(l, j) /\ \A i \in 1..(l - 1) : INDEX(i, j) = 0
  <1> DEFINE U == Unit[l]
             k == e \div U
             r == e % U
  <1>0. /\ e \in Nat /\ j \in Nat /\ e < Word /\ j < Word /\ Word \in Nat \ {0} /\ U \in Nat \ {0} /\ l \in 1..5
    BY WordFacts, Units DEF Words, Levels
  <1>1. r \in 0..(U - 1) /\ k \in Int /\ e = U * k + r
    <2> HIDE DEF U
    <2>1. QED
      BY <1>0, ModRange
  <1>2. PICK q \in Int : e = j + r + Word * q
    <2>1. PICK q \in Int : e = j + Gap(e, j) + Word * q
      BY <1>0, GapType, e \in Int, j \in Int
    <2>2. QED
      BY <2>1
  <1> HIDE DEF U, k, r
  <1>3. k >= 0
    BY <1>0, <1>1
  <1>4. U * k >= 0 /\ U * k < Word
    BY <1>0, <1>1, <1>3
  <1>5. q = 0
    <2>1. U * k = j + Word * q
      BY <1>0, <1>1, <1>2
    <2>2. q >= 1 => Word * q >= Word
      BY <1>0
    <2>3. q <= -1 => Word * q <= -Word
      BY <1>0
    <2>4. QED
      BY <1>0, <1>4, <2>1, <2>2, <2>3
  <1>6. j = U * k
    BY <1>0, <1>1, <1>2, <1>5
  <1>7. j \div U = k
    BY <1>0, <1>1, <1>6, DivUnique, j = U * k + 0, 0 \in 0..(U - 1)
  <1>8. INDEX(l, e) = INDEX(l, j)
    BY <1>7 DEF INDEX, U, k
  <1>9. ASSUME NEW i \in 1..(l - 1) PROVE INDEX(i, j) = 0
    <2> DEFINE V == Unit[i]
               s == Size[i]
    <2>1. i \in 1..5 /\ i + 1 \in 1..6 /\ i + 1 <= l /\ l \in 1..6
      BY <1>0
    <2>2. V \in Nat \ {0} /\ s \in Nat \ {0} /\ Unit[i + 1] = V * s
      BY <2>1, Units
    <2>3. PICK m \in Nat \ {0} : U = (V * s) * m
      BY <2>1, <2>2, UnitDivides DEF U
    <2> HIDE DEF V, s
    <2>4. m * k \in Int /\ s * (m * k) \in Int
      BY <1>1, <2>2
    <2>5. j = V * (s * (m * k)) + 0
      BY <1>1, <1>6, <2>2, <2>3
    <2>6. j \div V = s * (m * k)
      BY <1>0, <2>2, <2>4, <2>5, DivUnique, 0 \in 0..(V - 1)
    <2>7. (s * (m * k)) % s = 0
      BY <2>2, <2>4, ModUnique, s * (m * k) = s * (m * k) + 0, 0 \in 0..(s - 1)
    <2>8. QED
      BY <2>6, <2>7 DEF INDEX, V, s
  <1>10. QED
    BY <1>8, <1>9

(* A slot of tv1 that comes up has no timers of the next round. *)
LEMMA OneRound ==
  ASSUME NEW e \in Words, NEW j \in Words, Gap(e, j) \in 0..(Size[1] - 1), INDEX(1, e) = INDEX(1, j)
  PROVE  Gap(e, j) = 0
  <1> DEFINE z == Gap(e, j)
             S == Size[1]
             a == j \div S
             b == e \div S
  <1>0. e \in Int /\ j \in Int /\ S \in Nat \ {0} /\ 1 \in Levels
    BY WordFacts, Units DEF Words, Levels
  <1>1. PICK q \in Int : e = j + z + Word * q
    BY <1>0, GapType
  <1>2. PICK m \in Nat \ {0} : Word = S * m
    <2>1. Unit[2] = S
      BY Units, 1 \in 1..5
    <2>2. QED
      BY <2>1, UnitDivides, 2 \in 1..6, 6 \in 1..6 DEF Word
  <1>3. e % S = j % S
    BY <1>0, IndexType
  <1>4. /\ j = S * a + (j % S) /\ a \in Int /\ e = S * b + (e % S) /\ b \in Int /\ j % S \in Int
    <2> HIDE DEF S
    <2>1. QED
      BY <1>0, ModRange
  <1>5. z \in 0..(S - 1)
    OBVIOUS
  <1> HIDE DEF z, S, a, b
  <1> DEFINE n == b - a - m * q
  <1>6. n \in Int /\ z = S * n
    <2>1. m * q \in Int
      OBVIOUS
    <2>2. S * b = S * a + z + (S * m) * q
      BY <1>0, <1>1, <1>2, <1>3, <1>4, <1>5
    <2>3. S * (b - a - m * q) = S * b - S * a - (S * m) * q
      BY <1>0, <1>4, <2>1
    <2>4. QED
      BY <1>0, <1>4, <1>5, <2>1, <2>2, <2>3
  <1> HIDE DEF n
  <1>7. n = 0
    <2>1. n >= 1 => S * n >= S
      BY <1>0, <1>6
    <2>2. n <= -1 => S * n <= -S
      BY <1>0, <1>6
    <2>3. QED
      BY <1>0, <1>5, <1>6, <2>1, <2>2
  <1>8. QED
    BY <1>0, <1>6, <1>7 DEF z

(* The base goes on to the next jiffy. *)
LEMMA NextJiffy ==
  ASSUME NEW e \in Words, NEW j \in Words, Gap(e, j) > -Half
  PROVE  (j + 1) % Word \in Words /\ Gap(e, (j + 1) % Word) = Gap(e, j) - 1
  <1> DEFINE k == (j + 1) % Word
             z == Gap(e, j)
  <1>0. e \in Int /\ j \in Int /\ j + 1 \in Int /\ Half \in Nat /\ Word \in Nat \ {0}
    BY WordFacts DEF Words
  <1>1. z \in (-Half)..(Half - 1)
    BY <1>0, GapType
  <1>2. PICK q \in Int : e = j + z + Word * q
    BY <1>0, GapType
  <1>3. k \in 0..(Word - 1) /\ \E p \in Int : j + 1 = Word * p + k
    BY <1>0, ModRange
  <1> HIDE DEF k, z
  <1>4. PICK p \in Int : j + 1 = Word * p + k
    BY <1>3
  <1>5. e = k + (z - 1) + Word * (q + p) /\ q + p \in Int /\ k \in Int
    BY <1>0, <1>1, <1>2, <1>3, <1>4
  <1>6. z - 1 \in (-Half)..(Half - 1)
    BY <1>0, <1>1 DEF z
  <1>7. Gap(e, k) = z - 1
    BY <1>0, <1>5, <1>6, GapIs
  <1>8. QED
    BY <1>3, <1>7 DEF k, z, Words

(* One turn of __run_timers(): of the timers in the wheel, exactly those   *)
(* that are due are run, and the others are filed for the next jiffy.      *)
LEMMA Turn ==
  ASSUME NEW e \in Words, NEW j \in Words, NEW p \in Slots, FiledAt(p, e, j), Gap(e, j) > -Half
  PROVE  LET c == IF p \in cascade(j) THEN internal_add_timer(e, j) ELSE p
         IN  /\ c \in Slots
             /\ c = <<1, INDEX(1, j)>> <=> Gap(e, j) <= 0
             /\ Gap(e, j) > 0 => FiledAt(c, e, (j + 1) % Word)
  <1> DEFINE c == IF p \in cascade(j) THEN internal_add_timer(e, j) ELSE p
             z == Gap(e, j)
  <1> SUFFICES /\ c \in Slots
               /\ c = <<1, INDEX(1, j)>> <=> z <= 0
               /\ z > 0 => FiledAt(c, e, (j + 1) % Word)
    OBVIOUS
  <1>0. /\ e \in Int /\ j \in Int /\ e \in Nat /\ z \in Int /\ 1 \in Levels
    BY WordFacts, GapType DEF Words, Levels
  <1>1. c \in Slots
    BY AddFiles
  <1>2. INDEX(1, j) = j % Size[1]
    BY <1>0, IndexType
  <1>3. CASE z < 0
    <2>1. p = <<1, j % Size[1]>>
      BY <1>3 DEF FiledAt
    <2>2. p \notin cascade(j)
      BY <2>1 DEF cascade
    <2>3. QED
      BY <1>0, <1>1, <1>2, <1>3, <2>1, <2>2
  <1>4. CASE z >= 0
    <2>1. PICK l \in Levels : /\ c = <<l, INDEX(l, e)>> /\ z - (e % Unit[l]) \in 0..(Unit[l + 1] - 1)
                              /\ l = 1 \/ z > e % Unit[l]
      <3>1. CASE p \in cascade(j)
        BY <1>0, <1>4, <3>1, AddFiles
      <3>2. CASE p \notin cascade(j)
        <4>1. PICK l \in Levels : p = <<l, INDEX(l, e)>> /\ z - (e % Unit[l]) \in 0..(Unit[l + 1] - 1)
          BY <1>0, <1>4 DEF FiledAt
        <4>2. ASSUME l # 1, z = e % Unit[l] PROVE FALSE
          <5>1. INDEX(l, e) = INDEX(l, j) /\ \A i \in 1..(l - 1) : INDEX(i, j) = 0
            BY <4>2, Aligned
          <5>2. l \in 2..5
            BY <4>2 DEF Levels
          <5>3. p \in cascade(j)
            BY <4>1, <5>1, <5>2 DEF cascade
          <5>4. QED
            BY <3>2, <5>3
        <4>3. e % Unit[l] \in Int
          <5>1. Unit[l] \in Nat \ {0}
            BY Units DEF Levels
          <5>2. QED
            BY <1>0, <5>1, ModRange
        <4>4. l = 1 \/ z > e % Unit[l]
          BY <1>0, <4>1, <4>2, <4>3
        <4>5. QED
          BY <3>2, <4>1, <4>4
      <3>3. QED
        BY <3>1, <3>2
    <2> HIDE DEF c
    <2>2. /\ Unit[l] \in Nat \ {0} /\ Unit[l + 1] \in Nat /\ Unit[1] = 1 /\ Unit[2] = Size[1] /\ Size[1] \in Nat
          /\ e % Unit[l] \in Nat /\ (l = 1 => e % Unit[l] = 0)
      <3>1. Unit[l] \in Nat \ {0} /\ Unit[l + 1] \in Nat
        BY Units, l + 1 \in 1..6, l \in 1..6 DEF Levels
      <3>2. Unit[1] = 1 /\ Unit[2] = Size[1] /\ Size[1] \in Nat
        BY Units, 1 \in 1..5
      <3>3. e % Unit[l] \in 0..(Unit[l] - 1)
        BY <1>0, <3>1, ModRange
      <3>4. QED
        BY <3>1, <3>2, <3>3
    <2>3. CASE z = 0
      <3>1. l = 1
        <4>1. e % Unit[l] >= 0
          BY <2>2
        <4>2. QED
          BY <2>1, <2>2, <2>3, <4>1
      <3>2. INDEX(1, e) = INDEX(1, j)
        <4>1. Gap(e, j) = e % Unit[1]
          BY <2>2, <2>3, <3>1
        <4>2. QED
          BY <1>0, <4>1, Aligned
      <3>3. QED
        BY <1>1, <2>1, <2>3, <3>1, <3>2
    <2>4. CASE z > 0
      <3>1. c # <<1, INDEX(1, j)>>
        <4>1. SUFFICES ASSUME l = 1, INDEX(1, e) = INDEX(1, j) PROVE FALSE
          BY <2>1
        <4>2. z \in 0..(Size[1] - 1)
          BY <1>0, <2>1, <2>2, <2>4, <4>1
        <4>3. QED
          BY <2>4, <4>1, <4>2, OneRound
      <3>2. Gap(e, (j + 1) % Word) = z - 1
        BY NextJiffy
      <3>3. (z - 1) - (e % Unit[l]) \in 0..(Unit[l + 1] - 1) /\ ~(z - 1 < 0)
        BY <1>0, <2>1, <2>2, <2>4
      <3>4. FiledAt(c, e, (j + 1) % Word)
        BY <2>1, <3>2, <3>3 DEF FiledAt
      <3>5. QED
        BY <1>0, <1>1, <2>4, <3>1, <3>4
    <2>5. QED
      BY <1>0, <1>4, <2>3, <2>4
  <1>5. QED
    BY <1>0, <1>3, <1>4

-----------------------------------------------------------------------------
(* The jiffies until a slot of vector l comes up. *)
Ahead(l) == (-timer_jiffies) % Unit[l]

(* RoundUp() finds the first multiple of size from n on, but for words     *)
(* that wrap around.                                                       *)
LEMMA RoundUpIs ==
  ASSUME NEW n \in Nat, NEW s \in Nat \ {0}, NEW m \in Nat \ {0}, Word = s * m
  PROVE  RoundUp(n, s) \in Nat /\ \E p \in Int : s * RoundUp(n, s) = n + ((-n) % s) + Word * p
  <1> DEFINE k == n \div s
             r == n % s
             h == (-n) % s
  <1> SUFFICES RoundUp(n, s) \in Nat /\ \E p \in Int : s * RoundUp(n, s) = n + h + Word * p
    OBVIOUS
  <1>0. Word \in Nat \ {0}
    BY WordFacts
  <1>1. r \in 0..(s - 1) /\ k \in Int /\ n = s * k + r
    BY ModRange
  <1>2. RoundUp(n, s) = (IF r = 0 THEN n ELSE (n + s - r) % Word) \div s
    BY DEF RoundUp
  <1> HIDE DEF k, r
  <1>3. CASE r = 0
    <2>1. h = 0
      <3>1. -n = s * (-k) + 0 /\ -k \in Int /\ -n \in Int /\ 0 \in 0..(s - 1)
        BY <1>1, <1>3
      <3>2. QED
        BY <3>1, ModUnique
    <2>2. RoundUp(n, s) = k
      <3>1. n = s * k + 0 /\ 0 \in 0..(s - 1) /\ n \in Int
        BY <1>1, <1>3
      <3>2. n \div s = k
        BY <1>1, <3>1, DivUnique
      <3>3. QED
        BY <1>2, <1>3, <3>2
    <2>3. k >= 0
      BY <1>1
    <2> HIDE DEF h
    <2>4. s * k = n + h + Word * 0
      BY <1>0, <1>1, <1>3, <2>1
    <2>5. \E p \in Int : s * RoundUp(n, s) = n + h + Word * p
      <3>1. WITNESS 0 \in Int
      <3>2. QED
        BY <2>2, <2>4
    <2>6. k \in Nat
      BY <1>1, <2>3
    <2>7. QED
      BY <2>2, <2>5, <2>6
  <1>4. CASE r # 0
    <2> DEFINE x == n + s - r
               w == x % Word
               q == x \div Word
               y == k + 1 - m * q
    <2>1. h = s - r
      <3>1. -n = s * (-k - 1) + (s - r) /\ -k - 1 \in Int /\ -n \in Int /\ s - r \in 0..(s - 1)
        BY <1>1, <1>4
      <3>2. QED
        BY <3>1, ModUnique
    <2> HIDE DEF h
    <2>2. x \in Int /\ x = s * (k + 1)
      BY <1>1
    <2> HIDE DEF x
    <2>3. w \in 0..(Word - 1) /\ q \in Int /\ x = Word * q + w
      BY <1>0, <2>2, ModRange
    <2> HIDE DEF w, q
    <2>4. m * q \in Int /\ y \in Int
      BY <1>1, <2>3
    <2>5. w = s * y
      <3>1. s * (k + 1) = (s * m) * q + w
        BY <2>2, <2>3
      <3>2. s * (k + 1 - m * q) = s * (k + 1) - (s * m) * q
        BY <1>1, <2>3, <2>4
      <3>3. QED
        BY <1>0, <1>1, <2>3, <2>4, <3>1, <3>2
    <2> HIDE DEF y
    <2>6. w \div s = y
      BY <2>3, <2>4, <2>5, DivUnique, w = s * y + 0, 0 \in 0..(s - 1)
    <2>7. RoundUp(n, s) = y
      BY <1>2, <1>4, <2>6 DEF w, x
    <2>8. y >= 0
      BY <2>3, <2>4, <2>5
    <2>9. s * y = n + h + Word * (-q) /\ -q \in Int
      BY <1>0, <1>1, <2>1, <2>3, <2>5 DEF x
    <2>10. QED
      BY <2>4, <2>7, <2>8, <2>9
  <1>5. QED
    BY <1>3, <1>4

(* Of the slots of U jiffies, number T is the first to come up from tj on. *)
ComesUp(tj, U, T) == \E q \in Int : tj + ((-tj) % U) = U * T + Word * q

Divides(U) == \E m \in Nat \ {0} : Word = U * m

(* How the slots of one vector follow from those of the one below. *)
LEMMA NextVector ==
  ASSUME NEW tj \in Int, NEW U \in Nat \ {0}, NEW S \in Nat \ {0}, NEW T \in Nat,
         Divides(U * S), ComesUp(tj, U, T)
  PROVE  /\ RoundUp(T, S) \in Nat
         /\ (-tj) % (U * S) = ((-tj) % U) + U * ((-T) % S)
         /\ ComesUp(tj, U * S, RoundUp(T, S))
  <1> DEFINE g == (-tj) % U
             h == (-T) % S
             k == (-T) \div S
             R == RoundUp(T, S)
  <1>0. Word \in Nat \ {0}
    BY WordFacts
  <1>a. PICK m \in Nat \ {0} : Word = (U * S) * m
    BY DEF Divides
  <1>b. PICK q \in Int : tj + ((-tj) % U) = U * T + Word * q
    BY DEF ComesUp
  <1>1. g \in 0..(U - 1)
    BY ModRange, -tj \in Int
  <1>2. h \in 0..(S - 1) /\ k \in Int /\ -T = S * k + h
    BY ModRange, -T \in Int
  <1>3. PICK p \in Int : S * R = T + h + Word * p /\ R \in Nat
    <2>1. U * m \in Nat \ {0} /\ Word = S * (U * m)
      BY <1>a, Product
    <2>2. QED
      BY <2>1, RoundUpIs
  <1> HIDE DEF g, h, k, R
  <1>4. U * S \in Nat \ {0}
    BY Product
  <1>5. g + U * h \in 0..((U * S) - 1)
    <2>1. U * h <= U * (S - 1) /\ U * h >= 0 /\ U * h \in Int
      BY <1>2
    <2>2. U * (S - 1) = U * S - U
      OBVIOUS
    <2>3. QED
      BY <1>1, <1>4, <2>1, <2>2
  <1>6. -tj = (U * S) * (k - m * q) + (g + U * h)
    <2>1. -tj = g - U * T - Word * q
      BY <1>0, <1>1, <1>b DEF g
    <2>2. U * T = -(U * (S * k + h))
      BY <1>2
    <2>3. U * (S * k + h) = (U * S) * k + U * h
      BY <1>2
    <2>4. Word * q = (U * S) * (m * q)
      BY <1>a
    <2>5. (U * S) * (k - m * q) = (U * S) * k - (U * S) * (m * q)
      BY <1>2, <1>4
    <2>6. U * T \in Int /\ Word * q \in Int /\ (U * S) * k \in Int /\ U * h \in Int /\ (U * S) * (m * q) \in Int
      BY <1>0, <1>2, <1>4
    <2>7. QED
      BY <1>1, <2>1, <2>2, <2>3, <2>4, <2>5, <2>6
  <1>7. (-tj) % (U * S) = g + U * h
    <2> DEFINE V == U * S
               y == k - m * q
               x == g + U * h
    <2>1. y \in Int /\ V \in Nat \ {0} /\ x \in 0..(V - 1) /\ -tj = V * y + x /\ -tj \in Int
      BY <1>2, <1>4, <1>5, <1>6
    <2> HIDE DEF V, y, x
    <2>2. (-tj) % V = x
      BY <2>1, ModUnique
    <2>3. QED
      BY <2>2 DEF V, x
  <1>8. tj + (g + U * h) = (U * S) * R + Word * (q - U * p)
    <2>1. tj + g = U * T + Word * q
      BY <1>b DEF g
    <2>2. U * T = U * (S * R) - U * h - U * (Word * p)
      <3>1. T = S * R - h - Word * p /\ S * R \in Int /\ Word * p \in Int
        BY <1>0, <1>2, <1>3
      <3>2. QED
        BY <1>2, <3>1
    <2>3. U * (S * R) = (U * S) * R /\ U * (Word * p) = Word * (U * p)
      BY <1>0, <1>3
    <2>4. Word * (q - U * p) = Word * q - Word * (U * p)
      BY <1>0, <1>3
    <2>5. U * h \in Int /\ Word * q \in Int /\ Word * (U * p) \in Int /\ (U * S) * R \in Int /\ U * T \in Int
      BY <1>0, <1>2, <1>3, <1>4
    <2>6. U * T = (U * S) * R - U * h - Word * (U * p)
      BY <2>2, <2>3
    <2> DEFINE a == U * T
               b == (U * S) * R
               c == U * h
               d == Word * (U * p)
               f == Word * q
    <2>7. /\ a \in Int /\ b \in Int /\ c \in Int /\ d \in Int /\ f \in Int
          /\ tj + g = a + f /\ a = b - c - d /\ Word * (q - U * p) = f - d
      BY <2>1, <2>4, <2>5, <2>6
    <2>8. tj + (g + c) = b + (f - d)
      <3> HIDE DEF a, b, c, d, f
      <3>1. QED
        BY <1>1, <2>7
    <2>9. QED
      BY <2>7, <2>8
  <1>9. q - U * p \in Int
    BY <1>3
  <1>10. QED
    BY <1>3, <1>7, <1>8, <1>9 DEF g, h, R, ComesUp

(* CascadeTime is the number of that slot, in every vector. *)
LEMMA CascadeTimes ==
  ASSUME timer_jiffies \in Words
  PROVE  /\ \A l \in Levels : CascadeTime[l] \in Nat /\ \E q \in Int :
                timer_jiffies + Ahead(l) = Unit[l] * CascadeTime[l] + Word * q
         /\ \A l \in 1..4 : Ahead(l + 1) = Ahead(l) + Unit[l] * ((-CascadeTime[l]) % Size[l])
         /\ CascadeTime[1] = timer_jiffies /\ Ahead(1) = 0
  <1> DEFINE tj == timer_jiffies
             T == CascadeTime
             P(l) == T[l] \in Nat /\ \E q \in Int : tj + Ahead(l) = Unit[l] * T[l] + Word * q
  <1>0. tj \in Nat /\ Word \in Nat \ {0}
    BY WordFacts DEF Words
  <1>1. /\ T[1] = tj /\ T[2] = RoundUp(T[1], Size[1]) /\ T[3] = RoundUp(T[2], Size[2])
        /\ T[4] = RoundUp(T[3], Size[3]) /\ T[5] = RoundUp(T[4], Size[4])
    BY DEF CascadeTime
  <1>2. \A l \in 1..4 : T[l + 1] = RoundUp(T[l], Size[l])
    <2>1. \A l \in 1..4 : l = 1 \/ l = 2 \/ l = 3 \/ l = 4
      OBVIOUS
    <2>2. QED
      BY <1>1, <2>1
  <1>3. Ahead(1) = 0
    <2>1. Unit[1] = 1 /\ -tj \in Int
      BY <1>0, Units
    <2>2. (-tj) % 1 = 0
      BY <2>1
    <2>3. QED
      BY <2>1, <2>2 DEF Ahead
  <1> HIDE DEF T
  <1>4. P(1)
    <2>1. tj + Ahead(1) = Unit[1] * T[1] + Word * 0 /\ 0 \in Int
      BY <1>0, <1>1, <1>3, Units
    <2>2. T[1] \in Nat
      BY <1>0, <1>1
    <2> HIDE DEF tj
    <2>3. \E q \in Int : tj + Ahead(1) = Unit[1] * T[1] + Word * q
      <3>1. WITNESS 0 \in Int
      <3>2. QED
        BY <2>1
    <2>4. QED
      BY <2>2, <2>3
  <1>5. ASSUME NEW l \in 1..4, P(l)
        PROVE  P(l + 1) /\ Ahead(l + 1) = Ahead(l) + Unit[l] * ((-T[l]) % Size[l])
    <2> DEFINE U == Unit[l]
               S == Size[l]
    <2>1. U \in Nat \ {0} /\ S \in Nat \ {0} /\ Unit[l + 1] = U * S /\ l + 1 \in 1..6
      BY Units, l \in 1..5, l \in 1..6
    <2>2. Divides(U * S)
      BY <2>1, UnitDivides, 6 \in 1..6 DEF Word, Divides
    <2>3. ComesUp(tj, U, T[l])
      BY <1>5 DEF Ahead, ComesUp
    <2>4. T[l] \in Nat /\ tj \in Int
      BY <1>0, <1>5
    <2>5. T[l + 1] = RoundUp(T[l], S)
      BY <1>2
    <2>6. Ahead(l + 1) = (-tj) % (U * S) /\ Ahead(l) = (-tj) % U
      BY <2>1 DEF Ahead
    <2> HIDE DEF U, S, tj
    <2>7. /\ RoundUp(T[l], S) \in Nat
          /\ (-tj) % (U * S) = ((-tj) % U) + U * ((-T[l]) % S)
          /\ ComesUp(tj, U * S, RoundUp(T[l], S))
      BY <2>1, <2>2, <2>3, <2>4, NextVector
    <2>8. Ahead(l + 1) = Ahead(l) + U * ((-T[l]) % S)
      BY <2>6, <2>7
    <2>9. T[l + 1] \in Nat /\ \E p \in Int : tj + Ahead(l + 1) = Unit[l + 1] * T[l + 1] + Word * p
      BY <2>1, <2>5, <2>6, <2>7 DEF ComesUp
    <2>10. QED
      BY <2>8, <2>9 DEF U, S
  <1> HIDE DEF P
  <1>6. P(1) /\ P(2) /\ P(3) /\ P(4) /\ P(5)
    <2>1. P(2)
      BY <1>4, <1>5, 1 \in 1..4, 1 + 1 = 2
    <2>2. P(3)
      BY <2>1, <1>5, 2 \in 1..4, 2 + 1 = 3
    <2>3. P(4)
      BY <2>2, <1>5, 3 \in 1..4, 3 + 1 = 4
    <2>4. P(5)
      BY <2>3, <1>5, 4 \in 1..4, 4 + 1 = 5
    <2>5. QED
      BY <1>4, <2>1, <2>2, <2>3, <2>4
  <1>7. \A l \in Levels : P(l)
    <2>1. \A l \in Levels : l = 1 \/ l = 2 \/ l = 3 \/ l = 4 \/ l = 5
      BY DEF Levels
    <2>2. QED
      BY <1>6, <2>1
  <1>8. \A l \in 1..4 : Ahead(l + 1) = Ahead(l) + Unit[l] * ((-T[l]) % Size[l])
    <2>1. \A l \in 1..4 : l \in Levels
      BY DEF Levels
    <2>2. QED
      BY <1>5, <1>7, <2>1
  <1>9. QED
    BY <1>1, <1>3, <1>7, <1>8 DEF P, T

-----------------------------------------------------------------------------
(* The jiffies until the i-th slot of vector l to come up does.  From its  *)
(* timers to a time in a slot.                                             *)
Start(l, i) == Ahead(l) + Unit[l] * i

(* A timer is in the slot that comes up when less than one slot is left.   *)
LEMMA SlotOf ==
  ASSUME timer_jiffies \in Words, NEW e \in Words, NEW l \in Levels,
         Gap(e, timer_jiffies) - (e % Unit[l]) \in 0..(Unit[l + 1] - 1)
  PROVE  \E i \in 0..(Size[l] - 1) : /\ Gap(e, timer_jiffies) - (e % Unit[l]) = Start(l, i)
                                     /\ INDEX(l, e) = (CascadeTime[l] + i) % Size[l]
  <1> DEFINE tj == timer_jiffies
             z == Gap(e, tj)
             U == Unit[l]
             S == Size[l]
             T == CascadeTime[l]
             A == Ahead(l)
             r == e % U
             k == e \div U
             b == z - r
  <1>1. /\ e \in Int /\ tj \in Int /\ U \in Nat \ {0} /\ S \in Nat \ {0} /\ Unit[l + 1] = U * S
        /\ Word \in Nat \ {0} /\ l \in 1..6 /\ l + 1 \in 1..6
    BY WordFacts, Units DEF Words, Levels
  <1>2. PICK m \in Nat \ {0} : Word = (U * S) * m
    BY <1>1, UnitDivides, 6 \in 1..6 DEF Word
  <1>3. T \in Nat /\ \E p \in Int : tj + A = U * T + Word * p
    BY CascadeTimes
  <1>4. z \in Int /\ \E q \in Int : e = tj + z + Word * q
    <2> HIDE DEF tj
    <2>1. z \in (-Half)..(Half - 1) /\ \E q \in Int : e = tj + z + Word * q
      BY <1>1, GapType
    <2>2. z \in Int
      <3> HIDE DEF z
      <3>1. QED
        BY <2>1, WordFacts
    <2>3. QED
      BY <2>1, <2>2
  <1>5. A \in 0..(U - 1)
    <2>1. -tj \in Int
      BY <1>1
    <2>2. QED
      BY <1>1, <2>1, ModRange DEF Ahead
  <1>6. r \in 0..(U - 1) /\ k \in Int /\ e = U * k + r
    <2> HIDE DEF U
    <2>1. QED
      BY <1>1, ModRange
  <1>7. b \in 0..((U * S) - 1)
    BY <1>1
  <1> SUFFICES \E i \in 0..(S - 1) : b = A + U * i /\ k % S = (T + i) % S
    BY DEF Start, INDEX
  <1> HIDE DEF tj, z, U, S, T, A, r, k
  <1>8. PICK p \in Int : tj + A = U * T + Word * p
    BY <1>3
  <1>9. PICK q \in Int : e = tj + z + Word * q
    BY <1>4
  <1> DEFINE n == m * (p + q)
             i == k - T - S * n
  <1>10. n \in Int /\ i \in Int /\ S * n \in Int
    BY <1>1, <1>3, <1>6
  <1>11. b = A + U * i
    <2>1. Word * (p + q) = Word * p + Word * q
      BY <1>1
    <2>2. Word * (p + q) = U * (S * n)
      BY <1>1, <1>2
    <2>3. U * i = U * k - U * T - U * (S * n)
      BY <1>1, <1>3, <1>6, <1>10
    <2> DEFINE x1 == U * k
               x2 == U * T
               x3 == U * (S * n)
               x4 == Word * p
               x5 == Word * q
               x6 == U * i
    <2>4. x1 \in Int /\ x2 \in Int /\ x3 \in Int /\ x4 \in Int /\ x5 \in Int /\ x6 \in Int
      BY <1>1, <1>3, <1>6, <1>10
    <2>5. /\ x3 = x4 + x5 /\ x6 = x1 - x2 - x3 /\ e = x1 + r /\ e = tj + z + x5 /\ tj + A = x2 + x4
      BY <1>6, <1>8, <1>9, <2>1, <2>2, <2>3
    <2>6. b = A + x6
      <3> HIDE DEF x1, x2, x3, x4, x5, x6
      <3>1. QED
        BY <1>1, <1>4, <1>5, <1>6, <2>4, <2>5
    <2>7. QED
      BY <2>6
  <1> HIDE DEF b, n, i
  <1>12. i >= 0
    <2>1. i <= -1 => U * i <= -U
      BY <1>1, <1>10
    <2>2. QED
      BY <1>1, <1>5, <1>7, <1>10, <1>11, <2>1
  <1>13. i <= S - 1
    <2>1. i >= S => U * i >= U * S
      BY <1>1, <1>10
    <2>2. QED
      BY <1>1, <1>5, <1>7, <1>10, <1>11, <2>1
  <1>14. k % S = (T + i) % S
    <2>1. (T + i) % S \in 0..(S - 1) /\ \E y \in Int : T + i = S * y + ((T + i) % S)
      BY <1>1, <1>3, <1>10, ModRange, T + i \in Int
    <2> DEFINE x == (T + i) % S
    <2> HIDE DEF x
    <2>2. PICK y \in Int : T + i = S * y + x
      BY <2>1 DEF x
    <2>3. k = T + i + S * n
      BY <1>3, <1>6, <1>10 DEF i
    <2>4. S * (y + n) = S * y + S * n /\ y + n \in Int
      BY <1>1, <1>10
    <2>5. k = S * (y + n) + x /\ x \in 0..(S - 1)
      BY <1>1, <1>3, <1>6, <1>10, <2>1, <2>2, <2>3, <2>4 DEF x
    <2>6. k % S = x
      BY <1>1, <1>6, <2>4, <2>5, ModUnique
    <2>7. QED
      BY <2>6 DEF x
  <1>15. QED
    BY <1>10, <1>11, <1>12, <1>13, <1>14

(* The slots of a vector are different ones. *)
LEMMA SlotsDiffer ==
  ASSUME NEW S \in Nat \ {0}, NEW T \in Int, NEW i \in 0..(S - 1), NEW j \in 0..(S - 1), (T + i) % S = (T + j) % S
  PROVE  i = j
  <1> DEFINE x == (T + i) \div S
             y == (T + j) \div S
             r == (T + i) % S
  <1>1. r \in 0..(S - 1) /\ x \in Int /\ y \in Int /\ T + i = S * x + r /\ T + j = S * y + r
    BY ModRange, T + i \in Int, T + j \in Int
  <1> HIDE DEF x, y, r
  <1>2. i - j = S * (x - y)
    <2>1. S * (x - y) = S * x - S * y
      BY <1>1
    <2>2. QED
      BY <1>1, <2>1
  <1>3. x - y >= 1 => S * (x - y) >= S
    BY <1>1
  <1>4. x - y <= -1 => S * (x - y) <= -S
    BY <1>1
  <1>5. x - y = 0
    BY <1>1, <1>2, <1>3, <1>4
  <1>6. QED
    BY <1>1, <1>2, <1>5

-----------------------------------------------------------------------------
(* The order in which slots come up. *)
LEMMA SlotOrder ==
  ASSUME timer_jiffies \in Words, NEW l \in Levels, NEW i \in 0..(Size[l] - 1)
  PROVE  /\ Start(l, i) \in Nat /\ Unit[l] \in Nat \ {0} /\ Size[l] \in Nat \ {0} /\ Ahead(l) \in Nat
         /\ Start(l, 0) = Ahead(l) /\ Start(l, i) >= Ahead(l)
         /\ \A j \in 0..(Size[l] - 1) : i < j => Start(l, i) + Unit[l] <= Start(l, j)
         /\ l # 5 => /\ Ahead(l + 1) \in Nat /\ Unit[l + 1] \in Nat
                     /\ Start(l, i) + Unit[l] <= Ahead(l + 1) + Unit[l + 1]
                     /\ Ahead(l) <= Ahead(l + 1) /\ Unit[l] <= Unit[l + 1]
                     /\ Before(l, i) => Start(l, i) + Unit[l] <= Ahead(l + 1)
  <1> DEFINE U == Unit[l]
             S == Size[l]
             T == CascadeTime[l]
             A == Ahead(l)
             h == (-T) % S
  <1>1. /\ timer_jiffies \in Int /\ U \in Nat \ {0} /\ S \in Nat \ {0} /\ Unit[l + 1] = U * S /\ l \in 1..5
        /\ S >= 1
    BY WordFacts, Units DEF Words, Levels
  <1>2. T \in Nat
    BY CascadeTimes
  <1>3. A \in 0..(U - 1)
    <2>1. -timer_jiffies \in Int
      BY <1>1
    <2>2. QED
      BY <1>1, <2>1, ModRange DEF Ahead
  <1>4. l # 5 => Ahead(l + 1) = A + U * h
    <2>1. l # 5 => l \in 1..4
      BY <1>1
    <2>2. QED
      BY <2>1, CascadeTimes
  <1>5. h \in 0..(S - 1)
    <2> HIDE DEF S
    <2>1. QED
      BY <1>1, <1>2, ModRange, -T \in Int
  <1>6. Before(l, i) => i + 1 <= h
    <2>1. SUFFICES ASSUME T % S # 0, (T % S) + i < S PROVE i + 1 <= h
      BY DEF Before
    <2> DEFINE r == T % S
               y == T \div S
    <2> HIDE DEF S, T
    <2>2. r \in 0..(S - 1) /\ y \in Int /\ T = S * y + r
      BY <1>1, <1>2, ModRange, T \in Int
    <2>3. r # 0 /\ r + i < S
      BY <2>1
    <2> HIDE DEF r, y
    <2>4. -T = S * (-y - 1) + (S - r) /\ S - r \in 0..(S - 1) /\ -T \in Int /\ -y - 1 \in Int
      BY <1>1, <1>2, <2>2, <2>3
    <2>5. h = S - r
      <3> DEFINE a == -T
                 b == -y - 1
                 x == S - r
      <3>1. S \in Nat \ {0} /\ a \in Int /\ b \in Int /\ x \in 0..(S - 1) /\ a = S * b + x
        BY <1>1, <2>4
      <3> HIDE DEF a, b, x
      <3>2. a % S = x
        BY <3>1, ModUnique
      <3>3. QED
        BY <3>2 DEF a, x
    <2>6. QED
      BY <1>1, <2>2, <2>3, <2>5 DEF S
  <1>7. \A j \in 0..(S - 1) : i < j => U * i + U <= U * j
    <2>1. SUFFICES ASSUME NEW j \in 0..(S - 1), i < j PROVE U * i + U <= U * j
      OBVIOUS
    <2> HIDE DEF U, S
    <2>2. U * i + U = U * (i + 1) /\ i \in Nat
      BY <1>1 DEF S
    <2>3. U * (i + 1) <= U * j
      BY <1>1, <2>1, <2>2
    <2>4. QED
      BY <2>2, <2>3
  <1>8. U * i \in Nat /\ U * 0 = 0
    <2>1. i \in Nat
      BY <1>1
    <2>2. QED
      BY <1>1, <2>1
  <1>9. U * i + U <= U * S
    <2> HIDE DEF U, S
    <2>1. U * i + U = U * (i + 1) /\ i \in Nat /\ i + 1 <= S
      BY <1>1 DEF S
    <2>2. U * (i + 1) <= U * S
      BY <1>1, <2>1
    <2>3. QED
      BY <2>1, <2>2
  <1>10. U * h \in Nat
    BY <1>1, <1>5
  <1>11. i + 1 <= h => U * i + U <= U * h
    <2> HIDE DEF U, S, h
    <2>1. U * i + U = U * (i + 1) /\ i \in Nat
      BY <1>1 DEF S
    <2>2. i + 1 <= h => U * (i + 1) <= U * h
      BY <1>1, <1>5, <2>1
    <2>3. QED
      BY <2>1, <2>2
  <1>12. \A j : Start(l, j) = A + U * j
    BY DEF Start
  <1> DEFINE g == Ahead(l + 1)
             V == Unit[l + 1]
             x == U * i
             w == U * h
             B == Before(l, i)
  <1>13. /\ x \in Nat /\ w \in Nat /\ x + U <= V /\ (B => x + U <= w) /\ (l # 5 => g = A + w) /\ U <= V /\ V \in Nat
    <2>1. U * S \in Nat
      BY <1>1
    <2>2. QED
      BY <1>1, <1>4, <1>6, <1>8, <1>9, <1>10, <1>11, <2>1
  <1>14. /\ Start(l, i) = A + x /\ Start(l, 0) = A /\ \A j \in 0..(S - 1) : i < j => A + x + U <= Start(l, j)
    <2>1. \A j \in 0..(S - 1) : U * j \in Int
      BY <1>1
    <2>2. QED
      BY <1>1, <1>3, <1>7, <1>8, <1>12, <2>1
  <1> HIDE DEF g, V, x, w, B, U, S, A
  <1>15. A + x \in Nat /\ A \in Nat /\ A + x >= A /\ U \in Nat \ {0} /\ S \in Nat \ {0}
    BY <1>1, <1>3, <1>13
  <1>16. l # 5 => g \in Nat /\ A + x + U <= g + V /\ A <= g /\ (B => A + x + U <= g)
    BY <1>1, <1>3, <1>13
  <1>17. QED
    BY <1>13, <1>14, <1>15, <1>16 DEF g, V, B, U, S, A

-----------------------------------------------------------------------------
(* The jiffies left to the time a, a negative number once it has passed. *)
Dist(a) == Gap(a, timer_jiffies)

(* Every timer of the wheel is where __run_timers() will meet it in time. *)
Filed == \A t \in Timers : Pending(t) => FiledAt(at[t], expires[t], timer_jiffies)

(* No timer is so far in the future or the past that it seems to be on the *)
(* other side, now or once the base has caught up with jiffies.            *)
Near == \A t \in Timers : Pending(t) =>
  Dist(expires[t]) \in (-MaxLate - 1)..(Half - Reach - 2 + Lag)

(* The base falls behind by a sleep at most. *)
LagBound == Lag <= MaxSleep

(* A timer t is in the i-th slot of vector l to come up. *)
Placed(t, l, i) ==
  /\ i \in 0..(Size[l] - 1) /\ at[t] = <<l, (CascadeTime[l] + i) % Size[l]>>
  /\ IF Dist(expires[t]) < 0 THEN l = 1 /\ i = 0
     ELSE Dist(expires[t]) - Start(l, i) \in 0..(Unit[l] - 1)

(* Every timer is in such a slot. *)
LEMMA HasSlot ==
  ASSUME WheelTypeOK, NEW t \in Timers, FiledAt(at[t], expires[t], timer_jiffies)
  PROVE  \E l \in Levels : \E i \in 0..(Size[l] - 1) : Placed(t, l, i)
  <1> DEFINE e == expires[t]
             z == Dist(e)
  <1>1. timer_jiffies \in Words /\ e \in Words /\ 1 \in Levels /\ timer_jiffies \in Nat /\ e \in Nat
    BY WordFacts DEF WheelTypeOK, Levels, Words
  <1>2. Size[1] \in Nat \ {0}
    BY Units, 1 \in 1..5
  <1>3. CASE z < 0
    <2>1. at[t] = <<1, timer_jiffies % Size[1]>>
      BY <1>3 DEF FiledAt, Dist
    <2>2. CascadeTime[1] + 0 = timer_jiffies /\ 0 \in 0..(Size[1] - 1)
      BY <1>1, <1>2, CascadeTimes
    <2>3. Placed(t, 1, 0)
      BY <1>3, <2>1, <2>2 DEF Placed
    <2>4. QED
      BY <1>1, <2>2, <2>3
  <1>4. CASE ~(z < 0)
    <2>1. PICK l \in Levels : at[t] = <<l, INDEX(l, e)>> /\ z - (e % Unit[l]) \in 0..(Unit[l + 1] - 1)
      BY <1>4 DEF FiledAt, Dist
    <2>2. PICK i \in 0..(Size[l] - 1) : z - (e % Unit[l]) = Start(l, i) /\ INDEX(l, e) = (CascadeTime[l] + i) % Size[l]
      BY <1>1, <2>1, SlotOf DEF Dist
    <2>3. Unit[l] \in Nat \ {0}
      BY Units DEF Levels
    <2>4. e % Unit[l] \in 0..(Unit[l] - 1)
      <3> DEFINE U == Unit[l]
      <3>1. U \in Nat \ {0} /\ e \in Int
        BY <1>1, <2>3
      <3>2. SUFFICES e % U \in 0..(U - 1)
        OBVIOUS
      <3> HIDE DEF e, U
      <3>3. QED
        BY <3>1, ModRange
    <2>5. z \in Int
      <3>1. z \in (-Half)..(Half - 1)
        <4>1. e \in Int /\ timer_jiffies \in Int
          BY <1>1
        <4>2. QED
          BY <4>1, GapType DEF Dist
      <3> HIDE DEF z
      <3>2. QED
        BY <3>1, WordFacts
    <2>6. z - Start(l, i) \in 0..(Unit[l] - 1)
      <3> HIDE DEF z, e
      <3>1. QED
        BY <2>2, <2>3, <2>4, <2>5
    <2>7. Placed(t, l, i)
      BY <1>4, <2>1, <2>2, <2>6 DEF Placed
    <2>8. QED
      BY <2>7
  <1>5. QED
    BY <1>3, <1>4

(* It is in no other slot. *)
LEMMA InSlot ==
  ASSUME WheelTypeOK, NEW t \in Timers, FiledAt(at[t], expires[t], timer_jiffies),
         NEW l \in Levels, NEW i \in 0..(Size[l] - 1), at[t] = <<l, (CascadeTime[l] + i) % Size[l]>>
  PROVE  Placed(t, l, i)
  <1>0. PICK k \in Levels : \E j \in 0..(Size[k] - 1) : Placed(t, k, j)
    BY HasSlot
  <1>1. PICK j \in 0..(Size[k] - 1) : Placed(t, k, j)
    BY <1>0
  <1>2. k = l /\ (CascadeTime[l] + i) % Size[l] = (CascadeTime[l] + j) % Size[l]
    BY <1>1 DEF Placed
  <1>3. Size[l] \in Nat \ {0} /\ CascadeTime[l] \in Int
    <2>1. timer_jiffies \in Words
      BY DEF WheelTypeOK
    <2>2. Size[l] \in Nat \ {0}
      BY Units DEF Levels
    <2>3. QED
      BY <2>1, <2>2, CascadeTimes
  <1>4. i = j
    <2> DEFINE S == Size[l]
               T == CascadeTime[l]
    <2>1. S \in Nat \ {0} /\ T \in Int /\ i \in 0..(S - 1) /\ j \in 0..(S - 1) /\ (T + i) % S = (T + j) % S
      BY <1>1, <1>2, <1>3
    <2> HIDE DEF S, T
    <2>2. QED
      BY <2>1, SlotsDiffer
  <1>5. QED
    BY <1>1, <1>2, <1>4

(* What the search of a slot finds. *)
LEMMA NthIs ==
  ASSUME WheelTypeOK, Filed, NEW l \in Levels, NEW i \in 0..(Size[l] - 1)
  PROVE  /\ \A x \in Nth(l, i) : x \in Words /\ \E t \in Timers : Counted(t) /\ Placed(t, l, i) /\ x = expires[t]
         /\ \A t \in Timers : Counted(t) /\ Placed(t, l, i) => expires[t] \in Nth(l, i)
  <1>1. ASSUME NEW x \in Nth(l, i)
        PROVE  x \in Words /\ \E t \in Timers : Counted(t) /\ Placed(t, l, i) /\ x = expires[t]
    <2>1. PICK t \in Timers : Counted(t) /\ at[t] = <<l, (CascadeTime[l] + i) % Size[l]>> /\ x = expires[t]
      BY <1>1 DEF Nth
    <2>2. FiledAt(at[t], expires[t], timer_jiffies)
      BY <2>1 DEF Filed, Counted
    <2>3. Placed(t, l, i)
      BY <2>1, <2>2, InSlot
    <2>4. x \in Words
      BY <2>1 DEF WheelTypeOK
    <2>5. QED
      BY <2>1, <2>3, <2>4
  <1>2. ASSUME NEW t \in Timers, Counted(t), Placed(t, l, i) PROVE expires[t] \in Nth(l, i)
    BY <1>2 DEF Placed, Nth
  <1>3. QED
    BY <1>1, <1>2

(* The first slot of a vector in which there are timers. *)
LEMMA FirstUsedIs ==
  ASSUME NEW l \in Levels
  PROVE  /\ FirstUsed(l) \in 0..Size[l]
         /\ FirstUsed(l) # Size[l] => FirstUsed(l) \in 0..(Size[l] - 1) /\ Nth(l, FirstUsed(l)) # {}
         /\ \A i \in 0..(Size[l] - 1) : Nth(l, i) # {} => FirstUsed(l) <= i
  <1> DEFINE S == {Size[l]} \cup {i \in 0..(Size[l] - 1) : Nth(l, i) # {}}
  <1>1. Size[l] \in Nat \ {0}
    BY Units DEF Levels
  <1>2. PICK k \in S : \A i \in S : k <= i
    BY <1>1, Least, S \in SUBSET Nat
  <1>3. FirstUsed(l) = Min(S)
    BY DEF FirstUsed
  <1>4. Min(S) \in S /\ \A i \in S : Min(S) <= i
    <2> HIDE DEF S
    <2>1. QED
      BY <1>2 DEF Min
  <1>5. Min(S) = Size[l] \/ (Min(S) \in 0..(Size[l] - 1) /\ Nth(l, Min(S)) # {})
    BY <1>4
  <1>6. \A i \in 0..(Size[l] - 1) : Nth(l, i) # {} => Min(S) <= i
    BY <1>4
  <1> HIDE DEF S
  <1>7. QED
    BY <1>1, <1>3, <1>5, <1>6

(* The earliest of some times that are not far away. *)
LEMMA EarlierIs ==
  ASSUME NEW c \in Words, NEW a \in Words, NEW S \in SUBSET Words, Gap(a, c) <= NEXT_TIMER_MAX_DELTA,
         \A x \in S : Gap(x, c) >= 0 /\ Gap(x, c) - Gap(a, c) <= Half - 1
  PROVE  LET r == Earlier(a, S)
         IN  r \in S \cup {a} /\ Gap(r, c) <= Gap(a, c) /\ \A x \in S : Gap(r, c) <= Gap(x, c)
  <1> DEFINE N == NEXT_TIMER_MAX_DELTA
             B == {e \in S : time_before(e, a)}
             r == Earlier(a, S)
  <1>0. /\ \A x \in Words : x \in Int /\ Gap(x, c) \in (-Half)..(Half - 1)
        /\ Half \in Nat /\ N \in Nat /\ Half = 2 * N + 2
    <2>1. \A x \in Words : x \in Int
      BY WordFacts DEF Words
    <2>2. QED
      BY <2>1, GapType, WordFacts
  <1>1. ASSUME NEW x \in S PROVE time_before(x, a) <=> Gap(x, c) < Gap(a, c)
    <2>1. Gap(x, c) - Gap(a, c) \in (-Half)..(Half - 1)
      BY <1>0
    <2>2. Gap(x, a) = Gap(x, c) - Gap(a, c)
      BY <1>0, <2>1, GapDiff
    <2>3. QED
      BY <1>0, <2>2, Compare
  <1>2. \A x \in B : x \in S /\ Gap(x, c) \in 0..(N - 1)
    BY <1>0, <1>1
  <1>3. ASSUME NEW x \in B, NEW y \in B PROVE time_before_eq(x, y) <=> Gap(x, c) <= Gap(y, c)
    <2>1. Gap(y, c) - Gap(x, c) \in (-Half)..(Half - 1)
      BY <1>0, <1>2
    <2>2. Gap(y, x) = Gap(y, c) - Gap(x, c)
      BY <1>0, <2>1, GapDiff
    <2>3. QED
      BY <1>0, <1>2, <2>2, Compare
  <1>4. r = IF B = {} THEN a ELSE CHOOSE e \in B : \A f \in B : time_before_eq(e, f)
    BY DEF Earlier
  <1> SUFFICES r \in S \cup {a} /\ Gap(r, c) <= Gap(a, c) /\ \A x \in S : Gap(r, c) <= Gap(x, c)
    OBVIOUS
  <1>5. CASE B = {}
    <2>1. r = a
      BY <1>4, <1>5
    <2>2. \A x \in S : ~time_before(x, a)
      BY <1>5
    <2> HIDE DEF r
    <2>3. QED
      BY <1>0, <1>1, <2>1, <2>2
  <1>6. CASE B # {}
    <2> DEFINE G == {Gap(x, c) : x \in B}
    <2>1. PICK g \in G : \A h \in G : g <= h
      <3>1. G \in SUBSET Nat /\ G # {}
        BY <1>2, <1>6
      <3> HIDE DEF G
      <3>2. QED
        BY <3>1, Least
    <2>2. PICK e \in B : \A f \in B : Gap(e, c) <= Gap(f, c)
      BY <2>1
    <2>3. \A f \in B : time_before_eq(e, f)
      BY <1>3, <2>2
    <2>4. r \in B /\ \A f \in B : time_before_eq(r, f)
      <3> HIDE DEF B
      <3>1. QED
        BY <1>4, <1>6, <2>2, <2>3
    <2>5. Gap(r, c) < Gap(a, c) /\ r \in S
      BY <1>1, <2>4
    <2>6. \A f \in B : Gap(r, c) <= Gap(f, c)
      <3> HIDE DEF r
      <3>1. QED
        BY <1>3, <2>4
    <2>7. ASSUME NEW x \in S PROVE Gap(r, c) <= Gap(x, c)
      <3>1. CASE x \in B
        BY <2>6, <3>1
      <3>2. CASE x \notin B
        <4>1. ~(Gap(x, c) < Gap(a, c))
          BY <1>1, <3>2
        <4> HIDE DEF r
        <4>2. QED
          BY <1>0, <2>5, <4>1
      <3>3. QED
        BY <3>1, <3>2
    <2>8. QED
      BY <1>0, <2>5, <2>7
  <1>7. QED
    BY <1>5, <1>6

-----------------------------------------------------------------------------
(* What the search of __next_timer_interrupt() knows when it has been      *)
(* through k vectors: f, whether it has found a timer, a, the time it      *)
(* would return, and d, whether it may stop.                               *)
SearchedTo(f, a, d, k) ==
  /\ a \in Words /\ Dist(a) <= NEXT_TIMER_MAX_DELTA
  /\ Dist(a) >= 0 \/ \E t \in Timers : Counted(t) /\ a = expires[t]
  /\ ~f => /\ Dist(a) = NEXT_TIMER_MAX_DELTA /\ ~d
           /\ \A t \in Timers, l \in 1..k, i \in Nat : Counted(t) => ~Placed(t, l, i)
  /\ f /\ Dist(a) > 0 =>
       \A t \in Timers, l \in Levels, i \in Nat :
         Counted(t) /\ Placed(t, l, i) /\ (d \/ l <= k) => Dist(a) <= Dist(expires[t])
  /\ f => d \/ k = 5 \/ Dist(a) < Ahead(k + 1) + Unit[k + 1]

SearchState(r, k) ==
  \E f \in BOOLEAN, d \in BOOLEAN, a \in Words :
    r = [found |-> f, at |-> a, done |-> d] /\ SearchedTo(f, a, d, k)

Horizon == WheelTypeOK /\ Filed /\ Near /\ LagBound

(* The distances are numbers, and of two timers small enough to compare. *)
LEMMA DistType ==
  ASSUME WheelTypeOK, NEW a \in Words
  PROVE  Dist(a) \in Int /\ Dist(a) >= -Half /\ Dist(a) <= Half - 1
  <1>1. a \in Int /\ timer_jiffies \in Int /\ timer_jiffies \in Words
    BY WordFacts DEF WheelTypeOK, Words
  <1>2. Dist(a) \in (-Half)..(Half - 1)
    BY <1>1, GapType DEF Dist
  <1>3. QED
    BY <1>2, WordFacts

LEMMA LagType ==
  ASSUME WheelTypeOK
  PROVE  Lag \in Nat /\ Lag < Word
  <1>1. jiffies + 1 - timer_jiffies \in Int
    BY WordFacts DEF WheelTypeOK, Words
  <1>2. Lag \in 0..(Word - 1)
    BY <1>1, WordFacts, ModRange DEF Lag
  <1>3. QED
    BY <1>2, WordFacts

LEMMA Close ==
  ASSUME WheelTypeOK, Near, LagBound, NEW t \in Timers, NEW u \in Timers, Counted(t), Counted(u)
  PROVE  Dist(expires[t]) - Dist(expires[u]) <= Half - 1
  <1> DEFINE x == Dist(expires[t])
             y == Dist(expires[u])
  <1>1. x \in Int /\ y \in Int /\ Lag \in Nat /\ Lag <= MaxSleep
    <2>1. expires[t] \in Words /\ expires[u] \in Words
      BY DEF WheelTypeOK
    <2>2. QED
      BY <2>1, DistType, LagType DEF LagBound
  <1>2. /\ Half \in Nat /\ MaxLag \in Nat \ {0} /\ MaxLate \in Nat /\ MaxSleep \in Nat
        /\ Reach = MaxLate + MaxSleep + MaxLag
    BY WordFacts, Callers
  <1>3. x <= Half - Reach - 2 + Lag /\ y >= -MaxLate - 1
    <2>1. Pending(t) /\ Pending(u)
      BY DEF Counted
    <2>2. QED
      BY <2>1, <1>1, <1>2 DEF Near
  <1> HIDE DEF x, y
  <1>4. x - y <= Half - 1
    BY <1>1, <1>2, <1>3
  <1>5. QED
    BY <1>4 DEF x, y

(* Higher vectors come up later. *)
LEMMA HigherUp ==
  ASSUME timer_jiffies \in Words, NEW l \in Levels, NEW m \in Levels, l < m
  PROVE  Ahead(l + 1) <= Ahead(m)
  <1>1. ASSUME NEW k \in 1..4 PROVE Ahead(k) <= Ahead(k + 1) /\ Ahead(k) \in Nat /\ Ahead(k + 1) \in Nat
    <2>1. k \in Levels /\ k # 5
      BY DEF Levels
    <2>2. 0 \in 0..(Size[k] - 1)
      BY <2>1, Units DEF Levels
    <2>3. QED
      BY <2>1, <2>2, SlotOrder
  <1>2. /\ Ahead(2) <= Ahead(3) /\ Ahead(3) <= Ahead(4) /\ Ahead(4) <= Ahead(5)
        /\ Ahead(2) \in Nat /\ Ahead(3) \in Nat /\ Ahead(4) \in Nat /\ Ahead(5) \in Nat
    BY <1>1, 2 \in 1..4, 3 \in 1..4, 4 \in 1..4, 2 + 1 = 3, 3 + 1 = 4, 4 + 1 = 5
  <1>3. \/ l = 1 /\ (m = 2 \/ m = 3 \/ m = 4 \/ m = 5)
        \/ l = 2 /\ (m = 3 \/ m = 4 \/ m = 5)
        \/ l = 3 /\ (m = 4 \/ m = 5)
        \/ l = 4 /\ m = 5
    BY DEF Levels
  <1>4. /\ Ahead(2) <= Ahead(4) /\ Ahead(2) <= Ahead(5) /\ Ahead(3) <= Ahead(5)
        /\ Ahead(2) <= Ahead(2) /\ Ahead(3) <= Ahead(3) /\ Ahead(4) <= Ahead(4) /\ Ahead(5) <= Ahead(5)
    BY <1>2
  <1>5. QED
    BY <1>2, <1>3, <1>4, 1 + 1 = 2, 2 + 1 = 3, 3 + 1 = 4, 4 + 1 = 5

(* When the timers of a slot are to expire. *)
LEMMA PlacedAt ==
  ASSUME WheelTypeOK, NEW t \in Timers, NEW l \in Levels, NEW i \in Nat, Placed(t, l, i), l # 1 \/ i # 0
  PROVE  /\ i \in 0..(Size[l] - 1) /\ Dist(expires[t]) \in Nat /\ Start(l, i) \in Nat /\ Unit[l] \in Nat
         /\ Start(l, i) <= Dist(expires[t]) /\ Dist(expires[t]) < Start(l, i) + Unit[l]
  <1>1. i \in 0..(Size[l] - 1) /\ Dist(expires[t]) - Start(l, i) \in 0..(Unit[l] - 1) /\ ~(Dist(expires[t]) < 0)
    BY DEF Placed
  <1>2. Start(l, i) \in Nat /\ Unit[l] \in Nat
    <2>1. timer_jiffies \in Words
      BY DEF WheelTypeOK
    <2>2. QED
      BY <1>1, <2>1, SlotOrder
  <1>3. Dist(expires[t]) \in Int
    <2>1. expires[t] \in Words
      BY DEF WheelTypeOK
    <2>2. QED
      BY <2>1, DistType
  <1>4. QED
    BY <1>1, <1>2, <1>3

(* The search goes through one more vector. *)
LEMMA LookOn ==
  ASSUME Horizon, NEW l \in 2..5, NEW k \in 1..4, k = l - 1, NEW r, SearchState(r, k)
  PROVE  SearchState(Look(r, l), l)
  <1>a. PICK f \in BOOLEAN, d \in BOOLEAN, a \in Words :
          r = [found |-> f, at |-> a, done |-> d] /\ SearchedTo(f, a, d, k)
    BY DEF SearchState
  <1> DEFINE N == NEXT_TIMER_MAX_DELTA
             i == IF f THEN 0 ELSE FirstUsed(l)
             S == Size[l]
  <1>0. /\ l \in Levels /\ l - 1 \in 1..4 /\ (l - 1) + 1 = l /\ l \in Nat /\ l # 1
        /\ WheelTypeOK /\ Filed /\ Near /\ LagBound /\ timer_jiffies \in Words
    BY DEF Levels, Horizon, WheelTypeOK
  <1>1. /\ a \in Words /\ Dist(a) <= N
        /\ Dist(a) >= 0 \/ \E t \in Timers : Counted(t) /\ a = expires[t]
        /\ ~f => /\ Dist(a) = N /\ ~d
                 /\ \A t \in Timers, m \in 1..(l - 1), j \in Nat : Counted(t) => ~Placed(t, m, j)
        /\ f /\ Dist(a) > 0 => \A t \in Timers, m \in Levels, j \in Nat :
             Counted(t) /\ Placed(t, m, j) /\ (d \/ m <= l - 1) => Dist(a) <= Dist(expires[t])
        /\ f => d \/ Dist(a) < Ahead(l) + Unit[l]
    <2>1. l - 1 # 5
      BY <1>0
    <2>2. QED
      BY <1>0, <1>a, <2>1 DEF SearchedTo
  <1>2. Dist(a) \in Int /\ N \in Nat /\ S \in Nat \ {0}
    BY <1>0, <1>1, DistType, WordFacts, Units DEF Levels
  <1>3. Look(r, l) = IF d \/ i = S THEN r
                     ELSE [found |-> TRUE, at |-> Earlier(a, Nth(l, i)), done |-> Before(l, i)]
    BY <1>a DEF Look
  <1>4. CASE d
    <2>1. f /\ Look(r, l) = r
      BY <1>1, <1>3, <1>4
    <2>2. SearchedTo(f, a, d, l)
      BY <1>1, <1>4, <2>1 DEF SearchedTo
    <2>3. QED
      BY <1>a, <2>1, <2>2 DEF SearchState
  <1>5. CASE ~d /\ i = S
    <2>1. Look(r, l) = r /\ ~f /\ FirstUsed(l) = S
      BY <1>2, <1>3, <1>5
    <2>2. ASSUME NEW t \in Timers, NEW j \in Nat, Counted(t), Placed(t, l, j) PROVE FALSE
      <3>1. j \in 0..(S - 1)
        BY <2>2 DEF Placed
      <3>2. Nth(l, j) # {}
        BY <1>0, <2>2, <3>1, NthIs
      <3>3. FirstUsed(l) <= j
        BY <1>0, <3>1, <3>2, FirstUsedIs
      <3>4. QED
        BY <1>2, <2>1, <3>1, <3>3
    <2>3. ASSUME NEW t \in Timers, NEW m \in 1..l, NEW j \in Nat, Counted(t) PROVE ~Placed(t, m, j)
      <3>1. m = l \/ m \in 1..(l - 1)
        BY <1>0
      <3>2. QED
        BY <1>1, <2>1, <2>2, <2>3, <3>1
    <2>4. SearchedTo(f, a, d, l)
      BY <1>1, <1>5, <2>1, <2>3 DEF SearchedTo
    <2>5. QED
      BY <1>a, <2>1, <2>4 DEF SearchState
  <1>6. CASE ~d /\ i # S
    <2> DEFINE b == Earlier(a, Nth(l, i))
               h == Before(l, i)
               U == Unit[l]
    <2>1. Look(r, l) = [found |-> TRUE, at |-> b, done |-> h] /\ h \in BOOLEAN
      BY <1>3, <1>6 DEF Before
    <2>2. /\ i \in 0..(S - 1) /\ (~f => Nth(l, i) # {})
          /\ \A j \in 0..(S - 1) : j < i => Nth(l, j) = {}
      <3>1. CASE f
        BY <1>2, <3>1
      <3>2. CASE ~f
        <4>1. i = FirstUsed(l)
          BY <3>2
        <4>2. i \in 0..(S - 1) /\ Nth(l, i) # {} /\ \A j \in 0..(S - 1) : Nth(l, j) # {} => i <= j
          BY <1>0, <1>6, <4>1, FirstUsedIs
        <4> HIDE DEF i
        <4>3. QED
          BY <1>2, <4>2
      <3>3. QED
        BY <3>1, <3>2
    <2>3. f => i = 0
      OBVIOUS
    <2> HIDE DEF i, S
    <2>4. /\ Start(l, i) \in Nat /\ U \in Nat \ {0} /\ Start(l, 0) = Ahead(l)
          /\ \A j \in 0..(S - 1) : i < j => Start(l, i) + U <= Start(l, j)
          /\ l # 5 => /\ Ahead(l + 1) \in Nat /\ Unit[l + 1] \in Nat
                      /\ Start(l, i) + U <= Ahead(l + 1) + Unit[l + 1]
                      /\ h => Start(l, i) + U <= Ahead(l + 1)
      BY <1>0, <2>2, SlotOrder DEF S
    <2>5. ASSUME NEW x \in Nth(l, i)
          PROVE  x \in Words /\ Dist(x) \in Nat /\ Dist(x) < Start(l, i) + U /\ Dist(x) - Dist(a) <= Half - 1
      <3>1. PICK t \in Timers : Counted(t) /\ Placed(t, l, i) /\ x = expires[t]
        BY <1>0, <2>2, <2>5, NthIs DEF S
      <3>2. x \in Words
        BY <1>0, <3>1 DEF WheelTypeOK
      <3>3. Dist(x) \in Nat /\ Dist(x) < Start(l, i) + U
        BY <1>0, <1>2, <2>2, <3>1, PlacedAt, i \in Nat
      <3>4. CASE Dist(a) >= 0
        <4>1. Dist(x) <= Half - 1 /\ Half \in Nat
          BY <1>0, <3>2, DistType, WordFacts
        <4>2. QED
          BY <1>2, <3>2, <3>3, <3>4, <4>1
      <3>5. CASE ~(Dist(a) >= 0)
        <4>1. PICK u \in Timers : Counted(u) /\ a = expires[u]
          BY <1>1, <3>5
        <4>2. QED
          BY <1>0, <3>1, <3>2, <3>3, <4>1, Close
      <3>6. QED
        BY <3>4, <3>5
    <2>6. /\ b \in Nth(l, i) \cup {a} /\ Dist(b) <= Dist(a) /\ \A x \in Nth(l, i) : Dist(b) <= Dist(x)
      <3>1. Nth(l, i) \in SUBSET Words
        BY <2>5
      <3>2. \A x \in Nth(l, i) : Dist(x) >= 0 /\ Dist(x) - Dist(a) <= Half - 1
        BY <2>5
      <3> DEFINE X == Nth(l, i)
      <3>3. /\ Gap(a, timer_jiffies) <= NEXT_TIMER_MAX_DELTA /\ X \in SUBSET Words
            /\ \A x \in X : Gap(x, timer_jiffies) >= 0 /\ Gap(x, timer_jiffies) - Gap(a, timer_jiffies) <= Half - 1
        BY <1>1, <3>1, <3>2 DEF Dist
      <3>4. /\ Earlier(a, X) \in X \cup {a} /\ Gap(Earlier(a, X), timer_jiffies) <= Gap(a, timer_jiffies)
            /\ \A x \in X : Gap(Earlier(a, X), timer_jiffies) <= Gap(x, timer_jiffies)
        <4> HIDE DEF X
        <4>1. QED
          BY <1>0, <1>1, <3>3, EarlierIs
      <3>5. QED
        BY <3>4 DEF Dist
    <2> HIDE DEF b, h
    <2>7. b \in Words /\ Dist(b) \in Int
      <3>1. b \in Words
        BY <1>1, <2>5, <2>6
      <3>2. QED
        BY <1>0, <3>1, DistType
    <2>8. Dist(b) < Start(l, i) + U
      <3>1. CASE f
        <4>1. Dist(a) < Start(l, i) + U
          BY <1>1, <1>6, <2>3, <2>4, <3>1
        <4>2. QED
          BY <1>2, <2>4, <2>6, <2>7, <4>1
      <3>2. CASE ~f
        <4>1. PICK x \in Nth(l, i) : TRUE
          BY <2>2, <3>2
        <4>2. QED
          BY <2>4, <2>5, <2>6, <2>7, <4>1
      <3>3. QED
        BY <3>1, <3>2
    <2>9. Dist(b) <= N
      BY <1>1, <1>2, <2>6, <2>7
    <2>10. Dist(b) >= 0 \/ \E t \in Timers : Counted(t) /\ b = expires[t]
      <3>1. CASE b = a
        BY <1>1, <3>1
      <3>2. CASE b \in Nth(l, i)
        BY <2>5, <3>2
      <3>3. QED
        BY <2>6, <3>1, <3>2
    <2>11. ASSUME Dist(b) > 0, NEW t \in Timers, NEW m \in Levels, NEW j \in Nat,
                  Counted(t), Placed(t, m, j), h \/ m <= l
           PROVE  Dist(b) <= Dist(expires[t])
      <3>0. m \in Nat /\ expires[t] \in Words /\ Dist(expires[t]) \in Int /\ i \in Nat
        <4>1. expires[t] \in Words
          BY <1>0 DEF WheelTypeOK
        <4>2. m \in Nat /\ i \in Nat
          BY <1>2, <2>2 DEF Levels
        <4>3. QED
          BY <1>0, <4>1, <4>2, DistType
      <3>1. CASE m < l
        <4>1. f
          <5>1. m \in 1..(l - 1)
            BY <1>0, <3>0, <3>1 DEF Levels
          <5>2. QED
            BY <1>1, <2>11, <5>1
        <4>2. Dist(a) > 0 /\ m <= l - 1
          BY <1>0, <1>2, <2>6, <2>7, <2>11, <3>0, <3>1
        <4>3. Dist(a) <= Dist(expires[t])
          BY <1>1, <2>11, <4>1, <4>2
        <4>4. QED
          BY <1>2, <2>6, <2>7, <3>0, <4>3
      <3>2. CASE m = l
        <4>1. Placed(t, l, j) /\ j \in 0..(S - 1)
          BY <2>11, <3>2 DEF Placed, S
        <4>2. expires[t] \in Nth(l, j)
          BY <1>0, <2>11, <4>1, NthIs DEF S
        <4>3. ~(j < i)
          BY <2>2, <4>1, <4>2
        <4>4. CASE j = i
          BY <2>6, <4>2, <4>4
        <4>5. CASE i < j
          <5>1. Start(l, j) \in Nat /\ Start(l, j) <= Dist(expires[t])
            BY <1>0, <4>1, PlacedAt
          <5>2. QED
            BY <2>4, <2>7, <2>8, <3>0, <4>1, <4>5, <5>1
        <4>6. QED
          BY <3>0, <4>3, <4>4, <4>5
      <3>3. CASE m > l
        <4>1. h /\ l # 5 /\ l < m
          BY <1>0, <2>11, <3>0, <3>3 DEF Levels
        <4>2. Ahead(l + 1) <= Ahead(m)
          BY <1>0, <4>1, HigherUp
        <4>3. m # 1 /\ j \in 0..(Size[m] - 1)
          BY <1>0, <2>11, <3>0, <3>3 DEF Placed
        <4>4. Start(m, j) >= Ahead(m) /\ Ahead(m) \in Nat
          BY <1>0, <4>3, SlotOrder
        <4>5. Start(m, j) <= Dist(expires[t]) /\ Start(m, j) \in Nat
          BY <1>0, <2>11, <4>3, PlacedAt
        <4>6. Start(l, i) + U <= Ahead(l + 1) /\ Ahead(l + 1) \in Nat
          BY <2>4, <4>1
        <4>7. QED
          BY <2>4, <2>7, <2>8, <3>0, <4>2, <4>4, <4>5, <4>6
      <3>4. QED
        BY <1>0, <3>0, <3>1, <3>2, <3>3
    <2>12. l = 5 \/ Dist(b) < Ahead(l + 1) + Unit[l + 1]
      BY <2>4, <2>7, <2>8
    <2>13. SearchedTo(TRUE, b, h, l)
      BY <2>7, <2>9, <2>10, <2>11, <2>12 DEF SearchedTo
    <2>14. QED
      BY <2>1, <2>7, <2>13 DEF SearchState
  <1>7. QED
    BY <1>4, <1>5, <1>6

(* The search of tv1. *)
LEMMA FirstLook ==
  ASSUME Horizon, NEW e \in FirstInTv1
  PROVE  SearchState(IF e # NULL
           THEN [found |-> TRUE, at |-> e, done |-> Before(1, FirstUsed(1))]
           ELSE [found |-> FALSE, at |-> (timer_jiffies + NEXT_TIMER_MAX_DELTA) % Word, done |-> FALSE], 1)
  <1> DEFINE N == NEXT_TIMER_MAX_DELTA
             i == FirstUsed(1)
             S == Size[1]
             h == Before(1, i)
  <1>0. /\ 1 \in Levels /\ WheelTypeOK /\ Filed /\ Near /\ LagBound /\ timer_jiffies \in Words
        /\ timer_jiffies \in Int
    BY WordFacts DEF Levels, Horizon, WheelTypeOK, Words
  <1>1. N \in Nat /\ Half \in Nat /\ Half = 2 * N + 2 /\ S \in Nat \ {0} /\ S - 1 <= N /\ Unit[1] = 1
    BY WordFacts, Units, 1 \in 1..5
  <1>2. CASE i = S
    <2> DEFINE a == (timer_jiffies + NEXT_TIMER_MAX_DELTA) % Word
    <2>1. e = NULL
      BY <1>2 DEF FirstInTv1
    <2>2. a \in Words /\ Dist(a) = N
      <3>1. NEXT_TIMER_MAX_DELTA \in (-Half)..(Half - 1)
        BY <1>1
      <3>2. QED
        BY <1>0, <3>1, GapSum DEF Dist
    <2>3. ASSUME NEW t \in Timers, NEW l \in 1..1, NEW j \in Nat, Counted(t), Placed(t, l, j) PROVE FALSE
      <3>1. l = 1
        OBVIOUS
      <3>2. j \in 0..(S - 1)
        BY <2>3, <3>1 DEF Placed
      <3>3. Nth(1, j) # {}
        BY <1>0, <2>3, <3>1, <3>2, NthIs
      <3>4. i <= j
        BY <1>0, <3>2, <3>3, FirstUsedIs
      <3>5. QED
        BY <1>1, <1>2, <3>2, <3>4
    <2> HIDE DEF a
    <2>4. SearchedTo(FALSE, a, FALSE, 1)
      <3>1. Dist(a) <= N /\ Dist(a) >= 0
        BY <1>1, <2>2
      <3>2. QED
        BY <2>2, <2>3, <3>1 DEF SearchedTo
    <2>5. QED
      BY <2>1, <2>2, <2>4 DEF a, SearchState
  <1>3. CASE i # S
    <2>1. e \in Nth(1, i) /\ i \in 0..(S - 1) /\ \A j \in 0..(S - 1) : Nth(1, j) # {} => i <= j
      BY <1>0, <1>3, FirstUsedIs DEF FirstInTv1
    <2> HIDE DEF i
    <2>2. PICK t \in Timers : Counted(t) /\ Placed(t, 1, i) /\ e = expires[t]
      BY <1>0, <2>1, NthIs
    <2>3. e \in Words /\ e # NULL /\ h \in BOOLEAN
      BY <1>0, <2>2, NullAssumption DEF WheelTypeOK, Before
    <2>4. Dist(e) \in Int
      BY <1>0, <2>3, DistType
    <2>5. Start(1, i) = i /\ i \in Nat
      <3>1. Ahead(1) = 0
        BY <1>0, CascadeTimes
      <3>2. i \in Nat
        BY <1>1, <2>1
      <3>3. QED
        BY <1>1, <3>1, <3>2 DEF Start
    <2>6. Dist(e) = i \/ Dist(e) < 0
      <3>1. Dist(e) < 0 \/ Dist(e) - i \in 0..(1 - 1)
        BY <1>1, <2>2, <2>5 DEF Placed
      <3>2. QED
        BY <2>4, <2>5, <3>1
    <2>7. Dist(e) <= N
      BY <1>1, <2>1, <2>4, <2>5, <2>6
    <2>8. /\ Unit[2] \in Nat /\ Ahead(2) \in Nat /\ i + 1 <= Ahead(2) + Unit[2] /\ (h => i + 1 <= Ahead(2))
      <3>1. /\ 1 # 5 /\ 1 + 1 = 2
        OBVIOUS
      <3>2. /\ Ahead(1 + 1) \in Nat /\ Unit[1 + 1] \in Nat
            /\ Start(1, i) + Unit[1] <= Ahead(1 + 1) + Unit[1 + 1]
            /\ Before(1, i) => Start(1, i) + Unit[1] <= Ahead(1 + 1)
        BY <1>0, <2>1, <3>1, SlotOrder
      <3>3. QED
        BY <1>1, <2>5, <3>1, <3>2
    <2> HIDE DEF h
    <2>9. ASSUME Dist(e) > 0, NEW u \in Timers, NEW m \in Levels, NEW j \in Nat,
                 Counted(u), Placed(u, m, j), h \/ m <= 1
          PROVE  Dist(e) <= Dist(expires[u])
      <3>0. m \in Nat /\ m >= 1 /\ Dist(e) = i /\ i > 0
        <4>1. m \in Nat /\ m >= 1
          BY DEF Levels
        <4>2. QED
          BY <2>4, <2>5, <2>6, <2>9, <4>1
      <3>1. CASE m = 1
        <4>1. Placed(u, 1, j) /\ j \in 0..(S - 1)
          BY <2>9, <3>1 DEF Placed
        <4>2. expires[u] \in Nth(1, j)
          BY <1>0, <2>9, <4>1, NthIs
        <4>3. i <= j
          BY <2>1, <4>1, <4>2
        <4>4. j # 0
          BY <2>5, <3>0, <4>3
        <4>5. Start(1, j) <= Dist(expires[u]) /\ Dist(expires[u]) \in Nat
          BY <1>0, <4>1, <4>4, PlacedAt
        <4>6. Start(1, j) = j
          <5>1. Ahead(1) = 0
            BY <1>0, CascadeTimes
          <5>2. QED
            BY <1>1, <5>1 DEF Start
        <4>7. QED
          BY <2>5, <3>0, <4>3, <4>5, <4>6
      <3>2. CASE m # 1
        <4>1. h /\ 1 < m
          BY <2>9, <3>0, <3>2
        <4>2. Ahead(2) <= Ahead(m)
          <5>1. 1 + 1 = 2
            OBVIOUS
          <5>2. QED
            BY <1>0, <4>1, <5>1, HigherUp
        <4>3. j \in 0..(Size[m] - 1)
          BY <2>9 DEF Placed
        <4>4. Start(m, j) >= Ahead(m) /\ Ahead(m) \in Nat
          BY <1>0, <4>3, SlotOrder
        <4>5. Start(m, j) <= Dist(expires[u]) /\ Start(m, j) \in Nat /\ Dist(expires[u]) \in Nat
          BY <1>0, <2>9, <3>2, PlacedAt
        <4>6. QED
          BY <2>5, <2>8, <3>0, <4>1, <4>2, <4>4, <4>5
      <3>3. QED
        BY <3>1, <3>2
    <2>10. Dist(e) < Ahead(1 + 1) + Unit[1 + 1]
      <3>1. Dist(e) < Ahead(2) + Unit[2]
        BY <2>4, <2>5, <2>6, <2>8
      <3>2. QED
        BY <3>1, 1 + 1 = 2
    <2>11. SearchedTo(TRUE, e, h, 1)
      BY <2>2, <2>3, <2>7, <2>9, <2>10 DEF SearchedTo
    <2>12. QED
      BY <2>3, <2>11 DEF h, i, SearchState
  <1>4. QED
    BY <1>2, <1>3

(* The result of __next_timer_interrupt(): no timer that counts is before  *)
(* it unless it is not in the future.                                      *)
LEMMA SearchResult ==
  ASSUME Horizon, NEW e \in FirstInTv1
  PROVE  LET a == next_timer_interrupt(e)
         IN  /\ a \in Words /\ Dist(a) <= NEXT_TIMER_MAX_DELTA
             /\ Dist(a) >= 0 \/ \E t \in Timers : Counted(t) /\ a = expires[t]
             /\ Dist(a) > 0 => \A t \in Timers : Counted(t) => Dist(a) <= Dist(expires[t])
  <1> DEFINE r == IF e # NULL
                    THEN [found |-> TRUE, at |-> e, done |-> Before(1, FirstUsed(1))]
                    ELSE [found |-> FALSE, at |-> (timer_jiffies + NEXT_TIMER_MAX_DELTA) % Word,
                          done |-> FALSE]
  <1>1. SearchState(r, 1)
    BY FirstLook
  <1> DEFINE x2 == Look(r, 2)
             x3 == Look(x2, 3)
             x4 == Look(x3, 4)
             x5 == Look(x4, 5)
  <1> HIDE DEF r
  <1>3. SearchState(x2, 2)
    BY <1>1, LookOn, 2 \in 2..5, 1 \in 1..4, 1 = 2 - 1
  <1>4. SearchState(x3, 3)
    <2> HIDE DEF x2
    <2>1. QED
      BY <1>3, LookOn, 3 \in 2..5, 2 \in 1..4, 2 = 3 - 1
  <1>5. SearchState(x4, 4)
    <2> HIDE DEF x3
    <2>1. QED
      BY <1>4, LookOn, 4 \in 2..5, 3 \in 1..4, 3 = 4 - 1
  <1>6. SearchState(x5, 5)
    <2> HIDE DEF x4
    <2>1. QED
      BY <1>5, LookOn, 5 \in 2..5, 4 \in 1..4, 4 = 5 - 1
  <1>7. next_timer_interrupt(e) = x5.at
    BY DEF next_timer_interrupt, r
  <1> HIDE DEF x5
  <1>8. PICK f \in BOOLEAN, d \in BOOLEAN, a \in Words : x5 = [found |-> f, at |-> a, done |-> d] /\ SearchedTo(f, a, d, 5)
    BY <1>6 DEF SearchState
  <1>9. next_timer_interrupt(e) = a
    BY <1>7, <1>8
  <1>10. ASSUME Dist(a) > 0, NEW t \in Timers, Counted(t) PROVE Dist(a) <= Dist(expires[t])
    <2>1. WheelTypeOK /\ FiledAt(at[t], expires[t], timer_jiffies)
      BY <1>10 DEF Horizon, Filed, Counted
    <2>2. PICK l \in Levels : \E i \in 0..(Size[l] - 1) : Placed(t, l, i)
      BY <2>1, HasSlot
    <2>3. PICK i \in 0..(Size[l] - 1) : Placed(t, l, i)
      BY <2>2
    <2>4. i \in Nat /\ l \in 1..5 /\ l <= 5
      BY Units DEF Levels
    <2>5. QED
      BY <1>8, <1>10, <2>3, <2>4 DEF SearchedTo
  <1>11. QED
    BY <1>8, <1>9, <1>10 DEF SearchedTo

-----------------------------------------------------------------------------
NotBefore(n) == \A t \in Timers : Counted(t) => Dist(expires[t]) >= n

(* The same of the timers of which a CPU that sleeps has been told. *)
ToldNotBefore(n) == \A t \in Timers : Counted(t) /\ t \notin unkicked => Dist(expires[t]) >= n

(* next_timer is not after the first timer, unless the base has passed it, *)
(* and is recent enough to be compared with the timers.                    *)
NextBound ==
  /\ Dist(next_timer) <= NEXT_TIMER_MAX_DELTA
  /\ Lag - Dist(next_timer) <= Reach
  /\ Dist(next_timer) > 0 => NotBefore(Dist(next_timer))

(* A CPU that sleeps wakes up before the first timer it has been told of.  *)
(* If it has no event, there is none.                                      *)
SleepBound ==
  /\ tick # "stopped" => unkicked = {}
  /\ tick = "stopped" =>
       /\ Dist(next_timer) >= -MaxLate - 1
       /\ wake = NULL => \A t \in Timers : Counted(t) => t \in unkicked
       /\ wake # NULL => /\ Dist(wake) \in 0..NEXT_TIMER_MAX_DELTA /\ Lag - 1 <= Dist(wake)
                         /\ Dist(wake) = 0 \/ ToldNotBefore(Dist(wake))

WheelInvariant == Horizon /\ NextBound /\ SleepBound

(* The numbers. *)
LEMMA Nums ==
  /\ NEXT_TIMER_MAX_DELTA \in Nat /\ NEXT_TIMER_MAX_DELTA >= 7 /\ Half = 2 * NEXT_TIMER_MAX_DELTA + 2
  /\ Half \in Nat /\ Word = 2 * Half /\ Word \in Nat \ {0}
  /\ MaxLag \in Nat /\ MaxLag >= 1 /\ MaxLag <= NEXT_TIMER_MAX_DELTA
  /\ MaxLate \in Nat /\ MaxSleep \in Nat /\ MaxSleep >= NEXT_TIMER_MAX_DELTA + 1
  /\ Reach \in Nat /\ Reach = MaxLate + MaxSleep + MaxLag /\ Reach <= Half - 1
  BY WordFacts, Callers

(* Lag is the distance of jiffies. *)
LEMMA LagGap ==
  ASSUME NEW j \in Words, NEW c \in Words
  PROVE  /\ (j + 1 - c) % Word <= Half - 1 => Gap(j, c) = ((j + 1 - c) % Word) - 1
         /\ Gap(j, c) \in -1..(Half - 2) => (j + 1 - c) % Word = Gap(j, c) + 1
  <1> DEFINE d == (j + 1 - c) % Word
             q == (j + 1 - c) \div Word
             z == Gap(j, c)
  <1>0. j \in Int /\ c \in Int /\ j + 1 - c \in Int /\ Word \in Nat \ {0} /\ Half \in Nat /\ Word = 2 * Half
    BY WordFacts DEF Words
  <1>1. d \in 0..(Word - 1) /\ q \in Int /\ j + 1 - c = Word * q + d
    BY <1>0, ModRange
  <1>2. PICK p \in Int : j = c + z + Word * p
    BY <1>0, GapType
  <1> SUFFICES (d <= Half - 1 => z = d - 1) /\ (z \in -1..(Half - 2) => d = z + 1)
    OBVIOUS
  <1>3. d <= Half - 1 => z = d - 1
    <2>1. SUFFICES ASSUME d <= Half - 1 PROVE Gap(j, c) = d - 1
      OBVIOUS
    <2> HIDE DEF d, q, z
    <2>2. d - 1 \in (-Half)..(Half - 1) /\ j = c + (d - 1) + Word * q
      <3>1. Half >= 1
        BY WordFacts
      <3>2. QED
        BY <1>0, <1>1, <2>1, <3>1
    <2>3. QED
      BY <1>0, <1>1, <2>2, GapIs
  <1>4. z \in -1..(Half - 2) => d = z + 1
    <2>1. SUFFICES ASSUME z \in -1..(Half - 2) PROVE (j + 1 - c) % Word = z + 1
      OBVIOUS
    <2> HIDE DEF d, q, z
    <2>2. z + 1 \in 0..(Word - 1) /\ j + 1 - c = Word * p + (z + 1)
      BY <1>0, <1>2, <2>1
    <2> DEFINE y == z + 1
               x == j + 1 - c
    <2>3. y \in 0..(Word - 1) /\ x = Word * p + y /\ x \in Int
      BY <1>0, <2>2
    <2> HIDE DEF y, x
    <2>4. x % Word = y
      BY <1>0, <2>3, ModUnique
    <2>5. QED
      BY <2>4 DEF x, y
  <1>5. QED
    BY <1>3, <1>4

(* What holds of jiffies in a state of the invariant. *)
LEMMA JiffiesDist ==
  ASSUME WheelTypeOK, LagBound
  PROVE  Dist(jiffies) = Lag - 1 /\ Lag \in Nat
  <1>1. jiffies \in Words /\ timer_jiffies \in Words
    BY DEF WheelTypeOK
  <1>2. Lag \in Nat /\ Lag <= Half - 1
    BY LagType, Nums DEF LagBound
  <1>3. QED
    BY <1>1, <1>2, LagGap DEF Lag, Dist

(* Two times that the code compares, by their distances. *)
LEMMA Apart ==
  ASSUME NEW a \in Words, NEW b \in Words, NEW c \in Words,
         Gap(a, c) - Gap(b, c) <= Half - 1, Gap(a, c) - Gap(b, c) >= -Half
  PROVE  Gap(a, b) = Gap(a, c) - Gap(b, c)
  <1>1. a \in Int /\ b \in Int /\ c \in Int
    BY WordFacts DEF Words
  <1>2. Gap(a, c) - Gap(b, c) \in (-Half)..(Half - 1)
    <2>1. Gap(a, c) \in (-Half)..(Half - 1) /\ Gap(b, c) \in (-Half)..(Half - 1)
      BY <1>1, GapType
    <2>2. QED
      BY <2>1, WordFacts
  <1>3. QED
    BY <1>1, <1>2, GapDiff

(* The distance of a time that was computed from jiffies. *)
LEMMA ArmedDist ==
  ASSUME WheelTypeOK, LagBound, NEW e \in Words, NEW y \in Int, e = (jiffies + y) % Word,
         -MaxLate <= y, y <= Half - Reach - 1
  PROVE  Dist(e) = Lag - 1 + y
  <1> DEFINE g == Dist(jiffies)
  <1>0. /\ jiffies \in Words /\ timer_jiffies \in Words /\ jiffies \in Int /\ timer_jiffies \in Int /\ e \in Int
    BY WordFacts DEF WheelTypeOK, Words
  <1>1. g = Lag - 1 /\ Lag \in Nat /\ Lag <= MaxSleep
    BY JiffiesDist DEF LagBound
  <1>2. PICK p \in Int : jiffies = timer_jiffies + g + Word * p
    BY <1>0, GapType DEF Dist
  <1>3. PICK q \in Int : jiffies + y = Word * q + e
    BY <1>0, WordFacts, ModRange, jiffies + y \in Int
  <1>4. /\ MaxLag \in Nat /\ MaxLag >= 1 /\ Half \in Nat /\ Word \in Nat /\ MaxLate \in Nat /\ MaxSleep \in Nat
        /\ Reach = MaxLate + MaxSleep + MaxLag /\ Reach <= Half - 1
    BY Nums
  <1> HIDE DEF g
  <1>5. e = timer_jiffies + (g + y) + Word * (p - q) /\ p - q \in Int
    <2>1. Word * (p - q) = Word * p - Word * q
      BY <1>4
    <2>2. QED
      BY <1>0, <1>1, <1>2, <1>3, <1>4, <2>1
  <1>6. g + y \in (-Half)..(Half - 1)
    BY <1>1, <1>4
  <1>7. Gap(e, timer_jiffies) = g + y
    BY <1>0, <1>5, <1>6, GapIs
  <1>8. QED
    BY <1>1, <1>7 DEF Dist

(* next_timer when a timer has left: a lower bound of the others. *)
LEMMA NextWithout ==
  ASSUME WheelInvariant, NEW t \in Timers
  PROVE  /\ next_without(t) \in Words /\ Dist(next_without(t)) <= NEXT_TIMER_MAX_DELTA
         /\ Lag - Dist(next_without(t)) <= Reach
         /\ Dist(next_without(t)) > 0 => NotBefore(Dist(next_without(t)))
         /\ Dist(next_timer) >= -MaxLate - 1 => Dist(next_without(t)) >= -MaxLate - 1
  <1>0. WheelTypeOK /\ NextBound /\ LagBound /\ Lag \in Nat
    BY LagType DEF WheelInvariant, Horizon
  <1>1. CASE next_without(t) = next_timer
    BY <1>0, <1>1 DEF NextBound, WheelTypeOK
  <1>2. CASE next_without(t) = timer_jiffies
    <2>1. timer_jiffies \in Words /\ timer_jiffies \in Int
      BY <1>0, WordFacts DEF WheelTypeOK, Words
    <2>2. Dist(timer_jiffies) = 0
      <3>1. 0 \in (-Half)..(Half - 1)
        BY Nums
      <3>2. timer_jiffies = timer_jiffies + 0 + Word * 0
        BY <2>1, Nums
      <3>3. QED
        BY <2>1, <3>1, <3>2, GapIs DEF Dist
    <2>3. QED
      BY <1>0, <1>2, <2>1, <2>2, Nums DEF LagBound
  <1>3. QED
    BY <1>1, <1>2 DEF next_without

(* A timer is armed: __mod_timer(), add_timer_on(). *)
LEMMA AddKeeps ==
  ASSUME WheelInvariant, NEW t \in Timers, NEW o \in Offsets, NEW e,
         \/ e = (jiffies + o) % Word
         \/ \E s \in Slacks : e = apply_slack((jiffies + o) % Word, s, jiffies),
         Add(t, e), UNCHANGED <<jiffies, timer_jiffies, deferrable>>,
         wake' \in Words \cup {NULL}, moving' \subseteq Timers,
         \/ tick' \in {"on", "irq"} /\ unkicked' = {}
         \/ tick = "stopped" /\ UNCHANGED <<tick, wake>> /\ unkicked' = unkicked \cup {t}
  PROVE  WheelInvariant'
  <1> DEFINE N == NEXT_TIMER_MAX_DELTA
             z == Dist(e)
             L == Lag
             a == IF Pending(t) THEN next_without(t) ELSE next_timer
  <1>0. /\ WheelTypeOK /\ Filed /\ Near /\ NextBound /\ LagBound
        /\ jiffies \in Words /\ timer_jiffies \in Words
    BY DEF WheelInvariant, Horizon, WheelTypeOK
  <1>1. PICK y \in Int : e = (jiffies + y) % Word /\ -MaxLate <= y /\ y <= Half - Reach - 1
    BY <1>0, Armed
  <1>2. e \in Words
    <2>1. jiffies + y \in Int
      BY <1>0, WordFacts DEF Words
    <2>2. QED
      BY <1>1, <2>1, ModRange, WordFacts DEF Words
  <1>3. /\ N \in Nat /\ N >= 7 /\ Half = 2 * N + 2 /\ MaxLag \in Nat /\ MaxLag >= 1 /\ MaxLag <= N
        /\ MaxLate \in Nat /\ MaxSleep \in Nat /\ MaxSleep >= N + 1
        /\ Reach = MaxLate + MaxSleep + MaxLag /\ Reach <= Half - 1
        /\ L \in Nat /\ L <= MaxSleep /\ z = L - 1 + y /\ z \in Int
    <2>1. z = L - 1 + y
      BY <1>0, <1>1, <1>2, ArmedDist
    <2>2. QED
      BY <1>0, <1>2, <2>1, Nums, LagType, DistType DEF LagBound
  <1>4. z \in (-MaxLate - 1)..(Half - Reach - 2 + L) /\ L - z <= Reach
    <2> HIDE DEF z, L, N
    <2>1. QED
      BY <1>1, <1>3
  <1>5. LET p == internal_add_timer(e, timer_jiffies) IN p \in Slots /\ FiledAt(p, e, timer_jiffies)
    <2>1. Gap(e, timer_jiffies) \in Int
      BY <1>3 DEF Dist
    <2>2. QED
      BY <1>0, <1>2, <2>1, AddFiles DEF FiledAt
  <1>6. /\ at' = [at EXCEPT ![t] = internal_add_timer(e, timer_jiffies)]
        /\ expires' = [expires EXCEPT ![t] = e]
        /\ next_timer' = next_with(t, e, a)
        /\ jiffies' = jiffies /\ timer_jiffies' = timer_jiffies /\ deferrable' = deferrable
    BY DEF Add
  <1>7. /\ a \in Words /\ Dist(a) <= N /\ L - Dist(a) <= Reach /\ Dist(a) \in Int
        /\ Dist(a) > 0 => NotBefore(Dist(a))
    <2>1. a \in Words
      BY <1>0, NextWithout DEF WheelTypeOK
    <2>2. CASE Pending(t)
      BY <1>0, <2>1, <2>2, NextWithout, DistType
    <2>3. CASE ~Pending(t)
      BY <1>0, <2>1, <2>3, DistType DEF NextBound
    <2>4. QED
      BY <2>2, <2>3
  <1>8. /\ at'[t] = internal_add_timer(e, timer_jiffies) /\ expires'[t] = e
        /\ \A u \in Timers \ {t} : at'[u] = at[u] /\ expires'[u] = expires[u]
        /\ at' \in [Timers -> Slots \cup {NULL}] /\ expires' \in [Timers -> Words]
    BY <1>0, <1>2, <1>5, <1>6 DEF WheelTypeOK
  <1> HIDE DEF a
  <1>9. time_before(e, a) <=> z < Dist(a)
    <2>1. z - Dist(a) <= Half - 1 /\ z - Dist(a) >= -Half
      <3> HIDE DEF z, L, N
      <3>1. QED
        BY <1>3, <1>4, <1>7
    <2>2. Gap(e, a) = z - Dist(a)
      BY <1>0, <1>2, <1>7, <2>1, Apart DEF Dist
    <2>3. e \in Int /\ a \in Int
      BY <1>2, <1>7, WordFacts DEF Words
    <2>4. time_before(e, a) <=> Gap(e, a) < 0
      BY <2>3, Compare
    <2> HIDE DEF z
    <2>5. QED
      BY <1>3, <1>7, <2>2, <2>4
  <1>10. Lag' = L /\ \A x : Gap(x, timer_jiffies') = Gap(x, timer_jiffies)
    BY <1>6 DEF Lag
  <1>11. WheelTypeOK'
    <2>1. next_timer' \in Words
      BY <1>2, <1>6, <1>7 DEF next_with
    <2>2. tick' \in {"on", "stopped", "irq"} /\ unkicked' \subseteq Timers
      BY <1>0 DEF WheelTypeOK
    <2>3. QED
      BY <1>0, <1>6, <1>8, <2>1, <2>2 DEF WheelTypeOK
  <1>12. Filed'
    <2>1. ASSUME NEW u \in Timers, Pending(u)' PROVE FiledAt(at'[u], expires'[u], timer_jiffies')
      <3>1. CASE u = t
        BY <1>5, <1>6, <1>8, <3>1
      <3>2. CASE u # t
        BY <1>0, <1>6, <1>8, <2>1, <3>2 DEF Filed, Pending
      <3>3. QED
        BY <3>1, <3>2
    <2>2. QED
      BY <2>1 DEF Filed
  <1>13. Near'
    <2>1. ASSUME NEW u \in Timers, Pending(u)'
          PROVE  Gap(expires'[u], timer_jiffies') \in (-MaxLate - 1)..(Half - Reach - 2 + Lag')
      <3>1. CASE u = t
        BY <1>4, <1>8, <1>10, <3>1 DEF Dist
      <3>2. CASE u # t
        BY <1>0, <1>8, <1>10, <2>1, <3>2 DEF Near, Pending, Dist
      <3>3. QED
        BY <3>1, <3>2
    <2>2. QED
      BY <2>1 DEF Near, Dist
  <1> DEFINE b == next_timer'
  <1>15. /\ b \in Words /\ Dist(b) <= N /\ L - Dist(b) <= Reach
         /\ Dist(b) > 0 => \A u \in Timers : Counted(u)' => Gap(expires'[u], timer_jiffies) >= Dist(b)
    <2>1. CASE z < Dist(a) /\ t \notin deferrable
      <3>1. b = e
        BY <1>6, <1>9, <2>1 DEF next_with
      <3>2. z <= N /\ L - z <= Reach
        <4> HIDE DEF z, L, N
        <4>1. QED
          BY <1>3, <1>4, <1>7, <2>1
      <3>3. ASSUME z > 0, NEW u \in Timers, Counted(u)' PROVE Gap(expires'[u], timer_jiffies) >= z
        <4>1. CASE u = t
          <5>1. Gap(expires'[u], timer_jiffies) = z
            BY <1>8, <4>1 DEF Dist
          <5>2. QED
            BY <1>3, <5>1
        <4>2. CASE u # t
          <5>1. Counted(u) /\ expires'[u] = expires[u]
            BY <1>6, <1>8, <3>3, <4>2 DEF Counted, Pending
          <5>2. Dist(a) > 0
            BY <1>3, <1>7, <2>1, <3>3
          <5>3. Dist(expires[u]) >= Dist(a) /\ Dist(expires[u]) \in Int
            BY <1>0, <1>7, <5>1, <5>2, DistType DEF NotBefore, WheelTypeOK
          <5>4. Dist(expires[u]) >= z
            <6> HIDE DEF z
            <6>1. QED
              BY <1>3, <1>7, <2>1, <5>3
          <5>5. QED
            BY <5>1, <5>4 DEF Dist
        <4>3. QED
          BY <4>1, <4>2
      <3> HIDE DEF z, L, N, b
      <3>4. Dist(b) = z
        BY <3>1 DEF z
      <3>5. QED
        BY <1>2, <3>1, <3>2, <3>3, <3>4
    <2>2. CASE ~(z < Dist(a) /\ t \notin deferrable)
      <3>1. b = a
        BY <1>6, <1>9, <2>2 DEF next_with
      <3>2. ASSUME Dist(a) > 0, NEW u \in Timers, Counted(u)' PROVE Gap(expires'[u], timer_jiffies) >= Dist(a)
        <4>1. CASE u = t
          <5>1. Gap(expires'[u], timer_jiffies) = z /\ t \notin deferrable
            BY <1>6, <1>8, <3>2, <4>1 DEF Dist, Counted
          <5> HIDE DEF z
          <5>2. QED
            BY <1>3, <1>7, <2>2, <5>1
        <4>2. CASE u # t
          <5>1. Counted(u) /\ expires'[u] = expires[u]
            BY <1>6, <1>8, <3>2, <4>2 DEF Counted, Pending
          <5>2. QED
            BY <1>7, <3>2, <5>1 DEF NotBefore, Dist
        <4>3. QED
          BY <4>1, <4>2
      <3> HIDE DEF z, L, N, b
      <3>3. QED
        BY <1>7, <3>1, <3>2
    <2>3. QED
      BY <2>1, <2>2
  <1>16. NextBound'
    <2>1. Gap(b, timer_jiffies') = Dist(b)
      BY <1>10 DEF Dist
    <2>2. \A u \in Timers : Gap(expires'[u], timer_jiffies') = Gap(expires'[u], timer_jiffies)
      BY <1>10
    <2>3. QED
      BY <1>10, <1>15, <2>1, <2>2 DEF NextBound, NotBefore, Dist
  <1>17. SleepBound'
    <2>1. CASE tick' \in {"on", "irq"} /\ unkicked' = {}
      BY <2>1 DEF SleepBound
    <2>2. CASE tick = "stopped" /\ UNCHANGED <<tick, wake>> /\ unkicked' = unkicked \cup {t}
      <3>0. SleepBound
        BY DEF WheelInvariant
      <3>1. SleepBound /\ Dist(a) >= -MaxLate - 1
        <4>1. Dist(next_timer) >= -MaxLate - 1
          BY <2>2, <3>0 DEF SleepBound
        <4>2. QED
          BY <3>0, <4>1, NextWithout DEF a
      <3>2. ASSUME NEW u \in Timers, Counted(u)', u \notin unkicked'
            PROVE  Counted(u) /\ u \notin unkicked /\ expires'[u] = expires[u]
        BY <1>6, <1>8, <2>2, <3>2 DEF Counted, Pending
      <3>3. Gap(b, timer_jiffies') >= -MaxLate - 1
        <4>1. b = e \/ b = a
          BY <1>6 DEF next_with
        <4>2. Gap(b, timer_jiffies') = Dist(b)
          BY <1>10 DEF Dist
        <4>3. CASE b = e
          <5>1. Dist(b) = z
            BY <4>3
          <5> HIDE DEF z, L, b
          <5>2. QED
            BY <1>3, <1>4, <4>2, <5>1
        <4>4. CASE b = a
          BY <3>1, <4>2, <4>4
        <4>5. QED
          BY <4>1, <4>3, <4>4
      <3>4. wake' = NULL => \A u \in Timers : Counted(u)' => u \in unkicked'
        BY <2>2, <3>1, <3>2 DEF SleepBound
      <3>5. wake' # NULL => /\ Gap(wake', timer_jiffies') \in 0..NEXT_TIMER_MAX_DELTA
                            /\ Lag' - 1 <= Gap(wake', timer_jiffies')
                            /\ \/ Gap(wake', timer_jiffies') = 0
                               \/ \A u \in Timers : Counted(u)' /\ u \notin unkicked' =>
                                    Gap(expires'[u], timer_jiffies') >= Gap(wake', timer_jiffies')
        <4>1. SUFFICES ASSUME wake # NULL
                       PROVE  /\ Dist(wake) \in 0..NEXT_TIMER_MAX_DELTA /\ Lag - 1 <= Dist(wake)
                              /\ \/ Dist(wake) = 0
                                 \/ \A u \in Timers : Counted(u)' /\ u \notin unkicked' =>
                                      Gap(expires'[u], timer_jiffies) >= Dist(wake)
          BY <1>10, <2>2 DEF Dist
        <4>2. /\ Dist(wake) \in 0..NEXT_TIMER_MAX_DELTA /\ Lag - 1 <= Dist(wake)
              /\ Dist(wake) = 0 \/ ToldNotBefore(Dist(wake))
          BY <2>2, <3>1, <4>1 DEF SleepBound
        <4>3. ASSUME ToldNotBefore(Dist(wake)), NEW u \in Timers, Counted(u)', u \notin unkicked'
              PROVE  Gap(expires'[u], timer_jiffies) >= Dist(wake)
          <5>1. Counted(u) /\ u \notin unkicked /\ expires'[u] = expires[u]
            BY <3>2, <4>3
          <5>2. Dist(expires[u]) >= Dist(wake)
            BY <4>3, <5>1 DEF ToldNotBefore
          <5>3. QED
            BY <5>1, <5>2 DEF Dist
        <4>4. QED
          BY <4>2, <4>3
      <3>6. QED
        BY <2>2, <3>3, <3>4, <3>5 DEF SleepBound, ToldNotBefore, Dist
    <2>3. QED
      BY <2>1, <2>2
  <1>18. LagBound'
    BY <1>0, <1>10 DEF LagBound
  <1>19. QED
    BY <1>11, <1>12, <1>13, <1>16, <1>17, <1>18 DEF WheelInvariant, Horizon

(* A timer is deleted. *)
LEMMA DelKeeps ==
  ASSUME WheelInvariant, NEW t \in Timers, del_timer(t)
  PROVE  WheelInvariant'
  <1>0. /\ WheelTypeOK /\ Filed /\ Near /\ NextBound /\ SleepBound /\ LagBound
        /\ jiffies \in Words /\ timer_jiffies \in Words
    BY DEF WheelInvariant, Horizon, WheelTypeOK
  <1>1. /\ at' = [at EXCEPT ![t] = NULL] /\ expires' = [expires EXCEPT ![t] = 0]
        /\ next_timer' = next_without(t) /\ jiffies' = jiffies /\ timer_jiffies' = timer_jiffies
        /\ deferrable' = deferrable /\ tick' = tick /\ wake' = wake /\ moving' = moving
        /\ unkicked' = unkicked \ {t}
    BY DEF del_timer
  <1>2. /\ \A u \in Timers : Pending(u)' => u # t /\ Pending(u) /\ at'[u] = at[u] /\ expires'[u] = expires[u]
        /\ \A u \in Timers : Counted(u)' => Counted(u) /\ u # t /\ expires'[u] = expires[u]
    BY <1>0, <1>1 DEF WheelTypeOK, Pending, Counted
  <1>3. Lag' = Lag /\ \A x : Gap(x, timer_jiffies') = Gap(x, timer_jiffies)
    BY <1>1 DEF Lag
  <1>4. WheelTypeOK'
    <2>1. 0 \in Words
      BY Nums DEF Words
    <2>2. next_timer' \in Words
      BY <1>1, NextWithout
    <2>3. QED
      BY <1>0, <1>1, <2>1, <2>2 DEF WheelTypeOK
  <1>5. Filed'
    BY <1>0, <1>1, <1>2 DEF Filed
  <1>6. Near'
    BY <1>0, <1>2, <1>3 DEF Near, Dist
  <1>8. \A n : NotBefore(n) => \A u \in Timers : Counted(u)' => Gap(expires'[u], timer_jiffies') >= n
    BY <1>2, <1>3 DEF NotBefore, Dist
  <1>9. NextBound'
    <2>1. Gap(next_timer', timer_jiffies') = Dist(next_without(t))
      BY <1>1, <1>3 DEF Dist
    <2>2. QED
      BY <1>3, <1>8, <2>1, NextWithout DEF NextBound, NotBefore, Dist
  <1>10. SleepBound'
    <2>1. tick' # "stopped" => unkicked' = {}
      BY <1>0, <1>1 DEF SleepBound
    <2>2. SUFFICES ASSUME tick' = "stopped"
                   PROVE  /\ Gap(next_timer', timer_jiffies') >= -MaxLate - 1
                          /\ wake' = NULL => \A u \in Timers : Counted(u)' => u \in unkicked'
                          /\ wake' # NULL =>
                               /\ Gap(wake', timer_jiffies') \in 0..NEXT_TIMER_MAX_DELTA
                               /\ Lag' - 1 <= Gap(wake', timer_jiffies')
                               /\ \/ Gap(wake', timer_jiffies') = 0
                                  \/ \A u \in Timers : Counted(u)' /\ u \notin unkicked' =>
                                       Gap(expires'[u], timer_jiffies') >= Gap(wake', timer_jiffies')
      BY <2>1 DEF SleepBound, ToldNotBefore, Dist
    <2>3. tick = "stopped" /\ wake' = wake
      BY <1>1, <2>2
    <2>4. Gap(next_timer', timer_jiffies') = Dist(next_without(t)) /\ Gap(wake', timer_jiffies') = Dist(wake)
      BY <1>1, <1>3 DEF Dist
    <2>5. Dist(next_without(t)) >= -MaxLate - 1
      BY <1>0, <2>3, NextWithout DEF SleepBound
    <2>6. \A n : ToldNotBefore(n) =>
            \A u \in Timers : Counted(u)' /\ u \notin unkicked' => Gap(expires'[u], timer_jiffies') >= n
      BY <1>1, <1>2, <1>3 DEF ToldNotBefore, Dist
    <2>7. wake = NULL => \A u \in Timers : Counted(u)' => u \in unkicked'
      BY <1>0, <1>1, <1>2, <2>3 DEF SleepBound
    <2>8. QED
      BY <1>0, <1>3, <2>3, <2>4, <2>5, <2>6, <2>7 DEF SleepBound
  <1>11. LagBound'
    BY <1>0, <1>3 DEF LagBound
  <1>12. QED
    BY <1>4, <1>5, <1>6, <1>9, <1>10, <1>11 DEF WheelInvariant, Horizon

(* A jiffy is run.  Exactly the timers that are due leave the wheel. *)
LEMMA RunKeeps ==
  ASSUME WheelInvariant, __run_timers
  PROVE  /\ WheelInvariant'
         /\ \A t \in Timers : Pending(t) => (at'[t] = NULL <=> Dist(expires[t]) <= 0)
  <1> DEFINE N == NEXT_TIMER_MAX_DELTA
             L == Lag
             tj == timer_jiffies
             c == Cascaded(tj)
             Expired(t) == c[t] = <<1, INDEX(1, tj)>>
  <1>0. /\ WheelTypeOK /\ Filed /\ Near /\ NextBound /\ SleepBound /\ LagBound
        /\ jiffies \in Words /\ tj \in Words /\ next_timer \in Words /\ 1 \in Levels
    BY DEF WheelInvariant, Horizon, WheelTypeOK, Levels
  <1>1. /\ tick # "stopped" /\ time_before_eq(tj, jiffies)
        /\ at' = [t \in Timers |-> IF Expired(t) THEN NULL ELSE c[t]]
        /\ expires' = [t \in Timers |-> IF Expired(t) THEN 0 ELSE expires[t]]
        /\ timer_jiffies' = (tj + 1) % Word
        /\ jiffies' = jiffies /\ next_timer' = next_timer /\ deferrable' = deferrable
        /\ tick' = tick /\ wake' = wake /\ moving' = moving /\ unkicked' = unkicked
    BY DEF __run_timers, flight
  <1>2. /\ N \in Nat /\ N >= 7 /\ Half = 2 * N + 2 /\ MaxLag \in Nat /\ MaxLag >= 1 /\ MaxLag <= N
        /\ MaxLate \in Nat /\ MaxSleep \in Nat /\ MaxSleep >= N + 1
        /\ Reach = MaxLate + MaxSleep + MaxLag /\ Reach <= Half - 1
        /\ L \in Nat /\ L <= MaxSleep /\ Dist(jiffies) = L - 1
    BY <1>0, Nums, JiffiesDist DEF LagBound
  <1>3. L >= 1
    <2>1. jiffies \in Int /\ tj \in Int
      BY <1>0, WordFacts DEF Words
    <2>2. Dist(jiffies) >= 0
      BY <1>1, <2>1, Compare DEF Dist
    <2> HIDE DEF L
    <2>3. QED
      BY <1>2, <2>2
  <1>4. ASSUME NEW x \in Words, Dist(x) >= -2 * N - 1
        PROVE  timer_jiffies' \in Words /\ Gap(x, timer_jiffies') = Dist(x) - 1 /\ Dist(x) \in Int
    <2>1. Dist(x) \in Int
      BY <1>0, DistType
    <2>2. Dist(x) > -Half
      BY <1>2, <1>4, <2>1
    <2>3. QED
      BY <1>0, <1>1, <2>1, <2>2, NextJiffy DEF Dist
  <1>5. Lag' = L - 1 /\ timer_jiffies' \in Words
    <2>1. timer_jiffies' \in Words /\ Gap(jiffies, timer_jiffies') = Dist(jiffies) - 1
      <3>1. Dist(jiffies) >= -2 * N - 1
        BY <1>2
      <3>2. QED
        BY <1>0, <1>4, <3>1
    <2>2. Gap(jiffies, timer_jiffies') \in -1..(Half - 2) /\ Gap(jiffies, timer_jiffies') + 1 = L - 1
      <3> HIDE DEF L, N
      <3>1. QED
        BY <1>2, <1>3, <2>1
    <2>3. (jiffies + 1 - timer_jiffies') % Word = L - 1
      BY <1>0, <2>1, <2>2, LagGap
    <2>4. Lag' = (jiffies + 1 - timer_jiffies') % Word
      BY <1>1 DEF Lag
    <2>5. QED
      BY <2>1, <2>3, <2>4
  <1>6. ASSUME NEW t \in Timers, ~Pending(t) PROVE at'[t] = NULL
    <2>1. at[t] = NULL
      BY <1>6 DEF Pending
    <2>2. \A p \in cascade(tj) : p \in Slots
      <3>1. SUFFICES ASSUME NEW l \in 2..5 PROVE <<l, INDEX(l, tj)>> \in Slots
        BY DEF cascade
      <3>2. l \in Levels
        BY DEF Levels
      <3>3. QED
        BY <1>0, <3>2, IndexType
    <2>3. NULL \notin cascade(tj)
      BY <2>2, NullAssumption
    <2>4. c[t] = NULL
      BY <2>1, <2>3 DEF Cascaded
    <2>5. QED
      BY <1>1, <2>4
  <1>7. ASSUME NEW t \in Timers, Pending(t)
        PROVE  /\ c[t] \in Slots /\ (Expired(t) <=> Dist(expires[t]) <= 0)
               /\ Dist(expires[t]) > 0 => FiledAt(c[t], expires[t], timer_jiffies')
               /\ expires[t] \in Words /\ Dist(expires[t]) \in Int /\ Dist(expires[t]) >= -MaxLate - 1
    <2> DEFINE e == expires[t]
               p == at[t]
    <2>1. e \in Words /\ p \in Slots
      BY <1>0, <1>7 DEF WheelTypeOK, Pending
    <2>2. FiledAt(p, e, tj)
      BY <1>0, <1>7 DEF Filed
    <2>3. Gap(e, tj) >= -MaxLate - 1 /\ Gap(e, tj) \in Int
      BY <1>0, <1>2, <1>7, <2>1, DistType DEF Near, Dist
    <2>4. Gap(e, tj) > -Half
      BY <1>2, <2>3
    <2>5. c[t] = IF p \in cascade(tj) THEN internal_add_timer(e, tj) ELSE p
      BY DEF Cascaded
    <2> HIDE DEF c, e, p
    <2>6. /\ c[t] \in Slots /\ (c[t] = <<1, INDEX(1, tj)>> <=> Gap(e, tj) <= 0)
          /\ Gap(e, tj) > 0 => FiledAt(c[t], e, (tj + 1) % Word)
      BY <1>0, <2>1, <2>2, <2>4, <2>5, Turn
    <2>7. QED
      BY <1>1, <2>1, <2>3, <2>6 DEF Dist, e
  <1> HIDE DEF c
  <1>8. ASSUME NEW t \in Timers, Pending(t) PROVE at'[t] = NULL <=> Dist(expires[t]) <= 0
    <2>1. c[t] # NULL
      BY <1>7, <1>8, NullAssumption
    <2>2. at'[t] = IF Expired(t) THEN NULL ELSE c[t]
      BY <1>1
    <2>3. QED
      BY <1>7, <1>8, <2>1, <2>2
  <1>9. ASSUME NEW t \in Timers, Pending(t)'
        PROVE  /\ Pending(t) /\ Dist(expires[t]) > 0 /\ at'[t] = c[t] /\ expires'[t] = expires[t]
               /\ Gap(expires'[t], timer_jiffies') = Dist(expires[t]) - 1
    <2>1. Pending(t)
      BY <1>6, <1>9 DEF Pending
    <2>2. ~(Dist(expires[t]) <= 0)
      BY <1>8, <1>9, <2>1 DEF Pending
    <2>3. at'[t] = c[t] /\ expires'[t] = expires[t]
      BY <1>1, <1>7, <2>1, <2>2
    <2>4. Dist(expires[t]) > 0 /\ Dist(expires[t]) >= -2 * N - 1 /\ expires[t] \in Words
      BY <1>2, <1>7, <2>1, <2>2
    <2>5. QED
      BY <1>4, <2>1, <2>3, <2>4
  <1>10. WheelTypeOK'
    <2>1. at' \in [Timers -> Slots \cup {NULL}]
      <3>1. \A t \in Timers : at'[t] \in Slots \cup {NULL}
        BY <1>6, <1>7, <1>9 DEF Pending
      <3>2. at' = [t \in Timers |-> at'[t]]
        BY <1>1
      <3>3. QED
        BY <3>1, <3>2
    <2>2. expires' \in [Timers -> Words]
      <3>1. 0 \in Words
        BY Nums DEF Words
      <3>2. QED
        BY <1>0, <1>1, <3>1 DEF WheelTypeOK
    <2>3. QED
      BY <1>0, <1>1, <1>5, <2>1, <2>2 DEF WheelTypeOK
  <1>11. Filed'
    BY <1>7, <1>9 DEF Filed
  <1>12. ASSUME NEW t \in Timers, Pending(t)'
         PROVE  /\ Gap(expires'[t], timer_jiffies') \in (-MaxLate - 1)..(Half - Reach - 2 + Lag')
    <2>1. Dist(expires[t]) \in (-MaxLate - 1)..(Half - Reach - 2 + L) /\ Dist(expires[t]) > 0
      BY <1>0, <1>9, <1>12 DEF Near
    <2>2. Gap(expires'[t], timer_jiffies') = Dist(expires[t]) - 1
      BY <1>9, <1>12
    <2> HIDE DEF L, N
    <2>3. QED
      BY <1>2, <1>5, <2>1, <2>2
  <1>13. Near'
    BY <1>12 DEF Near, Dist
  <1>14. NextBound'
    <2> DEFINE n == Dist(next_timer)
    <2>1. n <= N /\ L - n <= Reach /\ n \in Int /\ (n > 0 => NotBefore(n))
      BY <1>0, DistType DEF NextBound
    <2>2. n >= -2 * N - 1
      <3> HIDE DEF n, L, N
      <3>1. QED
        BY <1>2, <1>3, <2>1
    <2>3. Gap(next_timer', timer_jiffies') = n - 1
      BY <1>0, <1>1, <1>4, <2>2
    <2>4. ASSUME n - 1 > 0, NEW t \in Timers, Counted(t)' PROVE Gap(expires'[t], timer_jiffies') >= n - 1
      <3>1. /\ Pending(t) /\ Gap(expires'[t], timer_jiffies') = Dist(expires[t]) - 1
        BY <1>9, <2>4 DEF Counted
      <3>2. Counted(t)
        BY <1>1, <2>4, <3>1 DEF Counted
      <3>3. Dist(expires[t]) >= n /\ Dist(expires[t]) \in Int
        BY <1>7, <2>1, <2>4, <3>1, <3>2 DEF NotBefore
      <3> HIDE DEF n
      <3>4. QED
        BY <2>1, <3>1, <3>3
    <2>5. n - 1 <= N /\ Lag' - (n - 1) <= Reach
      <3> HIDE DEF n, L, N
      <3>1. QED
        BY <1>2, <1>5, <2>1
    <2> HIDE DEF n
    <2>6. QED
      BY <2>3, <2>4, <2>5 DEF NextBound, NotBefore, Dist
  <1>15. SleepBound'
    BY <1>0, <1>1 DEF SleepBound
  <1>16. LagBound'
    <2> HIDE DEF L
    <2>1. QED
      BY <1>2, <1>5 DEF LagBound
  <1>17. QED
    BY <1>8, <1>10, <1>11, <1>13, <1>14, <1>15, <1>16 DEF WheelInvariant, Horizon

(* Time passes, on a CPU that ticks or that sleeps. *)
LEMMA TimeKeeps ==
  ASSUME WheelInvariant, do_timer
  PROVE  WheelInvariant'
  <1> DEFINE N == NEXT_TIMER_MAX_DELTA
             L == Lag
             n == Dist(next_timer)
             w == Dist(wake)
  <1>0. /\ WheelTypeOK /\ Filed /\ Near /\ NextBound /\ SleepBound /\ LagBound
        /\ jiffies \in Words /\ timer_jiffies \in Words /\ next_timer \in Words
    BY DEF WheelInvariant, Horizon, WheelTypeOK
  <1>1. /\ jiffies' = (jiffies + 1) % Word
        /\ timer_jiffies' = timer_jiffies /\ next_timer' = next_timer /\ at' = at /\ expires' = expires
        /\ deferrable' = deferrable /\ tick' = tick /\ wake' = wake /\ moving' = moving /\ unkicked' = unkicked
    BY DEF do_timer, lists, flight
  <1>2. /\ N \in Nat /\ N >= 7 /\ Half = 2 * N + 2 /\ MaxLag \in Nat /\ MaxLag >= 1 /\ MaxLag <= N
        /\ MaxLate \in Nat /\ MaxSleep \in Nat /\ MaxSleep >= N + 1
        /\ Reach = MaxLate + MaxSleep + MaxLag /\ Reach <= Half - 1
        /\ L \in Nat /\ L <= MaxSleep /\ Dist(jiffies) = L - 1 /\ n \in Int
    BY <1>0, Nums, JiffiesDist, DistType DEF LagBound
  <1>3. n <= N /\ L - n <= Reach /\ (n > 0 => NotBefore(n))
    BY <1>0 DEF NextBound
  <1>4. Lag' = L + 1 /\ jiffies' \in Words
    <2> DEFINE x == jiffies + 1
               k == x % Word
    <2>1. jiffies \in Int /\ timer_jiffies \in Int /\ x \in Int /\ 1 \in Int /\ Word \in Nat \ {0}
      BY <1>0, WordFacts DEF Words
    <2>2. k \in Words
      <3> HIDE DEF x
      <3>1. QED
        BY <2>1, ModRange DEF Words
    <2>3. Gap(k, timer_jiffies) = L
      <3>0. PICK p \in Int : jiffies = timer_jiffies + Dist(jiffies) + Word * p
        BY <2>1, GapType DEF Dist
      <3>1. jiffies = timer_jiffies + (L - 1) + Word * p
        BY <1>2, <3>0
      <3>2. PICK q \in Int : x = Word * q + k
        <4> HIDE DEF x
        <4>1. QED
          BY <2>1, ModRange
      <3>3. k \in Int
        BY <2>1, <2>2 DEF Words
      <3> HIDE DEF k, L
      <3>4. k = timer_jiffies + L + Word * (p - q) /\ p - q \in Int
        <4>1. Word * (p - q) = Word * p - Word * q
          BY <2>1
        <4>2. QED
          BY <1>2, <2>1, <3>1, <3>2, <3>3, <4>1
      <3>5. L \in (-Half)..(Half - 1)
        BY <1>2
      <3>6. QED
        BY <2>1, <3>3, <3>4, <3>5, GapIs
    <2> HIDE DEF k
    <2>4. (k + 1 - timer_jiffies) % Word = L + 1
      <3>1. L \in -1..(Half - 2)
        <4> HIDE DEF L
        <4>1. QED
          BY <1>2
      <3>2. QED
        BY <1>0, <2>2, <2>3, <3>1, LagGap
    <2>5. Lag' = (k + 1 - timer_jiffies) % Word /\ jiffies' = k
      BY <1>1 DEF Lag, k
    <2>6. QED
      BY <2>2, <2>4, <2>5
  <1>5. /\ \A x : Gap(x, timer_jiffies') = Dist(x)
        /\ \A t \in Timers : Pending(t)' = Pending(t) /\ Counted(t)' = Counted(t)
        /\ \A t \in Timers : expires[t] \in Words /\ Dist(expires[t]) \in Int
    <2>1. \A t \in Timers : expires[t] \in Words
      BY <1>0 DEF WheelTypeOK
    <2>2. QED
      BY <1>0, <1>1, <2>1, DistType DEF Dist, Pending, Counted
  <1>6. \A t \in Timers : Pending(t) => Dist(expires[t]) \in (-MaxLate - 1)..(Half - Reach - 2 + L)
    BY <1>0 DEF Near
  <1>7. /\ L + 1 <= MaxSleep
        /\ L + 1 - n <= Reach
        /\ tick # "stopped" => unkicked = {}
        /\ tick = "stopped" => /\ n >= -MaxLate - 1
                               /\ wake = NULL => \A t \in Timers : Counted(t) => t \in unkicked
                               /\ wake # NULL => w \in 0..N /\ L <= w /\ (w = 0 \/ ToldNotBefore(w))
    <2>1. CASE tick = "on" /\ L < MaxLag /\ NextTimerIsRecent
      <3>1. n >= 0 \/ -n <= N - 1
        <4>1. SUFFICES ASSUME n < 0, -n >= N PROVE FALSE
          BY <1>2
        <4> DEFINE d == (timer_jiffies - next_timer) % Word
        <4>2. d \notin N..(Half - 1)
          BY <2>1 DEF NextTimerIsRecent
        <4>3. timer_jiffies \in Int /\ next_timer \in Int /\ Word \in Nat \ {0} /\ Word = 2 * Half
          BY <1>0, WordFacts DEF Words
        <4>4. PICK p \in Int : next_timer = timer_jiffies + n + Word * p
          BY <4>3, GapType DEF Dist
        <4>5. -n <= Half - 1
          <5> HIDE DEF n, L, N
          <5>1. QED
            BY <1>2, <1>3
        <4> HIDE DEF n
        <4> DEFINE x == timer_jiffies - next_timer
                   y == -n
                   r == -p
        <4>6. x = Word * r + y /\ x \in Int /\ r \in Int /\ y \in 0..(Word - 1)
          BY <1>2, <4>1, <4>3, <4>4, <4>5
        <4> HIDE DEF x, y, r
        <4>7. x % Word = y
          BY <4>3, <4>6, ModUnique
        <4>8. d = -n
          BY <4>7 DEF x, y
        <4> HIDE DEF d, N
        <4>9. QED
          BY <1>2, <4>1, <4>2, <4>5, <4>8
      <3>2. tick # "stopped" /\ unkicked = {}
        BY <1>0, <2>1 DEF SleepBound
      <3> HIDE DEF n, L, N, w
      <3>3. L + 1 <= MaxSleep /\ L + 1 - n <= Reach
        BY <1>2, <1>3, <2>1, <3>1
      <3>4. QED
        BY <3>2, <3>3
    <2>2. CASE tick = "stopped" /\ wake # NULL /\ jiffies # wake
      <3>1. /\ n >= -MaxLate - 1 /\ w \in 0..N /\ L - 1 <= w /\ (w = 0 \/ ToldNotBefore(w))
        BY <1>0, <2>2 DEF SleepBound
      <3>2. w # L - 1
        <4>1. SUFFICES ASSUME w = L - 1 PROVE FALSE
          OBVIOUS
        <4>2. wake \in Words
          BY <1>0, <2>2 DEF WheelTypeOK
        <4>3. /\ jiffies \in Int /\ wake \in Int /\ timer_jiffies \in Int /\ jiffies >= 0 /\ jiffies < Word
              /\ wake >= 0 /\ wake < Word /\ Word \in Nat \ {0}
          BY <1>0, <4>2, WordFacts DEF Words
        <4>a. PICK p \in Int : jiffies = timer_jiffies + Dist(jiffies) + Word * p
          BY <4>3, GapType DEF Dist
        <4>b. PICK q \in Int : wake = timer_jiffies + w + Word * q
          BY <4>3, GapType DEF Dist
        <4>4. jiffies = timer_jiffies + (L - 1) + Word * p
          BY <1>2, <4>a
        <4>5. wake = timer_jiffies + (L - 1) + Word * q
          BY <4>1, <4>b
        <4> HIDE DEF L
        <4>6. jiffies - wake = Word * (p - q)
          <5>1. Word * (p - q) = Word * p - Word * q
            BY <4>3
          <5>2. QED
            BY <1>2, <4>3, <4>4, <4>5, <5>1
        <4>7. p - q >= 1 => Word * (p - q) >= Word
          BY <4>3
        <4>8. p - q <= -1 => Word * (p - q) <= -Word
          BY <4>3
        <4>9. p - q = 0
          BY <4>3, <4>6, <4>7, <4>8
        <4>10. QED
          BY <2>2, <4>3, <4>6, <4>9
      <3>3. L <= w
        <4> HIDE DEF L, w, N
        <4>1. QED
          BY <1>2, <3>1, <3>2
      <3> HIDE DEF n, L, N, w
      <3>4. L + 1 <= MaxSleep /\ L + 1 - n <= Reach
        BY <1>2, <3>1, <3>3
      <3>5. QED
        BY <2>2, <3>1, <3>3, <3>4
    <2>3. CASE tick = "stopped" /\ wake = NULL /\ L < MaxSleep
      <3>1. n >= -MaxLate - 1 /\ \A t \in Timers : Counted(t) => t \in unkicked
        BY <1>0, <2>3 DEF SleepBound
      <3> HIDE DEF n, L, N, w
      <3>2. L + 1 <= MaxSleep /\ L + 1 - n <= Reach
        BY <1>2, <2>3, <3>1
      <3>3. QED
        BY <2>3, <3>1, <3>2
    <2>4. QED
      BY <2>1, <2>2, <2>3 DEF do_timer
  <1>8. WheelTypeOK'
    BY <1>0, <1>1, <1>4 DEF WheelTypeOK
  <1>9. Filed'
    BY <1>0, <1>1 DEF Filed, Pending
  <1>10. Near'
    <2>1. ASSUME NEW t \in Timers, Pending(t)
          PROVE  Dist(expires[t]) \in (-MaxLate - 1)..(Half - Reach - 2 + (L + 1))
      <3>1. Dist(expires[t]) \in (-MaxLate - 1)..(Half - Reach - 2 + L)
        BY <1>6, <2>1
      <3> HIDE DEF L, N
      <3>2. QED
        BY <1>2, <3>1
    <2>2. QED
      BY <1>1, <1>4, <1>5, <2>1 DEF Near, Dist
  <1>12. \A m : NotBefore(m) <=> \A t \in Timers : Counted(t)' => Gap(expires'[t], timer_jiffies') >= m
    BY <1>1, <1>5 DEF NotBefore
  <1>18. \A m : ToldNotBefore(m) <=>
           \A t \in Timers : Counted(t)' /\ t \notin unkicked' => Gap(expires'[t], timer_jiffies') >= m
    BY <1>1, <1>5 DEF ToldNotBefore
  <1>13. Lag' - 1 = L
    BY <1>2, <1>4
  <1>14. NextBound'
    <2>1. Gap(next_timer', timer_jiffies') = n
      BY <1>1, <1>5
    <2>2. n <= N /\ Lag' - n <= Reach
      <3>1. L + 1 - n <= Reach /\ Lag' = L + 1
        BY <1>4, <1>7
      <3> HIDE DEF n, L, N
      <3>2. QED
        BY <1>2, <1>3, <3>1
    <2> HIDE DEF n
    <2>3. QED
      BY <1>3, <1>12, <2>1, <2>2 DEF NextBound, NotBefore, Dist
  <1>15. SleepBound'
    <2>1. /\ Gap(next_timer', timer_jiffies') = n /\ Gap(wake', timer_jiffies') = w /\ wake' = wake
          /\ tick' = tick /\ unkicked' = unkicked /\ \A t \in Timers : Counted(t)' = Counted(t)
      BY <1>1, <1>5
    <2> HIDE DEF n, w, L
    <2>2. QED
      BY <1>4, <1>7, <1>18, <1>13, <2>1 DEF SleepBound, ToldNotBefore, Dist
  <1>16. LagBound'
    BY <1>4, <1>7 DEF LagBound
  <1>17. QED
    BY <1>8, <1>9, <1>10, <1>14, <1>15, <1>16 DEF WheelInvariant, Horizon

(* An interrupt ends the sleep, the tick is restarted, or a caller chooses *)
(* the base as a target.                                                   *)
LEMMA WakeKeeps ==
  ASSUME WheelInvariant, irq_enter \/ tick_nohz_restart_sched_tick \/ \E t \in Timers : get_nohz_timer_target(t)
  PROVE  WheelInvariant'
  <1>1. /\ jiffies' = jiffies /\ timer_jiffies' = timer_jiffies /\ next_timer' = next_timer /\ at' = at
        /\ expires' = expires /\ deferrable' = deferrable
        /\ tick' \in {"on", "irq"} /\ (wake' = NULL \/ wake' = wake)
        /\ (unkicked' = {} \/ (tick # "stopped" /\ unkicked' = unkicked))
        /\ (moving' = moving \/ \E t \in Timers : moving' = moving \cup {t})
    BY DEF irq_enter, tick_nohz_restart_sched_tick, get_nohz_timer_target, lists, flight
  <1>2. WheelTypeOK' /\ SleepBound'
    BY <1>1 DEF WheelInvariant, Horizon, WheelTypeOK, SleepBound
  <1>3. Filed' /\ Near'
    BY <1>1 DEF WheelInvariant, Horizon, Filed, Near, Pending, Dist, Lag
  <1>4. NextBound' /\ LagBound'
    BY <1>1 DEF WheelInvariant, Horizon, NextBound, NotBefore, LagBound, Counted, Pending, Dist, Lag
  <1>5. QED
    BY <1>2, <1>3, <1>4 DEF WheelInvariant, Horizon

(* What get_next_timer_interrupt() returns, cached or searched for. *)
LEMMA NextIs ==
  ASSUME WheelInvariant, NEW a \in get_next_timer_interrupt
  PROVE  /\ a \in Words /\ Dist(a) \in Int /\ Dist(a) <= NEXT_TIMER_MAX_DELTA
         /\ Lag - Dist(a) <= Reach
         /\ Dist(a) > 0 => NotBefore(Dist(a))
  <1> DEFINE N == NEXT_TIMER_MAX_DELTA
  <1>0. Horizon /\ WheelTypeOK /\ Near /\ NextBound /\ LagBound
    BY DEF WheelInvariant, Horizon
  <1>1. /\ MaxLate \in Nat /\ MaxSleep \in Nat /\ MaxLag \in Nat /\ MaxLag >= 1
        /\ Reach = MaxLate + MaxSleep + MaxLag /\ Lag \in Nat /\ Lag <= MaxSleep
    BY <1>0, Nums, LagType DEF LagBound
  <1>2. CASE a = next_timer
    BY <1>0, <1>2, DistType DEF NextBound, WheelTypeOK
  <1>3. CASE a # next_timer
    <2>1. PICK e \in FirstInTv1 : a = next_timer_interrupt(e)
      BY <1>3 DEF get_next_timer_interrupt
    <2>2. /\ a \in Words /\ Dist(a) <= N
          /\ Dist(a) >= 0 \/ \E t \in Timers : Counted(t) /\ a = expires[t]
          /\ Dist(a) > 0 => \A t \in Timers : Counted(t) => Dist(a) <= Dist(expires[t])
      BY <1>0, <2>1, SearchResult
    <2>3. Dist(a) \in Int /\ \A t \in Timers : Dist(expires[t]) \in Int
      BY <1>0, <2>2, DistType DEF WheelTypeOK
    <2>4. Lag - Dist(a) <= Reach
      <3>1. CASE Dist(a) >= 0
        BY <1>1, <2>3, <3>1
      <3>2. CASE ~(Dist(a) >= 0)
        <4>1. Dist(a) >= -MaxLate - 1
          BY <1>0, <1>1, <2>2, <2>3, <3>2, Nums DEF Near, Counted
        <4>2. QED
          BY <1>1, <2>3, <4>1
      <3>3. QED
        BY <3>1, <3>2
    <2>5. Dist(a) > 0 => NotBefore(Dist(a))
      BY <2>2, <2>3 DEF NotBefore
    <2>6. QED
      BY <2>2, <2>3, <2>4, <2>5
  <1>4. QED
    BY <1>2, <1>3

(* The tick is stopped, or a timer turns out to be due. *)
LEMMA StopKeeps ==
  ASSUME WheelInvariant, tick_nohz_stop_sched_tick
  PROVE  WheelInvariant'
  <1> DEFINE N == NEXT_TIMER_MAX_DELTA
             L == Lag
             Delta(a) == IF time_before_eq(a, jiffies) THEN 0 ELSE (a - jiffies) % Word
  <1>0. /\ WheelTypeOK /\ Filed /\ Near /\ SleepBound /\ LagBound
        /\ jiffies \in Words /\ timer_jiffies \in Words
    BY DEF WheelInvariant, Horizon, WheelTypeOK
  <1>1. PICK a \in get_next_timer_interrupt :
          /\ next_timer' = a
          /\ \/ /\ Delta(a) = 0 \/ (Delta(a) = 1 /\ tick = "on")
                /\ tick' = "on" /\ wake' = NULL
             \/ /\ Delta(a) > 1 \/ (Delta(a) = 1 /\ tick = "irq")
                /\ tick' = "stopped"
                /\ wake' = IF Delta(a) < N THEN a ELSE NULL
          /\ tick # "stopped" /\ UNCHANGED <<jiffies, timer_jiffies, lists, flight>>
    BY DEF tick_nohz_stop_sched_tick
  <1> DEFINE D == Dist(a)
             x == Delta(a)
  <1>2. /\ a \in Words /\ D \in Int /\ D <= N /\ L - D <= Reach /\ (D > 0 => NotBefore(D)) /\ a # NULL
    BY NextIs, NullAssumption
  <1>3. /\ N \in Nat /\ N >= 7 /\ Half = 2 * N + 2 /\ MaxLag \in Nat /\ MaxLag >= 1 /\ MaxLag <= N
        /\ MaxLate \in Nat /\ MaxSleep \in Nat /\ MaxSleep >= N + 1
        /\ Reach = MaxLate + MaxSleep + MaxLag /\ Reach <= Half - 1
        /\ L \in Nat /\ L <= MaxSleep /\ Dist(jiffies) = L - 1 /\ Word = 2 * Half /\ Half \in Nat
    BY <1>0, Nums, JiffiesDist DEF LagBound
  <1>a. x \in Nat
    <2>1. a - jiffies \in Int
      BY <1>0, <1>2, WordFacts DEF Words
    <2>2. (a - jiffies) % Word \in 0..(Word - 1)
      BY <2>1, WordFacts, ModRange
    <2>3. QED
      BY <2>2, Nums
  <1>4. x >= 1 => x = D - L + 1
    <2>1. D - (L - 1) \in (-Half)..(Half - 1) /\ (L - 1) - D \in (-Half)..(Half - 1)
      <3> HIDE DEF D, L, N
      <3>1. QED
        BY <1>2, <1>3
    <2>2. Gap(a, jiffies) = D - (L - 1) /\ Gap(jiffies, a) = (L - 1) - D
      <3>1. a \in Int /\ jiffies \in Int /\ timer_jiffies \in Int
        BY <1>0, <1>2, WordFacts DEF Words
      <3>2. Gap(jiffies, timer_jiffies) = L - 1 /\ Gap(a, timer_jiffies) = D
        BY <1>3 DEF Dist
      <3> HIDE DEF D, L
      <3>3. QED
        BY <2>1, <3>1, <3>2, GapDiff
    <2>3. time_before_eq(a, jiffies) <=> (L - 1) - D >= 0
      <3>1. a \in Int /\ jiffies \in Int
        BY <1>0, <1>2, WordFacts DEF Words
      <3>2. QED
        BY <2>2, <3>1, Compare
    <2>4. SUFFICES ASSUME x >= 1 PROVE x = D - L + 1
      OBVIOUS
    <2>5. ~time_before_eq(a, jiffies) /\ x = (a - jiffies) % Word
      BY <2>4
    <2>6. x \in 0..(Word - 1)
      <3>1. a - jiffies \in Int
        BY <1>0, <1>2, WordFacts DEF Words
      <3>2. QED
        BY <2>5, <3>1, WordFacts, ModRange
    <2>7. Gap(a, jiffies) = IF x < Half THEN x ELSE x - Word
      BY <2>5 DEF Gap
    <2> HIDE DEF D, L, N, x
    <2>8. QED
      BY <1>2, <1>3, <2>2, <2>3, <2>5, <2>6, <2>7
  <1>5. /\ jiffies' = jiffies /\ timer_jiffies' = timer_jiffies /\ at' = at /\ expires' = expires
        /\ deferrable' = deferrable /\ next_timer' = a /\ moving' = moving /\ unkicked' = {} /\ unkicked = {}
    BY <1>0, <1>1 DEF lists, flight, SleepBound
  <1>6. \/ tick' = "on" /\ wake' = NULL
        \/ /\ x >= 1 /\ tick' = "stopped"
           /\ wake' = IF x < N THEN a ELSE NULL
    <2>1. x > 1 \/ x = 1 => x >= 1
      <3> HIDE DEF x
      <3>1. QED
        BY <1>a
    <2> HIDE DEF x, N
    <2>2. QED
      BY <1>1, <2>1 DEF x, N
  <1>7. WheelTypeOK'
    BY <1>0, <1>2, <1>5, <1>6 DEF WheelTypeOK
  <1>8. Filed' /\ Near'
    BY <1>0, <1>5 DEF Filed, Near, Pending, Dist, Lag
  <1>9. /\ Lag' = L /\ \A y : Gap(y, timer_jiffies') = Dist(y)
        /\ \A m : NotBefore(m) <=> \A t \in Timers : Counted(t)' => Gap(expires'[t], timer_jiffies') >= m
    BY <1>5 DEF Lag, Dist, NotBefore, Counted, Pending
  <1>10. NextBound'
    <2>1. Gap(next_timer', timer_jiffies') = D
      BY <1>5, <1>9
    <2> HIDE DEF D
    <2>2. QED
      BY <1>2, <1>9, <2>1 DEF NextBound, NotBefore, Dist
  <1>11. tick' = "stopped" =>
           /\ D >= 0
           /\ wake' = NULL => \A t \in Timers : ~Counted(t)
           /\ wake' # NULL => wake' = a /\ D \in 0..N /\ L - 1 <= D /\ (D = 0 \/ NotBefore(D))
    <2>1. SUFFICES ASSUME tick' = "stopped"
                   PROVE  /\ D >= 0
                          /\ wake' = NULL => \A t \in Timers : ~Counted(t)
                          /\ wake' # NULL => wake' = a /\ D \in 0..N /\ L - 1 <= D /\ (D = 0 \/ NotBefore(D))
      <3>1. QED
        OBVIOUS
    <2>2. x >= 1 /\ x = D - L + 1 /\ wake' = IF x < N THEN a ELSE NULL
      BY <1>4, <1>6, <2>1
    <2>3. wake' = NULL => x >= N
      <3>1. wake' = NULL => ~(x < N)
        BY <1>2, <2>2
      <3> HIDE DEF x, N
      <3>2. QED
        BY <1>3, <1>a, <3>1
    <2> HIDE DEF D, L, N, x
    <2>4. D >= 0 /\ L - 1 <= D /\ D \in 0..N
      BY <1>2, <1>3, <2>2
    <2>5. x >= N => D > 0 /\ D >= N + L - 1
      BY <1>2, <1>3, <2>2
    <2>6. ASSUME x >= N, NEW t \in Timers, Counted(t) PROVE FALSE
      <3>1. NotBefore(D) /\ D >= N + L - 1
        BY <1>2, <2>5, <2>6
      <3>2. Dist(expires[t]) >= D /\ Dist(expires[t]) \in Int
        BY <1>0, <2>6, <3>1, DistType DEF NotBefore, WheelTypeOK
      <3>3. Dist(expires[t]) <= Half - Reach - 2 + L
        <4>1. Dist(expires[t]) \in (-MaxLate - 1)..(Half - Reach - 2 + Lag)
          BY <1>0, <2>6 DEF Near, Counted
        <4>2. QED
          BY <1>3, <3>2, <4>1 DEF L
      <3>4. QED
        BY <1>2, <1>3, <3>1, <3>2, <3>3
    <2>7. D = 0 \/ NotBefore(D)
      BY <1>2, <2>4
    <2>8. QED
      BY <2>2, <2>3, <2>4, <2>5, <2>6, <2>7
  <1>12. SleepBound'
    <2>1. Gap(next_timer', timer_jiffies') = D /\ (wake' = a => Gap(wake', timer_jiffies') = D)
      BY <1>5, <1>9
    <2>3. \A t \in Timers : Counted(t)' <=> Counted(t)
      BY <1>5 DEF Counted, Pending
    <2>4. ASSUME tick' = "stopped" PROVE Gap(next_timer', timer_jiffies') >= -MaxLate - 1
      <3>1. D >= 0
        BY <1>11, <2>4
      <3> HIDE DEF D
      <3>2. QED
        BY <1>2, <1>3, <2>1, <3>1
    <2>5. ASSUME tick' = "stopped", wake' = NULL PROVE \A t \in Timers : Counted(t)' => t \in unkicked'
      BY <1>11, <2>3, <2>5
    <2>6. ASSUME tick' = "stopped", wake' # NULL
          PROVE  /\ Gap(wake', timer_jiffies') \in 0..NEXT_TIMER_MAX_DELTA /\ Lag' - 1 <= Gap(wake', timer_jiffies')
                 /\ \/ Gap(wake', timer_jiffies') = 0
                    \/ \A t \in Timers : Counted(t)' /\ t \notin unkicked' =>
                         Gap(expires'[t], timer_jiffies') >= Gap(wake', timer_jiffies')
      <3>1. /\ Gap(wake', timer_jiffies') = D /\ D \in 0..N /\ L - 1 <= D /\ Lag' = L
            /\ D = 0 \/ NotBefore(D)
        BY <1>9, <1>11, <2>1, <2>6
      <3> HIDE DEF D, L
      <3>2. NotBefore(D) => \A t \in Timers : Counted(t)' => Gap(expires'[t], timer_jiffies') >= D
        BY <1>9
      <3>3. QED
        BY <3>1, <3>2
    <2>7. tick' # "stopped" => unkicked' = {}
      BY <1>5
    <2> HIDE DEF D, L, N
    <2>2. QED
      BY <2>4, <2>5, <2>6, <2>7 DEF SleepBound, ToldNotBefore, Dist
  <1>13. LagBound'
    BY <1>0, <1>9 DEF LagBound
  <1>14. QED
    BY <1>7, <1>8, <1>10, <1>12, <1>13 DEF WheelInvariant, Horizon

(* The initial state. *)
LEMMA WheelStart ==
  ASSUME WheelInit
  PROVE  WheelInvariant
  <1>1. \A t \in Timers : ~Pending(t) /\ ~Counted(t)
    BY DEF WheelInit, Pending, Counted
  <1>2. timer_jiffies = Word - 2 /\ jiffies = Word - 2 /\ next_timer = Word - 2 /\ Word - 2 \in Int
    BY Nums DEF WheelInit
  <1>3. WheelTypeOK
    <2>1. Word - 2 \in Words /\ 0 \in Words
      BY Nums DEF Words
    <2>2. QED
      BY <1>2, <2>1 DEF WheelInit, WheelTypeOK
  <1>4. Lag = 1
    <2>1. jiffies + 1 - timer_jiffies = 1 /\ 1 \in 0..(Word - 1)
      BY <1>2, Nums
    <2>2. QED
      BY <2>1, Nums, ModSmall DEF Lag
  <1>5. Dist(next_timer) = 0
    <2>1. next_timer = timer_jiffies + 0 + Word * 0 /\ 0 \in (-Half)..(Half - 1)
      BY <1>2, Nums
    <2>2. QED
      BY <1>2, <2>1, GapIs DEF Dist
  <1>6. tick = "on" /\ unkicked = {} /\ moving = {}
    BY DEF WheelInit
  <1>7. NextBound /\ SleepBound /\ LagBound
    BY <1>4, <1>5, <1>6, Nums DEF NextBound, SleepBound, LagBound
  <1>8. QED
    BY <1>1, <1>3, <1>7 DEF WheelInvariant, Horizon, Filed, Near

(* Every step keeps the invariant. *)
LEMMA WheelStep ==
  ASSUME WheelInvariant, [WheelNext]_wheelVars
  PROVE  WheelInvariant'
  <1>0. WheelTypeOK /\ SleepBound
    BY DEF WheelInvariant, Horizon
  <1>1. ASSUME NEW t \in Timers, Arm(t) PROVE WheelInvariant'
    <2>1. PICK o \in Offsets :
            \/ \E s \in Slacks : mod_timer(t, (jiffies + o) % Word, s)
            \/ mod_timer_pending(t, (jiffies + o) % Word)
            \/ mod_timer_pinned(t, (jiffies + o) % Word)
            \/ add_timer_on(t, (jiffies + o) % Word)
            \/ t \in moving /\ timer_set_base(t, (jiffies + o) % Word)
            \/ \E s \in Slacks :
                 t \in moving /\ timer_set_base(t, apply_slack((jiffies + o) % Word, s, jiffies))
      BY <1>1 DEF Arm
    <2> DEFINE e == (jiffies + o) % Word
    <2>2. CASE \E s \in Slacks : mod_timer(t, e, s)
      <3>1. PICK s \in Slacks : mod_timer(t, e, s)
        BY <2>2
      <3>2. /\ Add(t, apply_slack(e, s, jiffies)) /\ UNCHANGED <<jiffies, timer_jiffies, deferrable>>
            /\ tick' \in {"on", "irq"} /\ wake' \in Words \cup {NULL}
            /\ moving' \subseteq Timers /\ unkicked' = {}
        BY <1>0, <3>1 DEF mod_timer, flight, WheelTypeOK, SleepBound
      <3>3. QED
        BY <3>2, AddKeeps
    <2>3. CASE mod_timer_pending(t, e) \/ mod_timer_pinned(t, e) \/ add_timer_on(t, e)
      <3>1. /\ Add(t, e) /\ UNCHANGED <<jiffies, timer_jiffies, deferrable>>
            /\ tick' \in {"on", "irq"} /\ wake' \in Words \cup {NULL}
            /\ moving' \subseteq Timers /\ unkicked' = {}
        BY <1>0, <2>3 DEF mod_timer_pending, mod_timer_pinned, add_timer_on, wake_up_idle_cpu, flight,
                          WheelTypeOK, SleepBound
      <3>2. QED
        BY <3>1, AddKeeps
    <2>5. ASSUME NEW f, t \in moving, timer_set_base(t, f),
                 f = e \/ \E s \in Slacks : f = apply_slack(e, s, jiffies)
          PROVE  WheelInvariant'
      <3>1. /\ Add(t, f) /\ UNCHANGED <<jiffies, timer_jiffies, deferrable, tick, wake>>
            /\ moving' \subseteq Timers /\ wake' \in Words \cup {NULL}
            /\ unkicked' = IF tick = "stopped" THEN unkicked \cup {t} ELSE unkicked
        BY <1>0, <2>5 DEF timer_set_base, WheelTypeOK
      <3>2. \/ tick' \in {"on", "irq"} /\ unkicked' = {}
            \/ tick = "stopped" /\ UNCHANGED <<tick, wake>> /\ unkicked' = unkicked \cup {t}
        BY <1>0, <2>5, <3>1 DEF WheelTypeOK, SleepBound
      <3>3. QED
        BY <2>5, <3>1, <3>2, AddKeeps
    <2>4. QED
      BY <2>1, <2>2, <2>3, <2>5
  <1>2. ASSUME NEW t \in Timers, del_timer(t) PROVE WheelInvariant'
    BY <1>2, DelKeeps
  <1>3. CASE __run_timers
    BY <1>3, RunKeeps
  <1>4. CASE do_timer
    BY <1>4, TimeKeeps
  <1>5. CASE irq_enter \/ tick_nohz_restart_sched_tick \/ \E t \in Timers : Target(t)
    BY <1>5, WakeKeeps DEF Target
  <1>6. CASE tick_nohz_stop_sched_tick
    BY <1>6, StopKeeps
  <1>7. CASE UNCHANGED wheelVars
    <2>1. /\ jiffies' = jiffies /\ timer_jiffies' = timer_jiffies /\ next_timer' = next_timer /\ at' = at
          /\ expires' = expires /\ deferrable' = deferrable /\ tick' = tick /\ wake' = wake
          /\ moving' = moving /\ unkicked' = unkicked
      BY <1>7 DEF wheelVars, lists, flight
    <2>2. QED
      BY <2>1 DEF WheelInvariant, Horizon, WheelTypeOK, Filed, Near, NextBound, SleepBound, LagBound,
                  NotBefore, ToldNotBefore, Counted, Pending, Dist, Lag
  <1>8. QED
    BY <1>1, <1>2, <1>3, <1>4, <1>5, <1>6, <1>7 DEF WheelNext

(* The inductive invariant of the wheel, of next_timer and of the sleep of *)
(* the CPU, for every width of the vectors, every set of timers, and every *)
(* timeout that the callers can ask for within the limits of a word.       *)
THEOREM WheelInvariance == WheelSpec => []WheelInvariant
  <1>1. WheelInit => WheelInvariant
    BY WheelStart
  <1>2. WheelInvariant /\ [WheelNext]_wheelVars => WheelInvariant'
    BY WheelStep
  <1>3. QED
    BY <1>1, <1>2, PTL DEF WheelSpec

(* Type correctness: the wheel of kernel/timer.c stays well formed. *)
THEOREM WheelTypeCorrect == WheelSpec => []WheelTypeOK
  <1>1. WheelInvariant => WheelTypeOK
    BY DEF WheelInvariant, Horizon
  <1>2. QED
    BY <1>1, WheelInvariance, PTL

(* apply_slack() stays between the time asked for and the limit, at every  *)
(* value of jiffies that is reached.                                       *)
THEOREM SlackKept == WheelSpec => []SlackInRange
  <1>1. WheelTypeOK => SlackInRange
    BY SlackAlways DEF WheelTypeOK
  <1>2. QED
    BY <1>1, WheelTypeCorrect, PTL

(* A CPU whose tick is stopped has no timer that is overdue.  The invariant *)
(* gives that the first timer is not before the wakeup, and that jiffies   *)
(* is not after it.                                                        *)
LEMMA AwakeInTime ==
  ASSUME WheelInvariant
  PROVE  NoOversleep
  <1> DEFINE N == NEXT_TIMER_MAX_DELTA
             L == Lag
             w == Dist(wake)
  <1>1. SUFFICES ASSUME tick = "stopped", NEW t \in Timers, Counted(t), t \notin unkicked, Overdue(t) PROVE FALSE
    BY DEF NoOversleep
  <1> DEFINE e == expires[t]
             z == Dist(e)
  <1>2. /\ WheelTypeOK /\ SleepBound /\ LagBound /\ e \in Words /\ jiffies \in Words /\ timer_jiffies \in Words
    BY DEF WheelInvariant, Horizon, WheelTypeOK
  <1>3. /\ N \in Nat /\ N >= 7 /\ Half = 2 * N + 2 /\ L \in Nat /\ L <= MaxSleep /\ MaxSleep <= Half - 1 /\ MaxSleep \in Nat /\ Dist(jiffies) = L - 1
        /\ z \in Int /\ z <= Half - 1 /\ z >= -Half
    BY <1>2, Nums, JiffiesDist, DistType DEF LagBound
  <1>4. e \in Int /\ jiffies \in Int /\ timer_jiffies \in Int
    BY <1>2, WordFacts DEF Words
  <1>5. L >= 2
    <2>1. Gap(timer_jiffies, jiffies) < 0
      BY <1>1, <1>4, Compare DEF Overdue
    <2>2. Gap(timer_jiffies, timer_jiffies) = 0
      <3>1. timer_jiffies = timer_jiffies + 0 + Word * 0 /\ 0 \in (-Half)..(Half - 1)
        BY <1>4, Nums
      <3>2. QED
        BY <1>4, <3>1, GapIs
    <2>3. Gap(timer_jiffies, jiffies) = 0 - (L - 1)
      <3>1. Gap(jiffies, timer_jiffies) = L - 1
        BY <1>3 DEF Dist
      <3>2. 0 - (L - 1) <= Half - 1 /\ 0 - (L - 1) >= -Half
        <4> HIDE DEF L, N
        <4>1. QED
          BY <1>3
      <3> HIDE DEF L
      <3>3. QED
        BY <1>2, <2>2, <3>1, <3>2, Apart
    <2> HIDE DEF L
    <2>4. QED
      BY <1>3, <2>1, <2>3
  <1>6. z >= L - 1
    <2>1. CASE wake = NULL
      BY <1>1, <1>2, <2>1 DEF SleepBound
    <2>2. CASE wake # NULL
      <3>1. w \in 0..N /\ L - 1 <= w /\ (w = 0 \/ z >= w)
        BY <1>1, <1>2, <2>2 DEF SleepBound, ToldNotBefore
      <3> HIDE DEF L, N, z, w
      <3>2. QED
        BY <1>3, <1>5, <3>1
    <2>3. QED
      BY <2>1, <2>2
  <1>7. Gap(e, jiffies) = z - (L - 1)
    <2>1. z - (L - 1) <= Half - 1 /\ z - (L - 1) >= -Half
      <3> HIDE DEF L, N, z
      <3>1. QED
        BY <1>3, <1>5, <1>6
    <2>2. Gap(jiffies, timer_jiffies) = L - 1 /\ Gap(e, timer_jiffies) = z
      BY <1>3 DEF Dist
    <2> HIDE DEF L, z, e
    <2>3. QED
      BY <1>2, <2>1, <2>2, Apart
  <1>8. Gap(e, jiffies) < 0
    BY <1>1, <1>4, Compare DEF Overdue
  <1> HIDE DEF L, N, z, e
  <1>9. QED
    BY <1>3, <1>6, <1>7, <1>8

(* A CPU that has stopped its tick sleeps past no timer that counts and    *)
(* that was on its base when it went to sleep, or of which add_timer_on()  *)
(* told it.  What __mod_timer() brings to it later is not covered: see     *)
(* NoTimerForgotten.                                                       *)
THEOREM SleepsNoLonger == WheelSpec => []NoOversleep
  BY AwakeInTime, WheelInvariance, PTL

(* __run_timers() runs, in every jiffy, exactly the timers that are due. *)
THEOREM RunsOnTime == WheelSpec => FiresOnTime
  <1> DEFINE Fires == timer_jiffies' # timer_jiffies =>
                        \A t \in Timers : Pending(t) =>
                          (at'[t] = NULL <=> time_before_eq(expires[t], timer_jiffies))
  <1>1. WheelInvariant /\ [WheelNext]_wheelVars => [Fires]_wheelVars
    <2>1. SUFFICES ASSUME WheelInvariant, WheelNext, timer_jiffies' # timer_jiffies PROVE Fires
      OBVIOUS
    <2>2. __run_timers
      BY <2>1 DEF WheelNext, Arm, Target, get_nohz_timer_target, timer_set_base, mod_timer, mod_timer_pending, mod_timer_pinned, add_timer_on, del_timer,
                  do_timer, irq_enter, tick_nohz_restart_sched_tick, tick_nohz_stop_sched_tick
    <2>3. SUFFICES ASSUME NEW t \in Timers, Pending(t)
                   PROVE  at'[t] = NULL <=> time_before_eq(expires[t], timer_jiffies)
      OBVIOUS
    <2> DEFINE e == expires[t]
    <2>4. WheelTypeOK /\ Near /\ e \in Words /\ timer_jiffies \in Words
      BY <2>1 DEF WheelInvariant, Horizon, WheelTypeOK
    <2>5. at'[t] = NULL <=> Dist(e) <= 0
      BY <2>1, <2>2, <2>3, RunKeeps
    <2>6. e \in Int /\ timer_jiffies \in Int
      BY <2>4, WordFacts DEF Words
    <2>7. Dist(e) \in Int /\ Dist(e) >= -MaxLate - 1 /\ Dist(e) <= Half - 1
      BY <2>3, <2>4, DistType, LagType, Nums DEF Near
    <2>8. Gap(timer_jiffies, e) = 0 - Dist(e)
      <3>1. Gap(timer_jiffies, timer_jiffies) = 0
        <4>1. timer_jiffies = timer_jiffies + 0 + Word * 0 /\ 0 \in (-Half)..(Half - 1)
          BY <2>6, Nums
        <4>2. QED
          BY <2>6, <4>1, GapIs
      <3>2. 0 - Dist(e) <= Half - 1 /\ 0 - Dist(e) >= -Half
        BY <2>7, Nums
      <3> HIDE DEF e
      <3>3. QED
        BY <2>4, <3>1, <3>2, Apart DEF Dist
    <2>9. time_before_eq(e, timer_jiffies) <=> Gap(timer_jiffies, e) >= 0
      BY <2>6, Compare
    <2> HIDE DEF e
    <2>10. at'[t] = NULL <=> time_before_eq(e, timer_jiffies)
      BY <2>5, <2>7, <2>8, <2>9
    <2>11. QED
      BY <2>10 DEF e
  <1>2. QED
    BY <1>1, WheelInvariance, PTL DEF WheelSpec, FiresOnTime

=============================================================================
