------------------------------ MODULE Tasklet ------------------------------
(***************************************************************************)
(* Tasklets and the softirq that runs them: kernel/softirq.c with the      *)
(* tasklet operations of include/linux/interrupt.h.                        *)
(*                                                                         *)
(* Three kinds of code meet on every CPU.  A hard interrupt suspends       *)
(* whatever runs there; a softirq suspends the threads, and is itself only *)
(* suspended by interrupts; ksoftirqd and the callers are threads.  Code   *)
(* that runs with interrupts disabled and touches the data of its own CPU  *)
(* is one step; every access to the tasklet itself, which all CPUs share,  *)
(* is a step of its own.                                                   *)
(***************************************************************************)
EXTENDS Integers, FiniteSets, KList

CONSTANTS
  CPUs, Tasklets,
  Threads,              \* the callers in process context
  NoTasklet,
  MAX_SOFTIRQ_RESTART   \* passes of __do_softirq() before ksoftirqd takes over

ASSUME TaskletAssumption ==
  /\ IsFiniteSet(CPUs) /\ IsFiniteSet(Tasklets) /\ IsFiniteSet(Threads)
  /\ NoTasklet \notin Tasklets
  /\ MAX_SOFTIRQ_RESTART \in Nat \ {0}

VARIABLES
  SCHED, RUN,     \* the two bits of t->state
  count,          \* t->count: how many callers have disabled the tasklet
  vec,            \* tasklet_vec and tasklet_hi_vec of every CPU
  pending,        \* local_softirq_pending(), the two bits of them
  soft,           \* where the softirq of each CPU is; "none": not in softirq
  mask,           \* the bits the pass of __do_softirq() has still to serve
  list, cur, src, \* tasklet_action(): its list, its t, the vec it serves
  max_restart,    \* the local of __do_softirq()
  irq, irqt,      \* the interrupt handler of each CPU, and what it schedules
  kd,             \* where the ksoftirqd of each CPU is
  asleep,         \* its state is TASK_INTERRUPTIBLE
  pc, arg         \* the call a thread is in, and what it is about

Vecs == {"HI", "TASKLET"}

Jobs == Tasklets \X Vecs
NoJob == <<NoTasklet, "TASKLET">>

shared == <<SCHED, RUN, count>>
percpu == <<vec, pending>>
softVars == <<soft, mask, list, cur, src, max_restart>>
irqVars == <<irq, irqt>>
kdVars == <<kd, asleep>>
threadVars == <<pc, arg>>
vars == <<shared, percpu, softVars, irqVars, kdVars, threadVars>>

SoftLabels == {"take", "loop", "count", "clear", "run", "resched", "unlock", "requeue", "check"}
ThreadLabels == {"idle", "queue", "dwait", "disabled", "nosync", "kill", "yield", "kwait", "kclear"}

TypeOK ==
  /\ SCHED \in [Tasklets -> BOOLEAN] /\ RUN \in [Tasklets -> BOOLEAN]
  /\ count \in [Tasklets -> 0..Cardinality(Threads)]
  /\ vec \in [CPUs -> [Vecs -> Seq(Tasklets)]] /\ pending \in [CPUs -> SUBSET Vecs]
  /\ soft \in [CPUs -> {"none"} \cup SoftLabels]
  /\ mask \in [CPUs -> SUBSET Vecs] /\ src \in [CPUs -> Vecs]
  /\ list \in [CPUs -> Seq(Tasklets)]
  /\ cur \in [CPUs -> Tasklets \cup {NoTasklet}]
  /\ max_restart \in [CPUs -> 0..MAX_SOFTIRQ_RESTART]
  /\ irq \in [CPUs -> {"none", "queue", "exit"}]
  /\ irqt \in [CPUs -> Jobs \cup {NoJob}]
  /\ kd \in [CPUs -> {"test", "schedule", "loop"}]
  /\ asleep \in [CPUs -> BOOLEAN]
  /\ pc \in [Threads -> ThreadLabels]
  /\ arg \in [Threads -> Jobs \cup {NoJob}]

(* tasklet_init() has run, and each ksoftirqd has just been started. *)
Init ==
  /\ SCHED = [t \in Tasklets |-> FALSE] /\ RUN = [t \in Tasklets |-> FALSE]
  /\ count = [t \in Tasklets |-> 0]
  /\ vec = [k \in CPUs |-> [v \in Vecs |-> <<>>]] /\ pending = [k \in CPUs |-> {}]
  /\ soft = [k \in CPUs |-> "none"]
  /\ mask = [k \in CPUs |-> {}] /\ src = [k \in CPUs |-> "TASKLET"]
  /\ list = [k \in CPUs |-> <<>>]
  /\ cur = [k \in CPUs |-> NoTasklet]
  /\ max_restart = [k \in CPUs |-> 0]
  /\ irq = [k \in CPUs |-> "none"] /\ irqt = [k \in CPUs |-> NoJob]
  /\ kd = [k \in CPUs |-> "test"] /\ asleep = [k \in CPUs |-> TRUE]
  /\ pc = [p \in Threads |-> "idle"] /\ arg = [p \in Threads |-> NoJob]

Set(f, x, v) == [f EXCEPT ![x] = v]

(* Who may execute on CPU k. *)
SoftirqRuns(k) == irq[k] = "none"
ThreadRuns(k) == irq[k] = "none" /\ soft[k] = "none"

-----------------------------------------------------------------------------
(* wakeup_softirqd() *)
wakeup_softirqd(k) == asleep' = Set(asleep, k, FALSE)

(* The body of __tasklet_schedule() and __tasklet_hi_schedule(): the       *)
(* tasklet goes to the end of the list of this CPU and the softirq is      *)
(* raised; a caller that is not in interrupt context wakes ksoftirqd.      *)
Enqueue(t, v, k) ==
  /\ vec' = [vec EXCEPT ![k][v] = Append(@, t)]
  /\ pending' = [pending EXCEPT ![k] = @ \cup {v}]

(* __do_softirq() starts a pass: the pending bits are reset before the     *)
(* interrupts are enabled again.                                           *)
BeginPass(k, n) ==
  /\ soft' = Set(soft, k, "take")
  /\ max_restart' = Set(max_restart, k, n)
  /\ mask' = Set(mask, k, pending[k])
  /\ pending' = Set(pending, k, {})

-----------------------------------------------------------------------------
(* A hard interrupt whose handler calls tasklet_schedule().  irq_exit()    *)
(* runs the softirq unless the interrupt came in the middle of one.        *)
irq_tasklet_schedule(k, t, v) ==
  /\ irq[k] = "none" /\ ~SCHED[t]
  /\ SCHED' = Set(SCHED, t, TRUE)
  /\ irq' = Set(irq, k, "queue") /\ irqt' = Set(irqt, k, <<t, v>>)
  /\ UNCHANGED <<RUN, count, percpu, softVars, kdVars, threadVars>>

irq_queue(k) ==
  /\ irq[k] = "queue"
  /\ Enqueue(irqt[k][1], irqt[k][2], k)
  /\ irq' = Set(irq, k, "exit") /\ irqt' = Set(irqt, k, NoJob)
  /\ UNCHANGED <<shared, softVars, kdVars, threadVars>>

irq_exit(k) ==
  /\ irq[k] = "exit"
  /\ irq' = Set(irq, k, "none")
  /\ IF soft[k] = "none" /\ pending[k] # {}
       THEN BeginPass(k, MAX_SOFTIRQ_RESTART)
       ELSE UNCHANGED <<soft, mask, max_restart, pending>>
  /\ UNCHANGED <<shared, vec, list, cur, src, irqt, kdVars, threadVars>>

(* An interrupt that schedules nothing new: its irq_exit() serves what is  *)
(* pending.                                                                *)
irq_other(k) ==
  /\ ThreadRuns(k) /\ pending[k] # {}
  /\ BeginPass(k, MAX_SOFTIRQ_RESTART)
  /\ UNCHANGED <<shared, vec, list, cur, src, irqVars, kdVars, threadVars>>

-----------------------------------------------------------------------------
(* tasklet_action() and tasklet_hi_action(), one action for each of their  *)
(* steps.  HI_SOFTIRQ is the lowest bit, so its action comes first.        *)
SoftStep(k, from, to) ==
  /\ soft[k] = from /\ SoftirqRuns(k)
  /\ soft' = Set(soft, k, to)
  /\ UNCHANGED <<max_restart, irqVars, kdVars, threadVars>>

take_list(k) ==
  LET v == IF "HI" \in mask[k] THEN "HI" ELSE "TASKLET" IN
  /\ SoftStep(k, "take", "loop")
  /\ mask' = Set(mask, k, mask[k] \ {v})
  /\ src' = Set(src, k, v)
  /\ list' = Set(list, k, vec[k][v])
  /\ vec' = [vec EXCEPT ![k][v] = <<>>]
  /\ UNCHANGED <<shared, pending, cur>>

tasklet_trylock_MutUP(k) ==        \* the uniprocessor definition: always succeeds
  /\ list[k] # <<>>
  /\ cur' = Set(cur, k, Head(list[k])) /\ list' = Set(list, k, Tail(list[k]))
  /\ SoftStep(k, "loop", "count")
  /\ RUN' = Set(RUN, Head(list[k]), TRUE)
  /\ UNCHANGED <<SCHED, count, percpu, mask, src>>

tasklet_trylock(k) ==
  /\ list[k] # <<>>
  /\ cur' = Set(cur, k, Head(list[k])) /\ list' = Set(list, k, Tail(list[k]))
  /\ \/ ~RUN[Head(list[k])] /\ SoftStep(k, "loop", "count")
     \/ RUN[Head(list[k])] /\ SoftStep(k, "loop", "requeue")
  /\ RUN' = Set(RUN, Head(list[k]), TRUE)
  /\ UNCHANGED <<SCHED, count, percpu, mask, src>>

read_count(k) ==
  /\ \/ soft[k] = "count" /\ count[cur[k]] = 0 /\ SoftStep(k, "count", "clear")
     \/ soft[k] = "count" /\ count[cur[k]] # 0 /\ SoftStep(k, "count", "unlock")
  /\ UNCHANGED <<shared, percpu, mask, list, cur, src>>

(* test_and_clear_bit(TASKLET_STATE_SCHED); BUG() if it was clear. *)
clear_sched(k) ==
  /\ SoftStep(k, "clear", "run")
  /\ SCHED' = Set(SCHED, cur[k], FALSE)
  /\ UNCHANGED <<RUN, count, percpu, mask, list, cur, src>>

(* t->func() may schedule its own tasklet again. *)
func_reschedules(k) ==
  /\ soft[k] = "run" /\ ~SCHED[cur[k]]
  /\ SoftStep(k, "run", "resched")
  /\ SCHED' = Set(SCHED, cur[k], TRUE)
  /\ UNCHANGED <<RUN, count, percpu, mask, list, cur, src>>

func_queue(k) ==
  /\ SoftStep(k, "resched", "run")
  /\ Enqueue(cur[k], src[k], k)
  /\ UNCHANGED <<shared, mask, list, cur, src>>

func_returns(k) ==
  /\ SoftStep(k, "run", "loop")
  /\ RUN' = Set(RUN, cur[k], FALSE)
  /\ cur' = Set(cur, k, NoTasklet)
  /\ UNCHANGED <<SCHED, count, percpu, mask, list, src>>

(* A disabled tasklet is unlocked; like one that runs elsewhere, it goes   *)
(* back to the list of this CPU.                                           *)
tasklet_unlock(k) ==
  /\ SoftStep(k, "unlock", "requeue")
  /\ RUN' = Set(RUN, cur[k], FALSE)
  /\ UNCHANGED <<SCHED, count, percpu, mask, list, cur, src>>

requeue(k) ==
  /\ SoftStep(k, "requeue", "loop")
  /\ Enqueue(cur[k], src[k], k)
  /\ cur' = Set(cur, k, NoTasklet)
  /\ UNCHANGED <<shared, mask, list, src>>

action_returns(k) ==
  /\ list[k] = <<>>
  /\ SoftStep(k, "loop", IF mask[k] = {} THEN "check" ELSE "take")
  /\ src' = Set(src, k, "TASKLET")
  /\ UNCHANGED <<shared, percpu, mask, list, cur>>

(* The end of a pass of __do_softirq(): another one, or ksoftirqd has to   *)
(* do the rest.                                                            *)
restart_MutNoWake(k) ==            \* leaves the rest to the next interrupt
  /\ soft[k] = "check" /\ SoftirqRuns(k)
  /\ \/ /\ pending[k] # {} /\ max_restart[k] > 1
        /\ BeginPass(k, max_restart[k] - 1)
        /\ UNCHANGED asleep
     \/ /\ ~(pending[k] # {} /\ max_restart[k] > 1)
        /\ UNCHANGED <<asleep, pending, mask>>
        /\ soft' = Set(soft, k, "none") /\ max_restart' = Set(max_restart, k, 0)
  /\ UNCHANGED <<shared, vec, list, cur, src, irqVars, kd, threadVars>>

restart(k) ==
  /\ soft[k] = "check" /\ SoftirqRuns(k)
  /\ \/ /\ pending[k] # {} /\ max_restart[k] > 1
        /\ BeginPass(k, max_restart[k] - 1)
        /\ UNCHANGED asleep
     \/ /\ ~(pending[k] # {} /\ max_restart[k] > 1)
        /\ IF pending[k] # {} THEN wakeup_softirqd(k) ELSE UNCHANGED asleep
        /\ soft' = Set(soft, k, "none") /\ max_restart' = Set(max_restart, k, 0)
        /\ UNCHANGED <<pending, mask>>
  /\ UNCHANGED <<shared, vec, list, cur, src, irqVars, kd, threadVars>>

Softirq(k) ==
  \/ take_list(k) \/ tasklet_trylock(k) \/ read_count(k) \/ clear_sched(k)
  \/ func_queue(k) \/ func_returns(k) \/ tasklet_unlock(k) \/ requeue(k) \/ action_returns(k)
  \/ restart(k)

-----------------------------------------------------------------------------
(* run_ksoftirqd().  It is TASK_INTERRUPTIBLE when it looks for pending    *)
(* softirqs before it sleeps.                                              *)
KdStep(k, from, to) ==
  /\ kd[k] = from /\ ThreadRuns(k)
  /\ kd' = Set(kd, k, to)
  /\ UNCHANGED <<shared, vec, list, cur, src, irqVars, threadVars>>

kd_test(k) ==
  /\ \/ pending[k] = {} /\ KdStep(k, "test", "schedule") /\ UNCHANGED asleep
     \/ pending[k] # {} /\ KdStep(k, "test", "loop") /\ asleep' = Set(asleep, k, FALSE)
  /\ UNCHANGED <<pending, soft, mask, max_restart>>

kd_schedule_returns(k) ==
  /\ ~asleep[k]
  /\ KdStep(k, "schedule", "loop")
  /\ UNCHANGED <<asleep, pending, soft, mask, max_restart>>

kd_loop(k) ==
  \/ /\ pending[k] # {} /\ KdStep(k, "loop", "loop")
     /\ BeginPass(k, MAX_SOFTIRQ_RESTART)
     /\ UNCHANGED asleep
  \/ /\ pending[k] = {} /\ KdStep(k, "loop", "test")
     /\ asleep' = Set(asleep, k, TRUE)
     /\ UNCHANGED <<pending, soft, mask, max_restart>>

run_ksoftirqd(k) == kd_test(k) \/ kd_schedule_returns(k) \/ kd_loop(k)

-----------------------------------------------------------------------------
(* The calls of a thread; it may migrate between two steps. *)
Call(p, from, to, j) ==
  /\ pc[p] = from
  /\ pc' = Set(pc, p, to)
  /\ arg' = Set(arg, p, IF to = "idle" THEN NoJob ELSE j)
  /\ UNCHANGED <<softVars, irqVars, kd>>

tasklet_schedule(p, t, v) ==
  /\ ~SCHED[t] /\ Call(p, "idle", "queue", <<t, v>>)
  /\ SCHED' = Set(SCHED, t, TRUE)
  /\ UNCHANGED <<RUN, count, percpu, asleep>>

__tasklet_schedule(p, k) ==
  /\ ThreadRuns(k) /\ Call(p, "queue", "idle", arg[p])
  /\ Enqueue(arg[p][1], arg[p][2], k) /\ wakeup_softirqd(k)
  /\ UNCHANGED shared

tasklet_disable(p, t) ==
  /\ Call(p, "idle", "dwait", <<t, "TASKLET">>)
  /\ count' = Set(count, t, count[t] + 1)
  /\ UNCHANGED <<SCHED, RUN, percpu, asleep>>

tasklet_disable_nosync(p, t) ==
  /\ Call(p, "idle", "nosync", <<t, "TASKLET">>)
  /\ count' = Set(count, t, count[t] + 1)
  /\ UNCHANGED <<SCHED, RUN, percpu, asleep>>

disable_wait_MutNone(p) ==         \* tasklet_disable() as tasklet_disable_nosync()
  /\ Call(p, "dwait", "disabled", arg[p])
  /\ UNCHANGED <<shared, percpu, asleep>>

(* tasklet_unlock_wait() spins until the tasklet does not run. *)
disable_wait(p) ==
  /\ pc[p] = "dwait" /\ ~RUN[arg[p][1]] /\ Call(p, "dwait", "disabled", arg[p])
  /\ UNCHANGED <<shared, percpu, asleep>>

tasklet_enable(p) ==
  /\ Call(p, "disabled", "idle", arg[p]) \/ Call(p, "nosync", "idle", arg[p])
  /\ count' = Set(count, arg[p][1], count[arg[p][1]] - 1)
  /\ UNCHANGED <<SCHED, RUN, percpu, asleep>>

(* tasklet_kill(): take the SCHED bit as a scheduler would, wait until the *)
(* handler has ended, and give the bit back.                               *)
tasklet_kill(p, t) ==
  /\ Call(p, "idle", "kill", <<t, "TASKLET">>)
  /\ UNCHANGED <<shared, percpu, asleep>>

kill_set_MutNoLoop(p) ==           \* sets the bit, whoever has it
  /\ pc[p] = "kill"
  /\ Call(p, "kill", "kwait", arg[p])
  /\ SCHED' = Set(SCHED, arg[p][1], TRUE)
  /\ UNCHANGED <<RUN, count, percpu, asleep>>

kill_set(p) ==
  /\ pc[p] = "kill"
  /\ Call(p, "kill", IF SCHED[arg[p][1]] THEN "yield" ELSE "kwait", arg[p])
  /\ SCHED' = Set(SCHED, arg[p][1], TRUE)
  /\ UNCHANGED <<RUN, count, percpu, asleep>>

kill_yield(p) ==
  /\ pc[p] = "yield" /\ ~SCHED[arg[p][1]] /\ Call(p, "yield", "kill", arg[p])
  /\ UNCHANGED <<shared, percpu, asleep>>

kill_wait(p) ==
  /\ pc[p] = "kwait" /\ ~RUN[arg[p][1]] /\ Call(p, "kwait", "kclear", arg[p])
  /\ UNCHANGED <<shared, percpu, asleep>>

kill_clear(p) ==
  /\ Call(p, "kclear", "idle", arg[p])
  /\ SCHED' = Set(SCHED, arg[p][1], FALSE)
  /\ UNCHANGED <<RUN, count, percpu, asleep>>

Kill(p) == kill_set(p) \/ kill_yield(p) \/ kill_wait(p) \/ kill_clear(p)

Thread(p) ==
  \/ \E k \in CPUs : __tasklet_schedule(p, k)
  \/ disable_wait(p) \/ tasklet_enable(p) \/ Kill(p)

Calls(p, t) ==
  \/ (\E v \in Vecs : tasklet_schedule(p, t, v)) \/ tasklet_disable(p, t)
  \/ tasklet_disable_nosync(p, t) \/ tasklet_kill(p, t)

Irq(k) == irq_queue(k) \/ irq_exit(k)

Next ==
  \/ \E k \in CPUs : Irq(k) \/ irq_other(k) \/ Softirq(k) \/ func_reschedules(k) \/ run_ksoftirqd(k)
  \/ \E k \in CPUs, t \in Tasklets, v \in Vecs : irq_tasklet_schedule(k, t, v)
  \/ \E p \in Threads : Thread(p) \/ \E t \in Tasklets : Calls(p, t)

Spec == Init /\ [][Next]_vars

(* Interrupts end; a CPU that stays out of interrupts runs its softirq,    *)
(* and one that stays out of softirqs too runs its threads.                *)
Fairness ==
  /\ \A k \in CPUs : WF_vars(Irq(k)) /\ WF_vars(Softirq(k)) /\ WF_vars(run_ksoftirqd(k))
  /\ \A p \in Threads : WF_vars(Thread(p))

FairSpec == Spec /\ Fairness

-----------------------------------------------------------------------------
(* The handler of tasklet t has been entered on CPU k, or will be whatever *)
(* the others do.                                                          *)
Executes(k, t) == soft[k] \in {"clear", "run", "resched"} /\ cur[k] = t

(* "Tasklet is strictly serialized wrt itself": two CPUs that found the    *)
(* same tasklet on their lists never run its handler at the same time.     *)
Serialized ==
  \A t \in Tasklets, k, l \in CPUs : Executes(k, t) /\ Executes(l, t) => k = l

(* When tasklet_disable() has returned, the handler does not run anywhere  *)
(* until tasklet_enable(), although a CPU that read the count before may   *)
(* have been about to enter it.                                            *)
DisabledIsQuiet ==
  \A p \in Threads : pc[p] = "disabled" => \A k \in CPUs : ~Executes(k, arg[p][1])

(* Where the SCHED bit of a tasklet may have been taken to: a list of a    *)
(* CPU, the list that its softirq works on, the tasklet that the softirq   *)
(* has in hand, one that an interrupt or a thread is about to queue, and   *)
(* a tasklet_kill() that has got the bit.                                  *)
Places == Vecs \cup {"list", "cur", "irq", "queue", "kill"}

At(t, x, w) ==
  \/ x \in CPUs /\ w \in Vecs /\ t \in Entries(vec[x][w])
  \/ x \in CPUs /\ w = "list" /\ t \in Entries(list[x])
  \/ /\ x \in CPUs /\ w = "cur" /\ cur[x] = t
     /\ soft[x] \in {"count", "clear", "resched", "unlock", "requeue"}
  \/ x \in CPUs /\ w = "irq" /\ irqt[x][1] = t
  \/ x \in Threads /\ w = "queue" /\ pc[x] = "queue" /\ arg[x][1] = t
  \/ x \in Threads /\ w = "kill" /\ pc[x] \in {"kwait", "kclear"} /\ arg[x][1] = t

Tokens(t) == {e \in (CPUs \cup Threads) \X Places : At(t, e[1], e[2])}

(* The SCHED bit is the one token of a tasklet: it is set exactly when the *)
(* tasklet is on its way to one list, once on one list, in the hands of    *)
(* one CPU, or owned by one tasklet_kill().  So it never is on two lists,  *)
(* the BUG() of tasklet_action() is never reached, and when tasklet_kill() *)
(* has waited the tasklet is neither queued nor running.                   *)
SchedIsToken ==
  /\ \A k \in CPUs : LinkedOnce(list[k]) /\ \A v \in Vecs : LinkedOnce(vec[k][v])
  /\ \A t \in Tasklets : Cardinality(Tokens(t)) = IF SCHED[t] THEN 1 ELSE 0
  /\ \A p \in Threads : pc[p] = "kclear" => \A k \in CPUs : ~Executes(k, arg[p][1])

(* A scheduled tasklet is executed, once it is no longer disabled: the     *)
(* softirq it needs is seen by the pass that is running, by the end of an  *)
(* interrupt or by a ksoftirqd that is woken, however often the pass gives *)
(* up after MAX_SOFTIRQ_RESTART rounds.                                    *)
ScheduledRuns ==
  \A t \in Tasklets : <>[](count[t] = 0) => (SCHED[t] ~> ~SCHED[t])

=============================================================================
