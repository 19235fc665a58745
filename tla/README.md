# Verification of the blocking core of run-linux-2.6

The repository builds a Linux 2.6.39 kernel for 32-bit x86 and runs it under QEMU with a BusyBox user space. This
directory holds TLA+ models of the part of that kernel everything else sleeps on: task sleep and wakeup, the counting
semaphore, the mutex, the reader/writer semaphore, completions, wait queues with the `wait_event()` family, the page
lock and futexes; and of the parts that run code for others later: SRCU grace periods, softirqs with tasklets, and timers,
from the locking of their bases to the wheel and the CPU that stops its tick. TLC checks the models on small instances. TLAPS proves the safety
properties of the semaphore, the mutex, the rw-semaphore, completions, wait queues, the page lock, SRCU, timers, the timer wheel, tasklets and futexes
for every number of tasks, CPUs and objects, and that the mutex and the rw-semaphore implement abstract locks.

Paths below are relative to `src/linux-2.6.39/`. The configuration modelled is the i386 default one: SMP, no kernel
preemption, `HZ` 1000, dynamic ticks, `xadd`-based rw-semaphores, optimistic mutex spinning, ticket spinlocks.

## 1. Inventory

### The parts that are modelled

| Part | State it keeps | Operations | Who acts on it |
|---|---|---|---|
| Lists (`include/linux/list.h`) | order of the entries | add, add_tail, del, empty | every primitive, under its own spinlock |
| Sleep and wakeup (`kernel/sched.c`, `kernel/timer.c`, `kernel/signal.c`) | `task->state`, being on the run queue, pending signal, on-stack timer | `schedule()`, `try_to_wake_up()`, `process_timeout()`, `signal_wake_up()` | the task itself, wakers, timer interrupt, signal senders |
| Semaphore (`kernel/semaphore.c`) | `count`, `wait_list`, `waiter.up` on the stack | `down*()`, `down_trylock()`, `up()` | tasks, interrupts (`up()`, `down_trylock()`) |
| Mutex (`kernel/mutex.c`, `asm/mutex_32.h`) | `count`, `owner`, `wait_list`, `wait_lock` | lock (3 kinds), trylock (2 builds), unlock, spinning | tasks |
| Rw-semaphore (`lib/rwsem.c`, `asm/rwsem.h`) | packed `count`, `wait_list`, `waiter.task` | `down_read/write`, trylocks, `up_*`, `downgrade_write` | tasks |
| Completion (`kernel/sched.c`) | `done`, queue | `wait_for_completion*()`, `try_wait...`, `complete()`, `complete_all()`, `INIT_COMPLETION()` | tasks, interrupts |
| Wait queues (`kernel/wait.c`, `include/linux/wait.h`, `kernel/sched.c`) | queue, its lock, on-stack entries | `prepare_to_wait*()`, `finish_wait()`, `abort_exclusive_wait()`, `__wake_up()`, the `wait_event*()` macros | tasks, wakers |
| Page lock (`mm/filemap.c`) | `PG_locked`, `PG_writeback`, one hashed queue | `lock_page*()`, `unlock_page()`, `wait_on_page_bit()`, `end_page_writeback()` | tasks, end of I/O |
| Futexes (`kernel/futex.c`) | hash buckets with a lock and a chain each, on-stack `futex_q` with `key` and `lock_ptr`, the user's word | `futex_wait()` and its restart, `futex_wake()`, `futex_wake_op()`, `futex_requeue()` | tasks, timers, signals |
| SRCU (`kernel/srcu.c`) | `completed`, two counters per CPU, a mutex | `srcu_read_lock()`, `srcu_read_unlock()`, `synchronize_srcu()` | readers that migrate, updaters, the store buffers of the CPUs |
| Softirqs and tasklets (`kernel/softirq.c`, `include/linux/interrupt.h`) | pending bits and two tasklet lists per CPU; `SCHED`, `RUN` and `count` per tasklet; ksoftirqd | schedule (two priorities), disable, enable, kill, `__do_softirq()`, `irq_exit()`, `run_ksoftirqd()` | interrupts, softirqs, ksoftirqd, threads |
| Timers (`kernel/timer.c`) | `timer->base`, being pending, `base->running_timer`, base locks | `mod_timer()` and its variants, `add_timer_on()`, `del_timer()`, `del_timer_sync()`, `__run_timers()` | threads, handlers, the timer softirq of each CPU |
| Timer wheel and dynamic tick (`kernel/timer.c`, `kernel/time/tick-sched.c`) | five vectors, `timer_jiffies`, `next_timer`, `jiffies`, whether the tick runs | insertion, slack, cascade, search for the next timer, stop and restart of the tick | one CPU, and others that add timers for it |

### How they interact

All primitives sleep the same way: put an entry that lives on the own stack on a queue, set `task->state`, test, call
`schedule()`. Wakers take the entry off or mark it and call `try_to_wake_up()`. Signals and timers call `try_to_wake_up()`
too, at any moment, without knowing what the task waits for. The page lock is built on bit waits, those on the wait queue;
completions use the queue and its lock but not the auto-removing entries; mutex, semaphore and rw-semaphore have queues of
their own. A futex waiter sleeps by the rules of `TaskState` too. SRCU needs of the scheduler that every CPU switches context
(`synchronize_sched()`), which is where its store buffer is emptied. Timers run in a softirq, as tasklets do; the two models
of timers look at the same code from two sides: `Timer` at who may touch a timer, with expiry at any time, `TimerWheel` at
when it expires, on one base under its lock.

### What is hard, and what makes each part correct

* a wakeup between the store of the state and the sleep must not be lost (all parts);
* the entry is on the stack of a task that may return at any time: nobody may touch it afterwards (all parts);
* a grant or an event that races a timeout or a signal must neither vanish nor count twice (semaphore, completion, page lock);
* state read without the lock is stale when used: `lock->owner`, the rw-semaphore's count, `list_empty_careful()`,
  `waitqueue_active()`;
* `lock_ptr` of a futex, `timer->base` and the index of an SRCU reader are read without a lock to find out what to lock or count;
* a handler that is about to run, or runs and schedules itself again, races those who disable, delete, kill or move it
  (tasklets, timers);
* a store that is still in the buffer of another CPU (SRCU);
* a cached time, and arithmetic on words that wrap (timer wheel);
* a fast path may overtake the queue: harmless progress for the mutex, forbidden for semaphore and rw-semaphore;
* whoever releases must wake somebody who can use it, or somebody must be awake already.

The list `hazards` in `PROJECT.json` gives the main ones their source line and the properties that cover them. Two that no
property covers are left to the callers by the code itself: `mutex_unlock()` still uses the mutex after it has made it available
(`kernel/mutex.c:322`), and `INIT_COMPLETION()` stores without the lock (`include/linux/completion.h:101`).

### The parts that are not modelled

Scheduler classes, signal delivery beyond its wakeup, workqueues, kernel threads, tree RCU, rtmutex and the priority
inheritance of futexes, pipes, eventfd, System V IPC, memory management beyond the page lock, the JBD journal, VFS and
file systems, block layer, network, drivers, boot and architecture code, BusyBox, and the shell scripts that build and
start the machine. `PROJECT.json` gives the reason for each. Those named in the plan (section 7) come next; the rest are
hardware, data-heavy sequential code, vendored user space, or systems of their own. Of the parts in the table these operations
are left out: `cleanup_srcu_struct()`; `tasklet_hi_schedule_first()`, `local_bh_disable()`, remote softirqs and
forced threading of interrupts (`force_irqthreads`, where `irq_exit()` wakes ksoftirqd instead of running the softirqs); high-resolution
timers and everything CPU hotplug does to tasklets and timers; futex bitsets, robust lists and the order of real-time waiters.
Of `futex_requeue()` the form that compares a value first is modelled (`FUTEX_CMP_REQUEUE`), between two different futexes: `FUTEX_REQUEUE`, which skips the
comparison, and a requeue of a futex to itself are not. After a fault on the user's word the model retries; the error returns (`-EFAULT`) of wakers and
waiters are left out. Of `tick_nohz_stop_sched_tick()` the reasons that only shorten a sleep are left out: `rcu_needs_cpu()` and its like, the next hrtimer
(`cmp_next_hrtimer_event()`) and `timekeeping_max_deferment()`. An interrupt may end a sleep at any time in the model, which covers the last two.

## 2. Modules

| Module | Models | Used by |
|---|---|---|
| `KList` | lists as sequences of entries (every list here is walked only under its lock) | the locks, `Completion`, `Tasklet`, `Timer`, `Futex` |
| `TaskState` | sleep, wakeup, timers, signals | all blocking primitives and `Futex` |
| `Semaphore` | `kernel/semaphore.c` | |
| `Mutex` | `kernel/mutex.c`, fast paths, spinning | |
| `BlockingLock` | abstract: a lock a task waits for, gets, or is interrupted in | refined by `Mutex` |
| `Rwsem` | `lib/rwsem.c`, `asm/rwsem.h` | |
| `FairRWLock` | abstract: a FIFO reader/writer lock | refined by `Rwsem` |
| `Completion` | completions of `kernel/sched.c` | |
| `WaitQueue` | `prepare_to_wait()` ... and the walk of `__wake_up_common()` | `WaitEvent`, `PageLock` |
| `WaitEvent` | the `wait_event()` family | |
| `PageLock` | bit waits, page lock, writeback | |
| `Futex` | wait, wake, wake_op and requeue of `kernel/futex.c` | |
| `SRCU` | `kernel/srcu.c`, with x86 store buffers | |
| `Tasklet` | tasklets, `__do_softirq()`, ksoftirqd | |
| `Timer` | timers on several bases, their handlers and their deletion | |
| `TimerWheel` | the wheel of one base, slack, `next_timer`, the stopped tick | |
| `KListProofs` | lemmas about lists, the least number of a set, induction over numbers, remainders | the other proof modules |
| `CountingProofs` | proofs about `Semaphore` and `Completion` | |
| `WaitProofs` | proofs about `WaitQueue`, `WaitEvent` and `PageLock` | |
| `MutexSrcuProofs` | proofs about `Mutex` and about `SRCU` | |
| `RwsemProofs`, `TimerProofs`, `FutexProofs` | proofs about the module of that name | |
| `SoftirqProofs` | proofs about `Tasklet` and about `TimerWheel` | |
| `MC*` | the same modules with constants and symmetry sets for TLC | |

### State and steps

A task is identified with the entry it puts on a queue, since it has at most one. `pc[t]` says where it is inside the
primitive; label `schedule` is inside `schedule()`, label `resumed` just after it. Task states are sets of bits, so that
`state & mask` is an intersection; `try_to_wake_up()` returns success only when the task had left the run queue, as the code
does, and that result decides whether an exclusive wakeup was consumed.

*How finely steps are cut* follows the locking. Code under a spinlock whose protected data nobody reads without the lock
is one action (`Semaphore`, `Completion`). Where the code uses atomic instructions, or data is read without the lock, each
instruction that others can observe is an action: every change of `lock->count`, each write of `owner`, and the spinner's reads
(`Mutex`); every `xadd`, each grant (`waiter->task = NULL`) and each wakeup after it (`Rwsem`); the wakeup and both stores of
`list_del_init()` (`WaitQueue`). There the spinlock is a variable naming its holder. In `Futex` a waiter holds the lock of its
bucket for one action and a waker for several, since it may have two; each waiter that a waker wakes or requeues is a step of its own,
so that a waiter that runs for another reason meets a walk that is half done. In `Tasklet` every atomic operation on `state` and `count` is an
action, an interrupt may come between any two of a softirq or a thread, and what is done with interrupts off is one action.
In `Timer` a stretch under a base lock is one action, except that `__run_timers()` drops the lock for the handler and
`__mod_timer()` drops it between two bases. In `TimerWheel` an operation under the base lock is one action, and the interesting steps
are those of time. A timer comes to the base in one action, `mod_timer()`, if the caller has the lock of this base when it finds the CPU busy, or runs on it. If
`__mod_timer()` comes from an idle CPU with the lock of another base, it takes two: `get_nohz_timer_target()` chooses this base because its CPU is busy, the caller changes locks, and
`timer_set_base()` inserts the timer whatever the CPU does by then, without waking it up.

*Abstractions.* Only `SRCU` models memory: each CPU has a FIFO of stores that others do not see yet (x86 store buffers), emptied by
locked instructions and context switches, because `srcu_read_lock()` has no barrier and counts on `synchronize_sched()` for it. Its counters and
`completed` are small words that wrap. Elsewhere memory is sequentially consistent: the code has the barriers (`smp_mb()`, locked instructions) where it
relies on order, and x86 needs no others. Except in `TimerWheel`, which counts jiffies, time is a timer that is armed, expired or gone. A signal is plain or fatal. A
task that returns with a fatal signal pending is dead and does nothing more. `lockdep`, statistics and debugging are left out.
History variables (`held`, `holders`, `permits`, `completes`, `taken`, `early`, `fate`, `stray`, `unkicked`) are read by properties only.

*Environment.* `up()` and `complete()` may come from an interrupt, so they are also actions of nobody; the semaphore bounds the
permits with `MaxPermits`. A completion is reinitialised only when nobody waits on it, as the callers must ensure.
`end_page_writeback()` comes from any idle task, standing for the end of I/O. SRCU updaters publish an object, wait for a grace period and
free the old object, and readers use what they find published. Users of a timer keep the rule of `del_timer_sync()`'s comment: nobody restarts
a timer that is being deleted, except its own handler, and by the kernel-doc of `mod_timer()` two callers do not start one timer at the same time without a lock of their own
where `add_timer_on()` is one of them. Otherwise `add_timer_on()` is called whenever the timer is not pending, as in the code (`kernel/timer.c:862`): also by the timer's handler, and by others while the handler
runs on another base. `stray` records that this has happened and who called, until the timer runs nowhere any more and its deletion is over. Users of a futex follow the protocol of the comment in `futex_wait_setup()`: change the word, then wake.

## 3. Properties and runs

| Run | Checks |
|---|---|
| `semaphore` | permits are conserved; the list is exactly the ungranted waiters; nobody overtakes; a granted waiter is awake, and is never refused because of a timeout or signal; `down()` succeeds if every holder calls `up()` |
| `mutex_safety` | mutual exclusion; `owner` is never a non-holder; no sleeper is forgotten; deadlock freedom |
| `mutex_liveness` | refinement of `BlockingLock`, here with the trylock of the build without `cmpxchg`; a mutex somebody waits for does not stay free |
| `rwsem` | a writer excludes all; the count is the sum of its contributions, in its word; a free lock with a queue has somebody at work; refinement of `FairRWLock`; every `down_*()` returns; deadlock freedom |
| `completion` | `done` = completed - taken, in the width of the counter; the queue is exactly the tasks inside; as many waiters are awake as there are events |
| `waitevent` | no waker stores to a dead stack frame; no non-exclusive sleeper misses a true condition; a wait returns once the condition stays true |
| `pagelock` | no lost wakeup on a queue shared by two bits, where a killed locker passes its wakeup on; the bit is set iff the page has one owner |
| `srcu` | no reader keeps an object past the grace period that frees it; the counters add up to the readers, whatever CPU they leave on; while the old rank is added up one CPU at a time, its sum only falls |
| `tasklet` | a handler never runs on two CPUs, nor while its tasklet is disabled or killed; the `SCHED` bit is a token with one holder; a scheduled tasklet runs; deadlock freedom |
| `timer` | unless `add_timer_on()` has taken it away from under its running handler: after `del_timer_sync()` the timer is neither queued nor running, and its handler never runs on two CPUs. Always: a timer belongs to the base it names, or to the one caller that moves it; deadlock freedom |
| `timerwheel` | a jiffy runs exactly the timers that expire in it; a CPU with a stopped tick sleeps past none, except those that `__mod_timer()` brought to its base after it had gone to sleep; slack stays between the time asked for and the limit; all where words wrap |
| `futex` | a sleeper whose word has changed has a waker on its way; `futex_wait()` returns 0 iff a waker counted it; a `futex_q` is on the chain its `lock_ptr` and `key` name, and on none after the return; deadlock freedom |

Two more invariants state what a comment of the source says. They do not hold, and are in no run; TLC shows how they fail if they take the place of the `INVARIANTS` of `MCTimer.cfg` and `MCTimerWheel.cfg`:

| Invariant | How it fails |
|---|---|
| `SyncPromise` (`Timer`) | "Upon exit the timer is not queued and the handler is not running on any CPU" (`kernel/timer.c:969`), for callers that keep the rules of that comment. The handler runs on one CPU; a thread restarts the timer with `add_timer_on()` on another CPU, which moves `timer->base` without a look at `running_timer` (`kernel/timer.c:870`); then it calls `del_timer_sync()`, which asks the new base and returns at once. The comment forbids `add_timer_on()` to the handler only. `queue_delayed_work_on()` (`kernel/workqueue.c:1173`) can be such a caller, after `delayed_work_timer_fn()` has queued the work and before it has returned; `clocksource_watchdog()` (`kernel/time/clocksource.c:310`) calls it from the handler itself, which the comment does forbid for timers that are deleted this way. On two bases the handler may also run twice at the same time. |
| `NoTimerForgotten` (`TimerWheel`) | A timer's handler is called "at the ->expires point in the future" (`kernel/timer.c:838`), of timers that are not deferrable. `__mod_timer()` on an idle CPU chooses a busy target (`kernel/timer.c:686`) and takes the lock of its base later (`:703`); the target has become idle and stopped its tick in between, for longer than the timer has, or without any event. `add_timer_on()` wakes such a CPU up (`:884`), `__mod_timer()` does not. |

The `timer` and `timerwheel` runs, and the theorems, say that these are the only ways: `SyncMeansQuiet`, `SelfSerialized` and `NoOversleep` except exactly the timers that went
through them (`stray`, `unkicked`).

The type invariant of every module, and `StackSafe(InBitWait)` of `PageLock`, hold on these instances too: a line in a cfg's `INVARIANTS` shows it.

Besides these two the models disagree with three comments of the source. In each case the code is what its callers rely on.

* `asm/rwsem.h:8` calls the upper half of the count the negated number of active writers and waiting lockers; the waiting bias
  is added once for the whole queue (`lib/rwsem.c:188`), as `CountAccounts` has it.
* The comment of `completion_done()` (`kernel/sched.c:4610`) has it return 0 if there are waiters; it looks only at `done` (`:4620`), which is
  positive between `complete()` and the waiter's next run.
* The comment of `wait_event_timeout()` (`include/linux/wait.h:252`) has it return the remaining jiffies if the condition became true
  in time; a woken task that runs only after its time is up returns 0 without a look at the condition (`:233`).

(The comment of `unlock_page()`, that it also wakes the sleepers in `wait_on_page_writeback()`, is out of date in the same
way: `wake_bit_function()` compares the bit of the key. Nothing depends on it.)

Every property of a passing run is accompanied by a mutant: a plausible slip in a definition (dropped wakeup, swapped
order, missing bias, `list_empty()` for `list_empty_careful()`...), kept beside the definition and named `..._Mut...`, under
which TLC finds the property violated.

### Bounds

| Run | Instance | Why it is enough to be interesting |
|---|---|---|
| semaphore | 3 tasks, 1 permit and a second one from an interrupt | a holder or interrupt, the queue's head, and one behind it; timeouts and signals on both |
| mutex | 3 tasks, plain signals; 2 tasks with both kinds | holder, woken head, and a thief (spinner or newcomer) |
| rw-semaphore | 3 tasks, halves of 8 values | reader, writer and a reader behind it in the queue; the word has just the room for all biases, so one too many shows |
| completion | 3 tasks, `UINT_MAX` = 7, at most 2 `complete()` per round, plus `complete_all()` | two events for three waiters; the arithmetic of `complete_all()` in a small word |
| wait_event | 2 waiters that between them make every kind of call, 1 waker, fatal signals | waker, exclusive and non-exclusive waiter, in both orders |
| page lock | 3 tasks | unlocker, killed locker that was woken, locker behind it |
| srcu | 1 reader, 2 updaters, 2 CPUs, store buffers of 1 (`BufMax`), counters of 3 values (`RefWord`), `completed` of 6 (`Word`) | a second updater that arrives at any moment of the first one's grace period; a reader that starts and ends on different CPUs; wrap of both words |
| tasklet | 2 CPUs, 1 tasklet at both priorities, 1 thread, 2 rounds (`MAX_SOFTIRQ_RESTART`) | the handler on one CPU and the list of the other; the second round is the one that gives up |
| timer | 2 CPUs, 1 thread, 2 timers | the thread deletes a timer that the handlers of both restart and move; the other timer is on the list that the softirq works off, and its handler is a second caller. Two threads and one timer pass too; two of both are beyond five minutes |
| timer wheel | vectors of 2, 2, 2, 2 and 4 slots (64 jiffies, the whole word), 2 timers, expiry 1 jiffy ago (`MaxLate`), 2 or 10 ahead, slack 3 or automatic (a quarter, `AutoSlack`), softirq at most 1 jiffy late (`MaxLag`), a sleep without event of at most 16 jiffies (`MaxSleep`), calls at jiffy 61 of every turn of the word (`CallTimes`) and the passing of any number of jiffies | just before jiffy 64, where every vector cascades and the word wraps; 10, asked of a base that has slept and lags by up to 16, goes through every vector |
| futex | 1 waiter, 2 wakers, 2 futexes in one bucket or two | two requeues in opposite directions, or a requeue and a wake, around one waiter that times out, is interrupted and starts again |

Only calls are bounded by `CallTimes`; time is not, and wraps for ever.

`CHECK_DEADLOCK FALSE` appears where the system may stop: every task was killed, or all wait for an event nobody posts. The
mutex without fatal signals, the rw-semaphore, SRCU, tasklets, timers and futexes have no such state, and their runs check deadlock.

### Fairness

* Weak fairness of a task's own steps and of `schedule()`: a runnable task runs. The scheduler classes give every runnable
  task of the default class a share.
* Strong fairness of steps that take a spinlock others take again and again: the lock is a ticket lock on this
  architecture (`arch/x86/include/asm/spinlock.h`), served in order. `Semaphore`, whose locked stretches are
  single actions, does without.
* Weak fairness of release: a holder calls `up()`, `mutex_unlock()`, `up_read()`... in the end. That is the obligation of the
  callers, and no lock can return to the others without it.
* A CPU leaves its interrupt, then runs its softirq, then its threads, if no interrupt comes (`Tasklet`, weak fairness of each level).
  Interrupts that change nothing here are stutters, so this also assumes that they leave the CPU some time.
* An armed timer fires (semaphore). Nothing is assumed of new calls, signals, posted events, or of who wins a race.

## 4. Proofs

Theorems hold for every finite set of tasks, CPUs, threads, wakers and objects (and every initial count, bound on permits, kind of signal, width of
`done`, build of `mutex_trylock()`, hash of futexes, size of a store buffer, width of the SRCU counters). Assumed are only the `ASSUME`s next to the constants. Each proof is the same three facts: the initial state satisfies
an inductive invariant (`IInv`, or `CompletionIInv`, `PageIInv`, `SrcuInvariant` in the modules about two components), every step keeps it (one lemma per action or family of actions), and it implies the property. TLC checked each before it was proved.

**Lists** (`KListProofs`): what `list_add_tail()`, `list_del()` and `list_empty()` do to the set of entries and to their being
linked once, what is left when the first entry goes, and that a nonempty set of naturals has a least element (by the well-foundedness theorem `WFMin`), which
is how the first waiter that a wakeup finds is named. All reasoning about queues goes through these lemmas.

**Semaphore** (`CountingProofs`). The inductive invariant is `TypeOK`, "a task is off the run queue only inside
`schedule()`" (`AwakeOnRq`), "holders are outside `__down_common()`", `NoDanglingWaiter`, `NoBarging` and `GrantIsAwake`. The three properties need
each other: `__up()` may dereference the first entry because entries are waiters inside the loop; it wakes it for good
because a granted waiter is not put to sleep again, for which it must be the lock, not luck, that orders the test of
`waiter.up` and the grant. Conservation of permits is then an argument about cardinalities, one lemma per kind of step.
`GrantNeverRefused` is an action property proved from the type invariant: the flag is tested before signal and timeout.

**Mutex** (`MutexSrcuProofs`). `LInv` describes the lock word: who has the mutex at which label, who has `wait_lock`, that the count is 1
iff nobody holds, that it is negative while the winner of the slow path cleans up, and what a failed `trylock` slow path
leaves behind. `IInv` adds that the list is the slow path. `NoLostWakeup` is inductive relative to those and `AwakeOnRq`: the interesting steps are a newcomer's `xchg` to -1, a
waiter's departure with `-EINTR`, and the unlocker between `count = 1` and the wakeup. `MutexRefinesLock` shows every step to be a
step of `BlockingLock` or a stutter, with `ModeByLabel` as the extra invariant that relates a call to its label.

**Rw-semaphore** (`RwsemProofs`). `CountAccounts` is not inductive and not what the code tests, so `CountInv` takes `sem->count` apart into the two numbers it packs:
`Actives` (holders, lockers on their way to the queue, waiters being granted, an attempt to be undone) and `Biases` (writers among those, and one for the queue). `Bounds` shows both to be
small enough for their halves: nobody is counted twice, and `RwsemAssumption` is the limit of `asm/rwsem.h`. So nothing wraps (`NoWrap`), and every test of the code is a statement about the two numbers
(`Reads`): `count >= 0` means no bias, `count < RWSEM_WAITING_BIAS` a writer beside the queue, an active part of 0 that nobody holds. `ShapeInv` says where everybody is: who has `wait_lock`, that
the list is the ungranted waiters, what `__rwsem_do_wake()` has found at its front. `ExclInv` adds to `WriterExcludes` what makes a grant right that is counted but not yet made, and `QueueInv` strengthens
`NoStuckQueue`: a waker that has made its last grant does not count as being at work. Its interesting steps are the undone attempt, which gives up only if somebody is active who will
look at the queue himself, and the locker that joins the queue and finds nobody active. `RwsemRefinesFairRWLock` maps a waiter to a holder of the abstract lock at the `xadd` that counts it as active;
a fast path that succeeds has seen no bias, hence no queue.

**Completion** (`CountingProofs`). `CompletionIInv` is `CompletionTypeOK`, `AwakeOnRq`, `NoDanglingEntry`, `DoneIsBalance` and `EachEventWakes`; the three properties are inductive
only together. The balance keeps `done` inside its word, so the unsigned arithmetic of `complete()` and `complete_all()` never wraps and the decrement never starts from 0. That
the queue is exactly the waiters lets `complete()` find a sleeper if there is one: `__wake_up_common()` stops at the *first* waiter that `try_to_wake_up()` really
wakes, and the proof names it as the least index whose task sleeps. `EachEventWakes` then compares cardinalities: each event adds
an awake waiter, and each waiter that leaves awake takes an event or comes from the awake ones.

**Timer** (`TimerProofs`). `IInv` says who owns a timer: `MoverInv` (no base iff exactly one caller moves it), `ListInv` (on a list of its own base only, once, and there iff pending),
`RunInv` (a running timer that is not `stray` stays with the base that runs it, which is why `__mod_timer()` does not migrate it), `CallInv` (what a caller knows
by where it is) and `SyncInv` (a timer that is being deleted is restarted only by its own handler). `BaseOwnsTimer` counts places and
movers, and holds of stray timers too; `SelfSerialized` follows from `RunInv` alone, since a timer has one base; `SyncMeansQuiet` needs all of it, `PendInv` among it (a timer that `mod_timer_pending()` moves stays pending).
A timer becomes stray only in `add_timer_on()` on a base other than one that is running it, and stays so while it runs anywhere or is being deleted: `Settled` may clear the mark because with the last handler the only
disagreement between `base` and `running` has gone. So the theorems leave out no behaviour, only the timers that are in that state.

**Tasklet** (`SoftirqProofs`). The two bits are two tokens. `RunInv`: `RUN` is set while a softirq has the tasklet locked, and only one has. `TokenInv`: `SCHED` is set iff the
tasklet is in exactly one of the places where it can be: either list of a CPU, the list a softirq works off, its hands, an interrupt or thread
between setting the bit and queueing, or `tasklet_kill()`. `CountInv`: the count is the number of threads that disabled it. `Serialized`, `DisabledIsQuiet` and `SchedIsToken` follow; `KilledIsQuiet` and `DisabledIsQuiet` are
parts of `IInv` because the handler reads the count and clears `SCHED` in steps of their own, between which a thread may disable or kill it.

**Futex** (`FutexProofs`). `ChainInv` and `WaitOf` say that a `futex_q` of a waiting task has one of two owners: the chain that both `lock_ptr` and `key` name, or, with `lock_ptr` NULL, the
waker that took it off. They give `QueueMatchesLock` and, since `lock_ptr` is NULL exactly if a waker counted the task, `WakeupCounted`. `CallOf` has a waker in its loop hold both bucket locks, so that no waiter
joins a chain it walks. `Owes(w, f)` is the debt of a waker: before it has the locks it will wake or move as many as there are tasks, then as many
as still match. `OwedOf` is the heart of `NoLostWakeup`: if the word has changed under a waiter that nobody has woken or moved, somebody owes it a wakeup. It needs that whoever
changes the word calls after it, that a requeue which gives up has seen a newer change, whose author has the debt, and that a waiter looks at the word with the bucket locked.

**Wait queues** (`WaitProofs`). `WQInv(L)` is about the queue alone, with `L` the labels of the wait function, and serves both users: the walker has the lock (`WalkerLocks`); the queue is exactly
the entries whose pointers say "in", the one that is "half" out is the one the walker is removing, and the task of any entry that is not "out" is still inside (`QueueLinked`); a task that is not
`TASK_RUNNING` and past `prepare_to_wait()` is queued (`SleepersQueued`); what the walker has still to visit is queued (`WalkQueued`); exclusive entries are behind all the others, on the queue and in what is left of the walk
(`ExclusiveLast`). `NoStackScribble` follows from `QueueLinked` and `WalkQueued` (`QueueSafe`): `finish_wait()` returns without the lock only for an entry that is fully out. For `wait_event()`, `IInv` adds `EventWakes`, which is
`NoLostWakeup` with the mask of the walk: a walk that `abort_exclusive_wait()` has started wakes interruptible tasks only and does not count as a waker of the others. The walk that stops behind an exclusive waiter leaves only exclusive ones behind.

**Page lock** (`WaitProofs`). `PageIInv` adds to `WQInv` who waits for what (`BitWaiters`), `LockedMeansOwned`, and `BitWakes`, a stronger `NoLostBitWakeup`. The property lets a sleeping locker rely on another one that is awake
unless it gives up without having consumed its wakeup; but a task that is killable may be killed at its next step. So `Sure(u)` asks of a killable one that is not past its sleep that its entry is off the queue, or is the one the walker is about to remove.
Then it either looks at the bit again, or `abort_exclusive_wait()` finds the entry off the queue and starts a walk with its key, which sees every sleeper because all of them are queued. `wake_up_page()` may skip the walk for an empty queue for the
same reason. That a walk ends only behind a locker of the same bit, and leaves only lockers behind, is `ExclusiveLast` with the fact that every exclusive waiter waits for `PG_locked`.

**SRCU** (`MutexSrcuProofs`). Assumed are a finite set of readers, fewer of them than a counter has values (`Cardinality(Readers) < RefWord`), and an even word for `completed`; updaters, CPUs
and store buffers may be any. A *rank* is one of the two columns of counters; the *window* of an updater goes from its flip to the end of its scan, and the mutex allows one at a time. `SrcuInvariant` is built in this order:

1. `Control`: types, and who is where (the mutex belongs to the updater inside, which `sync_func()` precedes the flip and which the scan). `EveryReaderCounted` needs no more: what each CPU *sees* of a counter is memory with its own buffer
   on top, so a drain changes no sum and a reader changes one term of it, by 1 modulo the word. Sums over the CPUs are a recursive function; `SumUpdate`, `SumZero` and `SumNat` are induction over the number of CPUs (`Induct`, the well-foundedness of the naturals).
2. `Flips`: the only store to `completed` that can be pending is the owner's flip before its second `sync_func()`, the only new pointers those of updaters that do not yet have the mutex, and the old rank is not the one now selected.
3. `OldRankQuiet`: once the flip is in memory, on the CPUs that have switched tasks since (all but `qs`) nobody is between choosing the old rank and counting itself, and the stores to its counter that are pending are a run of decrements (`Falling`).
   They are decrements of readers that have left, so together with those that have entered there are no more of them than readers. This bound is what the limit on the readers is for: a sum that is 0 modulo the word is really 0.
4. `ScanSum`: when the scan has added up the first CPUs to `sum`, that and what the others see is the number of readers plus the decrements that came too late for it (`Tally`). So a scan whose sum is 0 proves that nobody is left, although
   no moment exists at which all counters were read. With `OldRankQuiet` at the start of a scan this is `OldRankOnlyDrains`.
5. `OneRank`: outside a window every reader is in the rank that `completed` selects. At the flip it becomes "in the old rank".
6. `Snapshot` and `Grace`: how far the grace period of *each* updater has come. `Leaving(u)` says that the pointer of `u` is in memory and that only readers of the rank somebody now waits for have the old object; `Gone(u)`, that nobody has. An updater
   that waits for the mutex has seen no flip since it looked at `completed`, or one (`FirstFlip`), or is `Leaving` already. After the first flip its pointer may still be in its buffer; but the second flip comes after a
   `sync_func()` that made its CPU switch, which is why two flips, and not one, allow the early exit. `NoUseAfterFree` is `Gone` at labels `free` and `idle`.

**Timer wheel** (`SoftirqProofs`). The widths of the five vectors, the timers, the timeouts and slacks of the callers, the jiffies at which they call, how late the softirq runs (`MaxLag`), how late a timer may be when it is added (`MaxLate`) and how long a CPU without an
event sleeps (`MaxSleep`) are all parameters; the kernel's 8, 6, 6, 6 and 6 bits are one case. `OffsetsAssumption` says what words of
that width can tell apart: the longest timeout, with its slack, is less than half a word away even from a base that lags behind by `Reach`, the sum of the three. As a CPU may program an event `NEXT_TIMER_MAX_DELTA` ahead, `MaxSleep` is more than that, and on the 32-bit
kernel at most the rest, a quarter of the range or 12 days, is left for the timeouts: `MAX_JIFFY_OFFSET` is *outside* what is proved, and so is a sleep without an event that is longer than `MaxSleep` (section 6). Time passes under `NextTimerIsRecent` (section 6).

Every comparison of the code is a statement about `Gap(a, b)`, the distance of two times as a signed number, and `Dist(a)`, the distance from `timer_jiffies` (`Compare`). `WheelInvariant` is:

* `WheelTypeOK` and `Filed`: a timer that is not late is in a slot of the vector `l` that comes up, for the first time from now, when less than one slot of `l` is left to its time; a late one is in the slot of `tv1` that comes up next. `internal_add_timer()` puts it there,
  and `Turn` shows that a jiffy, with the cascades it starts, keeps it so: the bits of the time below vector `l` are used up exactly when `cascade()` reaches its slot. At that jiffy the slot of `tv1` holds exactly what is due, which is `FiresOnTime`;
* `Near` and `LagBound`: no timer is later than `MaxLate`, nor so close to half a word that it seems to be on the other side of now, whatever the base still has to catch up with; the base lags by `MaxSleep` at most;
* `NextBound`: `next_timer` is not after the first timer that counts, unless the base has passed it, and is recent enough to be compared. Deletions and the passing of time only make it too early. A new value comes from `__next_timer_interrupt()`: `SlotOf` and `CascadeTimes` give
  each slot the time it comes up at, `SearchedTo` says that nothing is before what has been searched, and `LookOn` carries that from one vector to the next. A used slot before the next cascade ends the search;
  behind it, the slot of the next vector that cascades first has to be looked at too. `SearchResult`: no timer that counts is before the result, unless the result is itself not in the future, when the CPU does not sleep;
* `SleepBound`: the event of a sleeping CPU is not after the first timer that it has been told of (`ToldNotBefore`), and a CPU without an event has been told of none; it has been told of all but those that `timer_set_base()` put there while it slept (`unkicked`), of which there are none while it is awake.
  `NoOversleep` follows from this (`AwakeInTime`). It holds for any pattern of migrated timers: one that comes unannounced may set `next_timer` but never makes the event of the others late.

`SlackInRange` needs of the invariant only that `jiffies` is a word (`SlackAlways`): clearing the bits of the limit below the highest bit in which it differs from the time asked for leaves a value between the two, also where the limit has wrapped.

**Only model-checked**: the liveness properties (fairness and `ENABLED` are out of the prover's reach). Every safety invariant and action property that a run checks is also a theorem.

## 5. Reading a module

Each module has its variables with the C object they stand for, the type invariant, the operations in the order of
the source, `Next`, `Fairness`, then the properties. `PROJECT.json` maps each definition to the lines it models.

## 6. What the checks do not show

Weak memory orders other than x86's, lifetime of the objects that contain a lock (freeing a mutex right after unlocking it),
more than 32767 users of a rw-semaphore, wrap-around of `done` when `complete_all()` is repeated without reinitialisation,
the priority inheritance and robust lists of futexes, and misuse (unlocking by a non-owner, recursive locking, sleeping in an interrupt). Those are preconditions of the code.

One limit of the timer code itself is outside `TimerWheel`. `base->next_timer` is refreshed only by a CPU on its way to idle
(`kernel/timer.c:1271`). A CPU that is busy without a break for half the range of `jiffies` less `NEXT_TIMER_MAX_DELTA` (12 days at `HZ` 1000) has a
value that compares as a time in the future; when it is idle at last it would sleep towards it. The model lets time pass
with the tick on only while the cached value is recent (`NextTimerIsRecent`).

Another is a sleep without an event. If no timer, or none nearer than `NEXT_TIMER_MAX_DELTA` (12 days), is pending, `tick_nohz_stop_sched_tick()` sets `KTIME_MAX` (`kernel/time/tick-sched.c:387`): unless the CPU was the last timekeeper nothing
in the code bounds the sleep, and a timer further away than that gets no event at all. The model *assumes* that something else interrupts every CPU at least every `MaxSleep` jiffies, before its `timer_jiffies` can seem to be in the future, and
that no timeout is that far away. Both are assumptions about the environment, and what happens beyond them is not checked.

The run of SRCU has one reader. That one reader's departure does not hide another who is still inside (`kernel/srcu.c:224`) is shown by the theorems only, for any number of readers. That wakers which
cross two futex buckets do not deadlock is no property of its own: run `futex` checks deadlock.

## 7. Plan

1. Done: lists, sleep/wakeup, semaphore, mutex, rw-semaphore, completion, wait queue, `wait_event`, page lock, SRCU, tasklets,
   timers, timer wheel, futexes; the proofs of the safety properties of all of them, and of both refinements.
2. Next proofs: the refinements of item 4, with the invariants there are.
3. Models left: work items (`kernel/workqueue.c`, `kernel/kthread.c`), pipes and eventfd on top of mutex and wait queue (`fs/pipe.c`,
   `fs/eventfd.c`), with the `add_wait_queue()` entries that a wakeup does not remove; `cleanup_srcu_struct()`; CPU hotplug for tasklets and timers.
4. Abstract specifications still to state: an event counter (refined by `Completion`), a condition wait without lost wakeups
   (refined by `WaitEvent`), a one-at-a-time deferred call (refined by `Tasklet` and `Timer`).
