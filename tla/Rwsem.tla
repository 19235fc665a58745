------------------------------- MODULE Rwsem -------------------------------
(***************************************************************************)
(* The reader/writer semaphore: the x86 fast paths of asm/rwsem.h and the  *)
(* contention handling of lib/rwsem.c.                                     *)
(*                                                                         *)
(* sem->count packs two numbers: its low half counts the active lockers    *)
(* (those that have the lock or are still trying), its high half is        *)
(* negative when there is a writer or a queue.  It is changed by locked    *)
(* instructions, with and without wait_lock, and each is an action here.   *)
(* Between adding its bias and finding out that it failed, a locker is     *)
(* visible to the others as an active one: that is what the undo loop and  *)
(* the wake decisions of lib/rwsem.c are about.                            *)
(***************************************************************************)
EXTENDS Integers, KList, TaskState

CONSTANTS
  NoTask,      \* the NULL of the task pointers, and of a free wait_lock
  ActiveMod    \* RWSEM_ACTIVE_MASK + 1: 0x10000 on i386

ASSUME RwsemAssumption ==
  /\ NoTask \notin Tasks
  /\ ActiveMod \in Nat /\ ActiveMod % 2 = 0
  /\ Cardinality(Tasks) < ActiveMod \div 2  \* the limit asm/rwsem.h documents

VARIABLES
  count,       \* sem->count, a signed word of ActiveMod^2 values
  wait_list,   \* sem->wait_list, by the task of each rwsem_waiter
  wait_lock,   \* the holder of sem->wait_lock
  flags,       \* waiter.flags: what a waiter waits for, "R" or "W"
  waiting,     \* waiter.task is not NULL: the lock is not granted yet
  tsk,         \* __rwsem_do_wake()'s copy of the task it has to wake
  loop,        \* how many waiters __rwsem_do_wake() still has to grant
  after,       \* where the caller of __rwsem_do_wake() goes on
  held         \* history: what each task has of the lock

rwsemVars == <<count, wait_list, wait_lock, flags, waiting, tsk, loop, after, held>>
vars == <<taskVars, rwsemVars>>

ACTIVE_READ_BIAS  == 1
WAITING_BIAS      == -ActiveMod
ACTIVE_WRITE_BIAS == WAITING_BIAS + 1

(* Arithmetic on the signed word that count is. *)
Word == ActiveMod * ActiveMod
Wrap(n) == ((n + Word \div 2) % Word) - Word \div 2

(* count & RWSEM_ACTIVE_MASK *)
Active(n) == n % ActiveMod

Bias(k) == IF k = "R" THEN ACTIVE_READ_BIAS ELSE ACTIVE_WRITE_BIAS

Labels == {"idle", "queue", "check", "schedule", "resumed", "owner", "wake", "downgrade_wake",
           "dw_write", "dw_undo", "dw_test", "dw_add", "dw_grant", "dw_wake"}

TypeOK ==
  /\ TaskTypeOK(Labels)
  /\ count \in (-(Word \div 2))..(Word \div 2 - 1)
  /\ wait_list \in Seq(Tasks)
  /\ wait_lock \in Tasks \cup {NoTask}
  /\ flags \in [Tasks -> {"R", "W"}]
  /\ waiting \in [Tasks -> BOOLEAN]
  /\ tsk \in Tasks \cup {NoTask}
  /\ loop \in Nat
  /\ after \in {"idle", "check", "owner"}
  /\ held \in [Tasks -> {"none", "R", "W"}]

Init ==
  /\ TaskInit
  /\ count = 0
  /\ wait_list = <<>>
  /\ wait_lock = NoTask
  /\ flags = [t \in Tasks |-> "R"]
  /\ waiting = [t \in Tasks |-> FALSE]
  /\ tsk = NoTask
  /\ loop = 0
  /\ after = "idle"
  /\ held = [t \in Tasks |-> "none"]

Goto(t, from, to) == pc[t] = from /\ pc' = [pc EXCEPT ![t] = to]

-----------------------------------------------------------------------------
(* The fast paths.  down_read() succeeds if the count is not negative      *)
(* after its increment, down_write() if it was 0 before.  A locker that    *)
(* failed marks itself TASK_UNINTERRUPTIBLE and goes for wait_lock.        *)
Down(t, k, success) ==
  /\ count' = Wrap(count + Bias(k))
  /\ \/ /\ success
        /\ Goto(t, "idle", "owner")
        /\ held' = [held EXCEPT ![t] = k]
        /\ UNCHANGED <<state, on_rq, flags>>
     \/ /\ ~success
        /\ Goto(t, "idle", "queue")
        /\ flags' = [flags EXCEPT ![t] = k]
        /\ set_task_state(t, TASK_UNINTERRUPTIBLE)
        /\ UNCHANGED held
  /\ UNCHANGED <<sig, timer, wait_list, wait_lock, waiting, tsk, loop, after>>

down_write_MutSteal(t) == Down(t, "W", Active(count) = 0)  \* takes a lock others wait for

down_read(t)  == Down(t, "R", Wrap(count + ACTIVE_READ_BIAS) >= 0)
down_write(t) == Down(t, "W", count = 0)

(* A trylock that fails changes nothing. *)
down_read_trylock(t)  == count >= 0 /\ Down(t, "R", TRUE)
down_write_trylock(t) == count = 0 /\ Down(t, "W", TRUE)

Up_MutNew(t, k) ==               \* the new active part is tested, not the old one
  /\ held[t] = k
  /\ count' = Wrap(count - Bias(k))
  /\ held' = [held EXCEPT ![t] = "none"]
  /\ Goto(t, "owner", IF count' < 0 /\ Active(count') = 1 THEN "wake" ELSE "idle")
  /\ UNCHANGED <<state, on_rq, sig, timer, wait_list, wait_lock, flags, waiting, tsk, loop, after>>

(* call_rwsem_wake() looks at the old active part, in 16 bits: the waker   *)
(* is the last of the active ones.                                         *)
Up(t, k) ==
  /\ held[t] = k
  /\ count' = Wrap(count - Bias(k))
  /\ held' = [held EXCEPT ![t] = "none"]
  /\ Goto(t, "owner", IF count' < 0 /\ Active(count) = 1 THEN "wake" ELSE "idle")
  /\ UNCHANGED <<state, on_rq, sig, timer, wait_list, wait_lock, flags, waiting, tsk, loop, after>>

up_read(t)  == Up(t, "R")
up_write(t) == Up(t, "W")

downgrade_write(t) ==
  /\ held[t] = "W"
  /\ count' = Wrap(count - WAITING_BIAS)
  /\ held' = [held EXCEPT ![t] = "R"]
  /\ Goto(t, "owner", IF count' < 0 THEN "downgrade_wake" ELSE "owner")
  /\ UNCHANGED <<state, on_rq, sig, timer, wait_list, wait_lock, flags, waiting, tsk, loop, after>>

-----------------------------------------------------------------------------
(* __rwsem_do_wake() is called with wait_lock held and list q, and returns *)
(* to a caller that releases wait_lock and goes on at label next.          *)
Unlock(t, next) ==
  /\ wait_lock' = NoTask
  /\ pc' = [pc EXCEPT ![t] = next]

do_wake(t, type, q, next) ==
  LET writer == flags[list_first_entry(q)] = "W"
  IN  /\ after' = next
      /\ \/ writer /\ type = "READ_OWNED" /\ Unlock(t, next)
         \/ writer /\ type # "READ_OWNED" /\ wait_lock' = t /\ pc' = [pc EXCEPT ![t] = "dw_write"]
         \/ ~writer /\ type = "ANY" /\ wait_lock' = t /\ pc' = [pc EXCEPT ![t] = "dw_test"]
         \/ ~writer /\ type # "ANY" /\ wait_lock' = t /\ pc' = [pc EXCEPT ![t] = "dw_add"]

WriteAdjustment_MutKeep == ACTIVE_WRITE_BIAS  \* the last waiter leaves its bias behind

(* The writer at the front leaves the queue when it gets the lock, and     *)
(* takes the waiting bias along if it is the only waiter.                  *)
WriteAdjustment ==
  ACTIVE_WRITE_BIAS
    - (IF list_is_last(list_first_entry(wait_list), wait_list) THEN WAITING_BIAS ELSE 0)

try_again_write(t) ==
  /\ count' = Wrap(count + WriteAdjustment)
  /\ \/ Active(count) # 0 /\ Goto(t, "dw_write", "dw_undo") /\ UNCHANGED loop
     \/ Active(count) = 0 /\ Goto(t, "dw_write", "dw_grant") /\ loop' = 1
  /\ UNCHANGED <<state, on_rq, sig, timer, wait_list, wait_lock, flags, waiting, tsk, after, held>>

undo_write_MutGiveUp(t) ==       \* no second look at the active part
  /\ pc[t] = "dw_undo"
  /\ count' = Wrap(count - WriteAdjustment)
  /\ Unlock(t, after)
  /\ UNCHANGED <<state, on_rq, sig, timer, wait_list, flags, waiting, tsk, loop, after, held>>

(* Somebody else is active: take the bias back, and try again if that one  *)
(* went away in between.                                                   *)
undo_write(t) ==
  /\ pc[t] = "dw_undo"
  /\ count' = Wrap(count - WriteAdjustment)
  /\ \/ Active(count') # 0 /\ Unlock(t, after)
     \/ Active(count') = 0 /\ pc' = [pc EXCEPT ![t] = "dw_write"] /\ UNCHANGED wait_lock
  /\ UNCHANGED <<state, on_rq, sig, timer, wait_list, flags, waiting, tsk, loop, after, held>>

readers_only_test_MutNone(t) ==  \* up_*() found it free, so it is taken to be free
  /\ pc[t] = "dw_test"
  /\ pc' = [pc EXCEPT ![t] = "dw_add"]
  /\ UNCHANGED <<state, on_rq, sig, timer, rwsemVars>>

readers_only_test(t) ==
  /\ pc[t] = "dw_test"
  /\ \/ count < WAITING_BIAS /\ Unlock(t, after)
     \/ count >= WAITING_BIAS /\ pc' = [pc EXCEPT ![t] = "dw_add"] /\ UNCHANGED wait_lock
  /\ UNCHANGED <<state, on_rq, sig, timer, count, wait_list, flags, waiting, tsk, loop, after, held>>

(* The readers in front of the first writer. *)
Woken ==
  CHOOSE n \in 1..Len(wait_list) :
    /\ \A i \in 1..n : flags[wait_list[i]] = "R"
    /\ n < Len(wait_list) => flags[wait_list[n + 1]] = "W"

readers_only_add(t) ==
  /\ Goto(t, "dw_add", "dw_grant")
  /\ loop' = Woken
  /\ count' = Wrap(count + Woken * ACTIVE_READ_BIAS
                     - (IF Woken = Len(wait_list) THEN WAITING_BIAS ELSE 0))
  /\ UNCHANGED <<state, on_rq, sig, timer, wait_list, wait_lock, flags, waiting, tsk, after, held>>

(* Unlink the first waiter and clear its task pointer, after which the     *)
(* waiter's stack frame may go away: only the copy in tsk is used to wake  *)
(* it.  (The readers are unlinked at once when the loop ends; nobody sees  *)
(* the list before wait_lock is released.)                                 *)
do_wake_grant(t) ==
  LET w == list_first_entry(wait_list)
  IN  /\ Goto(t, "dw_grant", "dw_wake")
      /\ wait_list' = list_del(w, wait_list)
      /\ tsk' = w
      /\ waiting' = [waiting EXCEPT ![w] = FALSE]
      /\ held' = [held EXCEPT ![w] = flags[w]]
      /\ loop' = loop - 1
      /\ UNCHANGED <<state, on_rq, sig, timer, count, wait_lock, flags, after>>

do_wake_task(t) ==
  /\ pc[t] = "dw_wake"
  /\ wake_up_process(tsk)
  /\ tsk' = NoTask
  /\ \/ loop = 0 /\ Unlock(t, after)
     \/ loop # 0 /\ pc' = [pc EXCEPT ![t] = "dw_grant"] /\ UNCHANGED wait_lock
  /\ UNCHANGED <<sig, timer, count, wait_list, flags, waiting, loop, after, held>>

-----------------------------------------------------------------------------
(* rwsem_down_failed_common(), up to the release of wait_lock: queue up,   *)
(* take the bias of the fast path back, and wake the front of the queue if *)
(* nobody is active, or if a writer joins a queue while readers have the   *)
(* lock.                                                                   *)
down_failed_queue(t) ==
  LET adjustment == (IF list_empty(wait_list) THEN WAITING_BIAS ELSE 0) - Bias(flags[t])
  IN  /\ pc[t] = "queue" /\ wait_lock = NoTask
      /\ wait_list' = list_add_tail(t, wait_list)
      /\ waiting' = [waiting EXCEPT ![t] = TRUE]
      /\ count' = Wrap(count + adjustment)
      /\ IF count' = WAITING_BIAS
           THEN do_wake(t, "NO_ACTIVE", wait_list', "check")
         ELSE IF count' > WAITING_BIAS /\ adjustment = -ACTIVE_WRITE_BIAS
           THEN do_wake(t, "READ_OWNED", wait_list', "check")
         ELSE Unlock(t, "check") /\ UNCHANGED after
      /\ UNCHANGED <<state, on_rq, sig, timer, flags, tsk, loop, held>>

(* The wait loop looks at waiter.task without a lock. *)
down_failed_check(t) ==
  /\ \/ waiting[t] /\ Goto(t, "check", "schedule") /\ UNCHANGED <<state, on_rq>>
     \/ ~waiting[t] /\ Goto(t, "check", "owner") /\ set_task_state(t, TASK_RUNNING)
  /\ UNCHANGED <<sig, timer, rwsemVars>>

down_failed_resumed(t) ==
  /\ Goto(t, "resumed", "check")
  /\ set_task_state(t, TASK_UNINTERRUPTIBLE)
  /\ UNCHANGED <<sig, timer, rwsemVars>>

rwsem_wake_type(t, label, type, next) ==
  /\ pc[t] = label /\ wait_lock = NoTask
  /\ IF list_empty(wait_list) THEN Unlock(t, next) /\ UNCHANGED after
                              ELSE do_wake(t, type, wait_list, next)
  /\ UNCHANGED <<state, on_rq, sig, timer, count, wait_list, flags, waiting, tsk, loop, held>>

rwsem_wake(t)           == rwsem_wake_type(t, "wake", "ANY", "idle")
rwsem_downgrade_wake(t) == rwsem_wake_type(t, "downgrade_wake", "READ_OWNED", "owner")

-----------------------------------------------------------------------------
Scheduling(t) == schedule(t) /\ UNCHANGED rwsemVars

Calls(t) ==
  \/ down_read(t) \/ down_read_trylock(t) \/ down_write(t) \/ down_write_trylock(t)

Release(t) == up_read(t) \/ up_write(t)

Lockers(t) == down_failed_queue(t) \/ rwsem_wake(t) \/ rwsem_downgrade_wake(t)

Steps(t) ==
  \/ try_again_write(t) \/ undo_write(t)
  \/ readers_only_test(t) \/ readers_only_add(t)
  \/ do_wake_grant(t) \/ do_wake_task(t)
  \/ down_failed_check(t) \/ down_failed_resumed(t)

Next ==
  \E t \in Tasks : \/ Calls(t) \/ Release(t) \/ downgrade_write(t)
                   \/ Lockers(t) \/ Steps(t) \/ Scheduling(t)

Spec == Init /\ [][Next]_vars

(* A runnable task runs; wait_lock is a ticket spinlock, which serves its  *)
(* waiters in order; whoever has the lock releases it in the end.          *)
Fairness ==
  \A t \in Tasks :
    /\ WF_vars(Scheduling(t))
    /\ WF_vars(Steps(t))
    /\ WF_vars(Release(t))
    /\ SF_vars(Lockers(t))

FairSpec == Spec /\ Fairness

-----------------------------------------------------------------------------
(* A writer has the lock alone, whoever granted it: the fast path, an      *)
(* up_*(), a downgrade or another waiter that came to queue up.            *)
WriterExcludes ==
  \A t, u \in Tasks : t # u /\ held[t] = "W" => held[u] = "none"

Sum(S, k) == Cardinality(S) * Bias(k)

(* The count is exactly the sum of what every task has put into it: one    *)
(* bias per holder and per locker still on its way to the queue, one for   *)
(* each waiter being granted, one for a waker that must undo its attempt,  *)
(* and the waiting bias as long as somebody stays in the queue.  Nothing   *)
(* overflows within the documented number of lockers.                      *)
CountAccounts ==
  LET Contributing(k) ==
        {t \in Tasks : held[t] = k \/ (pc[t] = "queue" /\ flags[t] = k)}
      granting == IF loop = 0 THEN 0 ELSE loop * Bias(flags[wait_list[1]])
      undoing  == IF \E t \in Tasks : pc[t] = "dw_undo" THEN WriteAdjustment ELSE 0
      queued   == IF Len(wait_list) > loop THEN WAITING_BIAS ELSE 0
  IN  count = Sum(Contributing("R"), "R") + Sum(Contributing("W"), "W")
                + granting + undoing + queued

AtWork == {"queue", "wake", "downgrade_wake", "dw_write", "dw_undo", "dw_test",
           "dw_add", "dw_grant", "dw_wake"}

(* A queue is never left behind: if the lock is free and somebody waits,   *)
(* then a task is on its way to grant it.                                  *)
NoStuckQueue ==
  wait_list # <<>> /\ (\A t \in Tasks : held[t] = "none")
    => \E t \in Tasks : pc[t] \in AtWork

(* Everybody who has to queue up gets the lock in the end, readers and     *)
(* writers, whatever stream of other lockers passes by.                    *)
DownReturns == \A t \in Tasks : pc[t] = "queue" ~> pc[t] = "owner"

-----------------------------------------------------------------------------
(* The waiters being granted have the lock from the moment the count says  *)
(* so.                                                                     *)
Granting == {wait_list[i] : i \in 1..loop}

Mode == [t \in Tasks |-> IF t \in Granting THEN flags[t] ELSE held[t]]

Queue == [i \in 1..(Len(wait_list) - loop) |->
            [who |-> wait_list[loop + i], wants |-> flags[wait_list[loop + i]]]]

Abstract == INSTANCE FairRWLock WITH Threads <- Tasks, mode <- Mode, queue <- Queue

(* "if anything is waiting, a process that wants a lock will go to the    *)
(* back of the queue" (asm/rwsem.h): the semaphore is a FIFO reader/writer *)
(* lock.  No fast path overtakes the queue, a writer at its front holds    *)
(* back the readers behind it, and all the readers in front of the first   *)
(* writer are admitted together.                                           *)
ImplementsFairRWLock == Abstract!RWSpec

=============================================================================
