------------------------------ MODULE PageLock ------------------------------
(***************************************************************************)
(* The page lock and page writeback (mm/filemap.c), built on the bit waits *)
(* of kernel/wait.c: tasks that want to set PG_locked wait exclusively,    *)
(* tasks that only wait for PG_locked or PG_writeback to clear do not, and *)
(* all of them share one hashed wait queue, told apart by the key of the   *)
(* bit.  Whoever clears a bit wakes one of the first kind and all of the   *)
(* second; anybody who comes by may set the bit again before they run.     *)
(***************************************************************************)
EXTENDS WaitQueue

VARIABLES
  bit,   \* the two bits of page->flags
  key    \* the bit a task waits for, or the key it wakes up with

pageVars == <<bit, key, mode>>
pageLockVars == <<taskVars, wqVars, pageVars>>

Bits == {"locked", "writeback"}

BitWaitLabels == {"prep", "test", "schedule", "resumed", "again", "finish", "finish_del", "abort"}

PageLabels == {"idle", "owner", "dead", "wake_check", "wake"} \cup BitWaitLabels \cup WalkLabels

PageTypeOK ==
  /\ TaskTypeOK(PageLabels)
  /\ WaitQueueTypeOK
  /\ nr \in {0, 1}   \* every wakeup here is for one exclusive waiter
  /\ bit \in [Bits -> BOOLEAN]
  /\ key \in [Tasks -> Bits]
  /\ mode \in [Tasks -> States]

PageInit ==
  /\ TaskInit
  /\ WaitQueueInit
  /\ bit = [b \in Bits |-> FALSE]
  /\ key = [t \in Tasks |-> "locked"]
  /\ mode = [t \in Tasks |-> TASK_RUNNING]

-----------------------------------------------------------------------------
(* The calls.  A caller that has to wait sets up its wait_bit_queue.       *)
StartBitWait(t, b, s, x) ==
  /\ bit[b]
  /\ Goto(t, "idle", "prep")
  /\ key' = [key EXCEPT ![t] = b]
  /\ mode' = [mode EXCEPT ![t] = s]
  /\ excl' = [excl EXCEPT ![t] = x]
  /\ UNCHANGED <<state, on_rq, sig, timer, task_list, wq_lock, link, walkVars, bit>>

trylock_page(t) ==
  /\ ~bit["locked"]
  /\ bit' = [bit EXCEPT !["locked"] = TRUE]
  /\ Goto(t, "idle", "owner")
  /\ UNCHANGED <<state, on_rq, sig, timer, wqVars, key, mode>>

lock_page(t) == trylock_page(t) \/ StartBitWait(t, "locked", TASK_UNINTERRUPTIBLE, TRUE)

lock_page_killable(t) == trylock_page(t) \/ StartBitWait(t, "locked", TASK_KILLABLE, TRUE)

wait_on_page_bit(t, b) == StartBitWait(t, b, TASK_UNINTERRUPTIBLE, FALSE)

-----------------------------------------------------------------------------
(* The loops of __wait_on_bit() and __wait_on_bit_lock(). *)
bit_wait_prepare(t) ==
  /\ Goto(t, "prep", "test")
  /\ prepare_to_wait(t, mode[t])
  /\ UNCHANGED pageVars

bit_wait_test(t) ==
  /\ Goto(t, "test", IF bit[key[t]] THEN "schedule" ELSE "again")
  /\ UNCHANGED <<state, on_rq, sig, timer, wqVars, pageVars>>

(* sleep_on_page() returns 0, sleep_on_page_killable() fails when the task *)
(* has been killed.                                                        *)
sleep_on_page(t) ==
  /\ Goto(t, "resumed", IF mode[t] = TASK_KILLABLE /\ sig[t] = "fatal" THEN "abort"
                                                                       ELSE "again")
  /\ UNCHANGED <<state, on_rq, sig, timer, wqVars, pageVars>>

bit_wait_again_MutTest(t) ==         \* the loop ends on test_bit(), and the bit is set later
  /\ Goto(t, "again", IF bit[key[t]] THEN "prep" ELSE "finish")
  /\ UNCHANGED <<state, on_rq, sig, timer, wqVars, pageVars>>

(* The loop condition: test_and_set_bit() of a locker, test_bit() of the   *)
(* others.                                                                 *)
bit_wait_again(t) ==
  /\ Goto(t, "again", IF bit[key[t]] THEN "prep" ELSE "finish")
  /\ bit' = IF excl[t] THEN [bit EXCEPT ![key[t]] = TRUE] ELSE bit
  /\ UNCHANGED <<state, on_rq, sig, timer, wqVars, key, mode>>

Return(t) == IF excl[t] THEN "owner" ELSE "idle"

(* A call that returns takes its wait_bit_queue or wait_bit_key with it. *)
ForgetKey(t) ==
  /\ UNCHANGED bit
  /\ IF pc'[t] \in {"idle", "owner"}
       THEN key' = [key EXCEPT ![t] = "locked"] /\ mode' = [mode EXCEPT ![t] = TASK_RUNNING]
       ELSE UNCHANGED <<key, mode>>

bit_wait_finish(t) ==
  /\ finish_wait(t, Return(t)) \/ finish_wait_del(t, Return(t))
  /\ ForgetKey(t)

bit_wait_abort(t) == abort_exclusive_wait(t, mode[t]) /\ ForgetKey(t)

-----------------------------------------------------------------------------
ClearBit(t, from, b) ==
  /\ bit[b]
  /\ bit' = [bit EXCEPT ![b] = FALSE]
  /\ key' = [key EXCEPT ![t] = b]
  /\ Goto(t, from, "wake_check")
  /\ UNCHANGED <<state, on_rq, sig, timer, wqVars, mode>>

unlock_page(t) == ClearBit(t, "owner", "locked")

(* I/O is started by the owner of the page, and ends in another context. *)
set_page_writeback(t) ==
  /\ pc[t] = "owner" /\ ~bit["writeback"]
  /\ bit' = [bit EXCEPT !["writeback"] = TRUE]
  /\ UNCHANGED <<taskVars, wqVars, key, mode>>

end_page_writeback(t) == ClearBit(t, "idle", "writeback")

(* __wake_up_bit(): waitqueue_active() without the lock, then the walk. *)
wake_up_page(t) ==
  /\ Goto(t, "wake_check", IF list_empty(task_list) THEN "idle" ELSE "wake")
  /\ ForgetKey(t)
  /\ UNCHANGED <<state, on_rq, sig, timer, wqVars>>

__wake_up_bit(t) == __wake_up(t, TASK_NORMAL, 1) /\ UNCHANGED pageVars

(* wake_bit_function(): not for this bit, or the bit is set again. *)
wake_bit_function(c) == key[c] = key[wq_lock] /\ ~bit[key[c]]

PageWalk(t) ==
  /\ walk_visit(t, rest # <<>> /\ wake_bit_function(rest[1])) \/ walk_del(t) \/ walk_del2(t)
  /\ ForgetKey(t)

-----------------------------------------------------------------------------
PageSignals(t) ==
  /\ signal_wake_up(t, "fatal") \/ do_signal(t)
  /\ UNCHANGED <<wqVars, pageVars>>

PageScheduling(t) == schedule(t) /\ UNCHANGED <<wqVars, pageVars>>

PageCalls(t) ==
  \/ lock_page(t) \/ lock_page_killable(t)
  \/ (\E b \in Bits : wait_on_page_bit(t, b))
  \/ set_page_writeback(t) \/ end_page_writeback(t)

PageSteps(t) ==
  \/ bit_wait_test(t) \/ sleep_on_page(t) \/ bit_wait_again(t) \/ wake_up_page(t) \/ PageWalk(t)

(* The steps that wait for the lock of the queue. *)
PageLockers(t) ==
  bit_wait_prepare(t) \/ bit_wait_finish(t) \/ bit_wait_abort(t) \/ __wake_up_bit(t)

PageNext ==
  \E t \in Tasks : \/ PageCalls(t) \/ PageSteps(t) \/ PageLockers(t) \/ unlock_page(t)
                   \/ PageScheduling(t) \/ PageSignals(t)

PageSpec == PageInit /\ [][PageNext]_pageLockVars

-----------------------------------------------------------------------------
InBitWait == {t \in Tasks : pc[t] \in BitWaitLabels}

(* The page lock has one owner: a task that owns it, or has just set the   *)
(* bit and is in finish_wait().                                            *)
Owners == {t \in Tasks : \/ pc[t] = "owner"
                         \/ pc[t] \in {"finish", "finish_del"} /\ excl[t]}

(* A waker with key b that has not finished. *)
WakingBit(b, t) ==
  \E w \in Tasks : /\ key[w] = b
                   /\ \/ pc[w] \in {"wake_check", "wake"}
                      \/ pc[w] \in WalkLabels /\ t \in Entries(rest)

(* Will u give up?  If it was woken through the queue, it passes that on.  *)
GivesUp(u) == pc[u] = "abort" \/ (pc[u] \in {"schedule", "resumed"} /\ mode[u] = TASK_KILLABLE
                                                                    /\ sig[u] = "fatal")

Consumed(u) ==
  link[u] # "in" \/ \E w \in Tasks : pc[w] = "walk_del" /\ rest[1] = u

(* A locker of bit b that is awake and will set the bit, or give up and    *)
(* wake the next one.                                                      *)
LockerComing(b) ==
  \E u \in InBitWait : /\ excl[u] /\ key[u] = b /\ ~Asleep(u)
                       /\ GivesUp(u) => Consumed(u)

(* Nobody sleeps for a bit that is clear, unless a wakeup is on its way:   *)
(* from the one that cleared the bit, or, for a locker, from another       *)
(* locker that was woken first and may be killed before it sets the bit.   *)
NoLostBitWakeup ==
  \A t \in Tasks :
    Asleep(t) /\ ~bit[key[t]] =>
      WakingBit(key[t], t) \/ (excl[t] /\ LockerComing(key[t]))

(* The bit is set exactly while somebody owns the page, and then by one.   *)
LockedMeansOwned ==
  /\ bit["locked"] <=> Owners # {}
  /\ \A t, u \in Owners : t = u

=============================================================================
