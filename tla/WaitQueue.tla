----------------------------- MODULE WaitQueue -----------------------------
(***************************************************************************)
(* Wait queues whose entries are removed by the wakeup: prepare_to_wait(), *)
(* finish_wait(), abort_exclusive_wait() (kernel/wait.c) and the walk of   *)
(* __wake_up_common() (kernel/sched.c), for one queue.                     *)
(*                                                                         *)
(* An entry lives on the stack of the waiting task.  A waker walks the     *)
(* queue under the queue's lock, but the task it wakes runs at once, and   *)
(* finish_wait() looks at the entry without the lock and returns if the    *)
(* entry is off the queue.  So the walk is taken apart here: the wakeup,   *)
(* and the two stores of list_del_init() to the entry, are steps of their  *)
(* own.  The modules of the waiting primitives extend this one and give    *)
(* the labels a task goes to.                                              *)
(***************************************************************************)
EXTENDS Integers, KList, TaskState

CONSTANT NoTask   \* nobody has the queue's lock

ASSUME WaitQueueAssumption == NoTask \notin Tasks

VARIABLES
  task_list,   \* q->task_list, by the task of each wait_queue_t
  wq_lock,     \* the holder of q->lock
  link,        \* the entry's own pointers: "in" the list, "half" or fully "out"
  excl,        \* WQ_FLAG_EXCLUSIVE in wait->flags
  mode,        \* the state the primitive passes to prepare_to_wait()
  rest,        \* __wake_up_common(): the entries still to visit, curr first
  flags,       \* __wake_up_common(): its copy of curr->flags
  nr,          \* __wake_up_common(): nr_exclusive
  mask         \* __wake_up_common(): the mode, a set of task states

wqVars == <<task_list, wq_lock, link, excl, rest, flags, nr, mask>>
walkVars == <<rest, flags, nr, mask>>

WalkLabels == {"walk", "walk_del", "walk_del2"}

WaitQueueTypeOK ==
  /\ task_list \in Seq(Tasks)
  /\ wq_lock \in Tasks \cup {NoTask}
  /\ link \in [Tasks -> {"in", "half", "out"}]
  /\ excl \in [Tasks -> BOOLEAN]
  /\ rest \in Seq(Tasks)
  /\ flags \in BOOLEAN
  /\ nr \in Int
  /\ mask \subseteq TASK_NORMAL \cup TASK_KILLABLE

WaitQueueInit ==
  /\ task_list = <<>>
  /\ wq_lock = NoTask
  /\ link = [t \in Tasks |-> "out"]
  /\ excl = [t \in Tasks |-> FALSE]
  /\ rest = <<>>
  /\ flags = FALSE
  /\ nr = 0
  /\ mask = {}

Goto(t, from, to) == pc[t] = from /\ pc' = [pc EXCEPT ![t] = to]

(* list_del_init() under the lock, harmless on an entry that is off. *)
Unlink(t) ==
  /\ task_list' = IF t \in Entries(task_list) THEN list_del(t, task_list) ELSE task_list
  /\ link' = [link EXCEPT ![t] = "out"]

-----------------------------------------------------------------------------
prepare_MutTail(t, s) ==         \* everybody queues at the tail
  /\ wq_lock = NoTask
  /\ task_list' = IF link[t] # "out" THEN task_list ELSE list_add_tail(t, task_list)
  /\ link' = [link EXCEPT ![t] = "in"]
  /\ set_task_state(t, s)
  /\ UNCHANGED <<sig, timer, wq_lock, excl, walkVars>>

(* prepare_to_wait() and prepare_to_wait_exclusive(): exclusive waiters go *)
(* behind all the others.  wait->flags was set before the lock was taken.  *)
prepare_to_wait(t, s) ==
  /\ wq_lock = NoTask
  /\ task_list' = IF link[t] # "out" THEN task_list
                  ELSE IF excl[t] THEN list_add_tail(t, task_list)
                                  ELSE list_add(t, task_list)
  /\ link' = [link EXCEPT ![t] = "in"]
  /\ set_task_state(t, s)
  /\ UNCHANGED <<sig, timer, wq_lock, excl, walkVars>>

finish_wait_MutPlain(t, to) ==   \* list_empty() instead of list_empty_careful()
  /\ Goto(t, "finish", IF link[t] = "in" THEN "finish_del" ELSE to)
  /\ set_task_state(t, TASK_RUNNING)
  /\ UNCHANGED <<sig, timer, wqVars>>

(* finish_wait(): list_empty_careful() without the lock, and with it the   *)
(* removal of an entry that seems to be queued.                            *)
finish_wait(t, to) ==
  /\ Goto(t, "finish", IF link[t] = "out" THEN to ELSE "finish_del")
  /\ set_task_state(t, TASK_RUNNING)
  /\ UNCHANGED <<sig, timer, wqVars>>

finish_wait_del(t, to) ==
  /\ wq_lock = NoTask
  /\ Goto(t, "finish_del", to)
  /\ Unlink(t)
  /\ UNCHANGED <<state, on_rq, sig, timer, wq_lock, excl, walkVars>>

-----------------------------------------------------------------------------
(* Start to wake n exclusive waiters (all of them if n is 0), and the      *)
(* others in front of them, whose state is in m.                           *)
StartWalk(t, m, n) ==
  /\ wq_lock' = t
  /\ pc' = [pc EXCEPT ![t] = "walk"]
  /\ rest' = task_list
  /\ nr' = n
  /\ mask' = m

EndWalk(t) ==
  /\ wq_lock' = NoTask
  /\ pc' = [pc EXCEPT ![t] = "idle"]
  /\ rest' = <<>> /\ nr' = 0 /\ mask' = {} /\ flags' = FALSE

__wake_up(t, m, n) ==
  /\ wq_lock = NoTask /\ pc[t] = "wake"
  /\ StartWalk(t, m, n)
  /\ UNCHANGED <<state, on_rq, sig, timer, task_list, link, excl, flags>>

abort_MutSilent(t, m) ==         \* the aborter keeps the wakeup to itself
  /\ pc[t] = "abort" /\ wq_lock = NoTask
  /\ set_task_state(t, TASK_RUNNING)
  /\ pc' = [pc EXCEPT ![t] = "idle"]
  /\ Unlink(t)
  /\ UNCHANGED <<sig, timer, wq_lock, excl, walkVars>>

(* abort_exclusive_wait(): a waiter that gives up passes on the wakeup it  *)
(* may have consumed.                                                      *)
abort_exclusive_wait(t, m) ==
  /\ pc[t] = "abort" /\ wq_lock = NoTask
  /\ set_task_state(t, TASK_RUNNING)
  /\ \/ /\ link[t] = "out" /\ ~list_empty(task_list)
        /\ StartWalk(t, m, 1)
        /\ UNCHANGED <<task_list, link, flags>>
     \/ /\ link[t] # "out" \/ list_empty(task_list)
        /\ pc' = [pc EXCEPT ![t] = "idle"]
        /\ Unlink(t)
        /\ UNCHANGED <<wq_lock, walkVars>>
  /\ UNCHANGED <<sig, timer, excl>>

(* __wake_up_common() visits its next entry; runs is false when the        *)
(* entry's wake function finds that the wakeup is not for it, and does not *)
(* go on to try_to_wake_up().                                              *)
walk_visit(t, runs) ==
  LET curr == rest[1]
  IN  /\ pc[t] = "walk"
      /\ \/ rest = <<>> /\ EndWalk(t) /\ UNCHANGED <<state, on_rq>>
         \/ /\ rest # <<>> /\ ~runs
            /\ rest' = Tail(rest)
            /\ UNCHANGED <<pc, state, on_rq, wq_lock, flags, nr, mask>>
         \/ /\ rest # <<>> /\ runs
            /\ try_to_wake_up({curr}, mask)
            /\ IF ttwu_success(curr, mask)
                 THEN /\ pc' = [pc EXCEPT ![t] = "walk_del"]
                      /\ flags' = excl[curr]
                      /\ UNCHANGED rest
                 ELSE rest' = Tail(rest) /\ UNCHANGED <<pc, flags>>
            /\ UNCHANGED <<wq_lock, nr, mask>>
  /\ UNCHANGED <<sig, timer, task_list, link, excl>>

(* autoremove_wake_function(): list_del_init() of the entry just woken,    *)
(* its next pointer first, then its prev pointer.                          *)
walk_del(t) ==
  LET curr == rest[1]
  IN  /\ Goto(t, "walk_del", "walk_del2")
      /\ task_list' = list_del(curr, task_list)
      /\ link' = [link EXCEPT ![curr] = "half"]
      /\ UNCHANGED <<state, on_rq, sig, timer, wq_lock, excl, walkVars>>

walk_del2(t) ==
  LET left == IF flags THEN nr - 1 ELSE nr
  IN  /\ pc[t] = "walk_del2"
      /\ link' = [link EXCEPT ![rest[1]] = "out"]
      /\ IF flags /\ left = 0 THEN EndWalk(t)
         ELSE /\ pc' = [pc EXCEPT ![t] = "walk"]
              /\ rest' = Tail(rest) /\ nr' = left
              /\ UNCHANGED <<wq_lock, flags, mask>>
      /\ UNCHANGED <<state, on_rq, sig, timer, task_list, excl>>

-----------------------------------------------------------------------------
Asleep(t) == pc[t] = "schedule" /\ state[t] # TASK_RUNNING

(* What keeps the stack of a waiter safe, inside being the tasks whose     *)
(* wait function has not returned: the waker stores only to entries of     *)
(* those, and the queue holds only entries of those, once each.            *)
StackSafe(inside) ==
  /\ LinkedOnce(task_list)
  /\ Entries(task_list) = {t \in Tasks : link[t] = "in"}
  /\ Entries(task_list) \subseteq inside
  /\ \A w \in Tasks : pc[w] \in {"walk_del", "walk_del2"} => rest[1] \in inside

=============================================================================
