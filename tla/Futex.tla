------------------------------- MODULE Futex -------------------------------
(***************************************************************************)
(* Fast user-space mutexes, kernel/futex.c: futex_wait(), futex_wake(),    *)
(* futex_wake_op() and futex_requeue(), without priority inheritance.      *)
(*                                                                         *)
(* A waiter has its futex_q on its stack.  While it sleeps a waker may     *)
(* move the futex_q to the chain of another bucket; when it runs again for *)
(* another reason it has to leave a chain whose lock it must first find    *)
(* out, from a lock_ptr that it reads without a lock.  A waker sets        *)
(* lock_ptr to NULL as the last thing it does with the futex_q, and wakes  *)
(* its task afterwards, when the task may long have gone on.               *)
(*                                                                         *)
(* Waiters (Tasks of TaskState) and wakers follow the protocol of the      *)
(* comment in futex_wait_setup():                                          *)
(*    waiter:  val = var; if (cond(val)) futex_wait(&var, val);            *)
(*    waker:   var = new; futex_wake(&var);                                *)
(* where the wake may be a requeue.  A waiter never holds a bucket lock    *)
(* from one step to the next; a waker does.                                *)
(***************************************************************************)
EXTENDS TaskState, Integers, FiniteSetsExt, KList

CONSTANTS
  Wakers,
  Futexes,
  Buckets,     \* futex_queues[], numbers: double_lock_hb() orders them
  NULL

ASSUME FutexAssumption ==
  /\ IsFiniteSet(Wakers) /\ IsFiniteSet(Futexes)
  /\ IsFiniteSet(Buckets) /\ Buckets \subseteq Nat
  /\ NULL \notin Wakers \cup Futexes \cup Buckets \cup Tasks

VARIABLES
  hash,      \* hash_futex()
  val,       \* the user-space word of each futex
  lock,      \* the waker that holds the lock of each bucket
  chain,     \* hb->chain, the tasks whose futex_q is on it
  key,       \* q.key
  lock_ptr,  \* q.lock_ptr, as the bucket whose lock it is
  wait,      \* the arguments of futex_wait(): the futex and the expected value
  pre,       \* lock_ptr, as unqueue_me() has read it
  ret,       \* what futex_wait() returns
  fate,      \* history: what the wakers did to this futex_wait()
  wpc,       \* where each waker is
  call,      \* its call: the wakeups it has to make, and the rest of a requeue
  wakee      \* p of wake_futex()

qVars == <<chain, key, lock_ptr>>
waitVars == <<wait, pre, ret>>
wakerVars == <<wpc, call, wakee>>
vars == <<taskVars, hash, val, lock, qVars, waitVars, fate, wakerVars>>

INT_MAX == Cardinality(Tasks)

NoWait == [f |-> NULL, val |-> 0]

Waits == [f : Futexes, val : 0..1]

(* "nr" wakeups on f; then, in futex_requeue(), "move" waiters go to g. *)
NoCall == [op |-> "none", f |-> NULL, g |-> NULL, nr |-> 0, move |-> 0, cmp |-> 0]

Calls == [op : {"wake", "wake_op", "requeue"}, f : Futexes, g : Futexes,
          nr : Nat, move : Nat, cmp : 0..1]

TypeOK ==
  /\ TaskTypeOK({"idle", "setup", "queued", "schedule", "resumed", "relock", "done"})
  /\ hash \in [Futexes -> Buckets]
  /\ val \in [Futexes -> 0..1]
  /\ lock \in [Buckets -> Wakers \cup {NULL}]
  /\ chain \in [Buckets -> Seq(Tasks)]
  /\ key \in [Tasks -> Futexes \cup {NULL}]
  /\ lock_ptr \in [Tasks -> Buckets \cup {NULL}]
  /\ wait \in [Tasks -> Waits \cup {NoWait}]
  /\ pre \in [Tasks -> Buckets \cup {NULL}]
  /\ ret \in [Tasks -> {"none", "0", "EWOULDBLOCK", "ETIMEDOUT", "ERESTARTSYS"}]
  /\ fate \in [Tasks -> {"none", "requeued", "woken"}]
  /\ wpc \in [Wakers -> {"idle", "lock", "loop", "wake_up"}]
  /\ call \in [Wakers -> Calls \cup {NoCall}]
  /\ wakee \in [Wakers -> Tasks \cup {NULL}]

Init ==
  /\ TaskInit
  /\ hash \in [Futexes -> Buckets]
  /\ val = [f \in Futexes |-> 0]
  /\ lock = [b \in Buckets |-> NULL]
  /\ chain = [b \in Buckets |-> <<>>]
  /\ key = [t \in Tasks |-> NULL]
  /\ lock_ptr = [t \in Tasks |-> NULL]
  /\ wait = [t \in Tasks |-> NoWait]
  /\ pre = [t \in Tasks |-> NULL]
  /\ ret = [t \in Tasks |-> "none"]
  /\ fate = [t \in Tasks |-> "none"]
  /\ wpc = [w \in Wakers |-> "idle"]
  /\ call = [w \in Wakers |-> NoCall]
  /\ wakee = [w \in Wakers |-> NULL]

OnChain(t, b) == t \in Entries(chain[b])

(* __unqueue_futex() does nothing to a futex_q that is not on a chain. *)
Without(t, q) == IF t \in Entries(q) THEN list_del(t, q) ELSE q

Goto(t, where) == pc' = [pc EXCEPT ![t] = where]

-----------------------------------------------------------------------------
(* futex_wait().  The caller has read the word in user space. *)
futex_wait(t) ==
  /\ pc[t] = "idle" /\ sig[t] = "none"
  /\ \E f \in Futexes : wait' = [wait EXCEPT ![t] = [f |-> f, val |-> val[f]]]
  /\ fate' = [fate EXCEPT ![t] = "none"]
  /\ Goto(t, "setup")
  /\ UNCHANGED <<state, on_rq, sig, timer, hash, val, lock, qVars, pre, ret, wakerVars>>

(* out: of futex_wait(), where the timer is cancelled. *)
Return(t, r) ==
  /\ Goto(t, "done")
  /\ ret' = [ret EXCEPT ![t] = r]
  /\ timer' = [timer EXCEPT ![t] = "none"]
  /\ pre' = [pre EXCEPT ![t] = NULL]
  /\ UNCHANGED wait

(* futex_wait_setup() looks at the word with the bucket locked, and        *)
(* futex_wait_queue_me() sets the task state and queues the futex_q before *)
(* it drops the lock.                                                      *)
WouldBlock_MutBlind(t) == TRUE           \* does not look at the word again

WouldBlock(t) == val[wait[t].f] = wait[t].val

futex_wait_setup(t) ==
  LET b == hash[wait[t].f] IN
  /\ pc[t] = "setup" /\ lock[b] = NULL
  /\ \/ /\ ~WouldBlock(t)
        /\ Return(t, "EWOULDBLOCK")
        /\ UNCHANGED <<state, on_rq, qVars>>
     \/ /\ WouldBlock(t)
        /\ lock_ptr' = [lock_ptr EXCEPT ![t] = b]
        /\ key' = [key EXCEPT ![t] = wait[t].f]
        /\ chain' = [chain EXCEPT ![b] = list_add_tail(t, @)]
        /\ set_task_state(t, TASK_INTERRUPTIBLE)
        /\ Goto(t, "queued")
        /\ UNCHANGED <<timer, waitVars>>
  /\ UNCHANGED <<sig, hash, val, lock, fate, wakerVars>>

(* futex_wait_queue_me() arms the timer, and does not schedule() if it is  *)
(* already off the chain or the timer has expired.  The timer may still be *)
(* armed, or expired, from before a spurious wakeup.  A call without a     *)
(* timeout is one whose timer does not fire.                               *)
futex_wait_queue_me(t) ==
  LET expired == timer[t] = "expired"
      empty == \A b \in Buckets : ~OnChain(t, b)
  IN
  /\ pc[t] = "queued"
  /\ timer' = [timer EXCEPT ![t] = IF expired THEN "expired" ELSE "armed"]
  /\ IF empty \/ expired
       THEN Goto(t, "resumed") /\ set_task_state(t, TASK_RUNNING)
       ELSE Goto(t, "schedule") /\ UNCHANGED <<state, on_rq>>
  /\ UNCHANGED <<sig, hash, val, lock, qVars, waitVars, fate, wakerVars>>

(* unqueue_me(): a lock_ptr of NULL says that a waker has unqueued q. *)
unqueue_me(t) ==
  /\ pc[t] = "resumed"
  /\ \/ /\ lock_ptr[t] = NULL
        /\ Return(t, "0")
     \/ /\ lock_ptr[t] # NULL
        /\ pre' = [pre EXCEPT ![t] = lock_ptr[t]]
        /\ Goto(t, "relock")
        /\ UNCHANGED <<timer, wait, ret>>
  /\ UNCHANGED <<state, on_rq, sig, hash, val, lock, qVars, fate, wakerVars>>

(* It has the lock.  Is it still the right one? *)
WrongLock_MutTrust(t) == FALSE

WrongLock(t) == pre[t] # lock_ptr[t]

unqueue_retry(t) ==
  /\ pc[t] = "relock" /\ lock[pre[t]] = NULL /\ WrongLock(t)
  /\ pre' = [pre EXCEPT ![t] = NULL]
  /\ Goto(t, "resumed")
  /\ UNCHANGED <<state, on_rq, sig, timer, hash, val, lock, qVars, wait, ret, fate, wakerVars>>

(* __unqueue_futex(), and what futex_wait() makes of it: the timeout, a    *)
(* signal, or a spurious wakeup, after which it starts again.              *)
unqueue_ends(t) ==
  /\ pc[t] = "relock" /\ lock[pre[t]] = NULL /\ ~WrongLock(t)
  /\ chain' = [chain EXCEPT ![pre[t]] = Without(t, @)]
  /\ \/ /\ timer[t] = "expired"
        /\ Return(t, "ETIMEDOUT")
        /\ UNCHANGED fate
     \/ /\ timer[t] # "expired" /\ sig[t] = "none"
        /\ Goto(t, "setup")
        /\ pre' = [pre EXCEPT ![t] = NULL] /\ fate' = [fate EXCEPT ![t] = "none"]
        /\ UNCHANGED <<timer, wait, ret>>
     \/ /\ timer[t] # "expired" /\ sig[t] # "none"
        /\ Return(t, "ERESTARTSYS")
        /\ UNCHANGED fate
  /\ UNCHANGED <<state, on_rq, sig, hash, val, lock, key, lock_ptr, wakerVars>>

(* Back in user space.  After a signal the call may be restarted, with the *)
(* same arguments (futex_wait_restart()).                                  *)
futex_wait_restart(t) ==
  /\ pc[t] = "done" /\ ret[t] = "ERESTARTSYS"
  /\ sig' = [sig EXCEPT ![t] = "none"]
  /\ ret' = [ret EXCEPT ![t] = "none"]
  /\ fate' = [fate EXCEPT ![t] = "none"]
  /\ Goto(t, "setup")
  /\ UNCHANGED <<state, on_rq, timer, hash, val, lock, qVars, wait, pre, wakerVars>>

syscall_ends(t) ==
  /\ pc[t] = "done"
  /\ Goto(t, "idle")
  /\ ret' = [ret EXCEPT ![t] = "none"]
  /\ wait' = [wait EXCEPT ![t] = NoWait]
  /\ key' = [key EXCEPT ![t] = NULL]
  /\ lock_ptr' = [lock_ptr EXCEPT ![t] = NULL]
  /\ fate' = [fate EXCEPT ![t] = "none"]
  /\ UNCHANGED <<state, on_rq, sig, timer, hash, val, lock, chain, pre, wakerVars>>

-----------------------------------------------------------------------------
(* The wakers.  A waker changes a word and calls futex_wake() for all, or  *)
(* futex_requeue() for one and all the others; or it just wakes one.       *)
Begin(w, c, v) ==
  /\ wpc[w] = "idle"
  /\ wpc' = [wpc EXCEPT ![w] = "lock"]
  /\ call' = [call EXCEPT ![w] = c]
  /\ val' = v
  /\ UNCHANGED <<taskVars, hash, lock, qVars, waitVars, fate, wakee>>

Toggled(f) == [val EXCEPT ![f] = 1 - @]

Wake(op, f, g, nr) == [op |-> op, f |-> f, g |-> g, nr |-> nr, move |-> 0, cmp |-> 0]

futex_wake(w, f) ==
  \/ Begin(w, Wake("wake", f, f, 1), val)
  \/ Begin(w, Wake("wake", f, f, INT_MAX), Toggled(f))

futex_requeue(w, f, g) ==
  /\ f # g
  /\ \E nr_wake \in 0..1 :
       Begin(w, [op |-> "requeue", f |-> f, g |-> g, nr |-> nr_wake, move |-> INT_MAX,
                 cmp |-> 1 - val[f]], Toggled(f))

futex_wake_op(w, f, g) ==
  Begin(w, Wake("wake_op", f, g, 1), val)

(* double_lock_hb(): the lower bucket first. *)
Missing(w) == {hash[call[w].f], hash[call[w].g]} \ {b \in Buckets : lock[b] = w}

double_lock_hb(w) ==
  /\ wpc[w] = "lock" /\ Missing(w) # {}
  /\ lock[Min(Missing(w))] = NULL
  /\ lock' = [lock EXCEPT ![Min(Missing(w))] = w]
  /\ UNCHANGED <<taskVars, hash, val, qVars, waitVars, fate, wakerVars>>

Release(w) == [b \in Buckets |-> IF lock[b] = w THEN NULL ELSE lock[b]]

(* Reading or writing the word has faulted: the locks are dropped, the     *)
(* page is brought in, and the call starts again.                          *)
fault_retry(w) ==
  /\ wpc[w] = "lock" /\ Missing(w) = {} /\ call[w].op # "wake"
  /\ lock' = Release(w)
  /\ UNCHANGED <<taskVars, hash, val, qVars, waitVars, fate, wakerVars>>

Finish(w) ==
  /\ lock' = Release(w)
  /\ wpc' = [wpc EXCEPT ![w] = "idle"]
  /\ call' = [call EXCEPT ![w] = NoCall]

(* With its locks: futex_requeue() gives up if the word has changed, and   *)
(* futex_wake_op() stores a new value of g, and will wake all the waiters  *)
(* of g if it is different.                                                *)
locked(w) ==
  /\ wpc[w] = "lock" /\ Missing(w) = {}
  /\ \/ /\ call[w].op = "requeue" /\ val[call[w].f] # call[w].cmp
        /\ Finish(w)
        /\ UNCHANGED <<val, wakee>>
     \/ /\ call[w].op = "wake" \/ (call[w].op = "requeue" /\ val[call[w].f] = call[w].cmp)
        /\ wpc' = [wpc EXCEPT ![w] = "loop"]
        /\ UNCHANGED <<val, lock, call, wakee>>
     \/ /\ call[w].op = "wake_op"
        /\ \E v \in 0..1 :
             /\ val' = [val EXCEPT ![call[w].g] = v]
             /\ call' = [call EXCEPT ![w].move = IF v # val[call[w].g] THEN INT_MAX ELSE 0]
        /\ wpc' = [wpc EXCEPT ![w] = "loop"]
        /\ UNCHANGED <<lock, wakee>>
  /\ UNCHANGED <<taskVars, hash, qVars, waitVars, fate>>

(* match_futex(), along the chain of the bucket of f. *)
Matching(f) == {t \in Entries(chain[hash[f]]) : key[t] = f}

FirstMatch(f) ==
  LET q == chain[hash[f]] IN q[Min({i \in 1..Len(q) : key[q[i]] = f})]

(* wake_futex(), up to the store that gives the futex_q back. *)
wake_futex_MutKeep(w, t) ==              \* the store to lock_ptr is forgotten
  /\ chain' = [chain EXCEPT ![lock_ptr[t]] = Without(t, @)]
  /\ UNCHANGED lock_ptr

wake_futex(w, t) ==
  /\ chain' = [chain EXCEPT ![lock_ptr[t]] = Without(t, @)]
  /\ lock_ptr' = [lock_ptr EXCEPT ![t] = NULL]

wake_next(w) ==
  LET c == call[w]  t == FirstMatch(c.f) IN
  /\ wpc[w] = "loop" /\ c.nr > 0 /\ Matching(c.f) # {}
  /\ wake_futex(w, t)
  /\ fate' = [fate EXCEPT ![t] = "woken"]
  /\ wakee' = [wakee EXCEPT ![w] = t]
  /\ call' = [call EXCEPT ![w].nr = @ - 1]
  /\ wpc' = [wpc EXCEPT ![w] = "wake_up"]
  /\ UNCHANGED <<taskVars, hash, val, lock, key, waitVars>>

(* wake_up_state(p, TASK_NORMAL), whatever p is doing by now. *)
wake_up_state(w) ==
  /\ wpc[w] = "wake_up"
  /\ try_to_wake_up({wakee[w]}, TASK_NORMAL)
  /\ wakee' = [wakee EXCEPT ![w] = NULL]
  /\ wpc' = [wpc EXCEPT ![w] = "loop"]
  /\ UNCHANGED <<pc, sig, timer, hash, val, lock, qVars, waitVars, fate, call>>

(* A futex_q goes from the bucket of f to that of g, which may be one. *)
requeue_futex(t, f, g) ==
  /\ chain' = IF hash[f] = hash[g] THEN chain
              ELSE [chain EXCEPT ![hash[f]] = Without(t, @), ![hash[g]] = list_add_tail(t, @)]
  /\ lock_ptr' = [lock_ptr EXCEPT ![t] = hash[g]]
  /\ key' = [key EXCEPT ![t] = g]

(* futex_requeue() has made its wakeups, and moves the others, one after   *)
(* the other.                                                              *)
requeue_next(w) ==
  LET c == call[w]  t == FirstMatch(c.f) IN
  /\ wpc[w] = "loop" /\ c.op = "requeue" /\ c.nr = 0 /\ c.move > 0 /\ Matching(c.f) # {}
  /\ requeue_futex(t, c.f, c.g)
  /\ fate' = [fate EXCEPT ![t] = "requeued"]
  /\ call' = [call EXCEPT ![w].move = @ - 1]
  /\ UNCHANGED <<taskVars, hash, val, lock, waitVars, wpc, wakee>>

(* The end of a loop: futex_wake_op() goes on with g, and the locks are    *)
(* dropped.                                                                *)
loop_ends(w) ==
  LET c == call[w]
      more == c.nr > 0 \/ (c.op = "requeue" /\ c.move > 0)
  IN
  /\ wpc[w] = "loop" /\ ~(more /\ Matching(c.f) # {})
  /\ \/ /\ c.op = "wake_op" /\ c.move > 0
        /\ call' = [call EXCEPT ![w].f = c.g, ![w].nr = c.move, ![w].move = 0]
        /\ UNCHANGED <<lock, wpc>>
     \/ /\ c.op = "requeue" \/ c.move = 0
        /\ Finish(w)
  /\ UNCHANGED <<taskVars, hash, val, qVars, waitVars, fate, wakee>>

-----------------------------------------------------------------------------
Waiter(t) ==
  \/ futex_wait(t) \/ futex_wait_setup(t) \/ futex_wait_queue_me(t)
  \/ unqueue_me(t) \/ unqueue_retry(t) \/ unqueue_ends(t)
  \/ futex_wait_restart(t) \/ syscall_ends(t)

Waker(w) ==
  \/ \E f \in Futexes : futex_wake(w, f)
  \/ \E f, g \in Futexes : futex_requeue(w, f, g) \/ futex_wake_op(w, f, g)
  \/ double_lock_hb(w) \/ fault_retry(w) \/ locked(w)
  \/ wake_next(w) \/ wake_up_state(w) \/ requeue_next(w) \/ loop_ends(w)

(* The scheduler, the timers and the signals. *)
Kernel(t) ==
  /\ \/ schedule(t) \/ process_timeout(t)
     \/ signal_wake_up(t, "plain") \/ do_signal(t)
  /\ UNCHANGED <<hash, val, lock, qVars, waitVars, fate, wakerVars>>

Next == (\E t \in Tasks : Waiter(t) \/ Kernel(t)) \/ \E w \in Wakers : Waker(w)

Spec == Init /\ [][Next]_vars

-----------------------------------------------------------------------------
(* "it blocks ONLY if cond(var) is known to be true at the time of         *)
(* blocking": if the word has changed under a task that sleeps in          *)
(* futex_wait() and was not requeued, a waker is on its way that will get  *)
(* to this task: one that has it in its hands, one that will wake all the  *)
(* waiters of the futex, or one whose requeue will not give up.            *)
OnItsWay(w, f) ==
  LET c == call[w] IN
  \/ c.op \in {"wake", "requeue"} /\ c.f = f /\ c.nr + c.move >= Cardinality(Matching(f))
     /\ (c.op = "requeue" => c.cmp = val[f])
  \/ c.op = "wake_op" /\ (\/ c.f = f /\ c.nr >= Cardinality(Matching(f))
                          \/ c.g = f /\ c.move >= Cardinality(Matching(f)))

NoLostWakeup ==
  \A t \in Tasks :
    LET f == wait[t].f IN
    (~on_rq[t] /\ fate[t] # "requeued" /\ val[f] # wait[t].val) =>
      \E w \in Wakers : wakee[w] = t \/ OnItsWay(w, f)

(* A wakeup is neither absorbed nor made up.  futex_wait() returns 0       *)
(* exactly when a waker has counted this task among those it woke, whether *)
(* the timeout, a signal or a requeue came first: the waker has told user  *)
(* space of one more task that will act.                                   *)
WakeupCounted == \A t \in Tasks : pc[t] = "done" => (ret[t] = "0" <=> fate[t] = "woken")

(* A futex_q is on the one chain that its key and lock_ptr name, or on     *)
(* none; and on none when futex_wait() has returned and the stack that     *)
(* holds it is reused.                                                     *)
Places(t) == UNION {{b} \X {i \in 1..Len(chain[b]) : chain[b][i] = t} : b \in Buckets}

QueueMatchesLock ==
  \A t \in Tasks :
    /\ Cardinality(Places(t)) <= 1
    /\ \A p \in Places(t) : p[1] = lock_ptr[t] /\ p[1] = hash[key[t]]
    /\ pc[t] \in {"idle", "setup", "done"} => Places(t) = {}

=============================================================================
