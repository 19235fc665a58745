---------------------------- MODULE FutexProofs ----------------------------
(***************************************************************************)
(* Futex's safety properties, for any number of waiters, wakers, futexes   *)
(* and buckets, and any hash.  A futex_q has one of two owners: the waker  *)
(* that took it off its chain, or the chain that lock_ptr names.           *)
(***************************************************************************)
EXTENDS Futex, KListProofs, FiniteSetTheorems

(* Between queue_me() and the end of unqueue_me(). *)
InWait(t) == pc[t] \in {"queued", "schedule", "resumed", "relock"}

(* A futex_q on a chain is there once, belongs to a waiting task, and its  *)
(* key and its lock_ptr name the bucket.                                   *)
ChainInv ==
  /\ \A b \in Buckets : LinkedOnce(chain[b])
  /\ \A b \in Buckets : \A t \in Entries(chain[b]) :
       InWait(t) /\ lock_ptr[t] = b /\ key[t] \in Futexes /\ hash[key[t]] = b

(* What is true of each waiter.  If lock_ptr is not NULL it is on a chain; *)
(* NULL is what wake_futex() left; until a requeue the key is the one it   *)
(* waits for; and futex_wait() returns 0 if it was woken.                  *)
WaitOf(t) ==
  /\ InWait(t) /\ lock_ptr[t] # NULL => t \in Entries(chain[lock_ptr[t]])
  /\ InWait(t) => (fate[t] = "woken" <=> lock_ptr[t] = NULL)
  /\ InWait(t) /\ fate[t] = "none" => key[t] = wait[t].f
  /\ pc[t] = "relock" => pre[t] \in Buckets
  /\ pc[t] = "setup" => fate[t] = "none"
  /\ pc[t] = "done" => (ret[t] = "0" <=> fate[t] = "woken")
  /\ pc[t] # "idle" => wait[t] \in Waits

(* It is off the run queue only in schedule().  If it has been woken and   *)
(* does not know it yet, it is running or its waker is about to wake it.   *)
SleepOf(t) ==
  /\ sig[t] # "fatal"
  /\ ~on_rq[t] => pc[t] = "schedule" /\ state[t] # TASK_RUNNING
  /\ pc[t] \in {"queued", "schedule"} /\ fate[t] = "woken" =>
       state[t] = TASK_RUNNING \/ \E w \in Wakers : wakee[w] = t

(* A waker in its loop has the locks of both buckets. *)
CallOf(w) ==
  /\ wpc[w] # "idle" => call[w] \in Calls
  /\ wpc[w] \in {"loop", "wake_up"} => lock[hash[call[w].f]] = w /\ lock[hash[call[w].g]] = w
  /\ wpc[w] # "wake_up" => wakee[w] = NULL
  /\ wpc[w] = "idle" => call[w] = NoCall
  /\ call[w].op = "requeue" => call[w].f # call[w].g

CallInv == \A w \in Wakers : CallOf(w)

(* Waker w will get to every task that waits for futex f: before it has    *)
(* the locks, to as many as there are; then to those that are left.        *)
Owes(w, f) ==
  LET c == call[w] IN
  \/ /\ wpc[w] = "lock" /\ c.op \in {"wake", "requeue"} /\ c.f = f
     /\ c.nr + c.move >= INT_MAX /\ (c.op = "requeue" => c.cmp = val[f])
  \/ /\ wpc[w] \in {"loop", "wake_up"} /\ c.op \in {"wake", "requeue"} /\ c.f = f
     /\ c.nr + c.move >= Cardinality(Matching(f)) /\ (c.op = "requeue" => c.cmp = val[f])
  \/ /\ wpc[w] \in {"loop", "wake_up"} /\ c.op = "wake_op"
     /\ \/ c.f = f /\ c.nr >= Cardinality(Matching(f))
        \/ c.g = f /\ c.move >= Cardinality(Matching(f))

(* If the word has changed, somebody will. *)
OwedOf(t) ==
  \A f \in Futexes :
    InWait(t) /\ fate[t] = "none" /\ wait[t].f = f /\ val[f] # wait[t].val =>
      \E w \in Wakers : Owes(w, f)

TaskInv == \A t \in Tasks : WaitOf(t) /\ SleepOf(t) /\ OwedOf(t)

(* The inductive invariant. *)
IInv == TypeOK /\ ChainInv /\ TaskInv /\ CallInv

-----------------------------------------------------------------------------
(* The types, in parts. *)
Labels == {"idle", "setup", "queued", "schedule", "resumed", "relock", "done"}

QueueTypes ==
  /\ hash \in [Futexes -> Buckets] /\ val \in [Futexes -> 0..1]
  /\ lock \in [Buckets -> Wakers \cup {NULL}] /\ chain \in [Buckets -> Seq(Tasks)]
  /\ key \in [Tasks -> Futexes \cup {NULL}] /\ lock_ptr \in [Tasks -> Buckets \cup {NULL}]

WaitTypes ==
  /\ wait \in [Tasks -> Waits \cup {NoWait}] /\ pre \in [Tasks -> Buckets \cup {NULL}]
  /\ ret \in [Tasks -> {"none", "0", "EWOULDBLOCK", "ETIMEDOUT", "ERESTARTSYS"}]
  /\ fate \in [Tasks -> {"none", "requeued", "woken"}]

WakerTypes ==
  /\ wpc \in [Wakers -> {"idle", "lock", "loop", "wake_up"}]
  /\ call \in [Wakers -> Calls \cup {NoCall}] /\ wakee \in [Wakers -> Tasks \cup {NULL}]

(* The parts make up TypeOK. *)
LEMMA TypeParts ==
  /\ TypeOK <=> TaskTypeOK(Labels) /\ QueueTypes /\ WaitTypes /\ WakerTypes
  /\ TypeOK' <=> TaskTypeOK(Labels)' /\ QueueTypes' /\ WaitTypes' /\ WakerTypes'
  BY DEF TypeOK, TaskTypeOK, Labels, QueueTypes, WaitTypes, WakerTypes

(* The fields of the arguments. *)
LEMMA Fields ==
  /\ \A c \in Calls : /\ c.f \in Futexes /\ c.g \in Futexes /\ c.nr \in Nat /\ c.move \in Nat
                       /\ c.op \in {"wake", "wake_op", "requeue"} /\ c.cmp \in 0..1
  /\ \A a \in Waits : a.f \in Futexes /\ a.val \in 0..1
  /\ NoCall.op = "none" /\ NoCall \notin Calls
  BY DEF Calls, Waits, NoCall

(* plist_del() of a futex_q that may be on the chain. *)
LEMMA WithoutLists ==
  ASSUME NEW S, NEW q \in Seq(S), LinkedOnce(q), NEW t
  PROVE  /\ Without(t, q) \in Seq(S) /\ LinkedOnce(Without(t, q))
         /\ Entries(Without(t, q)) = Entries(q) \ {t}
  <1>1. CASE t \in Entries(q)
    BY <1>1, ListDel DEF Without
  <1>2. CASE t \notin Entries(q)
    BY <1>2 DEF Without
  <1>3. QED
    BY <1>1, <1>2

(* The waiters that match are tasks, and at most INT_MAX. *)
LEMMA MatchingFinite ==
  ASSUME NEW f \in Futexes, QueueTypes
  PROVE  /\ Matching(f) \subseteq Tasks /\ IsFiniteSet(Matching(f))
         /\ Cardinality(Matching(f)) \in Nat /\ INT_MAX \in Nat
         /\ Cardinality(Matching(f)) <= INT_MAX
  <1>1. chain[hash[f]] \in Seq(Tasks)
    BY DEF QueueTypes
  <1>2. Matching(f) \subseteq Tasks
    BY <1>1, ListEmpty DEF Matching
  <1>3. QED
    BY <1>2, TasksAssumption, FS_Subset, FS_CardinalityType DEF INT_MAX

(* The same after a step. *)
LEMMA MatchingFiniteNext ==
  ASSUME NEW f \in Futexes, QueueTypes'
  PROVE  /\ Matching(f)' \subseteq Tasks /\ IsFiniteSet(Matching(f)')
         /\ Cardinality(Matching(f)') \in Nat /\ INT_MAX \in Nat
         /\ Cardinality(Matching(f)') <= INT_MAX
  <1>1. chain'[hash'[f]] \in Seq(Tasks)
    BY DEF QueueTypes
  <1>2. Matching(f)' \subseteq Tasks
    BY <1>1, ListEmpty DEF Matching
  <1>3. QED
    BY <1>2, TasksAssumption, FS_Subset, FS_CardinalityType DEF INT_MAX

(* The walk of the chain stops at a waiter that matches. *)
LEMMA FirstMatches ==
  ASSUME NEW f \in Futexes, QueueTypes, Matching(f) # {}
  PROVE  FirstMatch(f) \in Matching(f)
  <1> DEFINE q == chain[hash[f]]
             I == {i \in 1..Len(q) : key[q[i]] = f}
  <1>1. q \in Seq(Tasks)
    BY DEF QueueTypes
  <1>2. I \in SUBSET Nat /\ I # {}
    BY <1>1 DEF Matching, Entries
  <1>3. \E k \in I : \A j \in I : k <= j
    BY <1>2, Least
  <1>4. Min(I) \in I
    BY <1>3 DEF Min
  <1>5. FirstMatch(f) = q[Min(I)]
    BY DEF FirstMatch
  <1> HIDE DEF I
  <1>6. Min(I) \in 1..Len(q) /\ key[q[Min(I)]] = f
    BY <1>4 DEF I
  <1>7. QED
    BY <1>5, <1>6 DEF Matching, Entries

(* What a waker owes it still owes after a step of somebody else that adds *)
(* no waiter to the chains it has locked.                                  *)
LEMMA OwesKeeps ==
  ASSUME NEW w \in Wakers, NEW f \in Futexes, Owes(w, f), QueueTypes, QueueTypes', CallInv,
         call'[w] = call[w], wpc'[w] = wpc[w] \/ {wpc[w], wpc'[w]} \subseteq {"loop", "wake_up"},
         val'[f] = val[f], lock[hash[f]] = w => Matching(f)' \subseteq Matching(f)
  PROVE  Owes(w, f)'
  <1> DEFINE n == Cardinality(Matching(f))
             m == Cardinality(Matching(f)')
  <1>0. n \in Nat /\ m \in Nat
    BY MatchingFinite, MatchingFiniteNext
  <1>1. lock[hash[f]] = w => m <= n
    BY MatchingFinite, FS_Subset
  <1>2. wpc[w] # "idle" /\ call[w] \in Calls
    BY DEF CallInv, CallOf, Owes
  <1>3. call[w].nr \in Nat /\ call[w].move \in Nat
    BY <1>2, Fields
  <1>4. wpc[w] \in {"loop", "wake_up"} => m <= n
    BY <1>1 DEF CallInv, CallOf, Owes
  <1> HIDE DEF n, m
  <1>5. QED
    BY <1>0, <1>3, <1>4 DEF Owes, n, m

-----------------------------------------------------------------------------
(* The step leaves the task and its futex_q alone. *)
Same(u) ==
  /\ pc'[u] = pc[u] /\ state'[u] = state[u] /\ on_rq'[u] = on_rq[u] /\ sig'[u] = sig[u]
  /\ key'[u] = key[u] /\ lock_ptr'[u] = lock_ptr[u]
  /\ wait'[u] = wait[u] /\ pre'[u] = pre[u] /\ ret'[u] = ret[u] /\ fate'[u] = fate[u]

(* Then the task keeps what is true of it, if nobody joins a locked chain. *)
LEMMA OtherTask ==
  ASSUME IInv, QueueTypes', NEW u \in Tasks, Same(u), UNCHANGED <<hash, val, lock, wakerVars>>,
         \A b \in Buckets : u \in Entries(chain[b]) => u \in Entries(chain'[b]),
         \A f \in Futexes : lock[hash[f]] # NULL => Matching(f)' \subseteq Matching(f)
  PROVE  WaitOf(u)' /\ SleepOf(u)' /\ OwedOf(u)'
  <1>1. WaitOf(u) /\ SleepOf(u) /\ OwedOf(u) /\ QueueTypes /\ CallInv
    BY TypeParts DEF IInv, TaskInv
  <1>2. WaitOf(u)'
    BY <1>1 DEF WaitOf, InWait, Same, QueueTypes
  <1>3. SleepOf(u)'
    BY <1>1 DEF SleepOf, Same, wakerVars
  <1>4. ASSUME NEW w \in Wakers, NEW f \in Futexes, Owes(w, f)
        PROVE  Owes(w, f)'
    <2>1. w # NULL
      BY FutexAssumption
    <2>2. call'[w] = call[w] /\ wpc'[w] = wpc[w] /\ val'[f] = val[f]
      BY DEF wakerVars
    <2>3. QED
      BY <1>1, <1>4, <2>1, <2>2, OwesKeeps
  <1>5. OwedOf(u)'
    <2> SUFFICES ASSUME NEW f \in Futexes, InWait(u)', fate'[u] = "none", wait'[u].f = f,
                        val'[f] # wait'[u].val
                 PROVE  \E w \in Wakers : Owes(w, f)'
      BY DEF OwedOf
    <2>1. \E w \in Wakers : Owes(w, f)
      BY <1>1 DEF OwedOf, InWait, Same
    <2>2. QED
      BY <1>4, <2>1
  <1>6. QED
    BY <1>2, <1>3, <1>5

(* What is left to show of a step of a waiter. *)
LEMMA WaiterKeeps ==
  ASSUME IInv, NEW t \in Tasks, TypeOK', ChainInv', UNCHANGED <<hash, val, lock, wakerVars>>,
         \A u \in Tasks : u # t => Same(u),
         \A u \in Tasks, b \in Buckets :
            u # t => (u \in Entries(chain[b]) => u \in Entries(chain'[b])),
         \A f \in Futexes : lock[hash[f]] # NULL => Matching(f)' \subseteq Matching(f),
         WaitOf(t)' /\ SleepOf(t)' /\ OwedOf(t)'
  PROVE  IInv'
  <1>1. QueueTypes'
    BY TypeParts
  <1>2. TaskInv'
    <2> SUFFICES ASSUME NEW u \in Tasks, u # t PROVE WaitOf(u)' /\ SleepOf(u)' /\ OwedOf(u)'
      BY DEF TaskInv
    <2>1. Same(u) /\ \A b \in Buckets : u \in Entries(chain[b]) => u \in Entries(chain'[b])
      OBVIOUS
    <2>2. QED
      BY <1>1, <2>1, OtherTask
  <1>3. CallInv'
    BY DEF IInv, CallInv, CallOf, wakerVars
  <1>4. QED
    BY <1>2, <1>3 DEF IInv

(* And of one that changes no chain. *)
LEMMA LocalKeeps ==
  ASSUME IInv, NEW t \in Tasks, UNCHANGED <<hash, val, lock, qVars, wakerVars>>,
         TaskTypeOK(Labels)', WaitTypes', \A u \in Tasks : u # t => Same(u),
         InWait(t) => InWait(t)', WaitOf(t)', SleepOf(t)', OwedOf(t)'
  PROVE  IInv'
  <1>1. QueueTypes /\ QueueTypes' /\ WakerTypes'
    BY TypeParts DEF IInv, QueueTypes, WakerTypes, qVars, wakerVars
  <1>2. TypeOK'
    BY <1>1, TypeParts
  <1>3. \A b \in Buckets : Entries(chain[b]) \subseteq Tasks
    BY <1>1, ListEmpty DEF QueueTypes
  <1>4. \A u \in Tasks : InWait(u) => InWait(u)'
    BY DEF InWait, Same
  <1>5. ChainInv'
    BY <1>3, <1>4 DEF IInv, ChainInv, qVars
  <1>6. \A f \in Futexes : Matching(f)' \subseteq Matching(f)
    BY DEF Matching, qVars
  <1>7. QED
    BY <1>2, <1>5, <1>6, WaiterKeeps DEF qVars

(* futex_wait(), and futex_wait_restart(): the word has been read. *)
LEMMA EnterStep ==
  ASSUME IInv, NEW t \in Tasks, futex_wait(t) \/ futex_wait_restart(t)
  PROVE  IInv'
  <1>0. TaskTypeOK(Labels) /\ QueueTypes /\ WaitTypes /\ WaitOf(t) /\ SleepOf(t)
    BY TypeParts DEF IInv, TaskInv
  <1>1. /\ pc[t] \in {"idle", "done"} /\ pc' = [pc EXCEPT ![t] = "setup"]
        /\ fate' = [fate EXCEPT ![t] = "none"]
        /\ UNCHANGED <<state, on_rq, timer, hash, val, lock, qVars, pre, wakerVars>>
    BY DEF futex_wait, futex_wait_restart, Goto
  <1>2. /\ sig' = sig \/ sig' = [sig EXCEPT ![t] = "none"]
        /\ ret' = ret \/ ret' = [ret EXCEPT ![t] = "none"]
        /\ \/ wait' = wait /\ pc[t] # "idle"
           \/ \E f \in Futexes : wait' = [wait EXCEPT ![t] = [f |-> f, val |-> val[f]]]
    BY DEF futex_wait, futex_wait_restart
  <1>3. PICK a \in Waits : wait' = [wait EXCEPT ![t] = a]
    <2>1. CASE wait' = wait /\ pc[t] # "idle"
      BY <1>0, <2>1 DEF WaitOf, WaitTypes
    <2>2. CASE \E f \in Futexes : wait' = [wait EXCEPT ![t] = [f |-> f, val |-> val[f]]]
      BY <1>0, <2>2 DEF QueueTypes, Waits
    <2>3. QED
      BY <1>2, <2>1, <2>2
  <1>4. TaskTypeOK(Labels)'
    BY <1>0, <1>1, <1>2 DEF TaskTypeOK, Labels
  <1>5. WaitTypes'
    BY <1>0, <1>1, <1>2, <1>3 DEF WaitTypes
  <1>6. pc'[t] = "setup" /\ fate'[t] = "none" /\ wait'[t] = a /\ sig'[t] # "fatal"
    BY <1>0, <1>1, <1>2, <1>3 DEF TaskTypeOK, WaitTypes, SleepOf
  <1>7. \A u \in Tasks : u # t => Same(u)
    BY <1>0, <1>1, <1>2, <1>3 DEF TaskTypeOK, WaitTypes, Same, qVars
  <1>8. WaitOf(t)' /\ OwedOf(t)' /\ ~InWait(t)
    BY <1>1, <1>6 DEF WaitOf, OwedOf, InWait
  <1>9. SleepOf(t)'
    BY <1>0, <1>1, <1>6 DEF SleepOf
  <1>10. QED
    BY <1>1, <1>4, <1>5, <1>7, <1>8, <1>9, LocalKeeps

(* futex_wait_setup() finds another value in the word. *)
LEMMA WouldBlockStep ==
  ASSUME IInv, NEW t \in Tasks, futex_wait_setup(t), ~WouldBlock(t)
  PROVE  IInv'
  <1>0. TaskTypeOK(Labels) /\ QueueTypes /\ WaitTypes /\ WaitOf(t) /\ SleepOf(t)
    BY TypeParts DEF IInv, TaskInv
  <1>1. /\ pc[t] = "setup" /\ pc' = [pc EXCEPT ![t] = "done"]
        /\ ret' = [ret EXCEPT ![t] = "EWOULDBLOCK"] /\ pre' = [pre EXCEPT ![t] = NULL]
        /\ timer' = [timer EXCEPT ![t] = "none"]
        /\ UNCHANGED <<state, on_rq, sig, hash, val, lock, qVars, wait, fate, wakerVars>>
    BY DEF futex_wait_setup, Return, Goto
  <1>2. TaskTypeOK(Labels)' /\ WaitTypes'
    BY <1>0, <1>1 DEF TaskTypeOK, Labels, WaitTypes
  <1>3. pc'[t] = "done" /\ ret'[t] = "EWOULDBLOCK"
    BY <1>0, <1>1 DEF TaskTypeOK, WaitTypes
  <1>4. \A u \in Tasks : u # t => Same(u)
    BY <1>0, <1>1 DEF TaskTypeOK, WaitTypes, Same, qVars
  <1>5. WaitOf(t)' /\ OwedOf(t)' /\ ~InWait(t)
    BY <1>0, <1>1, <1>3 DEF WaitOf, OwedOf, InWait
  <1>6. SleepOf(t)'
    BY <1>0, <1>1, <1>3 DEF SleepOf
  <1>7. QED
    BY <1>1, <1>2, <1>4, <1>5, <1>6, LocalKeeps

(* It finds the value it was called with, and queues the futex_q. *)
LEMMA QueueMeStep ==
  ASSUME IInv, NEW t \in Tasks, futex_wait_setup(t), WouldBlock(t)
  PROVE  IInv'
  <1>0. TaskTypeOK(Labels) /\ QueueTypes /\ WaitTypes /\ WaitOf(t) /\ SleepOf(t) /\ ChainInv
    BY TypeParts DEF IInv, TaskInv
  <1>a. PICK f, b : f = wait[t].f /\ b = hash[f]
    OBVIOUS
  <1>1. /\ pc[t] = "setup" /\ lock[b] = NULL /\ val[f] = wait[t].val
        /\ lock_ptr' = [lock_ptr EXCEPT ![t] = b] /\ key' = [key EXCEPT ![t] = f]
        /\ chain' = [chain EXCEPT ![b] = list_add_tail(t, @)]
        /\ state' = [state EXCEPT ![t] = TASK_INTERRUPTIBLE] /\ pc' = [pc EXCEPT ![t] = "queued"]
        /\ UNCHANGED <<on_rq, sig, timer, hash, val, lock, wait, pre, ret, fate, wakerVars>>
    BY <1>a DEF futex_wait_setup, WouldBlock, Goto, set_task_state, waitVars
  <1>2. f \in Futexes /\ b \in Buckets /\ wait[t] \in Waits /\ fate[t] = "none" /\ b # NULL
    BY <1>0, <1>1, <1>a, Fields, FutexAssumption DEF WaitOf, QueueTypes
  <1> DEFINE q == list_add_tail(t, chain[b])
  <1>3. \A c \in Buckets : t \notin Entries(chain[c])
    BY <1>0, <1>1 DEF ChainInv, InWait
  <1>4. q \in Seq(Tasks) /\ Entries(q) = Entries(chain[b]) \cup {t} /\ LinkedOnce(q)
    BY <1>0, <1>2, <1>3, ListAddTail DEF QueueTypes, ChainInv
  <1>5. chain' = [chain EXCEPT ![b] = q]
    BY <1>1
  <1> HIDE DEF q
  <1>6. QueueTypes'
    BY <1>0, <1>1, <1>2, <1>4, <1>5 DEF QueueTypes
  <1>7. TypeOK'
    <2>1. TaskTypeOK(Labels)'
      BY <1>0, <1>1 DEF TaskTypeOK, Labels, States
    <2>2. WaitTypes' /\ WakerTypes'
      BY <1>1, TypeParts DEF IInv, WaitTypes, WakerTypes, wakerVars
    <2>3. QED
      BY <1>6, <2>1, <2>2, TypeParts
  <1>8. /\ pc'[t] = "queued" /\ lock_ptr'[t] = b /\ key'[t] = f /\ chain'[b] = q
        /\ \A c \in Buckets : c # b => chain'[c] = chain[c]
    BY <1>0, <1>1, <1>2, <1>5 DEF TaskTypeOK, QueueTypes
  <1>9. \A u \in Tasks : u # t => Same(u)
    BY <1>0, <1>1 DEF TaskTypeOK, QueueTypes, Same
  <1>10. \A c \in Buckets : Entries(chain[c]) \subseteq Tasks
    BY <1>0, ListEmpty DEF QueueTypes
  <1>11. ChainInv'
    <2>1. \A c \in Buckets : LinkedOnce(chain'[c])
      BY <1>0, <1>4, <1>8 DEF ChainInv
    <2>2. ASSUME NEW c \in Buckets, NEW u \in Entries(chain'[c])
          PROVE  InWait(u)' /\ lock_ptr'[u] = c /\ key'[u] \in Futexes /\ hash'[key'[u]] = c
      <3>1. CASE u = t
        <4>1. c = b
          BY <1>3, <1>8, <2>2, <3>1
        <4>2. QED
          BY <1>1, <1>2, <1>8, <1>a, <3>1, <4>1 DEF InWait
      <3>2. CASE u # t
        <4>1. u \in Entries(chain[c])
          BY <1>4, <1>8, <2>2, <3>2
        <4>2. u \in Tasks
          BY <1>10, <4>1
        <4>3. QED
          BY <1>0, <1>1, <1>9, <3>2, <4>1, <4>2 DEF ChainInv, InWait, Same
      <3>3. QED
        BY <3>1, <3>2
    <2>3. QED
      BY <2>1, <2>2 DEF ChainInv
  <1>12. \A u \in Tasks, c \in Buckets : u \in Entries(chain[c]) => u \in Entries(chain'[c])
    BY <1>4, <1>8
  <1>13. ASSUME NEW g \in Futexes, lock[hash[g]] # NULL
         PROVE  Matching(g)' \subseteq Matching(g)
    <2>1. hash[g] \in Buckets /\ hash[g] # b
      BY <1>0, <1>1, <1>13 DEF QueueTypes
    <2>2. chain'[hash[g]] = chain[hash[g]] /\ \A u \in Entries(chain[hash[g]]) : key'[u] = key[u]
      BY <1>3, <1>8, <1>9, <1>10, <2>1 DEF Same
    <2>3. QED
      BY <1>1, <2>2 DEF Matching
  <1>14. WaitOf(t)'
    BY <1>1, <1>2, <1>4, <1>8, <1>a DEF WaitOf, InWait
  <1>15. SleepOf(t)'
    BY <1>0, <1>1, <1>2, <1>8 DEF SleepOf
  <1>16. OwedOf(t)'
    BY <1>1, <1>a DEF OwedOf
  <1>17. QED
    BY <1>1, <1>7, <1>9, <1>11, <1>12, <1>13, <1>14, <1>15, <1>16, WaiterKeeps

(* futex_wait_queue_me() decides whether to sleep. *)
LEMMA SleepStep ==
  ASSUME IInv, NEW t \in Tasks, futex_wait_queue_me(t)
  PROVE  IInv'
  <1>0. /\ TaskTypeOK(Labels) /\ QueueTypes /\ WaitTypes
        /\ WaitOf(t) /\ SleepOf(t) /\ OwedOf(t) /\ ChainInv
    BY TypeParts DEF IInv, TaskInv
  <1>1. /\ pc[t] = "queued" /\ \E x \in {"expired", "armed"} : timer' = [timer EXCEPT ![t] = x]
        /\ \/ pc' = [pc EXCEPT ![t] = "resumed"] /\ state' = [state EXCEPT ![t] = TASK_RUNNING]
           \/ pc' = [pc EXCEPT ![t] = "schedule"] /\ state' = state
        /\ UNCHANGED <<on_rq, sig, hash, val, lock, qVars, wait, pre, ret, fate, wakerVars>>
    BY DEF futex_wait_queue_me, Goto, set_task_state, waitVars
  <1>2. TaskTypeOK(Labels)'
    BY <1>0, <1>1 DEF TaskTypeOK, Labels, States
  <1>3. WaitTypes'
    BY <1>0, <1>1 DEF WaitTypes
  <1>4. pc'[t] = "resumed" \/ (pc'[t] = "schedule" /\ state'[t] = state[t])
    BY <1>0, <1>1 DEF TaskTypeOK
  <1>5. \A u \in Tasks : u # t => Same(u)
    BY <1>0, <1>1 DEF TaskTypeOK, Same, qVars
  <1>6. InWait(t)' /\ InWait(t)
    BY <1>1, <1>4 DEF InWait
  <1>7. WaitOf(t)'
    BY <1>0, <1>1, <1>4, <1>6 DEF WaitOf, qVars
  <1>8. SleepOf(t)'
    BY <1>0, <1>1, <1>4 DEF SleepOf, wakerVars
  <1>9. OwedOf(t)'
    BY <1>0, <1>1, <1>6 DEF OwedOf, Owes, Matching, qVars, wakerVars
  <1>10. QED
    BY <1>1, <1>2, <1>3, <1>5, <1>6, <1>7, <1>8, <1>9, LocalKeeps

(* unqueue_me() reads lock_ptr, and finds out later that it was stale. *)
LEMMA UnqueueMeStep ==
  ASSUME IInv, NEW t \in Tasks, unqueue_me(t) \/ unqueue_retry(t)
  PROVE  IInv'
  <1>0. /\ TaskTypeOK(Labels) /\ QueueTypes /\ WaitTypes
        /\ WaitOf(t) /\ SleepOf(t) /\ OwedOf(t) /\ ChainInv
    BY TypeParts DEF IInv, TaskInv
  <1>1. UNCHANGED <<state, on_rq, sig, hash, val, lock, qVars, wait, fate, wakerVars>>
    BY DEF unqueue_me, unqueue_retry, Return
  <1>2. CASE unqueue_me(t) /\ lock_ptr[t] = NULL
    <2>1. /\ pc[t] = "resumed" /\ pc' = [pc EXCEPT ![t] = "done"] /\ ret' = [ret EXCEPT ![t] = "0"]
          /\ pre' = [pre EXCEPT ![t] = NULL] /\ timer' = [timer EXCEPT ![t] = "none"]
      BY <1>2 DEF unqueue_me, Return, Goto
    <2>2. TaskTypeOK(Labels)' /\ WaitTypes'
      BY <1>0, <1>1, <2>1 DEF TaskTypeOK, Labels, WaitTypes
    <2>3. pc'[t] = "done" /\ ret'[t] = "0" /\ fate[t] = "woken"
      BY <1>0, <1>2, <2>1 DEF TaskTypeOK, WaitTypes, WaitOf, InWait
    <2>4. \A u \in Tasks : u # t => Same(u)
      BY <1>0, <1>1, <2>1 DEF TaskTypeOK, WaitTypes, Same, qVars
    <2>5. WaitOf(t)' /\ OwedOf(t)'
      BY <1>0, <1>1, <2>1, <2>3 DEF WaitOf, OwedOf, InWait
    <2>6. SleepOf(t)'
      BY <1>0, <1>1, <2>1, <2>3 DEF SleepOf
    <2>7. QueueTypes' /\ WakerTypes'
      BY <1>0, <1>1, TypeParts DEF IInv, QueueTypes, WakerTypes, qVars, wakerVars
    <2>8. TypeOK'
      BY <2>2, <2>7, TypeParts
    <2>9. \A b \in Buckets : Entries(chain[b]) \subseteq Tasks /\ t \notin Entries(chain[b])
      BY <1>0, <1>2, ListEmpty, FutexAssumption DEF QueueTypes, ChainInv
    <2>10. ChainInv'
      <3>1. \A b \in Buckets : \A u \in Entries(chain[b]) : InWait(u)'
        BY <1>0, <2>4, <2>9 DEF ChainInv, InWait, Same
      <3>2. QED
        BY <1>0, <1>1, <3>1 DEF ChainInv, qVars
    <2>11. \A f \in Futexes : Matching(f)' \subseteq Matching(f)
      BY <1>1 DEF Matching, qVars
    <2>12. QED
      BY <1>1, <2>4, <2>5, <2>6, <2>8, <2>10, <2>11, WaiterKeeps DEF qVars
  <1>3. CASE (unqueue_me(t) /\ lock_ptr[t] # NULL) \/ unqueue_retry(t)
    <2>1. /\ UNCHANGED <<timer, ret>>
          /\ \/ /\ pc[t] = "resumed" /\ lock_ptr[t] # NULL /\ pc' = [pc EXCEPT ![t] = "relock"]
                /\ pre' = [pre EXCEPT ![t] = lock_ptr[t]]
             \/ /\ pc[t] = "relock" /\ pc' = [pc EXCEPT ![t] = "resumed"]
                /\ pre' = [pre EXCEPT ![t] = NULL]
      BY <1>3 DEF unqueue_me, unqueue_retry, Return, Goto
    <2>2. TaskTypeOK(Labels)' /\ WaitTypes'
      BY <1>0, <1>1, <2>1 DEF TaskTypeOK, Labels, WaitTypes, QueueTypes
    <2>3. pc'[t] = "resumed" \/ (pc'[t] = "relock" /\ pre'[t] \in Buckets)
      BY <1>0, <2>1 DEF TaskTypeOK, WaitTypes, QueueTypes
    <2>4. \A u \in Tasks : u # t => Same(u)
      BY <1>0, <1>1, <2>1 DEF TaskTypeOK, WaitTypes, Same, qVars
    <2>5. InWait(t) /\ InWait(t)'
      BY <2>1, <2>3 DEF InWait
    <2>6. WaitOf(t)'
      BY <1>0, <1>1, <2>1, <2>3, <2>5 DEF WaitOf, qVars
    <2>7. SleepOf(t)'
      BY <1>0, <1>1, <2>1, <2>3 DEF SleepOf
    <2>8. OwedOf(t)'
      BY <1>0, <1>1, <2>5 DEF OwedOf, Owes, Matching, qVars, wakerVars
    <2>9. QED
      BY <1>1, <2>2, <2>4, <2>5, <2>6, <2>7, <2>8, LocalKeeps
  <1>4. QED
    BY <1>2, <1>3

(* unqueue_me() has the right lock: the futex_q leaves its chain. *)
LEMMA UnqueueEndsStep ==
  ASSUME IInv, NEW t \in Tasks, unqueue_ends(t)
  PROVE  IInv'
  <1>0. /\ TaskTypeOK(Labels) /\ QueueTypes /\ WaitTypes
        /\ WaitOf(t) /\ SleepOf(t) /\ ChainInv
    BY TypeParts DEF IInv, TaskInv
  <1>a. PICK b : b = pre[t]
    OBVIOUS
  <1>1. /\ pc[t] = "relock" /\ lock_ptr[t] = b /\ chain' = [chain EXCEPT ![b] = Without(t, @)]
        /\ pre' = [pre EXCEPT ![t] = NULL]
        /\ UNCHANGED <<state, on_rq, sig, hash, val, lock, key, lock_ptr, wait, wakerVars>>
    BY <1>a DEF unqueue_ends, WrongLock, Return
  <1>2. \/ /\ pc' = [pc EXCEPT ![t] = "done"] /\ timer' = [timer EXCEPT ![t] = "none"] /\ fate' = fate
           /\ \E r \in {"ETIMEDOUT", "ERESTARTSYS"} : ret' = [ret EXCEPT ![t] = r]
        \/ /\ pc' = [pc EXCEPT ![t] = "setup"] /\ fate' = [fate EXCEPT ![t] = "none"]
           /\ UNCHANGED <<timer, ret>>
    BY DEF unqueue_ends, Return, Goto
  <1>3. b \in Buckets /\ b # NULL /\ fate[t] # "woken" /\ wait[t] \in Waits
    BY <1>0, <1>1, <1>a, FutexAssumption DEF WaitOf, InWait
  <1> DEFINE q == Without(t, chain[b])
  <1>4. q \in Seq(Tasks) /\ Entries(q) = Entries(chain[b]) \ {t} /\ LinkedOnce(q)
    BY <1>0, <1>3, WithoutLists DEF QueueTypes, ChainInv
  <1>5. chain' = [chain EXCEPT ![b] = q]
    BY <1>1
  <1> HIDE DEF q
  <1>6. QueueTypes'
    BY <1>0, <1>1, <1>3, <1>4, <1>5 DEF QueueTypes
  <1>7. TypeOK'
    <2>1. TaskTypeOK(Labels)'
      BY <1>0, <1>1, <1>2 DEF TaskTypeOK, Labels
    <2>2. WaitTypes'
      BY <1>0, <1>1, <1>2 DEF WaitTypes
    <2>3. WakerTypes'
      BY <1>1, TypeParts DEF IInv, WakerTypes, wakerVars
    <2>4. QED
      BY <1>6, <2>1, <2>2, <2>3, TypeParts
  <1>8. /\ chain'[b] = q /\ \A c \in Buckets : c # b => chain'[c] = chain[c]
        /\ \/ pc'[t] = "done" /\ ret'[t] # "0" /\ fate'[t] = fate[t]
           \/ pc'[t] = "setup" /\ fate'[t] = "none"
    <2>1. chain'[b] = q /\ \A c \in Buckets : c # b => chain'[c] = chain[c]
      BY <1>0, <1>3, <1>5 DEF QueueTypes
    <2>2. CASE pc' = [pc EXCEPT ![t] = "done"] /\ fate' = fate
                 /\ \E r \in {"ETIMEDOUT", "ERESTARTSYS"} : ret' = [ret EXCEPT ![t] = r]
      BY <1>0, <2>1, <2>2 DEF TaskTypeOK, WaitTypes
    <2>3. CASE pc' = [pc EXCEPT ![t] = "setup"] /\ fate' = [fate EXCEPT ![t] = "none"]
      BY <1>0, <2>1, <2>3 DEF TaskTypeOK, WaitTypes
    <2>4. QED
      BY <1>2, <2>2, <2>3
  <1>9. \A u \in Tasks : u # t => Same(u)
    BY <1>0, <1>1, <1>2 DEF TaskTypeOK, WaitTypes, Same
  <1>10. \A c \in Buckets : Entries(chain'[c]) = Entries(chain[c]) \ {t} /\ Entries(chain[c]) \subseteq Tasks
    <2>1. \A c \in Buckets : t \in Entries(chain[c]) => c = b
      BY <1>0, <1>1 DEF ChainInv
    <2>2. \A c \in Buckets : Entries(chain[c]) \subseteq Tasks
      BY <1>0, ListEmpty DEF QueueTypes
    <2>3. QED
      BY <1>4, <1>8, <2>1, <2>2
  <1>11. ChainInv'
    <2>1. \A c \in Buckets : LinkedOnce(chain'[c])
      BY <1>0, <1>4, <1>8 DEF ChainInv
    <2>2. \A c \in Buckets : \A u \in Entries(chain'[c]) :
            InWait(u)' /\ lock_ptr'[u] = c /\ key'[u] \in Futexes /\ hash'[key'[u]] = c
      BY <1>0, <1>1, <1>9, <1>10 DEF ChainInv, InWait, Same
    <2>3. QED
      BY <2>1, <2>2 DEF ChainInv
  <1>12. \A u \in Tasks, c \in Buckets : u # t => (u \in Entries(chain[c]) => u \in Entries(chain'[c]))
    BY <1>10
  <1>13. \A f \in Futexes : Matching(f)' \subseteq Matching(f)
    BY <1>0, <1>1, <1>10 DEF Matching, QueueTypes
  <1>14. WaitOf(t)' /\ OwedOf(t)'
    BY <1>1, <1>3, <1>8 DEF WaitOf, OwedOf, InWait
  <1>15. SleepOf(t)'
    BY <1>0, <1>1, <1>8 DEF SleepOf
  <1>16. QED
    BY <1>1, <1>7, <1>9, <1>11, <1>12, <1>13, <1>14, <1>15, WaiterKeeps

(* The task is back in user space, and its stack is reused. *)
LEMMA SyscallEndsStep ==
  ASSUME IInv, NEW t \in Tasks, syscall_ends(t)
  PROVE  IInv'
  <1>0. /\ TaskTypeOK(Labels) /\ QueueTypes /\ WaitTypes
        /\ WaitOf(t) /\ SleepOf(t) /\ ChainInv
    BY TypeParts DEF IInv, TaskInv
  <1>1. /\ pc[t] = "done" /\ pc' = [pc EXCEPT ![t] = "idle"] /\ ret' = [ret EXCEPT ![t] = "none"]
        /\ wait' = [wait EXCEPT ![t] = NoWait] /\ key' = [key EXCEPT ![t] = NULL]
        /\ lock_ptr' = [lock_ptr EXCEPT ![t] = NULL] /\ fate' = [fate EXCEPT ![t] = "none"]
        /\ UNCHANGED <<state, on_rq, sig, timer, hash, val, lock, chain, pre, wakerVars>>
    BY DEF syscall_ends, Goto
  <1>2. TypeOK'
    <2>1. TaskTypeOK(Labels)'
      BY <1>0, <1>1 DEF TaskTypeOK, Labels
    <2>2. WaitTypes'
      BY <1>0, <1>1 DEF WaitTypes
    <2>3. QueueTypes' /\ WakerTypes'
      BY <1>0, <1>1, TypeParts DEF IInv, QueueTypes, WakerTypes, wakerVars
    <2>4. QED
      BY <2>1, <2>2, <2>3, TypeParts
  <1>3. \A u \in Tasks : u # t => Same(u)
    BY <1>0, <1>1 DEF TaskTypeOK, WaitTypes, QueueTypes, Same
  <1>4. pc'[t] = "idle" /\ key'[t] = NULL
    BY <1>0, <1>1 DEF TaskTypeOK, QueueTypes
  <1>5. \A b \in Buckets : Entries(chain[b]) \subseteq Tasks /\ t \notin Entries(chain[b])
    BY <1>0, <1>1, ListEmpty DEF QueueTypes, ChainInv, InWait
  <1>6. ChainInv'
    BY <1>0, <1>1, <1>3, <1>5 DEF ChainInv, InWait, Same
  <1>7. \A f \in Futexes : Matching(f)' \subseteq Matching(f)
    BY <1>0, <1>1, <1>3, <1>5 DEF Matching, QueueTypes, Same
  <1>8. WaitOf(t)' /\ OwedOf(t)'
    BY <1>4 DEF WaitOf, OwedOf, InWait
  <1>9. SleepOf(t)'
    BY <1>0, <1>1, <1>4 DEF SleepOf
  <1>10. QED
    BY <1>1, <1>2, <1>3, <1>6, <1>7, <1>8, <1>9, WaiterKeeps

(* The scheduler, the timer and the signals. *)
LEMMA KernelStep ==
  ASSUME IInv, NEW t \in Tasks, Kernel(t)
  PROVE  IInv'
  <1>0. /\ TaskTypeOK(Labels) /\ QueueTypes /\ WaitTypes
        /\ WaitOf(t) /\ SleepOf(t) /\ OwedOf(t)
    BY TypeParts DEF IInv, TaskInv
  <1>1. UNCHANGED <<hash, val, lock, qVars, wait, pre, ret, fate, wakerVars>>
    BY DEF Kernel, waitVars
  <1>2. /\ TaskTypeOK(Labels)'
        /\ \A u \in Tasks : u # t => /\ pc'[u] = pc[u] /\ state'[u] = state[u]
                                     /\ on_rq'[u] = on_rq[u] /\ sig'[u] = sig[u]
        /\ sig'[t] # "fatal"
        /\ \/ pc'[t] = pc[t] /\ state'[t] = state[t] /\ (on_rq'[t] = on_rq[t] \/ (pc[t] = "schedule" /\ state[t] # TASK_RUNNING))
           \/ pc'[t] = pc[t] /\ state'[t] = TASK_RUNNING /\ on_rq'[t]
           \/ pc[t] = "schedule" /\ pc'[t] = "resumed" /\ on_rq'[t]
    <2>1. CASE deactivate_task(t)
      BY <1>0, <2>1 DEF deactivate_task, TaskTypeOK, SleepOf
    <2>2. CASE schedule_returns(t)
      BY <1>0, <2>2 DEF schedule_returns, TaskTypeOK, SleepOf, Labels, States
    <2>3. CASE process_timeout(t)
      BY <1>0, <2>3 DEF process_timeout, wake_up_process, try_to_wake_up, WakesUp, TaskTypeOK, SleepOf, States
    <2>4. CASE signal_wake_up(t, "plain")
      BY <1>0, <2>4 DEF signal_wake_up, try_to_wake_up, WakesUp, TaskTypeOK, SleepOf, States
    <2>5. CASE do_signal(t)
      BY <1>0, <2>5 DEF do_signal, TaskTypeOK, SleepOf
    <2>6. QED
      BY <2>1, <2>2, <2>3, <2>4, <2>5 DEF Kernel, schedule
  <1>3. WaitTypes'
    BY <1>0, <1>1 DEF WaitTypes
  <1>4. \A u \in Tasks : u # t => Same(u)
    BY <1>1, <1>2 DEF Same, qVars
  <1>5. /\ InWait(t) <=> InWait(t)'
        /\ pc'[t] = pc[t] \/ (InWait(t) /\ pc'[t] = "resumed")
    BY <1>2 DEF InWait
  <1>6. WaitOf(t)'
    <2>1. UNCHANGED <<fate, lock_ptr, chain, key, wait, pre, ret>>
      BY <1>1 DEF qVars
    <2>2. QED
      BY <1>0, <1>5, <2>1 DEF WaitOf, InWait
  <1>7. SleepOf(t)'
    BY <1>0, <1>1, <1>2 DEF SleepOf, wakerVars
  <1>8. OwedOf(t)'
    BY <1>0, <1>1, <1>5 DEF OwedOf, Owes, Matching, qVars, wakerVars
  <1>9. QED
    BY <1>1, <1>2, <1>3, <1>4, <1>5, <1>6, <1>7, <1>8, LocalKeeps

-----------------------------------------------------------------------------
(* A waiter that was not requeued and not woken is one that matches. *)
LEMMA UnwokenMatches ==
  ASSUME IInv, NEW t \in Tasks, InWait(t), fate[t] = "none"
  PROVE  wait[t].f \in Futexes /\ t \in Matching(wait[t].f)
  <1>1. WaitOf(t) /\ ChainInv /\ QueueTypes
    BY TypeParts DEF IInv, TaskInv
  <1>2. wait[t].f \in Futexes
    BY <1>1, Fields DEF WaitOf, InWait
  <1>3. lock_ptr[t] \in Buckets /\ t \in Entries(chain[lock_ptr[t]]) /\ key[t] = wait[t].f
    BY <1>1 DEF WaitOf, QueueTypes
  <1>4. QED
    BY <1>1, <1>2, <1>3 DEF ChainInv, Matching

(* What is left to show of a step of waker w that moves no futex_q. *)
LEMMA WakerKeeps ==
  ASSUME IInv, NEW w \in Wakers, UNCHANGED <<taskVars, hash, qVars, waitVars, fate, wakee>>,
         val' \in [Futexes -> 0..1], lock' \in [Buckets -> Wakers \cup {NULL}], WakerTypes',
         \A u \in Wakers : u # w => call'[u] = call[u] /\ wpc'[u] = wpc[u],
         \A u \in Wakers, b \in Buckets : u # w /\ lock[b] = u => lock'[b] = u,
         CallOf(w)',
         \A f \in Futexes : Matching(f) # {} =>
            /\ val'[f] # val[f] => Owes(w, f)'
            /\ val'[f] = val[f] /\ Owes(w, f) => Owes(w, f)'
  PROVE  IInv'
  <1>0. TaskTypeOK(Labels) /\ QueueTypes /\ WaitTypes /\ WakerTypes /\ CallInv
    BY TypeParts DEF IInv
  <1>1. QueueTypes'
    BY <1>0 DEF QueueTypes, qVars
  <1>2. TypeOK'
    <2>1. TaskTypeOK(Labels)' /\ WaitTypes'
      BY <1>0 DEF TaskTypeOK, WaitTypes, taskVars, waitVars
    <2>2. QED
      BY <1>1, <2>1, TypeParts
  <1>3. ChainInv'
    BY DEF IInv, ChainInv, InWait, qVars, taskVars
  <1>4. CallInv'
    <2> SUFFICES ASSUME NEW u \in Wakers, u # w PROVE CallOf(u)'
      BY DEF CallInv
    <2>1. CallOf(u) /\ call'[u] = call[u] /\ wpc'[u] = wpc[u] /\ wakee'[u] = wakee[u]
      BY <1>0 DEF CallInv
    <2>2. ASSUME wpc[u] \in {"loop", "wake_up"}
          PROVE  lock'[hash[call[u].f]] = u /\ lock'[hash[call[u].g]] = u
      <3>1. call[u].f \in Futexes /\ call[u].g \in Futexes
        BY <2>1, <2>2, Fields DEF CallOf
      <3>2. hash[call[u].f] \in Buckets /\ hash[call[u].g] \in Buckets
        BY <1>0, <3>1 DEF QueueTypes
      <3>3. QED
        BY <2>1, <2>2, <3>2 DEF CallOf
    <2>3. QED
      BY <2>1, <2>2 DEF CallOf
  <1>5. ASSUME NEW f \in Futexes, Matching(f) # {}, val'[f] = val[f], NEW u \in Wakers, Owes(u, f)
        PROVE  Owes(u, f)'
    <2>1. CASE u = w
      BY <1>5, <2>1
    <2>2. CASE u # w
      <3>1. Matching(f)' \subseteq Matching(f)
        BY DEF Matching, qVars
      <3>2. call'[u] = call[u] /\ wpc'[u] = wpc[u]
        BY <2>2
      <3>3. QED
        BY <1>0, <1>1, <1>5, <3>1, <3>2, OwesKeeps
    <2>3. QED
      BY <2>1, <2>2
  <1>6. TaskInv'
    <2> SUFFICES ASSUME NEW t \in Tasks PROVE WaitOf(t)' /\ SleepOf(t)' /\ OwedOf(t)'
      BY DEF TaskInv
    <2>1. WaitOf(t) /\ SleepOf(t) /\ OwedOf(t)
      BY DEF IInv, TaskInv
    <2>2. WaitOf(t)' /\ SleepOf(t)'
      BY <2>1 DEF WaitOf, SleepOf, InWait, taskVars, qVars, waitVars
    <2>3. OwedOf(t)'
      <3> SUFFICES ASSUME NEW f \in Futexes, InWait(t)', fate'[t] = "none", wait'[t].f = f,
                          val'[f] # wait'[t].val
                   PROVE  \E u \in Wakers : Owes(u, f)'
        BY DEF OwedOf
      <3>1. InWait(t) /\ fate[t] = "none" /\ wait'[t] = wait[t]
        BY DEF InWait, taskVars, waitVars
      <3>2. Matching(f) # {}
        BY <3>1, UnwokenMatches
      <3>3. CASE val'[f] # val[f]
        BY <3>2, <3>3
      <3>4. CASE val'[f] = val[f]
        <4>1. \E u \in Wakers : Owes(u, f)
          BY <2>1, <3>1, <3>4 DEF OwedOf
        <4>2. QED
          BY <1>5, <3>2, <3>4, <4>1
      <3>5. QED
        BY <3>3, <3>4
    <2>4. QED
      BY <2>2, <2>3
  <1>7. QED
    BY <1>2, <1>3, <1>4, <1>6 DEF IInv

(* A waker makes its call.  If it has changed a word, it will get to all   *)
(* who wait for it.                                                        *)
LEMMA BeginStep ==
  ASSUME IInv, NEW w \in Wakers, NEW c \in Calls, NEW v, Begin(w, c, v),
         c.op = "requeue" => c.f # c.g,
         \/ v = val
         \/ /\ v = Toggled(c.f) /\ c.op \in {"wake", "requeue"} /\ c.nr + c.move >= INT_MAX
            /\ c.op = "requeue" => c.cmp = v[c.f]
  PROVE  IInv'
  <1>0. QueueTypes /\ WakerTypes /\ CallOf(w)
    BY TypeParts DEF IInv, CallInv
  <1>1. /\ wpc[w] = "idle" /\ wpc' = [wpc EXCEPT ![w] = "lock"] /\ call' = [call EXCEPT ![w] = c]
        /\ val' = v /\ UNCHANGED <<taskVars, hash, lock, qVars, waitVars, fate, wakee>>
    BY DEF Begin
  <1>2. WakerTypes' /\ lock' \in [Buckets -> Wakers \cup {NULL}]
    BY <1>0, <1>1 DEF WakerTypes, QueueTypes
  <1>3. /\ wpc'[w] = "lock" /\ call'[w] = c /\ wakee'[w] = NULL
        /\ \A u \in Wakers : u # w => call'[u] = call[u] /\ wpc'[u] = wpc[u]
    BY <1>0, <1>1 DEF WakerTypes, CallOf
  <1>4. CallOf(w)'
    BY <1>3 DEF CallOf
  <1>5. c.f \in Futexes /\ \A i \in 0..1 : 1 - i \in 0..1
    BY Fields
  <1>6. val' \in [Futexes -> 0..1] /\ \A f \in Futexes : f # c.f => val'[f] = val[f]
    <2>1. CASE v = val
      BY <1>0, <1>1, <2>1 DEF QueueTypes
    <2>2. CASE v = [val EXCEPT ![c.f] = 1 - @]
      <3>1. val \in [Futexes -> 0..1] /\ 1 - val[c.f] \in 0..1
        BY <1>0, <1>5 DEF QueueTypes
      <3>2. QED
        BY <1>1, <2>2, <3>1
    <2>3. QED
      BY <2>1, <2>2 DEF Toggled
  <1>7. ASSUME NEW f \in Futexes
        PROVE  /\ val'[f] # val[f] => Owes(w, f)'
               /\ ~Owes(w, f)
    <2>1. ~Owes(w, f)
      BY <1>1 DEF Owes
    <2>2. ASSUME val'[f] # val[f] PROVE Owes(w, f)'
      <3>1. f = c.f /\ v # val
        BY <1>1, <1>6, <2>2
      <3>2. c.op \in {"wake", "requeue"} /\ c.nr + c.move >= INT_MAX /\ (c.op = "requeue" => c.cmp = val'[f])
        BY <1>1, <3>1
      <3>3. QED
        BY <1>3, <3>1, <3>2 DEF Owes, INT_MAX
    <2>3. QED
      BY <2>1, <2>2
  <1>8. QED
    BY <1>1, <1>2, <1>3, <1>4, <1>6, <1>7, WakerKeeps

(* The calls of a waker. *)
LEMMA CallStep ==
  ASSUME IInv, NEW w \in Wakers, NEW f \in Futexes, NEW g \in Futexes,
         futex_wake(w, f) \/ futex_requeue(w, f, g) \/ futex_wake_op(w, f, g)
  PROVE  IInv'
  <1>0. INT_MAX \in Nat /\ val[f] \in 0..1 /\ val \in [Futexes -> 0..1]
    BY TypeParts, TasksAssumption, FS_CardinalityType DEF INT_MAX, IInv, QueueTypes
  <1>1. CASE futex_wake(w, f)
    <2> DEFINE c(n) == [op |-> "wake", f |-> f, g |-> f, nr |-> n, move |-> 0, cmp |-> 0]
    <2>1. Begin(w, c(1), val) \/ Begin(w, c(INT_MAX), Toggled(f))
      BY <1>1 DEF futex_wake, Wake
    <2>2. \A n \in Nat : /\ c(n) \in Calls /\ c(n).op = "wake" /\ c(n).f = f /\ c(n).nr = n
                         /\ c(n).move = 0
      BY DEF Calls
    <2> HIDE DEF c
    <2>3. CASE Begin(w, c(1), val)
      BY <2>2, <2>3, BeginStep
    <2>4. CASE Begin(w, c(INT_MAX), Toggled(f))
      <3>1. c(INT_MAX).nr + c(INT_MAX).move >= INT_MAX
        BY <1>0, <2>2
      <3>2. QED
        BY <1>0, <2>2, <2>4, <3>1, BeginStep
    <2>5. QED
      BY <2>1, <2>3, <2>4
  <1>2. CASE futex_requeue(w, f, g)
    <2> DEFINE c(n) == [op |-> "requeue", f |-> f, g |-> g, nr |-> n, move |-> INT_MAX, cmp |-> 1 - val[f]]
    <2>1. PICK n \in 0..1 : Begin(w, c(n), Toggled(f))
      BY <1>2 DEF futex_requeue
    <2>2. f # g
      BY <1>2 DEF futex_requeue
    <2>3. /\ c(n) \in Calls /\ c(n).op = "requeue" /\ c(n).f = f /\ c(n).g = g /\ c(n).nr = n
          /\ c(n).move = INT_MAX /\ c(n).cmp = 1 - val[f]
      BY <1>0 DEF Calls
    <2>4. Toggled(f)[f] = 1 - val[f]
      BY <1>0 DEF Toggled
    <2> HIDE DEF c
    <2>5. c(n).nr + c(n).move >= INT_MAX
      BY <1>0, <2>3
    <2>6. QED
      BY <2>1, <2>2, <2>3, <2>4, <2>5, BeginStep
  <1>3. CASE futex_wake_op(w, f, g)
    <2> DEFINE c == [op |-> "wake_op", f |-> f, g |-> g, nr |-> 1, move |-> 0, cmp |-> 0]
    <2>1. Begin(w, c, val)
      BY <1>3 DEF futex_wake_op, Wake
    <2>2. c \in Calls /\ c.op = "wake_op"
      BY DEF Calls
    <2> HIDE DEF c
    <2>3. QED
      BY <2>1, <2>2, BeginStep
  <1>4. QED
    BY <1>1, <1>2, <1>3

(* The locks are taken one by one, or dropped after a fault. *)
LEMMA LockStep ==
  ASSUME IInv, NEW w \in Wakers, double_lock_hb(w) \/ fault_retry(w)
  PROVE  IInv'
  <1>0. QueueTypes /\ WakerTypes /\ CallOf(w) /\ w # NULL
    BY TypeParts, FutexAssumption DEF IInv, CallInv
  <1>1. /\ wpc[w] = "lock"
        /\ UNCHANGED <<taskVars, hash, val, qVars, waitVars, fate, wpc, call, wakee>>
    BY DEF double_lock_hb, fault_retry, wakerVars
  <1>2. /\ lock' \in [Buckets -> Wakers \cup {NULL}]
        /\ \A u \in Wakers, b \in Buckets : u # w /\ lock[b] = u => lock'[b] = u
    <2>1. CASE double_lock_hb(w)
      <3> DEFINE b == Min(Missing(w))
      <3>1. lock[b] = NULL /\ lock' = [lock EXCEPT ![b] = w]
        BY <2>1 DEF double_lock_hb
      <3> HIDE DEF b
      <3>2. \A u \in Wakers : u # NULL
        BY FutexAssumption
      <3>3. QED
        BY <1>0, <3>1, <3>2 DEF QueueTypes
    <2>2. CASE fault_retry(w)
      BY <1>0, <2>2 DEF fault_retry, Release, QueueTypes
    <2>3. QED
      BY <2>1, <2>2
  <1>3. WakerTypes' /\ val' \in [Futexes -> 0..1]
    BY <1>0, <1>1 DEF WakerTypes, QueueTypes
  <1>4. CallOf(w)'
    BY <1>0, <1>1 DEF CallOf
  <1>5. \A f \in Futexes : val'[f] = val[f] /\ (Owes(w, f) => Owes(w, f)')
    BY <1>1 DEF Owes
  <1>6. QED
    BY <1>1, <1>2, <1>3, <1>4, <1>5, WakerKeeps

(* A waker that ends its call owes nothing any more. *)
LEMMA FinishStep ==
  ASSUME IInv, NEW w \in Wakers, Finish(w), wpc[w] # "wake_up",
         UNCHANGED <<taskVars, hash, val, qVars, waitVars, fate, wakee>>,
         \A f \in Futexes : Matching(f) # {} => ~Owes(w, f)
  PROVE  IInv'
  <1>0. QueueTypes /\ WakerTypes /\ CallOf(w)
    BY TypeParts DEF IInv, CallInv
  <1>1. /\ lock' = Release(w) /\ wpc' = [wpc EXCEPT ![w] = "idle"]
        /\ call' = [call EXCEPT ![w] = NoCall]
    BY DEF Finish
  <1>2. /\ lock' \in [Buckets -> Wakers \cup {NULL}] /\ val' \in [Futexes -> 0..1]
        /\ \A u \in Wakers, b \in Buckets : u # w /\ lock[b] = u => lock'[b] = u
    BY <1>0, <1>1 DEF Release, QueueTypes
  <1>3. WakerTypes'
    BY <1>0, <1>1 DEF WakerTypes
  <1>4. /\ wpc'[w] = "idle" /\ call'[w] = NoCall
        /\ \A u \in Wakers : u # w => call'[u] = call[u] /\ wpc'[u] = wpc[u]
    BY <1>0, <1>1 DEF WakerTypes
  <1>5. CallOf(w)'
    BY <1>0, <1>4, Fields DEF CallOf
  <1>6. QED
    BY <1>2, <1>3, <1>4, <1>5, WakerKeeps

(* A waker has its locks.  It gives up, because the word has changed       *)
(* again; or starts its loop, after futex_wake_op() has written the word.  *)
LEMMA LockedStep ==
  ASSUME IInv, NEW w \in Wakers, locked(w)
  PROVE  IInv'
  <1>0. QueueTypes /\ WakerTypes /\ CallOf(w)
    BY TypeParts DEF IInv, CallInv
  <1>1. /\ wpc[w] = "lock" /\ Missing(w) = {}
        /\ UNCHANGED <<taskVars, hash, qVars, waitVars, fate, wakee>>
    BY DEF locked
  <1>2. /\ call[w] \in Calls /\ call[w].f \in Futexes /\ call[w].g \in Futexes
        /\ call[w].nr \in Nat /\ call[w].move \in Nat
    BY <1>0, <1>1, Fields DEF CallOf
  <1>3. lock[hash[call[w].f]] = w /\ lock[hash[call[w].g]] = w
    BY <1>0, <1>1, <1>2 DEF Missing, QueueTypes
  <1>4. CASE call[w].op = "requeue" /\ val[call[w].f] # call[w].cmp
    <2>1. Finish(w) /\ val' = val
      BY <1>4 DEF locked
    <2>2. \A f \in Futexes : ~Owes(w, f)
      BY <1>1, <1>4 DEF Owes
    <2>3. QED
      BY <1>1, <2>1, <2>2, FinishStep
  <1>5. CASE call[w].op = "wake" \/ (call[w].op = "requeue" /\ val[call[w].f] = call[w].cmp)
    <2>1. wpc' = [wpc EXCEPT ![w] = "loop"] /\ UNCHANGED <<val, lock, call>>
      BY <1>5 DEF locked
    <2>2. WakerTypes' /\ lock' \in [Buckets -> Wakers \cup {NULL}] /\ val' \in [Futexes -> 0..1]
      BY <1>0, <1>1, <2>1 DEF WakerTypes, QueueTypes
    <2>3. wpc'[w] = "loop" /\ \A u \in Wakers : u # w => wpc'[u] = wpc[u]
      BY <1>0, <2>1 DEF WakerTypes
    <2>4. CallOf(w)'
      BY <1>0, <1>1, <1>2, <1>3, <2>1, <2>3 DEF CallOf
    <2>5. ASSUME NEW f \in Futexes, Owes(w, f)
          PROVE  Owes(w, f)'
      <3>1. Cardinality(Matching(f)) <= INT_MAX /\ Cardinality(Matching(f)) \in Nat /\ INT_MAX \in Nat
        BY <1>0, MatchingFinite
      <3>2. Matching(f)' = Matching(f)
        BY <1>1 DEF Matching, qVars
      <3>3. /\ call[w].op \in {"wake", "requeue"} /\ call[w].f = f /\ call[w].nr + call[w].move >= INT_MAX
            /\ call[w].op = "requeue" => call[w].cmp = val[f]
        BY <1>1, <2>5 DEF Owes
      <3>4. call[w].nr + call[w].move >= Cardinality(Matching(f)')
        BY <1>2, <3>1, <3>2, <3>3
      <3>5. QED
        BY <2>1, <2>3, <3>3, <3>4 DEF Owes
    <2>6. QED
      BY <1>1, <2>1, <2>2, <2>3, <2>4, <2>5, WakerKeeps
  <1>6. CASE call[w].op = "wake_op"
    <2>1. /\ wpc' = [wpc EXCEPT ![w] = "loop"] /\ lock' = lock
          /\ \E v \in 0..1 :
               /\ val' = [val EXCEPT ![call[w].g] = v]
               /\ call' = [call EXCEPT ![w].move = IF v # val[call[w].g] THEN INT_MAX ELSE 0]
      BY <1>6 DEF locked
    <2>2. PICK v \in 0..1 :
               /\ val' = [val EXCEPT ![call[w].g] = v]
               /\ call' = [call EXCEPT ![w].move = IF v # val[call[w].g] THEN INT_MAX ELSE 0]
      BY <2>1
    <2>3. PICK n \in Nat : /\ call' = [call EXCEPT ![w].move = n]
                           /\ v # val[call[w].g] => n = INT_MAX
      <3>1. INT_MAX \in Nat /\ 0 \in Nat
        BY TasksAssumption, FS_CardinalityType DEF INT_MAX
      <3>2. QED
        BY <2>2, <3>1
    <2>4. PICK d : d = [call[w] EXCEPT !.move = n]
      OBVIOUS
    <2>5. /\ d \in Calls /\ d.op = "wake_op" /\ d.f = call[w].f /\ d.g = call[w].g /\ d.move = n
      BY <1>2, <1>6, <2>4 DEF Calls
    <2>6. call'[w] = d /\ \A u \in Wakers : u # w => call'[u] = call[u]
      BY <1>0, <2>3, <2>4 DEF WakerTypes
    <2>7. call' \in [Wakers -> Calls \cup {NoCall}]
      <3>1. call' = [call EXCEPT ![w] = d]
        BY <2>3, <2>4
      <3>2. QED
        BY <1>0, <2>5, <3>1 DEF WakerTypes
    <2>8. /\ WakerTypes' /\ lock' \in [Buckets -> Wakers \cup {NULL}] /\ val' \in [Futexes -> 0..1]
          /\ wpc'[w] = "loop" /\ \A u \in Wakers : u # w => wpc'[u] = wpc[u]
      BY <1>0, <1>1, <2>1, <2>2, <2>7 DEF WakerTypes, QueueTypes
    <2>9. CallOf(w)'
      BY <1>0, <1>1, <1>3, <2>1, <2>5, <2>6, <2>8 DEF CallOf
    <2>10. ASSUME NEW f \in Futexes
           PROVE  ~Owes(w, f) /\ (val'[f] # val[f] => Owes(w, f)')
      <3>1. ~Owes(w, f)
        BY <1>1, <1>6 DEF Owes
      <3>2. ASSUME val'[f] # val[f] PROVE Owes(w, f)'
        <4>1. f = call[w].g /\ v # val[call[w].g]
          BY <1>0, <1>2, <2>2, <3>2 DEF QueueTypes
        <4>2. n = INT_MAX
          BY <2>3, <4>1
        <4>3. Cardinality(Matching(f)) <= INT_MAX /\ Matching(f)' = Matching(f)
          BY <1>0, <1>1, MatchingFinite DEF Matching, qVars
        <4>4. d.g = f /\ d.move >= Cardinality(Matching(f)')
          BY <2>5, <4>1, <4>2, <4>3
        <4>5. QED
          BY <2>5, <2>6, <2>8, <4>4 DEF Owes
      <3>3. QED
        BY <3>1, <3>2
    <2>11. QED
      BY <1>1, <2>1, <2>6, <2>8, <2>9, <2>10, WakerKeeps
  <1>7. QED
    BY <1>4, <1>5, <1>6 DEF locked

(* A loop has found all it was to find. *)
LEMMA LoopEndsStep ==
  ASSUME IInv, NEW w \in Wakers, loop_ends(w)
  PROVE  IInv'
  <1>0. QueueTypes /\ WakerTypes /\ CallOf(w)
    BY TypeParts DEF IInv, CallInv
  <1>a. PICK c : c = call[w]
    OBVIOUS
  <1>1. /\ wpc[w] = "loop" /\ ~((c.nr > 0 \/ (c.op = "requeue" /\ c.move > 0)) /\ Matching(c.f) # {})
        /\ UNCHANGED <<taskVars, hash, val, qVars, waitVars, fate, wakee>>
    BY <1>a DEF loop_ends
  <1>2. /\ c \in Calls /\ c.f \in Futexes /\ c.g \in Futexes /\ c.nr \in Nat /\ c.move \in Nat
    BY <1>0, <1>1, <1>a, Fields DEF CallOf
  <1>3. ASSUME NEW f \in Futexes, Matching(f) # {}, Owes(w, f)
        PROVE  c.op = "wake_op" /\ c.g = f /\ c.move >= Cardinality(Matching(f)) /\ c.move > 0
    <2>1. Cardinality(Matching(f)) \in Nat /\ Cardinality(Matching(f)) > 0
      BY <1>0, <1>3, MatchingFinite, FS_EmptySet
    <2>2. \/ /\ c.op \in {"wake", "requeue"} /\ c.f = f /\ c.nr + c.move >= Cardinality(Matching(f))
          \/ c.op = "wake_op" /\ c.f = f /\ c.nr >= Cardinality(Matching(f))
          \/ c.op = "wake_op" /\ c.g = f /\ c.move >= Cardinality(Matching(f))
      BY <1>1, <1>3, <1>a DEF Owes
    <2>3. c.op = "wake" => c.move = 0
      BY <1>1, <1>a, <1>2 DEF loop_ends
    <2>4. QED
      BY <1>1, <1>2, <1>3, <2>1, <2>2, <2>3
  <1>4. CASE c.op = "requeue" \/ c.move = 0
    <2>1. Finish(w)
      BY <1>2, <1>4, <1>a DEF loop_ends
    <2>2. \A f \in Futexes : Matching(f) # {} => ~Owes(w, f)
      BY <1>2, <1>3, <1>4
    <2>3. QED
      BY <1>1, <2>1, <2>2, FinishStep
  <1>5. CASE c.op = "wake_op" /\ c.move > 0
    <2>1. /\ call' = [call EXCEPT ![w].f = c.g, ![w].nr = c.move, ![w].move = 0]
          /\ UNCHANGED <<lock, wpc>>
      BY <1>2, <1>5, <1>a DEF loop_ends
    <2>2. PICK d : d = [call[w] EXCEPT !.f = c.g, !.nr = c.move, !.move = 0]
      OBVIOUS
    <2>3. d \in Calls /\ d.op = "wake_op" /\ d.f = c.g /\ d.g = c.g /\ d.nr = c.move
      BY <1>2, <1>5, <1>a, <2>2 DEF Calls
    <2>4. call' = [call EXCEPT ![w] = d]
      BY <1>0, <2>1, <2>2 DEF WakerTypes
    <2>5. /\ call'[w] = d /\ \A u \in Wakers : u # w => call'[u] = call[u]
          /\ call' \in [Wakers -> Calls \cup {NoCall}]
      BY <1>0, <2>3, <2>4 DEF WakerTypes
    <2>6. WakerTypes' /\ lock' \in [Buckets -> Wakers \cup {NULL}] /\ val' \in [Futexes -> 0..1]
      BY <1>0, <1>1, <2>1, <2>5 DEF WakerTypes, QueueTypes
    <2>7. CallOf(w)'
      <3>1. lock[hash[c.g]] = w /\ wakee[w] = NULL
        BY <1>0, <1>1, <1>a DEF CallOf
      <3>2. wpc'[w] = "loop" /\ lock'[hash'[d.f]] = w /\ lock'[hash'[d.g]] = w /\ wakee'[w] = NULL
        BY <1>1, <2>1, <2>3, <3>1
      <3>3. QED
        BY <2>3, <2>5, <3>2 DEF CallOf
    <2>8. ASSUME NEW f \in Futexes, Matching(f) # {}, Owes(w, f)
          PROVE  Owes(w, f)'
      <3>1. c.g = f /\ c.move >= Cardinality(Matching(f))
        BY <1>3, <2>8
      <3>2. Matching(f)' = Matching(f)
        BY <1>1 DEF Matching, qVars
      <3>3. d.f = f /\ d.nr >= Cardinality(Matching(f)')
        BY <2>3, <3>1, <3>2
      <3>4. QED
        BY <1>1, <2>1, <2>3, <2>5, <3>3 DEF Owes
    <2>9. QED
      BY <1>1, <2>1, <2>5, <2>6, <2>7, <2>8, WakerKeeps
  <1>6. QED
    BY <1>4, <1>5, <1>a DEF loop_ends

(* A waker in its loop takes a futex_q in hand: one that is on the chain   *)
(* of a bucket it has locked.                                              *)
LEMMA InHand ==
  ASSUME IInv, NEW w \in Wakers, wpc[w] = "loop", Matching(call[w].f) # {}
  PROVE  LET f == call[w].f
             t == FirstMatch(f)
         IN  /\ call[w] \in Calls /\ f \in Futexes /\ call[w].g \in Futexes
             /\ t \in Tasks /\ t \in Matching(f) /\ InWait(t) /\ key[t] = f
             /\ lock_ptr[t] = hash[f] /\ hash[f] \in Buckets /\ t \in Entries(chain[hash[f]])
             /\ \A b \in Buckets : t \in Entries(chain[b]) => b = hash[f]
             /\ fate[t] # "woken"
  <1>0. QueueTypes /\ CallOf(w) /\ ChainInv
    BY TypeParts DEF IInv, CallInv
  <1>1. call[w] \in Calls /\ call[w].f \in Futexes /\ call[w].g \in Futexes
    BY <1>0, Fields DEF CallOf
  <1>2. PICK f, t : f = call[w].f /\ t = FirstMatch(f)
    OBVIOUS
  <1>3. t \in Matching(f) /\ t \in Tasks
    BY <1>0, <1>1, <1>2, FirstMatches, MatchingFinite
  <1>4. hash[f] \in Buckets /\ t \in Entries(chain[hash[f]]) /\ key[t] = f
    BY <1>0, <1>1, <1>2, <1>3 DEF QueueTypes, Matching
  <1>5. InWait(t) /\ lock_ptr[t] = hash[f] /\ \A b \in Buckets : t \in Entries(chain[b]) => b = hash[f]
    BY <1>0, <1>4 DEF ChainInv
  <1>6. fate[t] # "woken"
    BY <1>3, <1>4, <1>5, FutexAssumption DEF IInv, TaskInv, WaitOf
  <1>7. QED
    BY <1>1, <1>2, <1>3, <1>4, <1>5, <1>6

(* wake_futex(), of a waiter that matches. *)
LEMMA WakeNextStep ==
  ASSUME IInv, NEW w \in Wakers, wake_next(w)
  PROVE  IInv'
  <1>0. TaskTypeOK(Labels) /\ QueueTypes /\ WaitTypes /\ WakerTypes /\ ChainInv /\ CallInv /\ CallOf(w)
    BY TypeParts DEF IInv, CallInv
  <1>a. PICK c, f, t, b : c = call[w] /\ f = c.f /\ t = FirstMatch(f) /\ b = hash[f]
    OBVIOUS
  <1>1. /\ wpc[w] = "loop" /\ c.nr > 0 /\ Matching(f) # {}
        /\ chain' = [chain EXCEPT ![lock_ptr[t]] = Without(t, @)]
        /\ lock_ptr' = [lock_ptr EXCEPT ![t] = NULL] /\ fate' = [fate EXCEPT ![t] = "woken"]
        /\ wakee' = [wakee EXCEPT ![w] = t] /\ call' = [call EXCEPT ![w].nr = @ - 1]
        /\ wpc' = [wpc EXCEPT ![w] = "wake_up"]
        /\ UNCHANGED <<taskVars, hash, val, lock, key, waitVars>>
    BY <1>a DEF wake_next, wake_futex
  <1>2. /\ c \in Calls /\ f \in Futexes /\ t \in Tasks /\ t \in Matching(f) /\ InWait(t) /\ key[t] = f
        /\ lock_ptr[t] = b /\ b \in Buckets /\ t \in Entries(chain[b])
        /\ \A e \in Buckets : t \in Entries(chain[e]) => e = b
    BY <1>1, <1>a, InHand
  <1>3. c.nr \in Nat /\ c.move \in Nat /\ c.nr - 1 \in Nat
    BY <1>1, <1>2, Fields
  <1> DEFINE q == Without(t, chain[b])
  <1>4. q \in Seq(Tasks) /\ Entries(q) = Entries(chain[b]) \ {t} /\ LinkedOnce(q)
    BY <1>0, <1>2, WithoutLists DEF QueueTypes, ChainInv
  <1>5. chain' = [chain EXCEPT ![b] = q]
    BY <1>1, <1>2
  <1> HIDE DEF q
  <1>6. PICK d : d = [call[w] EXCEPT !.nr = c.nr - 1]
    OBVIOUS
  <1>7. /\ d \in Calls /\ d.op = c.op /\ d.f = f /\ d.g = c.g /\ d.nr = c.nr - 1 /\ d.move = c.move
        /\ d.cmp = c.cmp
    BY <1>2, <1>3, <1>6, <1>a DEF Calls
  <1>8. call' = [call EXCEPT ![w] = d]
    BY <1>0, <1>1, <1>6, <1>a DEF WakerTypes
  <1>9. /\ chain'[b] = q /\ \A e \in Buckets : e # b => chain'[e] = chain[e]
        /\ lock_ptr'[t] = NULL /\ \A u \in Tasks : u # t => lock_ptr'[u] = lock_ptr[u]
        /\ fate'[t] = "woken" /\ \A u \in Tasks : u # t => fate'[u] = fate[u]
    BY <1>0, <1>1, <1>2, <1>5 DEF QueueTypes, WaitTypes
  <1>10. /\ wakee'[w] = t /\ call'[w] = d /\ wpc'[w] = "wake_up"
         /\ \A u \in Wakers : u # w => wakee'[u] = wakee[u] /\ call'[u] = call[u] /\ wpc'[u] = wpc[u]
    BY <1>0, <1>1, <1>8 DEF WakerTypes
  <1>11. QueueTypes' /\ TypeOK'
    <2>1. QueueTypes'
      BY <1>0, <1>1, <1>2, <1>4, <1>5 DEF QueueTypes
    <2>2. WakerTypes'
      BY <1>0, <1>1, <1>2, <1>7, <1>8 DEF WakerTypes
    <2>3. TaskTypeOK(Labels)' /\ WaitTypes'
      BY <1>0, <1>1 DEF TaskTypeOK, WaitTypes, taskVars, waitVars
    <2>4. QED
      BY <2>1, <2>2, <2>3, TypeParts
  <1>12. \A e \in Buckets : Entries(chain'[e]) = Entries(chain[e]) \ {t} /\ Entries(chain[e]) \subseteq Tasks
    <2>1. \A e \in Buckets : Entries(chain[e]) \subseteq Tasks
      BY <1>0, ListEmpty DEF QueueTypes
    <2>2. QED
      BY <1>2, <1>4, <1>9, <2>1
  <1>13. ChainInv'
    <2>1. \A e \in Buckets : LinkedOnce(chain'[e])
      BY <1>0, <1>4, <1>9 DEF ChainInv
    <2>2. \A e \in Buckets : \A u \in Entries(chain'[e]) :
            InWait(u)' /\ lock_ptr'[u] = e /\ key'[u] \in Futexes /\ hash'[key'[u]] = e
      BY <1>0, <1>1, <1>9, <1>12 DEF ChainInv, InWait, taskVars
    <2>3. QED
      BY <2>1, <2>2 DEF ChainInv
  <1>14. CallInv'
    <2> SUFFICES ASSUME NEW u \in Wakers PROVE CallOf(u)'
      BY DEF CallInv
    <2>1. CASE u = w
      <3>1. lock[hash[f]] = w /\ lock[hash[c.g]] = w /\ (c.op = "requeue" => c.f # c.g)
        BY <1>0, <1>1, <1>a DEF CallOf
      <3>2. QED
        BY <1>1, <1>7, <1>10, <1>a, <2>1, <3>1 DEF CallOf
    <2>2. CASE u # w
      BY <1>0, <1>1, <1>10, <2>2 DEF CallInv, CallOf
    <2>3. QED
      BY <2>1, <2>2
  <1>15. \A g \in Futexes : Matching(g)' \subseteq Matching(g)
    BY <1>0, <1>1, <1>12 DEF Matching, QueueTypes
  <1>16. ASSUME NEW u \in Wakers, NEW g \in Futexes, Owes(u, g)
         PROVE  Owes(u, g)'
    <2>1. CASE u # w
      BY <1>0, <1>1, <1>10, <1>11, <1>15, <1>16, <2>1, OwesKeeps
    <2>2. CASE u = w
      <3>1. /\ Cardinality(Matching(g)) \in Nat /\ Cardinality(Matching(g)') \in Nat
            /\ Cardinality(Matching(g)') <= Cardinality(Matching(g))
        BY <1>0, <1>11, <1>15, MatchingFinite, MatchingFiniteNext, FS_Subset
      <3>2. g = f => Cardinality(Matching(g)') = Cardinality(Matching(g)) - 1
        <4>1. Matching(f)' = Matching(f) \ {t}
          BY <1>0, <1>1, <1>2, <1>12, <1>a DEF Matching, QueueTypes
        <4>2. Cardinality(Matching(f) \ {t}) = Cardinality(Matching(f)) - 1
          BY <1>0, <1>2, MatchingFinite, FS_RemoveElement
        <4>3. QED
          BY <4>1, <4>2
      <3>3. \/ /\ c.op \in {"wake", "requeue"} /\ f = g /\ c.nr + c.move >= Cardinality(Matching(g))
               /\ c.op = "requeue" => c.cmp = val[g]
            \/ c.op = "wake_op" /\ f = g /\ c.nr >= Cardinality(Matching(g))
            \/ c.op = "wake_op" /\ c.g = g /\ c.move >= Cardinality(Matching(g))
        BY <1>1, <1>16, <1>a, <2>2 DEF Owes
      <3>4. \/ /\ d.op \in {"wake", "requeue"} /\ d.f = g /\ d.nr + d.move >= Cardinality(Matching(g)')
               /\ d.op = "requeue" => d.cmp = val[g]
            \/ d.op = "wake_op" /\ d.f = g /\ d.nr >= Cardinality(Matching(g)')
            \/ d.op = "wake_op" /\ d.g = g /\ d.move >= Cardinality(Matching(g)')
        BY <1>3, <1>7, <3>1, <3>2, <3>3
      <3>5. QED
        BY <1>1, <1>10, <2>2, <3>4 DEF Owes
    <2>3. QED
      BY <2>1, <2>2
  <1>17. TaskInv'
    <2> SUFFICES ASSUME NEW u \in Tasks PROVE WaitOf(u)' /\ SleepOf(u)' /\ OwedOf(u)'
      BY DEF TaskInv
    <2>1. WaitOf(u) /\ SleepOf(u) /\ OwedOf(u)
      BY DEF IInv, TaskInv
    <2>2. UNCHANGED <<pc, state, on_rq, sig, wait, pre, ret>>
      BY <1>1 DEF taskVars, waitVars
    <2>3. CASE u = t
      <3>1. WaitOf(u)' /\ OwedOf(u)'
        BY <1>2, <1>9, <2>1, <2>2, <2>3 DEF WaitOf, OwedOf, InWait
      <3>2. SleepOf(u)'
        BY <1>10, <2>1, <2>2, <2>3 DEF SleepOf
      <3>3. QED
        BY <3>1, <3>2
    <2>4. CASE u # t
      <3>1. fate'[u] = fate[u] /\ lock_ptr'[u] = lock_ptr[u] /\ key'[u] = key[u]
            /\ \A e \in Buckets : u \in Entries(chain[e]) => u \in Entries(chain'[e])
        BY <1>1, <1>9, <1>12, <2>4
      <3>2. WaitOf(u)'
        BY <1>0, <2>1, <2>2, <3>1 DEF WaitOf, InWait, QueueTypes
      <3>3. wakee[w] # u
        BY <1>0, <1>1, FutexAssumption DEF CallOf
      <3>4. SleepOf(u)'
        BY <1>10, <2>1, <2>2, <3>1, <3>3 DEF SleepOf
      <3>5. OwedOf(u)'
        <4> SUFFICES ASSUME NEW g \in Futexes, InWait(u)', fate'[u] = "none", wait'[u].f = g,
                            val'[g] # wait'[u].val
                     PROVE  \E x \in Wakers : Owes(x, g)'
          BY DEF OwedOf
        <4>1. \E x \in Wakers : Owes(x, g)
          BY <1>1, <2>1, <2>2, <3>1 DEF OwedOf, InWait
        <4>2. QED
          BY <1>16, <4>1
      <3>6. QED
        BY <3>2, <3>4, <3>5
    <2>5. QED
      BY <2>3, <2>4
  <1>18. QED
    BY <1>11, <1>13, <1>14, <1>17 DEF IInv

(* requeue_futex(), of a waiter that matches: the lock of the bucket it    *)
(* goes to is held as well.                                                *)
LEMMA RequeueNextStep ==
  ASSUME IInv, NEW w \in Wakers, requeue_next(w)
  PROVE  IInv'
  <1>0. TaskTypeOK(Labels) /\ QueueTypes /\ WaitTypes /\ WakerTypes /\ ChainInv /\ CallInv /\ CallOf(w)
    BY TypeParts DEF IInv, CallInv
  <1>a. PICK c, f, g, t, a, b : /\ c = call[w] /\ f = c.f /\ g = c.g /\ t = FirstMatch(f)
                                /\ a = hash[f] /\ b = hash[g]
    OBVIOUS
  <1>1. /\ wpc[w] = "loop" /\ c.op = "requeue" /\ c.nr = 0 /\ c.move > 0 /\ Matching(f) # {}
        /\ chain' = IF a = b THEN chain
                    ELSE [chain EXCEPT ![a] = Without(t, @), ![b] = list_add_tail(t, @)]
        /\ lock_ptr' = [lock_ptr EXCEPT ![t] = b] /\ key' = [key EXCEPT ![t] = g]
        /\ fate' = [fate EXCEPT ![t] = "requeued"]
        /\ call' = [call EXCEPT ![w].move = @ - 1]
        /\ UNCHANGED <<taskVars, hash, val, lock, waitVars, wpc, wakee>>
    BY <1>a DEF requeue_next, requeue_futex
  <1>2. /\ c \in Calls /\ f \in Futexes /\ g \in Futexes /\ t \in Tasks /\ t \in Matching(f)
        /\ InWait(t) /\ key[t] = f /\ a \in Buckets /\ t \in Entries(chain[a])
        /\ \A e \in Buckets : t \in Entries(chain[e]) => e = a
    BY <1>1, <1>a, InHand
  <1>3. /\ b \in Buckets /\ b # NULL /\ f # g /\ lock[a] = w /\ lock[b] = w
        /\ c.move \in Nat /\ c.move - 1 \in Nat
    BY <1>0, <1>1, <1>2, <1>a, Fields, FutexAssumption DEF CallOf, QueueTypes
  <1>4. PICK d : d = [call[w] EXCEPT !.move = c.move - 1]
    OBVIOUS
  <1>5. /\ d \in Calls /\ d.op = "requeue" /\ d.f = f /\ d.g = g /\ d.nr = 0 /\ d.move = c.move - 1
        /\ d.cmp = c.cmp
    BY <1>1, <1>2, <1>3, <1>4, <1>a DEF Calls
  <1>6. call' = [call EXCEPT ![w] = d]
    BY <1>0, <1>1, <1>4, <1>a DEF WakerTypes
  <1>7. /\ lock_ptr'[t] = b /\ key'[t] = g /\ fate'[t] = "requeued" /\ call'[w] = d
        /\ \A u \in Tasks : u # t => lock_ptr'[u] = lock_ptr[u] /\ key'[u] = key[u] /\ fate'[u] = fate[u]
        /\ \A u \in Wakers : u # w => call'[u] = call[u]
    BY <1>0, <1>1, <1>2, <1>6 DEF QueueTypes, WaitTypes, WakerTypes
  <1>8. /\ chain' \in [Buckets -> Seq(Tasks)]
        /\ \A e \in Buckets : LinkedOnce(chain'[e])
        /\ \A e \in Buckets : Entries(chain'[e]) = IF e = b THEN Entries(chain[e]) \cup {t}
                                                   ELSE Entries(chain[e]) \ {t}
    <2>1. CASE a = b
      <3>1. chain' = chain
        BY <1>1, <2>1
      <3>2. chain \in [Buckets -> Seq(Tasks)] /\ \A e \in Buckets : LinkedOnce(chain[e])
        BY <1>0 DEF QueueTypes, ChainInv
      <3>3. \A e \in Buckets : Entries(chain[e]) = IF e = b THEN Entries(chain[e]) \cup {t}
                                                   ELSE Entries(chain[e]) \ {t}
        BY <1>2, <2>1
      <3>4. QED
        BY <3>1, <3>2, <3>3
    <2>2. CASE a # b
      <3> DEFINE q == Without(t, chain[a])
                 r == list_add_tail(t, chain[b])
      <3>1. q \in Seq(Tasks) /\ Entries(q) = Entries(chain[a]) \ {t} /\ LinkedOnce(q)
        BY <1>0, <1>2, WithoutLists DEF QueueTypes, ChainInv
      <3>2. t \notin Entries(chain[b])
        BY <1>2, <1>3, <2>2
      <3>3. r \in Seq(Tasks) /\ Entries(r) = Entries(chain[b]) \cup {t} /\ LinkedOnce(r)
        BY <1>0, <1>2, <1>3, <3>2, ListAddTail DEF QueueTypes, ChainInv
      <3>4. chain' = [chain EXCEPT ![a] = q, ![b] = r]
        BY <1>0, <1>1, <1>2, <1>3, <2>2 DEF QueueTypes
      <3> HIDE DEF q, r
      <3>5. /\ chain' \in [Buckets -> Seq(Tasks)] /\ chain'[a] = q /\ chain'[b] = r
            /\ \A e \in Buckets : e # a /\ e # b => chain'[e] = chain[e]
        BY <1>0, <1>2, <1>3, <2>2, <3>1, <3>3, <3>4 DEF QueueTypes
      <3>6. \A e \in Buckets : LinkedOnce(chain'[e])
        BY <1>0, <3>1, <3>3, <3>5 DEF ChainInv
      <3>7. ASSUME NEW e \in Buckets
            PROVE  Entries(chain'[e]) = IF e = b THEN Entries(chain[e]) \cup {t}
                                        ELSE Entries(chain[e]) \ {t}
        <4>1. CASE e = b
          BY <3>3, <3>5, <4>1
        <4>2. CASE e = a
          BY <2>2, <3>1, <3>5, <4>2
        <4>3. CASE e # a /\ e # b
          BY <1>2, <3>5, <4>3
        <4>4. QED
          BY <4>1, <4>2, <4>3
      <3>8. QED
        BY <3>5, <3>6, <3>7
    <2>3. QED
      BY <2>1, <2>2
  <1>9. QueueTypes' /\ TypeOK'
    <2>1. QueueTypes'
      BY <1>0, <1>1, <1>2, <1>3, <1>8 DEF QueueTypes
    <2>2. WakerTypes'
      BY <1>0, <1>1, <1>5, <1>6 DEF WakerTypes
    <2>3. TaskTypeOK(Labels)' /\ WaitTypes'
      BY <1>0, <1>1 DEF TaskTypeOK, WaitTypes, taskVars, waitVars
    <2>4. QED
      BY <2>1, <2>2, <2>3, TypeParts
  <1>10. \A e \in Buckets : Entries(chain[e]) \subseteq Tasks
    BY <1>0, ListEmpty DEF QueueTypes
  <1>11. ChainInv'
    <2>1. ASSUME NEW e \in Buckets, NEW u \in Entries(chain'[e])
          PROVE  InWait(u)' /\ lock_ptr'[u] = e /\ key'[u] \in Futexes /\ hash'[key'[u]] = e
      <3>1. CASE u = t
        <4>1. e = b
          BY <1>8, <2>1, <3>1
        <4>2. QED
          BY <1>1, <1>2, <1>7, <1>a, <3>1, <4>1 DEF InWait, taskVars
      <3>2. CASE u # t
        <4>1. u \in Entries(chain[e]) /\ u \in Tasks
          BY <1>8, <1>10, <2>1, <3>2
        <4>2. QED
          BY <1>0, <1>1, <1>7, <3>2, <4>1 DEF ChainInv, InWait, taskVars
      <3>3. QED
        BY <3>1, <3>2
    <2>2. QED
      BY <1>8, <2>1 DEF ChainInv
  <1>12. CallInv'
    <2> SUFFICES ASSUME NEW u \in Wakers PROVE CallOf(u)'
      BY DEF CallInv
    <2>1. CASE u = w
      BY <1>0, <1>1, <1>3, <1>5, <1>7, <1>a, <2>1 DEF CallOf
    <2>2. CASE u # w
      BY <1>0, <1>1, <1>7, <2>2 DEF CallInv, CallOf
    <2>3. QED
      BY <2>1, <2>2
  <1>13. ASSUME NEW u \in Wakers, NEW h \in Futexes, Owes(u, h)
         PROVE  Owes(u, h)'
    <2>1. CASE u # w
      <3>1. ASSUME lock[hash[h]] = u PROVE Matching(h)' \subseteq Matching(h)
        <4>1. hash[h] \in Buckets /\ hash[h] # a /\ hash[h] # b
          BY <1>0, <1>3, <2>1, <3>1 DEF QueueTypes
        <4>2. Entries(chain'[hash[h]]) \subseteq Entries(chain[hash[h]]) \ {t}
          BY <1>8, <4>1
        <4>3. QED
          BY <1>1, <1>7, <1>10, <4>1, <4>2 DEF Matching
      <3>2. call'[u] = call[u] /\ wpc'[u] = wpc[u] /\ val'[h] = val[h]
        BY <1>1, <1>7, <2>1
      <3>3. QED
        BY <1>0, <1>9, <1>13, <3>1, <3>2, OwesKeeps
    <2>2. CASE u = w
      <3>1. f = h /\ c.move >= Cardinality(Matching(f)) /\ c.cmp = val[f]
        <4>1. f = h /\ c.nr + c.move >= Cardinality(Matching(f)) /\ c.cmp = val[f]
          BY <1>1, <1>13, <1>a, <2>2 DEF Owes
        <4>2. QED
          BY <1>1, <1>3, <4>1
      <3>2. Matching(f)' = Matching(f) \ {t}
        <4>1. a = b => Entries(chain'[a]) = Entries(chain[a])
          BY <1>2, <1>8
        <4>2. a # b => Entries(chain'[a]) = Entries(chain[a]) \ {t}
          BY <1>2, <1>8
        <4>3. \A u1 \in Entries(chain[a]) : key'[u1] = IF u1 = t THEN g ELSE key[u1]
          BY <1>2, <1>7, <1>10
        <4>4. /\ Matching(f)' = {x \in Entries(chain'[a]) : key'[x] = f}
              /\ Matching(f) = {x \in Entries(chain[a]) : key[x] = f}
          BY <1>1, <1>a DEF Matching
        <4>5. QED
          BY <1>3, <4>1, <4>2, <4>3, <4>4
      <3>3. Cardinality(Matching(f) \ {t}) = Cardinality(Matching(f)) - 1 /\ Cardinality(Matching(f)) \in Nat
        BY <1>0, <1>2, MatchingFinite, FS_RemoveElement
      <3>4. d.nr + d.move >= Cardinality(Matching(f)')
        BY <1>3, <1>5, <3>1, <3>2, <3>3
      <3>5. QED
        BY <1>1, <1>5, <1>7, <2>2, <3>1, <3>4 DEF Owes
    <2>3. QED
      BY <2>1, <2>2
  <1>14. TaskInv'
    <2> SUFFICES ASSUME NEW u \in Tasks PROVE WaitOf(u)' /\ SleepOf(u)' /\ OwedOf(u)'
      BY DEF TaskInv
    <2>1. WaitOf(u) /\ SleepOf(u) /\ OwedOf(u)
      BY DEF IInv, TaskInv
    <2>2. UNCHANGED <<pc, state, on_rq, sig, wait, pre, ret>>
      BY <1>1 DEF taskVars, waitVars
    <2>3. CASE u = t
      <3>1. t \in Entries(chain'[b])
        BY <1>3, <1>8
      <3>2. WaitOf(u)' /\ OwedOf(u)'
        BY <1>2, <1>3, <1>7, <2>1, <2>2, <2>3, <3>1 DEF WaitOf, OwedOf, InWait
      <3>3. SleepOf(u)'
        BY <1>7, <2>1, <2>2, <2>3 DEF SleepOf
      <3>4. QED
        BY <3>2, <3>3
    <2>4. CASE u # t
      <3>1. fate'[u] = fate[u] /\ lock_ptr'[u] = lock_ptr[u] /\ key'[u] = key[u]
            /\ \A e \in Buckets : u \in Entries(chain[e]) => u \in Entries(chain'[e])
        BY <1>7, <1>8, <2>4
      <3>2. WaitOf(u)'
        BY <1>0, <2>1, <2>2, <3>1 DEF WaitOf, InWait, QueueTypes
      <3>3. SleepOf(u)'
        BY <1>1, <2>1, <2>2, <3>1 DEF SleepOf
      <3>4. OwedOf(u)'
        <4> SUFFICES ASSUME NEW h \in Futexes, InWait(u)', fate'[u] = "none", wait'[u].f = h,
                            val'[h] # wait'[u].val
                     PROVE  \E x \in Wakers : Owes(x, h)'
          BY DEF OwedOf
        <4>1. \E x \in Wakers : Owes(x, h)
          BY <1>1, <2>1, <2>2, <3>1 DEF OwedOf, InWait
        <4>2. QED
          BY <1>13, <4>1
      <3>5. QED
        BY <3>2, <3>3, <3>4
    <2>5. QED
      BY <2>3, <2>4
  <1>15. QED
    BY <1>9, <1>11, <1>12, <1>14 DEF IInv

(* wake_up_state(), of a task that may have gone on. *)
LEMMA WakeUpStateStep ==
  ASSUME IInv, NEW w \in Wakers, wake_up_state(w)
  PROVE  IInv'
  <1>0. TaskTypeOK(Labels) /\ QueueTypes /\ WaitTypes /\ WakerTypes /\ ChainInv /\ CallInv
    BY TypeParts DEF IInv
  <1>1. /\ wpc[w] = "wake_up" /\ try_to_wake_up({wakee[w]}, TASK_NORMAL)
        /\ wakee' = [wakee EXCEPT ![w] = NULL] /\ wpc' = [wpc EXCEPT ![w] = "loop"]
        /\ UNCHANGED <<pc, sig, timer, hash, val, lock, qVars, waitVars, fate, call>>
    BY DEF wake_up_state
  <1>2. /\ wakee'[w] = NULL /\ wpc'[w] = "loop"
        /\ \A u \in Wakers : u # w => wakee'[u] = wakee[u] /\ wpc'[u] = wpc[u]
    BY <1>0, <1>1 DEF WakerTypes
  <1>3. TaskTypeOK(Labels)'
    BY <1>0, <1>1 DEF TaskTypeOK, try_to_wake_up, States
  <1>4. \A u \in Tasks : \/ state'[u] = TASK_RUNNING /\ on_rq'[u]
                         \/ state'[u] = TASK_RUNNING /\ state[u] = TASK_RUNNING /\ on_rq'[u] = on_rq[u]
                         \/ wakee[w] # u /\ state'[u] = state[u] /\ on_rq'[u] = on_rq[u]
    <2> SUFFICES ASSUME NEW u \in Tasks, wakee[w] = u
                 PROVE  \/ state'[u] = TASK_RUNNING /\ on_rq'[u]
                        \/ state'[u] = TASK_RUNNING /\ state[u] = TASK_RUNNING /\ on_rq'[u] = on_rq[u]
      BY <1>0, <1>1 DEF TaskTypeOK, try_to_wake_up
    <2>1. state[u] \in States /\ on_rq[u] \in BOOLEAN
      BY <1>0 DEF TaskTypeOK
    <2>2. CASE state[u] = TASK_RUNNING
      BY <1>1, <2>1, <2>2 DEF try_to_wake_up, WakesUp, TASK_RUNNING
    <2>3. CASE state[u] # TASK_RUNNING
      <3>1. WakesUp(u, TASK_NORMAL)
        BY <2>1, <2>3 DEF WakesUp, States, TASK_NORMAL, TASK_INTERRUPTIBLE, TASK_UNINTERRUPTIBLE, TASK_KILLABLE
      <3>2. QED
        BY <1>1, <3>1 DEF try_to_wake_up
    <2>4. QED
      BY <2>2, <2>3
  <1>5. QueueTypes' /\ TypeOK'
    <2>1. QueueTypes' /\ WaitTypes' /\ WakerTypes'
      BY <1>0, <1>1, FutexAssumption DEF QueueTypes, WaitTypes, WakerTypes, qVars, waitVars
    <2>2. QED
      BY <1>3, <2>1, TypeParts
  <1>6. ChainInv'
    BY <1>0, <1>1 DEF ChainInv, InWait, qVars
  <1>7. CallInv'
    <2> SUFFICES ASSUME NEW u \in Wakers PROVE CallOf(u)'
      BY DEF CallInv
    <2>1. CallOf(u)
      BY <1>0 DEF CallInv
    <2>2. CASE u = w
      BY <1>1, <1>2, <2>1, <2>2 DEF CallOf
    <2>3. CASE u # w
      BY <1>1, <1>2, <2>1, <2>3 DEF CallOf
    <2>4. QED
      BY <2>2, <2>3
  <1>8. ASSUME NEW u \in Wakers, NEW f \in Futexes, Owes(u, f)
        PROVE  Owes(u, f)'
    <2>1. call'[u] = call[u] /\ val'[f] = val[f] /\ Matching(f)' = Matching(f)
      BY <1>1 DEF Matching, qVars
    <2>2. wpc'[u] = wpc[u] \/ {wpc[u], wpc'[u]} \subseteq {"loop", "wake_up"}
      BY <1>1, <1>2
    <2>3. QED
      BY <1>0, <1>5, <1>8, <2>1, <2>2, OwesKeeps
  <1>9. TaskInv'
    <2> SUFFICES ASSUME NEW u \in Tasks PROVE WaitOf(u)' /\ SleepOf(u)' /\ OwedOf(u)'
      BY DEF TaskInv
    <2>1. WaitOf(u) /\ SleepOf(u) /\ OwedOf(u)
      BY DEF IInv, TaskInv
    <2>2. UNCHANGED <<pc, sig, hash, val, lock, chain, key, lock_ptr, wait, pre, ret, fate>>
      BY <1>1 DEF qVars, waitVars
    <2>3. WaitOf(u)'
      BY <2>1, <2>2 DEF WaitOf, InWait
    <2>4. SleepOf(u)'
      BY <1>2, <1>4, <2>1, <2>2 DEF SleepOf
    <2>5. OwedOf(u)'
      <3> SUFFICES ASSUME NEW f \in Futexes, InWait(u)', fate'[u] = "none", wait'[u].f = f,
                          val'[f] # wait'[u].val
                   PROVE  \E x \in Wakers : Owes(x, f)'
        BY DEF OwedOf
      <3>1. \E x \in Wakers : Owes(x, f)
        BY <2>1, <2>2 DEF OwedOf, InWait
      <3>2. QED
        BY <1>8, <3>1
    <2>6. QED
      BY <2>3, <2>4, <2>5
  <1>10. QED
    BY <1>5, <1>6, <1>7, <1>9 DEF IInv

-----------------------------------------------------------------------------
(* Nobody waits and nobody calls. *)
LEMMA InitIInv == Init => IInv
  <1> SUFFICES ASSUME Init PROVE IInv
    OBVIOUS
  <1>1. \A b \in Buckets : chain[b] = <<>> /\ chain[b] \in Seq(Tasks)
    BY DEF Init
  <1>2. TypeOK
    <2>1. TaskTypeOK(Labels)
      BY DEF Init, TaskInit, TaskTypeOK, Labels, States
    <2>2. QueueTypes /\ WaitTypes /\ WakerTypes
      BY DEF Init, QueueTypes, WaitTypes, WakerTypes
    <2>3. QED
      BY <2>1, <2>2, TypeParts
  <1>3. ChainInv
    BY <1>1 DEF ChainInv, LinkedOnce, Entries
  <1>4. TaskInv
    BY DEF Init, TaskInit, TaskInv, WaitOf, SleepOf, OwedOf, InWait
  <1>5. CallInv
    BY DEF Init, CallInv, CallOf, NoCall
  <1>6. QED
    BY <1>2, <1>3, <1>4, <1>5 DEF IInv

(* Every step keeps the invariant. *)
LEMMA NextIInv == IInv /\ [Next]_vars => IInv'
  <1> SUFFICES ASSUME IInv, [Next]_vars PROVE IInv'
    OBVIOUS
  <1>1. ASSUME NEW t \in Tasks, Waiter(t)
        PROVE  IInv'
    <2>1. CASE futex_wait(t) \/ futex_wait_restart(t)
      BY <2>1, EnterStep
    <2>2. CASE futex_wait_setup(t)
      BY <2>2, WouldBlockStep, QueueMeStep
    <2>3. CASE futex_wait_queue_me(t)
      BY <2>3, SleepStep
    <2>4. CASE unqueue_me(t) \/ unqueue_retry(t)
      BY <2>4, UnqueueMeStep
    <2>5. CASE unqueue_ends(t)
      BY <2>5, UnqueueEndsStep
    <2>6. CASE syscall_ends(t)
      BY <2>6, SyscallEndsStep
    <2>7. QED
      BY <1>1, <2>1, <2>2, <2>3, <2>4, <2>5, <2>6 DEF Waiter
  <1>2. ASSUME NEW w \in Wakers, Waker(w)
        PROVE  IInv'
    <2>1. ASSUME NEW f \in Futexes, NEW g \in Futexes,
                 futex_wake(w, f) \/ futex_requeue(w, f, g) \/ futex_wake_op(w, f, g)
          PROVE  IInv'
      BY <2>1, CallStep
    <2>2. CASE double_lock_hb(w) \/ fault_retry(w)
      BY <2>2, LockStep
    <2>3. CASE locked(w)
      BY <2>3, LockedStep
    <2>4. CASE wake_next(w)
      BY <2>4, WakeNextStep
    <2>5. CASE wake_up_state(w)
      BY <2>5, WakeUpStateStep
    <2>6. CASE requeue_next(w)
      BY <2>6, RequeueNextStep
    <2>7. CASE loop_ends(w)
      BY <2>7, LoopEndsStep
    <2>8. QED
      BY <1>2, <2>1, <2>2, <2>3, <2>4, <2>5, <2>6, <2>7 DEF Waker
  <1>3. ASSUME NEW t \in Tasks, Kernel(t)
        PROVE  IInv'
    BY <1>3, KernelStep
  <1>4. CASE UNCHANGED vars
    <2>1. /\ UNCHANGED <<pc, state, on_rq, sig, timer, hash, val, lock, chain, key, lock_ptr>>
          /\ UNCHANGED <<wait, pre, ret, fate, wpc, call, wakee>>
      BY <1>4 DEF vars, taskVars, qVars, waitVars, wakerVars
    <2>2. TypeOK' /\ ChainInv' /\ CallInv'
      BY <2>1 DEF IInv, TypeOK, TaskTypeOK, ChainInv, InWait, CallInv, CallOf
    <2>3. TaskInv'
      BY <2>1 DEF IInv, TaskInv, WaitOf, SleepOf, OwedOf, Owes, Matching, InWait
    <2>4. QED
      BY <2>2, <2>3 DEF IInv
  <1>5. QED
    BY <1>1, <1>2, <1>3, <1>4 DEF Next

(* The invariant holds in every state of every behaviour of futex_wait()   *)
(* and its wakers.                                                         *)
THEOREM Invariance == Spec => []IInv
  <1>1. Init => IInv
    BY InitIInv
  <1>2. IInv /\ [Next]_vars => IInv'
    BY NextIInv
  <1>3. QED
    BY <1>1, <1>2, PTL DEF Spec

(* Every variable keeps its type. *)
THEOREM TypeCorrect == Spec => []TypeOK
  <1>1. IInv => TypeOK
    BY DEF IInv
  <1>2. QED
    BY <1>1, Invariance, PTL

(* No wakeup is lost between the look at the word and schedule(): whenever *)
(* the word has changed under a sleeper, a waker has it in its hands or    *)
(* will get to it.                                                         *)
THEOREM NoWakeupLost == Spec => []NoLostWakeup
  <1>1. IInv => NoLostWakeup
    <2> SUFFICES ASSUME IInv, NEW t \in Tasks, ~on_rq[t], fate[t] # "requeued",
                        val[wait[t].f] # wait[t].val
                 PROVE  \E w \in Wakers : wakee[w] = t \/ OnItsWay(w, wait[t].f)
      BY DEF NoLostWakeup
    <2>0. QueueTypes /\ WaitTypes /\ CallInv /\ WaitOf(t) /\ SleepOf(t) /\ OwedOf(t)
      BY TypeParts DEF IInv, TaskInv
    <2>1. pc[t] = "schedule" /\ state[t] # TASK_RUNNING /\ InWait(t)
      BY <2>0 DEF SleepOf, InWait
    <2>2. CASE fate[t] = "woken"
      BY <2>0, <2>1, <2>2 DEF SleepOf
    <2>3. CASE fate[t] = "none"
      <3>1. PICK f \in Futexes : f = wait[t].f
        BY <2>0, <2>1, Fields DEF WaitOf
      <3>2. PICK w \in Wakers : Owes(w, f)
        BY <2>0, <2>1, <2>3, <3>1 DEF OwedOf
      <3>3. call[w] \in Calls
        BY <2>0, <3>2 DEF Owes, CallInv, CallOf
      <3>4. call[w].nr \in Nat /\ call[w].move \in Nat
        BY <3>3, Fields
      <3>5. /\ Cardinality(Matching(f)) \in Nat /\ INT_MAX \in Nat
            /\ Cardinality(Matching(f)) <= INT_MAX
        BY <2>0, MatchingFinite
      <3>6. OnItsWay(w, f)
        BY <3>2, <3>4, <3>5 DEF Owes, OnItsWay
      <3>7. QED
        BY <3>1, <3>6
    <2>4. QED
      BY <2>0, <2>2, <2>3 DEF WaitTypes
  <1>2. QED
    BY <1>1, Invariance, PTL

(* futex_wait() returns 0 exactly when a waker counted the task. *)
THEOREM WakeCounted == Spec => []WakeupCounted
  <1>1. IInv => WakeupCounted
    BY DEF IInv, TaskInv, WaitOf, WakeupCounted
  <1>2. QED
    BY <1>1, Invariance, PTL

(* A futex_q is on the one chain that lock_ptr and its key name, and on    *)
(* none when the stack that holds it is reused.                            *)
THEOREM QueueOnLock == Spec => []QueueMatchesLock
  <1>1. IInv => QueueMatchesLock
    <2> SUFFICES ASSUME IInv, NEW t \in Tasks
                 PROVE  /\ Cardinality(Places(t)) <= 1
                        /\ \A p \in Places(t) : p[1] = lock_ptr[t] /\ p[1] = hash[key[t]]
                        /\ pc[t] \in {"idle", "setup", "done"} => Places(t) = {}
      BY DEF QueueMatchesLock
    <2>0. ChainInv
      BY DEF IInv
    <2>1. ASSUME NEW p \in Places(t)
          PROVE  \E b \in Buckets : \E i \in 1..Len(chain[b]) : p = <<b, i>> /\ chain[b][i] = t
      BY <2>1 DEF Places
    <2>2. ASSUME NEW p \in Places(t)
          PROVE  InWait(t) /\ p[1] = lock_ptr[t] /\ p[1] = hash[key[t]]
      <3>1. PICK b \in Buckets, i \in Nat : i \in 1..Len(chain[b]) /\ p = <<b, i>> /\ chain[b][i] = t
        BY <2>1, <2>2
      <3>2. t \in Entries(chain[b])
        BY <3>1 DEF Entries
      <3>3. QED
        BY <2>0, <3>1, <3>2 DEF ChainInv
    <2>3. ASSUME NEW p \in Places(t), NEW r \in Places(t)
          PROVE  p = r
      <3>1. PICK b \in Buckets, i \in Nat : i \in 1..Len(chain[b]) /\ p = <<b, i>> /\ chain[b][i] = t
        BY <2>1, <2>3
      <3>2. PICK c \in Buckets, j \in Nat : j \in 1..Len(chain[c]) /\ r = <<c, j>> /\ chain[c][j] = t
        BY <2>1, <2>3
      <3>3. b = c
        BY <2>2, <2>3, <3>1, <3>2
      <3>4. i = j
        BY <2>0, <3>1, <3>2, <3>3 DEF ChainInv, LinkedOnce
      <3>5. QED
        BY <3>1, <3>2, <3>3, <3>4
    <2>4. Cardinality(Places(t)) <= 1
      <3>1. CASE Places(t) = {}
        BY <3>1, FS_EmptySet
      <3>2. CASE Places(t) # {}
        <4>1. PICK p : p \in Places(t)
          BY <3>2
        <4>2. Places(t) = {p}
          BY <2>3, <4>1
        <4>3. QED
          BY <4>2, FS_Singleton
      <3>3. QED
        BY <3>1, <3>2
    <2>5. pc[t] \in {"idle", "setup", "done"} => Places(t) = {}
      BY <2>2 DEF InWait
    <2>6. QED
      BY <2>2, <2>4, <2>5
  <1>2. QED
    BY <1>1, Invariance, PTL

=============================================================================
