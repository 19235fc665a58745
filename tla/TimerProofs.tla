---------------------------- MODULE TimerProofs ----------------------------
(***************************************************************************)
(* Timer's safety properties, for any number of CPUs, threads and timers.  *)
(* The inductive invariant says who owns a timer at each moment: the lock  *)
(* of its base, or the one caller that is moving it.                       *)
(***************************************************************************)
EXTENDS Timer, KListProofs, FiniteSetTheorems

Mover(x, t) == pc[x] = "migrate" /\ arg[x] = t

OnList(t, k) == t \in wheel[k] \/ t \in Entries(work[k])

(* What a caller knows by where it is. *)
CallInv ==
  \A x \in Ctx :
    /\ IF pc[x] = "idle" THEN op[x] = "none" /\ arg[x] = NULL ELSE arg[x] \in Timers
    /\ pc[x] # "idle" /\ x \in CPUs => fn[x] # NULL
    /\ pc[x] \in {"lock", "migrate"} => pre[x] \in CPUs
    /\ pc[x] = "migrate" => op[x] \in {"mod", "mod_pending"}
    /\ pc[x] = "synced" => op[x] = "sync"

(* A timer has no base exactly while one caller moves it. *)
MoverInv ==
  /\ \A t \in Timers : base[t] = NULL <=> \E x \in Ctx : Mover(x, t)
  /\ \A t \in Timers : \A x, y \in Ctx : Mover(x, t) /\ Mover(y, t) => x = y

(* A timer is at most once on a list, and that is a list of its base;      *)
(* a pending one that has a base is on one.                                *)
ListInv ==
  /\ \A k \in CPUs : LinkedOnce(work[k])
  /\ \A k \in CPUs : \A t \in wheel[k] : t \notin Entries(work[k])
  /\ \A k \in CPUs : \A t \in Timers : OnList(t, k) => base[t] = k /\ pending[t]
  /\ \A t \in Timers : pending[t] /\ base[t] # NULL => OnList(t, base[t])

(* A timer that mod_timer_pending() moves stays pending on the way. *)
PendInv ==
  \A x \in Ctx : pc[x] = "migrate" /\ op[x] = "mod_pending" => pending[arg[x]]

(* A running timer stays with the base that runs it, unless add_timer_on() *)
(* takes it away.                                                          *)
RunInv ==
  \A k \in CPUs :
    /\ running[k] # NULL /\ stray[running[k]] = "no" => base[running[k]] = k
    /\ fn[k] # NULL => fn[k] = running[k]

(* While a timer is being deleted only its own handler restarts it, and    *)
(* once del_timer_sync() has got through nobody does.                      *)
NotRestarted(t) == \A x \in Ctx : op[x] = "mod" /\ arg[x] = t => OwnHandler(x, t)

Silent(t) ==
  \/ stray[t] # "no"
  \/ ~pending[t] /\ base[t] # NULL /\ \A k \in CPUs : running[k] # t

SyncInv ==
  \A p \in Threads :
    /\ op[p] = "sync" => NotRestarted(arg[p])
    /\ pc[p] = "synced" => Silent(arg[p])

(* The inductive invariant. *)
IInv == TypeOK /\ CallInv /\ MoverInv /\ ListInv /\ PendInv /\ RunInv /\ SyncInv

-----------------------------------------------------------------------------
(* Taking a timer off a work_list, whether or not it is on it. *)
LEMMA WithoutList ==
  ASSUME NEW S, NEW q \in Seq(S), LinkedOnce(q), NEW t
  PROVE  /\ Without(t, q) \in Seq(S)
         /\ LinkedOnce(Without(t, q))
         /\ Entries(Without(t, q)) = Entries(q) \ {t}
  BY ListDel DEF Without

(* The timers of a slot, in any order, are each once on the work_list. *)
LEMMA SlotList ==
  ASSUME NEW S, IsFiniteSet(S), S # {}, NEW q \in SetToSeqs(S)
  PROVE  q \in Seq(S) /\ q # <<>> /\ LinkedOnce(q) /\ Entries(q) = S
  <1> DEFINE n == Cardinality(S)
  <1>1. n \in Nat /\ n # 0
    BY FS_CardinalityType, FS_EmptySet
  <1>2. q \in [1..n -> S] /\ \A i, j \in 1..n : i # j => q[i] # q[j]
    BY DEF SetToSeqs
  <1>3. Cardinality(1..n) = n
    BY <1>1, FS_Interval
  <1> HIDE DEF n
  <1>4. q \in Seq(S) /\ Len(q) = n
    BY <1>1, <1>2
  <1>5. q \in Injection(1..n, S)
    BY <1>2 DEF Injection, IsInjective
  <1>6. q \in Surjection(1..n, S)
    BY <1>3, <1>5, FS_Injection DEF n
  <1>7. Entries(q) = S
    BY <1>2, <1>4, <1>6 DEF Surjection, Entries
  <1>8. QED
    BY <1>1, <1>2, <1>4, <1>7 DEF LinkedOnce

-----------------------------------------------------------------------------
(* The start of a call. *)
LEMMA CallStep ==
  ASSUME IInv, NEW x \in Ctx, NEW t \in Timers,
         NEW o \in {"mod", "mod_pending", "del", "sync"}, Call(x, o, t),
         o = "mod" => (BeingDeleted(t) => OwnHandler(x, t)),
         o = "sync" => ~BeingStarted(t)
  PROVE  IInv'
  <1> USE DEF IInv, Call, MayCall, timerVars, runVars
  <1>1. TypeOK'
    BY DEF TypeOK
  <1>2. CallInv'
    BY DEF CallInv, TypeOK
  <1>3. MoverInv'
    BY DEF MoverInv, Mover, TypeOK
  <1>4. ListInv' /\ RunInv'
    BY DEF ListInv, RunInv, OnList, TypeOK
  <1>7. PendInv'
    BY DEF PendInv, TypeOK
  <1>5. SyncInv'
    <2>1. ASSUME NEW p \in Threads, op'[p] = "sync"
          PROVE  NotRestarted(arg[p])'
      <3>1. p \in Ctx
        BY DEF Ctx
      <3>2. CASE p = x
        BY <2>1, <3>1, <3>2 DEF NotRestarted, BeingStarted, OwnHandler, TypeOK
      <3>3. CASE p # x
        <4>1. op[p] = "sync" /\ arg'[p] = arg[p] /\ NotRestarted(arg[p])
          BY <2>1, <3>1, <3>3 DEF SyncInv, TypeOK
        <4>2. QED
          BY <3>1, <4>1 DEF NotRestarted, BeingDeleted, OwnHandler, TypeOK
      <3>4. QED
        BY <3>2, <3>3
    <2>2. ASSUME NEW p \in Threads, pc'[p] = "synced"
          PROVE  Silent(arg[p])'
      <3>1. p \in Ctx /\ p # x
        BY <2>2 DEF Ctx, TypeOK
      <3>2. QED
        BY <2>2, <3>1 DEF SyncInv, Silent, TypeOK
    <2>3. QED
      BY <2>1, <2>2 DEF SyncInv
  <1>6. QED
    BY <1>1, <1>2, <1>3, <1>4, <1>5, <1>7

(* A step of a caller that touches no timer: reading the base, looking     *)
(* again, being refused, returning.                                        *)
LEMMA QuietStep ==
  ASSUME IInv, NEW x \in Ctx, UNCHANGED <<timerVars, runVars, stray>>,
         \/ lock_timer_base(x) \/ lock_again(x)
         \/ pc[x] \in {"lock", "synced"} /\ (Return(x, "idle") \/ Return(x, "read"))
  PROVE  IInv'
  <1> USE DEF IInv, lock_timer_base, lock_again, Return, timerVars, runVars
  <1>0. /\ pc[x] \in {"read", "lock", "synced"} /\ pc'[x] \in {"idle", "read", "lock"}
        /\ \A y \in Ctx : y # x => pc'[y] = pc[y] /\ op'[y] = op[y] /\ arg'[y] = arg[y]
        /\ \A y \in Ctx : op'[y] # "none" => op'[y] = op[y] /\ arg'[y] = arg[y]
        /\ arg[x] \in Timers
    BY DEF TypeOK, CallInv
  <1>1. TypeOK'
    <2>1. pc' \in [Ctx -> {"idle", "read", "lock", "migrate", "synced"}]
      BY DEF TypeOK
    <2>2. pre' \in [Ctx -> CPUs \cup {NULL}]
      <3>1. base[arg[x]] \in CPUs \cup {NULL}
        BY <1>0 DEF TypeOK
      <3>2. QED
        BY <3>1 DEF TypeOK
    <2>3. /\ op' \in [Ctx -> {"none", "mod", "mod_pending", "del", "sync"}]
          /\ arg' \in [Ctx -> Timers \cup {NULL}]
      BY DEF TypeOK
    <2>4. QED
      BY <2>1, <2>2, <2>3 DEF TypeOK
  <1>2. CallInv'
    BY <1>0 DEF CallInv, TypeOK
  <1>3. MoverInv'
    <2>1. \A y \in Ctx : \A t \in Timers : Mover(y, t)' <=> Mover(y, t)
      BY <1>0 DEF Mover
    <2>2. QED
      BY <2>1 DEF MoverInv
  <1>4. ListInv' /\ RunInv'
    BY DEF ListInv, RunInv, OnList, TypeOK
  <1>7. PendInv'
    BY <1>0 DEF PendInv
  <1>5. SyncInv'
    <2>1. \A p \in Threads : op'[p] = "sync" => op[p] = "sync" /\ arg'[p] = arg[p]
      BY <1>0 DEF Ctx
    <2>2. \A p \in Threads : pc'[p] = "synced" => pc[p] = "synced" /\ arg'[p] = arg[p]
      BY <1>0 DEF Ctx
    <2>3. \A t : NotRestarted(t) => NotRestarted(t)'
      BY <1>0 DEF NotRestarted, OwnHandler
    <2>4. \A t : Silent(t) => Silent(t)'
      BY DEF Silent
    <2>5. QED
      BY <2>1, <2>2, <2>3, <2>4 DEF SyncInv
  <1>6. QED
    BY <1>1, <1>2, <1>3, <1>4, <1>5, <1>7

(* add_timer_on() of a timer that is not pending. *)
LEMMA AddOnStep ==
  ASSUME IInv, NEW x \in Ctx, NEW t \in Timers, NEW k \in CPUs, add_timer_on(x, t, k)
  PROVE  IInv'
  <1> USE TimerAssumption DEF IInv, add_timer_on, callVars, runVars
  <1>0. base[t] # NULL /\ \A l \in CPUs : ~OnList(t, l)
    <2>1. \A y \in Ctx : ~Mover(y, t)
      BY DEF CallInv, PendInv, Mover
    <2>2. QED
      BY <2>1 DEF MoverInv, ListInv
  <1>1. TypeOK'
    <2>1. Strays(x, t, k) \in {"no", "handler", "other"}
      BY DEF Strays, TypeOK
    <2>2. QED
      BY <2>1 DEF TypeOK, Insert
  <1>2. CallInv'
    BY DEF CallInv
  <1>3. MoverInv'
    BY <1>0 DEF MoverInv, Mover, TypeOK
  <1>4. ListInv'
    <2>1. \A l \in CPUs : \A u \in Timers :
            OnList(u, l)' <=> OnList(u, l) \/ (u = t /\ l = k)
      BY DEF OnList, Insert, TypeOK
    <2>2. \A l \in CPUs : LinkedOnce(work'[l]) /\ \A u \in wheel'[l] : u \notin Entries(work'[l])
      BY <1>0 DEF ListInv, OnList, Insert, TypeOK
    <2>3. QED
      BY <1>0, <2>1, <2>2 DEF ListInv, TypeOK
  <1>8. PendInv'
    BY DEF PendInv, TypeOK
  <1>5. RunInv'
    <2>1. \A u \in Timers : u # t => base'[u] = base[u] /\ stray'[u] = stray[u]
      BY DEF TypeOK
    <2>2. base'[t] = k /\ (stray'[t] = "no" => \A l \in CPUs \ {k} : running[l] # t)
      BY DEF Strays, TypeOK
    <2>3. \A l \in CPUs : running[l] # NULL => running[l] \in Timers
      BY DEF TypeOK
    <2>4. ASSUME NEW l \in CPUs, running[l] # NULL, stray'[running[l]] = "no"
          PROVE  base'[running[l]] = l
      <3>1. CASE running[l] = t
        BY <2>2, <2>4, <3>1
      <3>2. CASE running[l] # t
        BY <2>1, <2>3, <2>4, <3>2 DEF RunInv
      <3>3. QED
        BY <3>1, <3>2
    <2>5. QED
      BY <2>4 DEF RunInv
  <1>6. SyncInv'
    <2>1. \A q \in Threads : op[q] = "sync" => arg[q] # t
      BY DEF BeingDeleted
    <2>2. \A u \in Timers \cup {NULL} : u # t /\ Silent(u) => Silent(u)'
      BY DEF Silent, TypeOK
    <2>3. \A u : NotRestarted(u) => NotRestarted(u)'
      BY DEF NotRestarted, OwnHandler
    <2>4. \A q \in Threads :
            /\ arg[q] \in Timers \cup {NULL}
            /\ pc[q] = "synced" => op[q] = "sync"
            /\ pc'[q] = pc[q] /\ op'[q] = op[q] /\ arg'[q] = arg[q]
      BY DEF TypeOK, CallInv, Ctx
    <2>5. ASSUME NEW q \in Threads, pc'[q] = "synced"
          PROVE  Silent(arg[q])'
      <3>1. pc[q] = "synced" /\ op[q] = "sync" /\ arg[q] \in Timers \cup {NULL}
        BY <2>4, <2>5
      <3>2. arg[q] # t /\ Silent(arg[q]) /\ arg'[q] = arg[q]
        BY <2>1, <2>4, <3>1 DEF SyncInv
      <3>3. QED
        BY <2>2, <3>1, <3>2
    <2>6. ASSUME NEW q \in Threads, op'[q] = "sync"
          PROVE  NotRestarted(arg[q])'
      BY <2>3, <2>4, <2>6 DEF SyncInv
    <2>7. QED
      BY <2>5, <2>6 DEF SyncInv
  <1>7. QED
    BY <1>1, <1>2, <1>3, <1>4, <1>5, <1>6, <1>8

-----------------------------------------------------------------------------
(* A caller that holds the lock of the base it looked up owns the timer.   *)
LEMMA LockedOwns ==
  ASSUME IInv, NEW x \in Ctx, NEW o, Locked(x, o)
  PROVE  /\ pc[x] = "lock" /\ arg[x] \in Timers /\ pre[x] \in CPUs /\ op[x] = o
         /\ base[arg[x]] = pre[x] /\ base[arg[x]] # NULL
         /\ \A y \in Ctx : ~Mover(y, arg[x])
  BY TimerAssumption DEF IInv, Locked, Moved, CallInv, MoverInv

(* Return() of a call, to the idle caller or to one that has synced.       *)
LEMMA ReturnTypes ==
  ASSUME TypeOK, CallInv, NEW x \in Ctx, NEW w \in {"idle", "synced"}, Return(x, w),
         w = "synced" => op[x] = "sync" /\ arg[x] \in Timers, pc[x] # "idle",
         UNCHANGED fn
  PROVE  /\ pc' \in [Ctx -> {"idle", "read", "lock", "migrate", "synced"}]
         /\ op' \in [Ctx -> {"none", "mod", "mod_pending", "del", "sync"}]
         /\ arg' \in [Ctx -> Timers \cup {NULL}]
         /\ pre' \in [Ctx -> CPUs \cup {NULL}]
         /\ CallInv'
         /\ \A y \in Ctx : y # x => pc'[y] = pc[y] /\ op'[y] = op[y] /\ arg'[y] = arg[y]
         /\ pc'[x] = w /\ (op'[x] # "none" => op'[x] = op[x] /\ arg'[x] = arg[x])
  <1> USE DEF Return
  <1>1. /\ pc' \in [Ctx -> {"idle", "read", "lock", "migrate", "synced"}]
        /\ op' \in [Ctx -> {"none", "mod", "mod_pending", "del", "sync"}]
        /\ arg' \in [Ctx -> Timers \cup {NULL}]
        /\ pre' \in [Ctx -> CPUs \cup {NULL}]
    BY DEF TypeOK
  <1>2. CallInv'
    BY DEF CallInv, TypeOK
  <1>3. QED
    BY <1>1, <1>2 DEF TypeOK

(* Unlink() takes the timer off the lists of its base, and it is on no     *)
(* other.                                                                  *)
LEMMA UnlinkLists ==
  ASSUME IInv, NEW t \in Timers, NEW k \in CPUs, base[t] = k, Unlink(t, k)
  PROVE  /\ wheel' \in [CPUs -> SUBSET Timers] /\ work' \in [CPUs -> Seq(Timers)]
         /\ \A l \in CPUs : LinkedOnce(work'[l]) /\ \A u \in wheel'[l] : u \notin Entries(work'[l])
         /\ \A l \in CPUs : \A u \in Timers : OnList(u, l)' <=> OnList(u, l) /\ u # t
  <1> USE DEF IInv
  <1>1. /\ wheel' = [wheel EXCEPT ![k] = @ \ {t}]
        /\ work' = [work EXCEPT ![k] = Without(t, @)]
    BY DEF Unlink
  <1>2. /\ Without(t, work[k]) \in Seq(Timers) /\ LinkedOnce(Without(t, work[k]))
        /\ Entries(Without(t, work[k])) = Entries(work[k]) \ {t}
    BY WithoutList DEF TypeOK, ListInv
  <1>3. wheel' \in [CPUs -> SUBSET Timers] /\ work' \in [CPUs -> Seq(Timers)]
    BY <1>1, <1>2 DEF TypeOK
  <1>4. \A l \in CPUs : Entries(work'[l]) = Entries(work[l]) \ {t}
    BY <1>1, <1>2 DEF TypeOK, ListInv, OnList
  <1>5. \A l \in CPUs : LinkedOnce(work'[l]) /\ wheel'[l] = wheel[l] \ {t}
    BY <1>1, <1>2 DEF TypeOK, ListInv, OnList
  <1>6. QED
    BY <1>3, <1>4, <1>5 DEF OnList, ListInv

(* While a timer is synced nobody gets past the checks of __mod_timer():   *)
(* it is not pending, and only its handler, which does not run, might      *)
(* restart it.  A stray handler does run.                                  *)
LEMMA ModNotSynced ==
  ASSUME IInv, NEW x \in Ctx, NEW o \in {"mod", "mod_pending"}, Locked(x, o),
         o = "mod_pending" => pending[arg[x]]
  PROVE  \A p \in Threads : pc[p] = "synced" /\ arg[p] = arg[x] => stray[arg[x]] # "no"
  <1> USE DEF IInv
  <1> DEFINE t == arg[x]
  <1>1. t \in Timers /\ op[x] = o
    BY LockedOwns
  <1>2. ASSUME NEW p \in Threads, pc[p] = "synced", arg[p] = t, stray[t] = "no"
        PROVE  FALSE
    <2>1. op[p] = "sync" /\ NotRestarted(t) /\ Silent(t)
      BY <1>2 DEF SyncInv, CallInv, Ctx
    <2>2. op[x] = "mod"
      BY <1>1, <1>2, <2>1 DEF Silent
    <2>3. OwnHandler(x, t)
      BY <2>1, <2>2 DEF NotRestarted
    <2>4. x \in CPUs /\ running[x] = t
      BY <1>1, <2>3, TimerAssumption DEF OwnHandler, RunInv
    <2>5. QED
      BY <1>2, <2>1, <2>4 DEF Silent
  <1>3. QED
    BY <1>2

(* detach_timer() of a timer that the caller owns, by del_timer() or by    *)
(* try_to_del_timer_sync() that found its handler not running.             *)
LEMMA DetachStep ==
  ASSUME IInv, NEW x \in Ctx, NEW o \in {"del", "sync"}, NEW w \in {"idle", "synced"},
         Locked(x, o), Detach(x), Return(x, w),
         w = "synced" => o = "sync" /\ running[pre[x]] # arg[x]
  PROVE  IInv'
  <1> USE DEF IInv
  <1> DEFINE t == arg[x]
             k == pre[x]
  <1>1. /\ pc[x] = "lock" /\ t \in Timers /\ k \in CPUs /\ op[x] = o
        /\ base[t] = k /\ base[t] # NULL /\ \A y \in Ctx : ~Mover(y, t)
    BY LockedOwns
  <1>2. /\ pc' \in [Ctx -> {"idle", "read", "lock", "migrate", "synced"}]
        /\ op' \in [Ctx -> {"none", "mod", "mod_pending", "del", "sync"}]
        /\ arg' \in [Ctx -> Timers \cup {NULL}]
        /\ pre' \in [Ctx -> CPUs \cup {NULL}]
        /\ CallInv'
        /\ \A y \in Ctx : y # x => pc'[y] = pc[y] /\ op'[y] = op[y] /\ arg'[y] = arg[y]
        /\ pc'[x] = w /\ (op'[x] # "none" => op'[x] = op[x] /\ arg'[x] = t)
    BY <1>1, ReturnTypes DEF Detach, runVars
  <1>3. /\ pending' = [pending EXCEPT ![t] = FALSE]
        /\ UNCHANGED <<base, running, fn, stray>>
        /\ wheel' \in [CPUs -> SUBSET Timers] /\ work' \in [CPUs -> Seq(Timers)]
        /\ \A l \in CPUs : LinkedOnce(work'[l]) /\ \A u \in wheel'[l] : u \notin Entries(work'[l])
        /\ \A l \in CPUs : \A u \in Timers : OnList(u, l)' <=> OnList(u, l) /\ u # t
    <2>1. pending' = [pending EXCEPT ![t] = FALSE] /\ UNCHANGED <<base, running, fn, stray>>
      BY DEF Detach, runVars
    <2>2. CASE pending[t]
      <3>1. Unlink(t, k)
        BY <2>2 DEF Detach
      <3>2. QED
        BY <1>1, <2>1, <3>1, UnlinkLists
    <2>3. CASE ~pending[t]
      BY <1>1, <2>1, <2>3 DEF Detach, TypeOK, ListInv, OnList
    <2>4. QED
      BY <2>2, <2>3
  <1> HIDE DEF t, k
  <1>4. TypeOK'
    BY <1>1, <1>2, <1>3 DEF TypeOK
  <1>5. MoverInv'
    <2>1. \A y \in Ctx : \A u \in Timers : Mover(y, u)' <=> Mover(y, u)
      BY <1>1, <1>2 DEF Mover
    <2>2. QED
      BY <1>3, <2>1 DEF MoverInv
  <1>6. ListInv'
    BY <1>1, <1>3 DEF ListInv, TypeOK
  <1>7. RunInv'
    BY <1>3 DEF RunInv
  <1>10. PendInv'
    <2>1. \A y \in Ctx : pc'[y] = "migrate" =>
            pc[y] = "migrate" /\ op'[y] = op[y] /\ arg'[y] = arg[y] /\ arg[y] # t /\ arg[y] \in Timers
      BY <1>1, <1>2 DEF Mover, CallInv
    <2>2. QED
      BY <1>3, <2>1 DEF PendInv, TypeOK
  <1>8. SyncInv'
    <2>1. \A u : NotRestarted(u) => NotRestarted(u)'
      BY <1>1, <1>2, <1>3 DEF NotRestarted, OwnHandler
    <2>2. \A u \in Timers \cup {NULL} : Silent(u) => Silent(u)'
      BY <1>1, <1>3, TimerAssumption DEF Silent, TypeOK
    <2>3. \A p \in Threads : op'[p] = "sync" => op[p] = "sync" /\ arg'[p] = arg[p]
      BY <1>2 DEF Ctx, t
    <2>4. \A p \in Threads : arg[p] \in Timers \cup {NULL} /\ p \in Ctx
      BY DEF TypeOK, Ctx
    <2>5. ASSUME NEW p \in Threads, pc'[p] = "synced"
          PROVE  Silent(arg[p])'
      <3>1. CASE p # x
        BY <1>2, <2>2, <2>4, <2>5, <3>1 DEF SyncInv, Ctx
      <3>2. CASE p = x
        <4>1. w = "synced" /\ arg'[x] = t /\ running[k] # t
          BY <1>1, <1>2, <2>4, <2>5, <3>2 DEF CallInv, Return, t, k
        <4>2. stray[t] = "no" => \A l \in CPUs : running[l] # t
          BY <1>1, <4>1, TimerAssumption DEF RunInv, TypeOK
        <4>3. QED
          BY <1>1, <1>3, <3>2, <4>1, <4>2 DEF Silent, TypeOK
      <3>3. QED
        BY <3>1, <3>2
    <2>6. QED
      BY <2>1, <2>3, <2>5 DEF SyncInv
  <1>9. QED
    BY <1>2, <1>4, <1>5, <1>6, <1>7, <1>8, <1>10

(* __mod_timer() that leaves the timer on the base it has, maybe because   *)
(* the handler is running there.                                           *)
LEMMA ModStaysStep ==
  ASSUME IInv, NEW x \in Ctx, NEW o \in {"mod", "mod_pending"}, Locked(x, o),
         o = "mod_pending" => pending[arg[x]],
         work' = [work EXCEPT ![pre[x]] = Without(arg[x], @)],
         wheel' = Insert(wheel, arg[x], pre[x]),
         pending' = [pending EXCEPT ![arg[x]] = TRUE],
         Return(x, "idle"), UNCHANGED <<base, runVars, stray>>
  PROVE  IInv'
  <1> USE DEF IInv, runVars
  <1> DEFINE t == arg[x]
             k == pre[x]
  <1>1. /\ pc[x] = "lock" /\ t \in Timers /\ k \in CPUs /\ op[x] = o
        /\ base[t] = k /\ base[t] # NULL /\ \A y \in Ctx : ~Mover(y, t)
    BY LockedOwns
  <1>2. /\ pc' \in [Ctx -> {"idle", "read", "lock", "migrate", "synced"}]
        /\ op' \in [Ctx -> {"none", "mod", "mod_pending", "del", "sync"}]
        /\ arg' \in [Ctx -> Timers \cup {NULL}]
        /\ pre' \in [Ctx -> CPUs \cup {NULL}]
        /\ CallInv'
        /\ \A y \in Ctx : y # x => pc'[y] = pc[y] /\ op'[y] = op[y] /\ arg'[y] = arg[y]
        /\ pc'[x] = "idle" /\ (op'[x] # "none" => op'[x] = op[x] /\ arg'[x] = t)
    BY <1>1, ReturnTypes
  <1>3. /\ wheel' \in [CPUs -> SUBSET Timers] /\ work' \in [CPUs -> Seq(Timers)]
        /\ \A l \in CPUs : LinkedOnce(work'[l]) /\ \A u \in wheel'[l] : u \notin Entries(work'[l])
        /\ \A l \in CPUs : \A u \in Timers : OnList(u, l)' <=> OnList(u, l) \/ (u = t /\ l = k)
    <2>1. /\ wheel' = [wheel EXCEPT ![k] = @ \cup {t}]
          /\ work' = [work EXCEPT ![k] = Without(t, @)]
      BY DEF Insert
    <2>2. /\ Without(t, work[k]) \in Seq(Timers) /\ LinkedOnce(Without(t, work[k]))
          /\ Entries(Without(t, work[k])) = Entries(work[k]) \ {t}
      BY <1>1, WithoutList DEF TypeOK, ListInv
    <2>3. wheel' \in [CPUs -> SUBSET Timers] /\ work' \in [CPUs -> Seq(Timers)]
      BY <1>1, <2>1, <2>2 DEF TypeOK
    <2>4. \A l \in CPUs : l # k => t \notin Entries(work[l]) /\ t \notin wheel[l]
      BY <1>1 DEF ListInv, OnList
    <2> HIDE DEF t, k
    <2>5. \A l \in CPUs : work'[l] = IF l = k THEN Without(t, work[k]) ELSE work[l]
      BY <2>1 DEF TypeOK
    <2>6. \A l \in CPUs : wheel'[l] = IF l = k THEN wheel[l] \cup {t} ELSE wheel[l]
      BY <2>1 DEF TypeOK
    <2>7. \A l \in CPUs : Entries(work'[l]) = Entries(work[l]) \ {t} /\ LinkedOnce(work'[l])
      <3>1. \A l \in CPUs : l # k => Entries(work'[l]) = Entries(work[l]) \ {t}
        BY <2>4, <2>5
      <3>2. QED
        BY <2>2, <2>5, <3>1 DEF ListInv
    <2>8. ASSUME NEW l \in CPUs, NEW u \in wheel'[l]
          PROVE  u \notin Entries(work'[l])
      <3>1. u \in wheel[l] \/ u = t
        BY <2>6
      <3>2. u \in wheel[l] => u \notin Entries(work[l])
        BY DEF ListInv
      <3>3. QED
        BY <2>7, <3>1, <3>2
    <2>9. \A l \in CPUs : \A u \in Timers : OnList(u, l)' <=> OnList(u, l) \/ (u = t /\ l = k)
      BY <2>4, <2>6, <2>7 DEF OnList
    <2>10. QED
      BY <2>3, <2>7, <2>8, <2>9
  <1>4. pending' = [pending EXCEPT ![t] = TRUE]
    OBVIOUS
  <1>5. \A p \in Threads : pc[p] = "synced" /\ arg[p] = t => stray[t] # "no"
    BY ModNotSynced
  <1> HIDE DEF t, k
  <1>6. TypeOK'
    BY <1>1, <1>2, <1>3, <1>4 DEF TypeOK
  <1>7. MoverInv'
    <2>1. \A y \in Ctx : \A u \in Timers : Mover(y, u)' <=> Mover(y, u)
      BY <1>1, <1>2 DEF Mover
    <2>2. QED
      BY <2>1 DEF MoverInv
  <1>8. ListInv'
    BY <1>1, <1>3, <1>4 DEF ListInv, TypeOK
  <1>9. RunInv'
    BY DEF RunInv
  <1>12. PendInv'
    <2>1. \A y \in Ctx : pc'[y] = "migrate" =>
            pc[y] = "migrate" /\ op'[y] = op[y] /\ arg'[y] = arg[y] /\ arg[y] \in Timers
      BY <1>1, <1>2 DEF CallInv
    <2>2. QED
      BY <1>1, <1>4, <2>1 DEF PendInv, TypeOK
  <1>10. SyncInv'
    <2>1. \A u : NotRestarted(u) => NotRestarted(u)'
      BY <1>1, <1>2 DEF NotRestarted, OwnHandler, t
    <2>2. \A u \in Timers \cup {NULL} : u # t /\ Silent(u) => Silent(u)'
      BY <1>1, <1>4, TimerAssumption DEF Silent, TypeOK
    <2>3. \A p \in Threads : op'[p] = "sync" => op[p] = "sync" /\ arg'[p] = arg[p]
      BY <1>2 DEF Ctx, t
    <2>4. ASSUME NEW p \in Threads, pc'[p] = "synced"
          PROVE  Silent(arg[p])'
      <3>1. pc[p] = "synced" /\ arg'[p] = arg[p] /\ arg[p] \in Timers \cup {NULL}
        BY <1>2, <2>4 DEF Ctx, TypeOK
      <3>2. Silent(arg[p])
        BY <3>1 DEF SyncInv
      <3>3. QED
        BY <1>5, <2>2, <3>1, <3>2 DEF Silent
    <2>5. QED
      BY <2>1, <2>3, <2>4 DEF SyncInv
  <1>11. QED
    BY <1>2, <1>6, <1>7, <1>8, <1>9, <1>10, <1>12

(* __mod_timer() that takes the timer away from its base: the caller is    *)
(* now the owner.                                                          *)
LEMMA ModMovesStep ==
  ASSUME IInv, NEW x \in Ctx, NEW n \in CPUs, NEW o \in {"mod", "mod_pending"}, Locked(x, o),
         o = "mod_pending" => pending[arg[x]],
         Migrates(arg[x], pre[x], n), Unlink(arg[x], pre[x]),
         base' = [base EXCEPT ![arg[x]] = NULL],
         pc' = [pc EXCEPT ![x] = "migrate"],
         pre' = [pre EXCEPT ![x] = n],
         UNCHANGED <<pending, op, arg, runVars, stray>>
  PROVE  IInv'
  <1> USE DEF IInv, runVars
  <1> DEFINE t == arg[x]
             k == pre[x]
  <1>1. /\ pc[x] = "lock" /\ t \in Timers /\ k \in CPUs /\ op[x] = o
        /\ base[t] = k /\ base[t] # NULL /\ \A y \in Ctx : ~Mover(y, t)
    BY LockedOwns
  <1>3. /\ wheel' \in [CPUs -> SUBSET Timers] /\ work' \in [CPUs -> Seq(Timers)]
        /\ \A l \in CPUs : LinkedOnce(work'[l]) /\ \A u \in wheel'[l] : u \notin Entries(work'[l])
        /\ \A l \in CPUs : \A u \in Timers : OnList(u, l)' <=> OnList(u, l) /\ u # t
    BY <1>1, UnlinkLists
  <1>4. base' = [base EXCEPT ![t] = NULL]
    OBVIOUS
  <1>14. ASSUME NEW l \in CPUs, running[l] = t, stray[t] = "no"
         PROVE  FALSE
    <2>1. running[k] # t
      BY DEF Migrates
    <2>2. running[l] # NULL /\ stray[running[l]] = "no"
      BY <1>1, <1>14, TimerAssumption
    <2>3. base[t] = l
      BY <1>14, <2>2 DEF RunInv
    <2>4. QED
      BY <1>1, <1>14, <2>1, <2>3
  <1>5. \A p \in Threads : pc[p] = "synced" /\ arg[p] = t => stray[t] # "no"
    BY ModNotSynced
  <1>11. /\ \A y \in Ctx : y # x => pc'[y] = pc[y]
         /\ pc'[x] = "migrate" /\ arg'[x] = t /\ arg' = arg /\ op' = op
    BY DEF TypeOK
  <1>6. TypeOK' /\ CallInv'
    <2>1. TypeOK'
      BY <1>1, <1>3, <1>4 DEF TypeOK
    <2>2. CallInv'
      BY <1>1 DEF CallInv, TypeOK
    <2>3. QED
      BY <2>1, <2>2
  <1> HIDE DEF t, k
  <1>7. MoverInv'
    <2>1. \A y \in Ctx : \A u \in Timers : Mover(y, u)' <=> Mover(y, u) \/ (y = x /\ u = t)
      BY <1>1, <1>11 DEF Mover, t
    <2>2. QED
      BY <1>1, <1>4, <2>1 DEF MoverInv, TypeOK
  <1>8. ListInv'
    BY <1>1, <1>3, <1>4 DEF ListInv, TypeOK
  <1>9. RunInv'
    <2>1. ASSUME NEW l \in CPUs, running[l] # NULL, stray[running[l]] = "no"
          PROVE  base'[running[l]] = l
      <3>1. running[l] \in Timers /\ running[l] # t /\ base[running[l]] = l
        BY <1>14, <2>1 DEF RunInv, TypeOK
      <3>2. QED
        BY <1>4, <3>1 DEF TypeOK
    <2>2. QED
      BY <2>1 DEF RunInv
  <1>13. PendInv'
    BY <1>1, <1>11 DEF PendInv, t
  <1>10. SyncInv'
    <2>1. \A u : NotRestarted(u) => NotRestarted(u)'
      BY <1>11 DEF NotRestarted, OwnHandler
    <2>2. \A u \in Timers \cup {NULL} : u # t /\ Silent(u) => Silent(u)'
      BY <1>1, <1>4, TimerAssumption DEF Silent, TypeOK
    <2>4. ASSUME NEW p \in Threads, pc'[p] = "synced"
          PROVE  Silent(arg[p])'
      <3>1. pc[p] = "synced" /\ arg'[p] = arg[p] /\ arg[p] \in Timers \cup {NULL}
        BY <1>11, <2>4 DEF Ctx, TypeOK
      <3>2. QED
        BY <1>5, <2>2, <3>1 DEF SyncInv, Silent
    <2>5. QED
      BY <1>11, <2>1, <2>4 DEF SyncInv
  <1>12. QED
    BY <1>6, <1>7, <1>8, <1>9, <1>10, <1>13

(* The end of the move: the new base owns the timer, which is pending.     *)
LEMMA MigrateEndStep ==
  ASSUME IInv, NEW x \in Ctx, migrate_end(x)
  PROVE  IInv'
  <1> USE DEF IInv, migrate_end, runVars
  <1> DEFINE t == arg[x]
             k == pre[x]
  <1>1. /\ pc[x] = "migrate" /\ t \in Timers /\ k \in CPUs /\ base[t] = NULL
        /\ op[x] \in {"mod", "mod_pending"}
        /\ \A y \in Ctx : Mover(y, t) => y = x
        /\ k # NULL
    BY TimerAssumption DEF CallInv, MoverInv, Mover
  <1>2. /\ pc' \in [Ctx -> {"idle", "read", "lock", "migrate", "synced"}]
        /\ op' \in [Ctx -> {"none", "mod", "mod_pending", "del", "sync"}]
        /\ arg' \in [Ctx -> Timers \cup {NULL}]
        /\ pre' \in [Ctx -> CPUs \cup {NULL}]
        /\ CallInv'
        /\ \A y \in Ctx : y # x => pc'[y] = pc[y] /\ op'[y] = op[y] /\ arg'[y] = arg[y]
        /\ pc'[x] = "idle" /\ (op'[x] # "none" => op'[x] = op[x] /\ arg'[x] = t)
    BY <1>1, ReturnTypes
  <1>3. /\ base' = [base EXCEPT ![t] = k]
        /\ wheel' = [wheel EXCEPT ![k] = @ \cup {t}]
        /\ pending' = [pending EXCEPT ![t] = TRUE]
        /\ UNCHANGED <<work, running, fn, stray>>
    BY DEF Insert
  <1>4. \A l \in CPUs : ~OnList(t, l) /\ (stray[t] = "no" => running[l] # t) /\ l # NULL
    BY <1>1, TimerAssumption DEF ListInv, RunInv, TypeOK
  <1> HIDE DEF t, k
  <1>5. TypeOK'
    BY <1>1, <1>2, <1>3 DEF TypeOK
  <1>6. MoverInv'
    <2>1. \A y \in Ctx : \A u \in Timers : Mover(y, u)' <=> Mover(y, u) /\ u # t
      BY <1>1, <1>2 DEF Mover, t
    <2>2. QED
      BY <1>1, <1>3, <2>1 DEF MoverInv, TypeOK
  <1>7. ListInv'
    <2>1. \A l \in CPUs : \A u \in Timers :
            OnList(u, l)' <=> OnList(u, l) \/ (u = t /\ l = k)
      BY <1>1, <1>3 DEF OnList, TypeOK
    <2>2. \A l \in CPUs : LinkedOnce(work'[l]) /\ \A u \in wheel'[l] : u \notin Entries(work'[l])
      BY <1>1, <1>3, <1>4 DEF ListInv, OnList, TypeOK
    <2>3. QED
      BY <1>1, <1>3, <1>4, <2>1, <2>2 DEF ListInv, TypeOK
  <1>8. RunInv'
    BY <1>1, <1>3, <1>4 DEF RunInv, TypeOK
  <1>11. PendInv'
    <2>1. \A y \in Ctx : pc'[y] = "migrate" =>
            pc[y] = "migrate" /\ op'[y] = op[y] /\ arg'[y] = arg[y] /\ arg[y] \in Timers
      BY <1>1, <1>2 DEF CallInv
    <2>2. QED
      BY <1>1, <1>3, <2>1 DEF PendInv, TypeOK
  <1>9. SyncInv'
    <2>1. \A u : NotRestarted(u) => NotRestarted(u)'
      BY <1>2, <1>3 DEF NotRestarted, OwnHandler, t
    <2>2. \A u \in Timers \cup {NULL} : Silent(u) => Silent(u)'
      BY <1>1, <1>3, TimerAssumption DEF Silent, TypeOK
    <2>3. \A p \in Threads : op'[p] = "sync" => op[p] = "sync" /\ arg'[p] = arg[p]
      BY <1>2 DEF Ctx, t
    <2>4. \A p \in Threads : pc'[p] = "synced" =>
            pc[p] = "synced" /\ arg'[p] = arg[p] /\ arg[p] \in Timers \cup {NULL}
      BY <1>2 DEF Ctx, TypeOK
    <2>5. QED
      BY <2>1, <2>2, <2>3, <2>4 DEF SyncInv
  <1>10. QED
    BY <1>2, <1>5, <1>6, <1>7, <1>8, <1>9, <1>11

-----------------------------------------------------------------------------
(* What Settled() makes of stray. *)
LEMMA SettledType ==
  ASSUME TypeOK, NEW run
  PROVE  Settled(run) \in [Timers -> {"no", "handler", "other"}]
  BY DEF Settled, TypeOK

(* It forgets nothing of a timer that runs or is being deleted. *)
LEMMA SettledKeeps ==
  ASSUME NEW run, NEW t \in Timers, BeingDeleted(t) \/ \E k \in CPUs : run[k] = t
  PROVE  Settled(run)[t] = stray[t]
  BY DEF Settled

(* __run_timers() takes the first timer of its work_list, which was in its *)
(* vectors or on the list before, and runs it.                             *)
LEMMA StartStep ==
  ASSUME IInv, NEW k \in CPUs, AtLock(k),
         NEW S \in SUBSET wheel[k], NEW q \in Seq(Timers), q # <<>>, LinkedOnce(q),
         Entries(q) = Entries(work[k]) \cup S, Start(k, wheel[k] \ S, q)
  PROVE  IInv'
  <1> USE DEF IInv, Start, AtLock, callVars
  <1> DEFINE h == Head(q)
  <1>1. /\ h \in Entries(q) /\ Tail(q) \in Seq(Timers)
        /\ LinkedOnce(Tail(q)) /\ Entries(Tail(q)) = Entries(q) \ {h}
    BY HeadTail
  <1>2. /\ h \in Timers /\ OnList(h, k) /\ base[h] = k /\ pending[h] /\ k # NULL /\ h # NULL
    <2>1. h \in Timers /\ OnList(h, k)
      BY <1>1, ListEmpty DEF OnList
    <2>2. QED
      BY <2>1, TimerAssumption DEF ListInv
  <1>3. /\ running' = [running EXCEPT ![k] = h] /\ fn' = [fn EXCEPT ![k] = h]
        /\ pending' = [pending EXCEPT ![h] = FALSE]
        /\ work' = [work EXCEPT ![k] = Tail(q)]
        /\ wheel' = [wheel EXCEPT ![k] = wheel[k] \ S]
        /\ UNCHANGED <<base, pc, op, arg, pre>>
        /\ stray' = Settled(running')
    OBVIOUS
  <1> HIDE DEF h
  <1>4. TypeOK'
    <2>1. stray' \in [Timers -> {"no", "handler", "other"}]
      BY <1>3, SettledType
    <2>2. wheel' \in [CPUs -> SUBSET Timers] /\ work' \in [CPUs -> Seq(Timers)]
      BY <1>1, <1>3 DEF TypeOK
    <2>3. /\ running' \in [CPUs -> Timers \cup {NULL}] /\ fn' \in [CPUs -> Timers \cup {NULL}]
          /\ pending' \in [Timers -> BOOLEAN]
      BY <1>2, <1>3 DEF TypeOK
    <2>4. base' = base /\ pc' = pc /\ op' = op /\ arg' = arg /\ pre' = pre
      BY <1>3
    <2> HIDE DEF Start, AtLock, callVars
    <2>5. QED
      BY <2>1, <2>2, <2>3, <2>4 DEF TypeOK
  <1>5. CallInv'
    BY <1>2, <1>3 DEF CallInv, TypeOK
  <1>11. PendInv'
    BY <1>2, <1>3, TimerAssumption DEF PendInv, MoverInv, Mover, CallInv, TypeOK
  <1>6. MoverInv'
    BY <1>3 DEF MoverInv, Mover
  <1>7. ListInv'
    <2>1. \A l \in CPUs : /\ work'[l] = IF l = k THEN Tail(q) ELSE work[l]
                          /\ wheel'[l] = IF l = k THEN wheel[k] \ S ELSE wheel[l]
      BY <1>3 DEF TypeOK
    <2>2. \A u \in S : u \notin Entries(work[k])
      BY DEF ListInv
    <2>3. \A u \in Timers : OnList(u, k)' <=> OnList(u, k) /\ u # h
      <3>1. OnList(h, k)' => FALSE
        <4>1. h \notin wheel[k] \ S
          BY <1>1 DEF ListInv
        <4>2. QED
          BY <1>1, <2>1, <4>1 DEF OnList
      <3>2. \A u \in Timers : u # h => (OnList(u, k)' <=> OnList(u, k))
        BY <1>1, <2>1 DEF OnList
      <3>3. QED
        BY <3>1, <3>2
    <2>4. \A l \in CPUs : \A u \in Timers : l # k => (OnList(u, l)' <=> OnList(u, l) /\ u # h)
      BY <1>2, <2>1 DEF OnList, ListInv
    <2>5. \A l \in CPUs : LinkedOnce(work'[l])
      BY <1>1, <2>1 DEF ListInv
    <2>6. \A l \in CPUs : \A u \in wheel'[l] : u \notin Entries(work'[l])
      <3>1. \A u \in wheel[k] \ S : u \notin Entries(Tail(q))
        BY <1>1 DEF ListInv
      <3>2. QED
        BY <2>1, <3>1 DEF ListInv
    <2>7. \A l \in CPUs : \A u \in Timers : OnList(u, l)' => base'[u] = l /\ pending'[u]
      BY <1>2, <1>3, <2>3, <2>4 DEF ListInv, TypeOK
    <2>8. \A u \in Timers : pending'[u] /\ base'[u] # NULL => OnList(u, base[u])'
      <3>1. \A l \in CPUs : \A u \in Timers : OnList(u, l) /\ u # h => OnList(u, l)'
        BY <2>3, <2>4
      <3>2. \A u \in Timers : pending'[u] => pending[u] /\ u # h
        BY <1>2, <1>3 DEF TypeOK
      <3>3. \A u \in Timers : base[u] # NULL => base[u] \in CPUs
        BY DEF TypeOK
      <3>4. \A u \in Timers : pending[u] /\ base[u] # NULL => OnList(u, base[u])
        BY DEF ListInv
      <3>5. ASSUME NEW u \in Timers, pending'[u], base'[u] # NULL
            PROVE  OnList(u, base[u])'
        <4>1. base'[u] = base[u] /\ base[u] \in CPUs /\ OnList(u, base[u]) /\ u # h
          BY <1>3, <3>2, <3>3, <3>4, <3>5
        <4>2. (OnList(u, base[u]))' <=> u \in wheel'[base[u]] \/ u \in Entries(work'[base[u]])
          BY <1>3 DEF OnList
        <4>3. QED
          BY <3>1, <4>1, <4>2 DEF OnList
      <3>6. QED
        BY <3>5
    <2>9. QED
      BY <2>5, <2>6, <2>7, <2>8 DEF ListInv
  <1>8. RunInv'
    <2>1. \A l \in CPUs : running'[l] = IF l = k THEN h ELSE running[l]
      BY <1>3 DEF TypeOK
    <2>2. ASSUME NEW l \in CPUs, running'[l] # NULL
          PROVE  running'[l] \in Timers /\ stray'[running'[l]] = stray[running'[l]]
      <3>1. running'[l] \in Timers
        BY <1>2, <2>1, <2>2 DEF TypeOK
      <3>2. \E m \in CPUs : running'[m] = running'[l]
        OBVIOUS
      <3>3. Settled(running')[running'[l]] = stray[running'[l]]
        BY <3>1, <3>2, SettledKeeps
      <3>4. QED
        BY <1>3, <3>1, <3>3
    <2>3. ASSUME NEW l \in CPUs
          PROVE  /\ running'[l] # NULL /\ stray'[running'[l]] = "no" => base'[running'[l]] = l
                 /\ fn'[l] # NULL => fn'[l] = running'[l]
      <3>1. CASE l = k
        BY <1>2, <1>3, <2>1, <2>2, <3>1 DEF TypeOK
      <3>2. CASE l # k
        <4>1. running'[l] = running[l] /\ fn'[l] = fn[l]
          BY <1>3, <3>2 DEF TypeOK
        <4>2. QED
          BY <1>3, <2>2, <4>1 DEF RunInv
      <3>3. QED
        BY <3>1, <3>2
    <2>4. QED
      BY <2>3 DEF RunInv
  <1>9. SyncInv'
    <2>1. \A u : NotRestarted(u) => NotRestarted(u)'
      <3>1. k \in Ctx /\ op[k] = "none"
        BY DEF CallInv, Ctx
      <3>2. QED
        BY <1>3, <3>1 DEF NotRestarted, OwnHandler, TypeOK
    <2>2. \A u \in Timers : Silent(u) /\ BeingDeleted(u) => Silent(u)'
      <3>1. \A u \in Timers : BeingDeleted(u) => stray'[u] = stray[u]
        BY <1>3, SettledKeeps
      <3>2. ASSUME NEW u \in Timers, Silent(u), BeingDeleted(u)
            PROVE  Silent(u)'
        <4>1. stray'[u] = stray[u]
          BY <3>1, <3>2
        <4>2. CASE stray[u] # "no"
          BY <4>1, <4>2 DEF Silent
        <4>3. CASE stray[u] = "no"
          <5>1. ~pending[u] /\ base[u] # NULL /\ \A l \in CPUs : running[l] # u
            BY <3>2, <4>3 DEF Silent
          <5>2. u # h
            BY <1>2, <5>1
          <5>3. ~pending'[u] /\ base'[u] # NULL /\ \A l \in CPUs : running'[l] # u
            BY <1>3, <5>1, <5>2 DEF TypeOK
          <5>4. QED
            BY <5>3 DEF Silent
        <4>4. QED
          BY <4>2, <4>3
      <3>3. QED
        BY <3>2
    <2>3. \A p \in Threads : pc[p] = "synced" => arg[p] \in Timers /\ BeingDeleted(arg[p])
      BY DEF CallInv, Ctx, BeingDeleted
    <2>4. QED
      BY <1>3, <2>1, <2>2, <2>3 DEF SyncInv
  <1>10. QED
    BY <1>4, <1>5, <1>6, <1>7, <1>8, <1>9, <1>11

(* The steps of the softirq of one CPU. *)
LEMMA SoftirqStep ==
  ASSUME IInv, NEW k \in CPUs, Softirq(k)
  PROVE  IInv'
  <1> USE DEF IInv
  <1>1. CASE expire_slot(k)
    <2>1. PICK S \in (SUBSET wheel[k]) \ {{}} : \E q \in SetToSeqs(S) : Start(k, wheel[k] \ S, q)
      BY <1>1 DEF expire_slot
    <2>2. PICK q \in SetToSeqs(S) : Start(k, wheel[k] \ S, q)
      BY <2>1
    <2>3. S \subseteq Timers /\ IsFiniteSet(S)
      BY TimerAssumption, FS_Subset DEF TypeOK
    <2>4. q \in Seq(S) /\ q # <<>> /\ LinkedOnce(q) /\ Entries(q) = S
      BY <2>3, SlotList
    <2>5. q \in Seq(Timers)
      BY <2>3, <2>4
    <2>6. AtLock(k) /\ Entries(work[k]) = {}
      BY <1>1 DEF expire_slot, Entries
    <2>7. QED
      BY <2>2, <2>4, <2>5, <2>6, StartStep
  <1>2. CASE expire_next(k)
    <2>1. Start(k, wheel[k] \ {}, work[k]) /\ AtLock(k) /\ work[k] # <<>>
      BY <1>2 DEF expire_next
    <2>2. work[k] \in Seq(Timers) /\ LinkedOnce(work[k])
      BY DEF TypeOK, ListInv
    <2>3. QED
      BY <2>1, <2>2, StartStep
  <1>3. CASE fn_returns(k)
    <2> USE <1>3 DEF fn_returns, timerVars, callVars
    <2>1. TypeOK' /\ MoverInv' /\ ListInv' /\ PendInv' /\ RunInv'
      BY DEF TypeOK, MoverInv, Mover, ListInv, OnList, PendInv, RunInv
    <2>2. CallInv'
      BY DEF CallInv, TypeOK
    <2>3. SyncInv'
      <3>1. k \in Ctx /\ op[k] = "none"
        BY DEF CallInv, Ctx
      <3>2. \A u : NotRestarted(u) => NotRestarted(u)'
        BY <3>1 DEF NotRestarted, OwnHandler, TypeOK
      <3>3. \A u : Silent(u) => Silent(u)'
        BY DEF Silent
      <3>4. QED
        BY <3>2, <3>3 DEF SyncInv
    <2>4. QED
      BY <2>1, <2>2, <2>3
  <1>4. CASE run_timers_ends(k)
    <2> USE <1>4 DEF run_timers_ends, timerVars, callVars, AtLock
    <2>1. MoverInv' /\ ListInv' /\ CallInv' /\ PendInv'
      BY DEF MoverInv, Mover, ListInv, OnList, CallInv, PendInv
    <2>4. stray' = Settled(running') /\ stray' \in [Timers -> {"no", "handler", "other"}]
      BY SettledType
    <2>5. TypeOK'
      BY <2>4 DEF TypeOK
    <2>6. RunInv'
      <3>1. \A l \in CPUs : running'[l] = IF l = k THEN NULL ELSE running[l]
        BY DEF TypeOK
      <3>2. ASSUME NEW l \in CPUs, running'[l] # NULL
            PROVE  /\ running'[l] = running[l] /\ running[l] \in Timers
                   /\ stray'[running[l]] = stray[running[l]]
        <4>1. running'[l] = running[l] /\ running[l] \in Timers
          BY <3>1, <3>2 DEF TypeOK
        <4>2. \E m \in CPUs : running'[m] = running[l]
          BY <4>1
        <4>3. Settled(running')[running[l]] = stray[running[l]]
          BY <4>1, <4>2, SettledKeeps
        <4>4. QED
          BY <2>4, <4>1, <4>3
      <3>3. ASSUME NEW l \in CPUs
            PROVE  /\ running'[l] # NULL /\ stray'[running'[l]] = "no" => base'[running'[l]] = l
                   /\ fn'[l] # NULL => fn'[l] = running'[l]
        <4>1. fn' = fn /\ base' = base /\ fn[k] = NULL
          OBVIOUS
        <4>2. l # k => running'[l] = running[l]
          BY <3>1
        <4>3. fn'[l] # NULL => fn'[l] = running'[l]
          BY <4>1, <4>2 DEF RunInv
        <4>4. QED
          BY <3>2, <4>1, <4>3 DEF RunInv
      <3>4. QED
        BY <3>3 DEF RunInv
    <2>2. SyncInv'
      <3>1. \A u : NotRestarted(u) => NotRestarted(u)'
        BY DEF NotRestarted, OwnHandler
      <3>2. \A u \in Timers : Silent(u) /\ BeingDeleted(u) => Silent(u)'
        <4>1. \A u \in Timers : BeingDeleted(u) => stray'[u] = stray[u]
          BY <2>4, SettledKeeps
        <4>2. QED
          BY <4>1, TimerAssumption DEF Silent, TypeOK
      <3>3. \A p \in Threads : pc[p] = "synced" => arg[p] \in Timers /\ BeingDeleted(arg[p])
        BY DEF CallInv, Ctx, BeingDeleted
      <3>4. QED
        BY <3>1, <3>2, <3>3 DEF SyncInv
    <2>3. QED
      BY <2>1, <2>2, <2>5, <2>6
  <1>5. QED
    BY <1>1, <1>2, <1>3, <1>4 DEF Softirq

-----------------------------------------------------------------------------
(* Timers fresh from init_timer(), and nobody doing anything. *)
LEMMA InitIInv == Init => IInv
  <1> SUFFICES ASSUME Init PROVE IInv
    OBVIOUS
  <1> USE DEF Init
  <1>1. TypeOK
    BY DEF TypeOK
  <1>2. CallInv /\ PendInv /\ RunInv /\ SyncInv
    BY DEF CallInv, PendInv, RunInv, SyncInv, Ctx
  <1>3. MoverInv
    BY TimerAssumption DEF MoverInv, Mover
  <1>4. ListInv
    BY DEF ListInv, OnList, Entries, LinkedOnce
  <1>5. QED
    BY <1>1, <1>2, <1>3, <1>4 DEF IInv

(* Every step preserves the invariant. *)
LEMMA NextIInv == IInv /\ [Next]_vars => IInv'
  <1> SUFFICES ASSUME IInv, [Next]_vars PROVE IInv'
    OBVIOUS
  <1>1. ASSUME NEW x \in Ctx, NEW t \in Timers, Calls(x, t)
        PROVE  IInv'
    <2>1. ASSUME NEW k \in CPUs, add_timer_on(x, t, k)
          PROVE  IInv'
      BY <2>1, AddOnStep
    <2>2. CASE mod_timer(x, t)
      BY <2>2, CallStep DEF mod_timer
    <2>3. CASE mod_timer_pending(x, t) \/ del_timer(x, t)
      BY <2>3, CallStep DEF mod_timer_pending, del_timer
    <2>4. CASE del_timer_sync(x, t)
      BY <2>4, CallStep DEF del_timer_sync
    <2>5. QED
      BY <1>1, <2>1, <2>2, <2>3, <2>4 DEF Calls
  <1>2. ASSUME NEW x \in Ctx, Steps(x)
        PROVE  IInv'
    <2>1. CASE lock_timer_base(x) \/ lock_again(x) \/ mod_nothing(x) \/ synced_ends(x)
      BY <2>1, QuietStep DEF lock_timer_base, lock_again, mod_nothing, synced_ends, Locked
    <2>2. CASE del_timer_locked(x)
      BY <2>2, DetachStep DEF del_timer_locked
    <2>3. CASE try_to_del_timer_sync(x)
      <3>1. CASE /\ Locked(x, "sync") /\ Return(x, "read") /\ UNCHANGED <<timerVars, runVars, stray>>
        BY <3>1, QuietStep DEF Locked
      <3>2. CASE /\ Locked(x, "sync") /\ running[pre[x]] # arg[x]
                 /\ Detach(x) /\ Return(x, "synced")
        BY <3>2, DetachStep
      <3>3. QED
        BY <2>3, <3>1, <3>2 DEF try_to_del_timer_sync
    <2>4. CASE migrate_end(x)
      BY <2>4, MigrateEndStep
    <2>5. ASSUME NEW n \in CPUs, __mod_timer(x, n)
          PROVE  IInv'
      <3>1. PICK o \in {"mod", "mod_pending"} :
              Locked(x, o) /\ (o = "mod_pending" => pending[arg[x]])
        BY <2>5 DEF __mod_timer
      <3>2. CASE Migrates(arg[x], pre[x], n)
        BY <2>5, <3>1, <3>2, ModMovesStep DEF __mod_timer
      <3>3. CASE ~Migrates(arg[x], pre[x], n)
        BY <2>5, <3>1, <3>3, ModStaysStep DEF __mod_timer
      <3>4. QED
        BY <3>2, <3>3
    <2>6. QED
      BY <1>2, <2>1, <2>2, <2>3, <2>4, <2>5 DEF Steps
  <1>3. ASSUME NEW k \in CPUs, Softirq(k)
        PROVE  IInv'
    BY <1>3, SoftirqStep
  <1>4. CASE UNCHANGED vars
    BY <1>4 DEF vars, timerVars, runVars, callVars, IInv, TypeOK, CallInv, MoverInv, Mover,
       ListInv, OnList, PendInv, RunInv, SyncInv, NotRestarted, OwnHandler, Silent
  <1>5. QED
    BY <1>1, <1>2, <1>3, <1>4 DEF Next

(* The inductive invariant holds in every reachable state. *)
THEOREM Invariance == Spec => []IInv
  BY InitIInv, NextIInv, PTL DEF Spec

(* When del_timer_sync() is through, the timer is not pending and its      *)
(* handler runs on no CPU, although the handler may have restarted it and  *)
(* other callers may have moved it while the deletion went on.  That is    *)
(* so unless add_timer_on() took the timer from under a running handler.   *)
THEOREM SyncIsQuiet == Spec => []SyncMeansQuiet
  <1>1. IInv => SyncMeansQuiet
    <2> SUFFICES ASSUME IInv, NEW p \in Threads, pc[p] = "synced", stray[arg[p]] = "no"
                 PROVE  ~pending[arg[p]] /\ \A k \in CPUs : fn[k] # arg[p]
      BY DEF SyncMeansQuiet, Quiet
    <2>1. Silent(arg[p]) /\ arg[p] \in Timers
      BY DEF IInv, SyncInv, CallInv, Ctx
    <2>2. QED
      BY <2>1, TimerAssumption DEF IInv, Silent, RunInv
  <1>2. QED
    BY Invariance, <1>1, PTL

(* The handler of one timer never runs on two CPUs at once: mod_timer()    *)
(* leaves a timer on the base that is running it, and only add_timer_on()  *)
(* does not.                                                               *)
THEOREM HandlerSerialized == Spec => []SelfSerialized
  <1>1. IInv => SelfSerialized
    BY DEF IInv, SelfSerialized, RunInv
  <1>2. QED
    BY Invariance, <1>1, PTL

(* Where a timer is listed, as the invariant has it. *)
LEMMA ListedPlaces ==
  ASSUME IInv, NEW t \in Timers
  PROVE  /\ \A e \in Listed(t) : e[1] = base[t] /\ base[t] \in CPUs /\ pending[t]
         /\ pending[t] /\ base[t] # NULL => \E i : Listed(t) = {<<base[t], i>>}
  <1> USE DEF IInv
  <1>1. \A k \in CPUs : \A i : i \in Places(t, k) =>
          base[t] = k /\ pending[t] /\ base[t] \in CPUs
    BY DEF Places, ListInv, OnList, Entries
  <1>2. \A e : e \in Listed(t) <=> \E k \in CPUs : \E i \in Places(t, k) : e = <<k, i>>
    BY DEF Listed
  <1>3. ASSUME pending[t], base[t] # NULL
        PROVE  \E i : Listed(t) = {<<base[t], i>>}
    <2> DEFINE k == base[t]
    <2>1. k \in CPUs /\ OnList(t, k)
      BY <1>3 DEF TypeOK, ListInv
    <2>2. \E i : Places(t, k) = {i}
      <3>1. CASE t \in wheel[k]
        <4>1. t \notin Entries(work[k])
          BY <2>1, <3>1 DEF ListInv
        <4>2. Places(t, k) = {0}
          BY <3>1, <4>1 DEF Places, Entries
        <4>3. QED
          BY <4>2
      <3>2. CASE t \notin wheel[k]
        <4>1. PICK i \in 1..Len(work[k]) : work[k][i] = t
          BY <2>1, <3>2 DEF OnList, Entries
        <4>2. \A j \in 1..Len(work[k]) : work[k][j] = t => j = i
          BY <2>1, <4>1 DEF ListInv, LinkedOnce
        <4>3. Places(t, k) = {i}
          BY <3>2, <4>1, <4>2 DEF Places
        <4>4. QED
          BY <4>3
      <3>3. QED
        BY <3>1, <3>2
    <2>3. PICK i : Places(t, k) = {i}
      BY <2>2
    <2>4. \A l \in CPUs : l # k => Places(t, l) = {}
      BY <1>1
    <2> HIDE DEF k
    <2>5. Listed(t) = {<<k, i>>}
      BY <1>2, <2>1, <2>3, <2>4
    <2>6. QED
      BY <2>5 DEF k
  <1>4. ASSUME NEW e \in Listed(t)
        PROVE  e[1] = base[t] /\ base[t] \in CPUs /\ pending[t]
    <2>1. PICK k \in CPUs : \E i \in Places(t, k) : e = <<k, i>>
      BY <1>2
    <2>2. PICK i \in Places(t, k) : e = <<k, i>>
      BY <2>1
    <2>3. base[t] = k /\ pending[t] /\ base[t] \in CPUs
      BY <1>1
    <2>4. QED
      BY <2>2, <2>3
  <1>5. QED
    BY <1>3, <1>4

(* Owning a timer is holding the lock of its base, or being the one caller *)
(* that moves it: for any number of CPUs and callers, a timer is on at     *)
(* most one list, that list belongs to its base, and it has no base        *)
(* exactly while one caller moves it.                                      *)
THEOREM BaseOwns == Spec => []BaseOwnsTimer
  <1>1. IInv => BaseOwnsTimer
    <2> SUFFICES ASSUME IInv, NEW t \in Timers
                 PROVE  /\ Cardinality(Movers(t)) = (IF base[t] = NULL THEN 1 ELSE 0)
                        /\ Cardinality(Listed(t)) = (IF pending[t] /\ base[t] # NULL THEN 1 ELSE 0)
                        /\ \A e \in Listed(t) : e[1] = base[t]
      BY DEF BaseOwnsTimer
    <2>0. \A x : Cardinality({x}) = 1
      BY FS_Singleton
    <2>1. Cardinality(Movers(t)) = (IF base[t] = NULL THEN 1 ELSE 0)
      <3>1. CASE base[t] # NULL
        <4>1. Movers(t) = {}
          BY <3>1 DEF IInv, MoverInv, Mover, Movers
        <4>2. QED
          BY <3>1, <4>1, FS_EmptySet
      <3>2. CASE base[t] = NULL
        <4>1. PICK x \in Ctx : Mover(x, t)
          BY <3>2 DEF IInv, MoverInv
        <4>2. Movers(t) = {x}
          BY <4>1 DEF IInv, MoverInv, Mover, Movers
        <4>3. QED
          BY <2>0, <3>2, <4>2
      <3>3. QED
        BY <3>1, <3>2
    <2>2. Cardinality(Listed(t)) = (IF pending[t] /\ base[t] # NULL THEN 1 ELSE 0)
      <3>1. CASE pending[t] /\ base[t] # NULL
        BY <2>0, <3>1, ListedPlaces
      <3>2. CASE ~(pending[t] /\ base[t] # NULL)
        <4>1. Listed(t) = {}
          BY <3>2, ListedPlaces, TimerAssumption
        <4>2. QED
          BY <3>2, <4>1, FS_EmptySet
      <3>3. QED
        BY <3>1, <3>2
    <2>3. QED
      BY <2>1, <2>2, ListedPlaces
  <1>2. QED
    BY Invariance, <1>1, PTL

(* Every variable keeps its type. *)
THEOREM TypeCorrect == Spec => []TypeOK
  <1>1. IInv => TypeOK
    BY DEF IInv
  <1>2. QED
    BY Invariance, <1>1, PTL

=============================================================================
