------------------------------- MODULE Timer -------------------------------
(***************************************************************************)
(* Kernel timers on several CPUs, kernel/timer.c: mod_timer() moves a      *)
(* timer to the base of another CPU, __run_timers() drops the lock of the  *)
(* base while a handler runs, and del_timer_sync() has to find out from    *)
(* outside that no handler is running.                                     *)
(*                                                                         *)
(* timer->base is the only lock of a timer: whoever holds the lock of that *)
(* base owns the timer, and a base of NULL means that somebody is moving   *)
(* it.  The code reads timer->base and timer_pending() without the lock,   *)
(* and looks again after it has taken it.  Everything that is done between *)
(* taking and dropping a base lock is one step here; when the timers of a  *)
(* base expire is the subject of module TimerWheel, and is a free choice   *)
(* in this one.                                                            *)
(***************************************************************************)
EXTENDS Integers, FiniteSets, SequencesExt, KList

CONSTANTS
  CPUs,        \* each stands for its base and for its timer softirq
  Threads,     \* callers in process context
  Timers,
  NULL

ASSUME TimerAssumption ==
  /\ IsFiniteSet(CPUs) /\ IsFiniteSet(Threads) /\ IsFiniteSet(Timers)
  /\ CPUs \cap Threads = {} /\ NULL \notin CPUs \cup Timers

Ctx == CPUs \cup Threads

VARIABLES
  base,      \* timer->base
  pending,   \* timer_pending(): timer->entry.next is not NULL
  wheel,     \* the timers in the vectors of each base
  work,      \* the work_list of __run_timers(), on each CPU
  running,   \* base->running_timer
  fn,        \* the timer whose handler is executing on each CPU
  pc, op,    \* where a caller is, and in which call
  arg,       \* the timer of the call
  pre,       \* prelock_base of lock_timer_base(); later, the new base
  stray      \* history: has add_timer_on() taken a timer away from a base
             \* that was running it, and was it the handler that called?

timerVars == <<base, pending, wheel, work>>
runVars == <<running, fn>>
callVars == <<pc, op, arg, pre>>
vars == <<timerVars, runVars, callVars, stray>>

TypeOK ==
  /\ base \in [Timers -> CPUs \cup {NULL}]
  /\ pending \in [Timers -> BOOLEAN]
  /\ wheel \in [CPUs -> SUBSET Timers]
  /\ work \in [CPUs -> Seq(Timers)]
  /\ running \in [CPUs -> Timers \cup {NULL}]
  /\ fn \in [CPUs -> Timers \cup {NULL}]
  /\ pc \in [Ctx -> {"idle", "read", "lock", "migrate", "synced"}]
  /\ op \in [Ctx -> {"none", "mod", "mod_pending", "del", "sync"}]
  /\ arg \in [Ctx -> Timers \cup {NULL}]
  /\ pre \in [Ctx -> CPUs \cup {NULL}]
  /\ stray \in [Timers -> {"no", "handler", "other"}]

(* init_timer() has run on some CPU for every timer. *)
Init ==
  /\ base \in [Timers -> CPUs]
  /\ pending = [t \in Timers |-> FALSE]
  /\ wheel = [k \in CPUs |-> {}]
  /\ work = [k \in CPUs |-> <<>>]
  /\ running = [k \in CPUs |-> NULL]
  /\ fn = [k \in CPUs |-> NULL]
  /\ pc = [x \in Ctx |-> "idle"]
  /\ op = [x \in Ctx |-> "none"]
  /\ arg = [x \in Ctx |-> NULL]
  /\ pre = [x \in Ctx |-> NULL]
  /\ stray = [t \in Timers |-> "no"]

-----------------------------------------------------------------------------
(* A work_list without the entry of t, if it is on it. *)
Without(t, q) == IF t \in Entries(q) THEN list_del(t, q) ELSE q

(* list_del() of the entry of t, which is in the vectors or on the         *)
(* work_list of base k.                                                    *)
Unlink(t, k) ==
  /\ wheel' = [wheel EXCEPT ![k] = @ \ {t}]
  /\ work' = [work EXCEPT ![k] = Without(t, @)]

(* internal_add_timer() on base k, from the lists w. *)
Insert(w, t, k) == [w EXCEPT ![k] = @ \cup {t}]

Return(x, where) ==
  /\ pc' = [pc EXCEPT ![x] = where]
  /\ pre' = [pre EXCEPT ![x] = NULL]
  /\ IF where = "idle"
       THEN op' = [op EXCEPT ![x] = "none"] /\ arg' = [arg EXCEPT ![x] = NULL]
       ELSE UNCHANGED <<op, arg>>

-----------------------------------------------------------------------------
(* Who may call.  A thread calls at any time, a CPU from the handler that  *)
(* it is executing.                                                        *)
MayCall(x) == pc[x] = "idle" /\ (x \in CPUs => fn[x] # NULL)

OwnHandler(x, t) == x \in CPUs /\ fn[x] = t

(* del_timer_sync() is meaningless unless its callers prevent the timer    *)
(* from being restarted; its own handler may restart it all the same.      *)
BeingDeleted(t) == \E p \in Threads : op[p] = "sync" /\ arg[p] = t

BeingStarted(t) == \E x \in Ctx : op[x] = "mod" /\ arg[x] = t /\ ~OwnHandler(x, t)

Call(x, o, t) ==
  /\ MayCall(x)
  /\ pc' = [pc EXCEPT ![x] = "read"]
  /\ op' = [op EXCEPT ![x] = o]
  /\ arg' = [arg EXCEPT ![x] = t]
  /\ UNCHANGED <<timerVars, runVars, pre, stray>>

mod_timer(x, t) == (BeingDeleted(t) => OwnHandler(x, t)) /\ Call(x, "mod", t)

mod_timer_pending(x, t) == Call(x, "mod_pending", t)

(* del_timer() returns at once if the timer is not pending. *)
del_timer(x, t) == pending[t] /\ Call(x, "del", t)

del_timer_sync(p, t) ==
  /\ ~BeingDeleted(t) /\ ~BeingStarted(t)
  /\ Call(p, "sync", t)

(* What add_timer_on() of t on base k makes of stray[t]. *)
Strays(x, t, k) ==
  IF \A l \in CPUs \ {k} : running[l] # t THEN stray[t]
  ELSE IF OwnHandler(x, t) \/ stray[t] = "handler" THEN "handler"
  ELSE "other"

(* add_timer_on(), for a timer that is not pending.  It does not ask       *)
(* whether the timer is running on another base.  The callers may not      *)
(* start one timer twice at the same time, nor while it is being deleted.  *)
add_timer_on(x, t, k) ==
  /\ MayCall(x) /\ ~pending[t]
  /\ \A y \in Ctx : op[y] = "mod" => arg[y] # t
  /\ ~BeingDeleted(t)
  /\ base' = [base EXCEPT ![t] = k]
  /\ wheel' = Insert(wheel, t, k)
  /\ pending' = [pending EXCEPT ![t] = TRUE]
  /\ stray' = [stray EXCEPT ![t] = Strays(x, t, k)]
  /\ UNCHANGED <<work, runVars, callVars>>

-----------------------------------------------------------------------------
(* lock_timer_base(): read the base, lock it, and start again if the timer *)
(* has moved away in between or is being moved.                            *)
lock_timer_base(x) ==
  /\ pc[x] = "read" /\ base[arg[x]] # NULL
  /\ pre' = [pre EXCEPT ![x] = base[arg[x]]]
  /\ pc' = [pc EXCEPT ![x] = "lock"]
  /\ UNCHANGED <<timerVars, runVars, op, arg, stray>>

Moved_MutNever(x) == FALSE          \* does not look again

Moved(x) == pre[x] # base[arg[x]]

lock_again(x) ==
  /\ pc[x] = "lock" /\ Moved(x)
  /\ pc' = [pc EXCEPT ![x] = "read"]
  /\ pre' = [pre EXCEPT ![x] = NULL]
  /\ UNCHANGED <<timerVars, runVars, op, arg, stray>>

(* The call owns the timer, by the lock of base pre[x]. *)
Locked(x, o) == pc[x] = "lock" /\ ~Moved(x) /\ op[x] = o

(* May __mod_timer() take the timer away from base k? *)
Migrates_MutRunning(t, k, n) == n # k   \* even if its handler is running there

Migrates(t, k, n) == n # k /\ running[k] # t

(* __mod_timer(): the timer leaves its list, and goes to the base n of     *)
(* this CPU or of another that is not idle.  To change the base it drops   *)
(* one lock and takes the other, with timer->base NULL in between and the  *)
(* timer still pending if it was.                                          *)
__mod_timer(x, n) ==
  LET t == arg[x] k == pre[x] IN
  /\ Locked(x, "mod") \/ (Locked(x, "mod_pending") /\ pending[t])
  /\ \/ /\ Migrates(t, k, n)
        /\ Unlink(t, k)
        /\ base' = [base EXCEPT ![t] = NULL]
        /\ pc' = [pc EXCEPT ![x] = "migrate"]
        /\ pre' = [pre EXCEPT ![x] = n]
        /\ UNCHANGED <<pending, op, arg>>
     \/ /\ ~Migrates(t, k, n)
        /\ work' = [work EXCEPT ![k] = Without(t, @)]
        /\ wheel' = Insert(wheel, t, k)
        /\ pending' = [pending EXCEPT ![t] = TRUE]
        /\ Return(x, "idle")
        /\ UNCHANGED base
  /\ UNCHANGED <<runVars, stray>>

(* With the lock of the new base. *)
migrate_end(x) ==
  /\ pc[x] = "migrate"
  /\ base' = [base EXCEPT ![arg[x]] = pre[x]]
  /\ wheel' = Insert(wheel, arg[x], pre[x])
  /\ pending' = [pending EXCEPT ![arg[x]] = TRUE]
  /\ Return(x, "idle")
  /\ UNCHANGED <<work, runVars, stray>>

(* mod_timer_pending() does not start an inactive timer. *)
mod_nothing(x) ==
  /\ Locked(x, "mod_pending") /\ ~pending[arg[x]]
  /\ Return(x, "idle")
  /\ UNCHANGED <<timerVars, runVars, stray>>

Detach(x) ==
  /\ IF pending[arg[x]] THEN Unlink(arg[x], pre[x]) ELSE UNCHANGED <<wheel, work>>
  /\ pending' = [pending EXCEPT ![arg[x]] = FALSE]
  /\ UNCHANGED <<base, runVars, stray>>

del_timer_locked(x) == Locked(x, "del") /\ Detach(x) /\ Return(x, "idle")

(* try_to_del_timer_sync(), called until it is not refused. *)
try_to_del_timer_sync_MutPlain(x) ==    \* as del_timer() on a uniprocessor
  Locked(x, "sync") /\ Detach(x) /\ Return(x, "synced")

try_to_del_timer_sync(x) ==
  /\ Locked(x, "sync")
  /\ \/ /\ running[pre[x]] = arg[x]
        /\ Return(x, "read")
        /\ UNCHANGED <<timerVars, runVars, stray>>
     \/ /\ running[pre[x]] # arg[x]
        /\ Detach(x) /\ Return(x, "synced")

(* The caller goes on, and may start the timer again. *)
synced_ends(x) ==
  pc[x] = "synced" /\ Return(x, "idle") /\ UNCHANGED <<timerVars, runVars, stray>>

-----------------------------------------------------------------------------
(* A timer that runs nowhere and is not being deleted has no stray handler *)
(* any more, nor what one may have left behind.                            *)
Settled(run) ==
  [t \in Timers |->
     IF BeingDeleted(t) \/ \E k \in CPUs : run[k] = t THEN stray[t] ELSE "no"]

(* __run_timers().  Under the lock of its base it takes the timers of one  *)
(* slot to its work_list, in the order in which they were added; it takes  *)
(* the first one off the list, notes it as the running timer and drops     *)
(* the lock.                                                               *)
Start(k, w, q) ==
  /\ running' = [running EXCEPT ![k] = Head(q)]
  /\ stray' = Settled(running')
  /\ fn' = [fn EXCEPT ![k] = Head(q)]
  /\ pending' = [pending EXCEPT ![Head(q)] = FALSE]
  /\ work' = [work EXCEPT ![k] = Tail(q)]
  /\ wheel' = [wheel EXCEPT ![k] = w]
  /\ UNCHANGED <<base, callVars>>

AtLock(k) == pc[k] = "idle" /\ fn[k] = NULL

expire_slot(k) ==
  /\ AtLock(k) /\ work[k] = <<>>
  /\ \E S \in (SUBSET wheel[k]) \ {{}} : \E q \in SetToSeqs(S) : Start(k, wheel[k] \ S, q)

expire_next(k) == AtLock(k) /\ work[k] # <<>> /\ Start(k, wheel[k], work[k])

fn_returns(k) ==
  /\ pc[k] = "idle" /\ fn[k] # NULL
  /\ fn' = [fn EXCEPT ![k] = NULL]
  /\ UNCHANGED <<timerVars, running, callVars, stray>>

run_timers_ends(k) ==
  /\ AtLock(k) /\ running[k] # NULL /\ work[k] = <<>>
  /\ running' = [running EXCEPT ![k] = NULL]
  /\ stray' = Settled(running')
  /\ UNCHANGED <<timerVars, fn, callVars>>

-----------------------------------------------------------------------------
Calls(x, t) ==
  \/ mod_timer(x, t) \/ mod_timer_pending(x, t) \/ del_timer(x, t)
  \/ x \in Threads /\ del_timer_sync(x, t)
  \/ \E k \in CPUs : add_timer_on(x, t, k)

Steps(x) ==
  \/ lock_timer_base(x) \/ lock_again(x) \/ mod_nothing(x) \/ del_timer_locked(x)
  \/ try_to_del_timer_sync(x) \/ synced_ends(x) \/ migrate_end(x)
  \/ \E n \in CPUs : __mod_timer(x, n)

Softirq(k) == expire_slot(k) \/ expire_next(k) \/ fn_returns(k) \/ run_timers_ends(k)

Next ==
  \/ \E x \in Ctx : Steps(x) \/ \E t \in Timers : Calls(x, t)
  \/ \E k \in CPUs : Softirq(k)

Spec == Init /\ [][Next]_vars

-----------------------------------------------------------------------------
Quiet(t) == ~pending[t] /\ \A k \in CPUs : fn[k] # t

(* When del_timer_sync() returns, the timer is not queued and its handler  *)
(* is not running on any CPU, even if the handler restarted its timer, if  *)
(* another caller was moving it to another base, or if it sat on the       *)
(* work_list of a CPU.  The exception is a timer that add_timer_on() has   *)
(* taken away from under its handler.                                      *)
SyncMeansQuiet ==
  \A p \in Threads : pc[p] = "synced" /\ stray[arg[p]] = "no" => Quiet(arg[p])

(* "Upon exit the timer is not queued and the handler is not running on    *)
(* any CPU", as the comment above del_timer_sync() has it, for callers     *)
(* that keep its rules: the timer is not restarted meanwhile, and its      *)
(* handler has not called add_timer_on().  This does NOT hold, as somebody *)
(* else may have called add_timer_on() while the handler was running.      *)
SyncPromise ==
  \A p \in Threads : pc[p] = "synced" /\ stray[arg[p]] # "handler" => Quiet(arg[p])

(* "the timer is serialized wrt itself": a timer that is restarted while   *)
(* its handler runs never runs on a second CPU at the same time, unless    *)
(* add_timer_on() restarted it there.                                      *)
SelfSerialized ==
  \A k, l \in CPUs : fn[k] = fn[l] /\ fn[k] # NULL /\ stray[fn[k]] = "no" => k = l

(* Holding the lock of timer->base is owning the timer.  A timer with a    *)
(* base is pending exactly when it is on one list of that base, and on no  *)
(* list of another; a timer without one is on no list, and exactly one     *)
(* caller is about to give it a base.                                      *)
Places(t, k) ==
  {i \in 1..Len(work[k]) : work[k][i] = t} \cup {i \in {0} : t \in wheel[k]}

Listed(t) == UNION {{k} \X Places(t, k) : k \in CPUs}

Movers(t) == {x \in Ctx : pc[x] = "migrate" /\ arg[x] = t}

BaseOwnsTimer ==
  \A t \in Timers :
    /\ Cardinality(Movers(t)) = (IF base[t] = NULL THEN 1 ELSE 0)
    /\ Cardinality(Listed(t)) = (IF pending[t] /\ base[t] # NULL THEN 1 ELSE 0)
    /\ \A e \in Listed(t) : e[1] = base[t]

=============================================================================
