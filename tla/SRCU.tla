-------------------------------- MODULE SRCU --------------------------------
(***************************************************************************)
(* Sleepable RCU: srcu_read_lock(), srcu_read_unlock() and the grace       *)
(* period of synchronize_srcu(), kernel/srcu.c.                            *)
(*                                                                         *)
(* What the algorithm has to survive is the memory of the machine.  A      *)
(* store waits in the store buffer of its CPU and the loads that follow it *)
(* in the program overtake it, so that a reader's increment, the flip of   *)
(* "completed" and the pointer an updater has just replaced reach the      *)
(* other CPUs late (x86-TSO).  A locked instruction and a context switch   *)
(* empty the buffer.  Readers take no lock, and may migrate inside their   *)
(* critical section.                                                       *)
(*                                                                         *)
(* Each updater has a pointer of its own with two objects: it replaces the *)
(* one by the other, waits for a grace period and frees the old one, which *)
(* it publishes again the next time.  The mutex of the srcu_struct is used *)
(* through what module BlockingLock promises of a lock.                    *)
(***************************************************************************)
EXTENDS Integers, FiniteSets, Sequences

CONSTANTS
  Readers, Updaters,
  NCpus,       \* the possible CPUs are 0 .. NCpus - 1
  Nobody,      \* nobody: the owner of a free mutex
  Home,        \* the CPU of each updater
  BufMax,      \* the size of a store buffer
  RefWord,     \* the number of values of an int, for the counters c[]
  Word         \* and for "completed": 2^32, each small in an instance

ASSUME SRCUAssumption ==
  /\ Readers \cap Updaters = {} /\ Nobody \notin Readers \cup Updaters
  /\ NCpus \in Nat \ {0} /\ BufMax \in Nat \ {0}
  /\ Home \in [Updaters -> 0..(NCpus - 1)]
  /\ IsFiniteSet(Readers) /\ RefWord \in Nat /\ Cardinality(Readers) < RefWord
  /\ Word \in Nat \ {0} /\ Word % 2 = 0

CPUs == 0..(NCpus - 1)
Users == Readers \cup Updaters
NoRef == <<Nobody, 0>>

VARIABLES
  pos,        \* where each task is
  cpu,        \* the CPU a task runs on
  c,          \* per_cpu_ref: the two counters of every CPU
  completed,  \* sp->completed
  ptr,        \* which of its two objects each updater has published
  buf,        \* the store buffer of every CPU, oldest store first
  mutex,      \* the owner of sp->mutex
  idx,        \* the local idx of each call
  ref,        \* the object a reader has in its critical section
  qs,         \* the CPUs that sync_func() still has to see switch tasks
  round,      \* which of its three sync_func() calls the owner is in
  at, sum     \* srcu_readers_active_idx(): the next CPU to add, the sum so far

sys == <<cpu, qs, buf>>
mem == <<c, completed, ptr>>
local == <<mutex, idx, ref, round, at, sum>>
srcuVars == <<pos, sys, mem, local>>

HolderLabels == {"test", "sync", "qs", "flip", "scan", "unlock"}
SrcuLabels == {"idle", "locking", "in", "call", "lock", "free"} \cup HolderLabels

Writes ==
  [to : {"c"}, i : {0, 1}, v : 0..(RefWord - 1)]
    \cup [to : {"completed"}, i : {0}, v : 0..(Word - 1)]
    \cup [to : {"ptr"}, i : Updaters, v : {0, 1}]

SrcuTypeOK ==
  /\ pos \in [Users -> SrcuLabels]
  /\ cpu \in [Users -> CPUs]
  /\ c \in [CPUs -> [{0, 1} -> 0..(RefWord - 1)]]
  /\ completed \in 0..(Word - 1)
  /\ ptr \in [Updaters -> {0, 1}]
  /\ buf \in [CPUs -> Seq(Writes)]
  /\ mutex \in Updaters \cup {Nobody}
  /\ idx \in [Users -> 0..(Word - 1)]
  /\ ref \in [Readers -> (Updaters \X {0, 1}) \cup {NoRef}]
  /\ qs \subseteq CPUs
  /\ round \in 1..3
  /\ at \in 0..NCpus
  /\ sum \in 0..(RefWord - 1)

(* init_srcu_struct() has run; no task is in a call. *)
SrcuInit ==
  /\ pos = [t \in Users |-> "idle"]
  /\ cpu \in [Users -> CPUs] /\ \A u \in Updaters : cpu[u] = Home[u]
  /\ c = [k \in CPUs |-> [i \in {0, 1} |-> 0]]
  /\ completed = 0
  /\ ptr = [u \in Updaters |-> 0]
  /\ buf = [k \in CPUs |-> <<>>]
  /\ mutex = Nobody
  /\ idx = [t \in Users |-> 0]
  /\ ref = [r \in Readers |-> NoRef]
  /\ qs = {}
  /\ round = 1 /\ at = 0 /\ sum = 0

-----------------------------------------------------------------------------
(* The machine.  A load takes the youngest store to the location that is   *)
(* still in the buffer of the CPU, and the memory if there is none.        *)
Pending(q, to, i) == {j \in 1..Len(q) : q[j].to = to /\ q[j].i = i}

Youngest(J) == CHOOSE j \in J : \A l \in J : l <= j

Load(q, to, i, m) ==
  LET J == Pending(q, to, i) IN IF J = {} THEN m ELSE q[Youngest(J)].v

load_c(k, i)      == Load(buf[k], "c", i, c[k][i])
load_completed(k) == Load(buf[k], "completed", 0, completed)
load_ptr(k, u)    == Load(buf[k], "ptr", u, ptr[u])

Store(k, to, i, v) ==
  /\ Len(buf[k]) < BufMax
  /\ buf' = [buf EXCEPT ![k] = Append(@, [to |-> to, i |-> i, v |-> v])]

(* A locked instruction waits until the buffer of its CPU is empty. *)
Barrier(t) == buf[cpu[t]] = <<>>

(* The oldest store of CPU k reaches the memory. *)
Drain(k) ==
  /\ buf[k] # <<>>
  /\ LET w == Head(buf[k]) IN
     \/ /\ w.to = "c" /\ c' = [c EXCEPT ![k][w.i] = w.v]
        /\ UNCHANGED <<completed, ptr>>
     \/ /\ w.to = "completed" /\ completed' = w.v
        /\ UNCHANGED <<c, ptr>>
     \/ /\ w.to = "ptr" /\ ptr' = [ptr EXCEPT ![w.i] = w.v]
        /\ UNCHANGED <<c, completed>>
  /\ buf' = [buf EXCEPT ![k] = Tail(@)]
  /\ UNCHANGED <<pos, cpu, qs, local>>

(* Between preempt_disable() and preempt_enable() no other task runs on    *)
(* the CPU.                                                                *)
Preemptible(k) == \A t \in Users : cpu[t] = k => pos[t] # "locking"

(* CPU k switches tasks: its buffer is emptied, and synchronize_sched()    *)
(* has seen a quiescent state of the CPU.                                  *)
Switch(k) ==
  /\ k \in qs /\ Preemptible(k) /\ buf[k] = <<>>
  /\ qs' = qs \ {k}
  /\ UNCHANGED <<pos, cpu, buf, mem, local>>

(* A reader is switched out and goes on on another CPU. *)
Migrate(r, k) ==
  /\ k # cpu[r] /\ pos[r] # "locking" /\ Barrier(r)
  /\ cpu' = [cpu EXCEPT ![r] = k]
  /\ UNCHANGED <<pos, buf, qs, mem, local>>

MoveTo(t, from, to) ==
  /\ pos[t] = from /\ (from = "locking" \/ Preemptible(cpu[t]))
  /\ pos' = [pos EXCEPT ![t] = to]
  /\ UNCHANGED cpu

-----------------------------------------------------------------------------
(* __srcu_read_lock(): choose a rank, then count the reader in it, with    *)
(* preemption disabled in between.                                         *)
srcu_read_lock(r) ==
  /\ MoveTo(r, "idle", "locking")
  /\ idx' = [idx EXCEPT ![r] = load_completed(cpu[r]) % 2]
  /\ UNCHANGED <<qs, buf, mem, mutex, ref, round, at, sum>>

srcu_read_lock_inc_MutTwice(r) ==   \* looks at "completed" twice
  /\ MoveTo(r, "locking", "in")
  /\ LET i == load_completed(cpu[r]) % 2 IN
     Store(cpu[r], "c", i, (load_c(cpu[r], i) + 1) % RefWord)
  /\ UNCHANGED <<qs, mem, local>>

srcu_read_lock_inc(r) ==
  /\ MoveTo(r, "locking", "in")
  /\ Store(cpu[r], "c", idx[r], (load_c(cpu[r], idx[r]) + 1) % RefWord)
  /\ UNCHANGED <<qs, mem, local>>

(* srcu_dereference() in the critical section. *)
srcu_dereference(r, u) ==
  /\ MoveTo(r, "in", "in") /\ ref[r] = NoRef
  /\ ref' = [ref EXCEPT ![r] = <<u, load_ptr(cpu[r], u)>>]
  /\ UNCHANGED <<qs, buf, mem, mutex, idx, round, at, sum>>

(* __srcu_read_unlock(): on the CPU the reader is on by now. *)
srcu_read_unlock(r) ==
  /\ MoveTo(r, "in", "idle")
  /\ Store(cpu[r], "c", idx[r], (load_c(cpu[r], idx[r]) - 1) % RefWord)
  /\ ref' = [ref EXCEPT ![r] = NoRef]
  /\ idx' = [idx EXCEPT ![r] = 0]
  /\ UNCHANGED <<qs, mem, mutex, round, at, sum>>

-----------------------------------------------------------------------------
(* The updater replaces the object with a plain store, as                  *)
(* rcu_assign_pointer() does on x86, and calls synchronize_srcu().         *)
publish(u) ==
  /\ MoveTo(u, "idle", "call")
  /\ Store(cpu[u], "ptr", u, 1 - load_ptr(cpu[u], u))
  /\ UNCHANGED <<qs, mem, local>>

(* The first look at "completed", without the mutex. *)
synchronize_srcu(u) ==
  /\ MoveTo(u, "call", "lock")
  /\ idx' = [idx EXCEPT ![u] = load_completed(cpu[u])]
  /\ UNCHANGED <<qs, buf, mem, mutex, ref, round, at, sum>>

srcu_mutex_lock(u) ==
  /\ mutex = Nobody /\ Barrier(u)
  /\ MoveTo(u, "lock", "test")
  /\ mutex' = u
  /\ UNCHANGED <<qs, buf, mem, idx, ref, round, at, sum>>

(* a - b >= n on ints *)
Since(a, b) == LET d == (a - b) % Word IN IF 2 * d < Word THEN d ELSE d - Word

early_exit_MutOne(u) ==             \* one advance of the counter is enough
  /\ \/ /\ MoveTo(u, "test", "unlock") /\ UNCHANGED round
        /\ Since(load_completed(cpu[u]), idx[u]) >= 1
     \/ /\ MoveTo(u, "test", "sync") /\ round' = 1
        /\ Since(load_completed(cpu[u]), idx[u]) < 1
  /\ UNCHANGED <<qs, buf, mem, mutex, idx, ref, at, sum>>

(* Did two whole grace periods begin while the caller waited? *)
early_exit(u) ==
  /\ \/ /\ MoveTo(u, "test", "unlock") /\ UNCHANGED round
        /\ Since(load_completed(cpu[u]), idx[u]) >= 2
     \/ /\ MoveTo(u, "test", "sync") /\ round' = 1
        /\ Since(load_completed(cpu[u]), idx[u]) < 2
  /\ UNCHANGED <<qs, buf, mem, mutex, idx, ref, at, sum>>

(* sync_func(): every CPU has to pass through a context switch that began  *)
(* after the call.                                                         *)
sync_func(u) ==
  /\ Barrier(u)
  /\ MoveTo(u, "sync", "qs")
  /\ qs' = CPUs
  /\ UNCHANGED <<buf, mem, local>>

sync_func_returns(u) ==
  /\ qs = {}
  /\ MoveTo(u, "qs", CASE round = 1 -> "flip" [] round = 2 -> "scan" [] round = 3 -> "unlock")
  /\ at' = 0 /\ sum' = 0
  /\ UNCHANGED <<qs, buf, mem, mutex, idx, ref, round>>

flip_MutNoSync(u) ==                \* counts the old rank as soon as it has flipped
  /\ MoveTo(u, "flip", "scan")
  /\ idx' = [idx EXCEPT ![u] = load_completed(cpu[u]) % 2]
  /\ Store(cpu[u], "completed", 0, (load_completed(cpu[u]) + 1) % Word)
  /\ round' = 2
  /\ UNCHANGED <<qs, mem, mutex, ref, at, sum>>

(* The flip: new readers use the other rank. *)
flip(u) ==
  /\ MoveTo(u, "flip", "sync")
  /\ idx' = [idx EXCEPT ![u] = load_completed(cpu[u]) % 2]
  /\ Store(cpu[u], "completed", 0, (load_completed(cpu[u]) + 1) % Word)
  /\ round' = 2
  /\ UNCHANGED <<qs, mem, mutex, ref, at, sum>>

(* srcu_readers_active_idx() adds the counters of the old rank one CPU     *)
(* after the other, while readers go on changing them.                     *)
srcu_readers_active_idx(u) ==
  /\ MoveTo(u, "scan", "scan") /\ at < NCpus
  /\ LET v == IF at = cpu[u] THEN load_c(at, idx[u]) ELSE c[at][idx[u]] IN
     sum' = (sum + v) % RefWord
  /\ at' = at + 1
  /\ UNCHANGED <<qs, buf, mem, mutex, idx, ref, round>>

(* The wait loop: another round of the loop, or the last sync_func(). *)
scan_again(u) ==
  /\ at = NCpus
  /\ \/ sum # 0 /\ MoveTo(u, "scan", "scan") /\ UNCHANGED round
     \/ sum = 0 /\ MoveTo(u, "scan", "sync") /\ round' = 3
  /\ at' = 0 /\ sum' = 0
  /\ UNCHANGED <<qs, buf, mem, mutex, idx, ref>>

srcu_mutex_unlock(u) ==
  /\ Barrier(u)
  /\ MoveTo(u, "unlock", "free")
  /\ mutex' = Nobody
  /\ idx' = [idx EXCEPT ![u] = 0] /\ round' = 1
  /\ UNCHANGED <<qs, buf, mem, ref, at, sum>>

(* kfree() of the old object; the next call may allocate and publish it. *)
free(u) ==
  /\ MoveTo(u, "free", "idle")
  /\ UNCHANGED <<qs, buf, mem, local>>

-----------------------------------------------------------------------------
ReaderStep(r) ==
  \/ srcu_read_lock(r) \/ srcu_read_lock_inc(r) \/ srcu_read_unlock(r)
  \/ \E u \in Updaters : srcu_dereference(r, u)

UpdaterStep(u) ==
  \/ publish(u) \/ synchronize_srcu(u) \/ srcu_mutex_lock(u) \/ early_exit(u)
  \/ sync_func(u) \/ sync_func_returns(u) \/ flip(u)
  \/ srcu_readers_active_idx(u) \/ scan_again(u) \/ srcu_mutex_unlock(u) \/ free(u)

SrcuNext ==
  \/ \E k \in CPUs : Drain(k) \/ Switch(k)
  \/ \E r \in Readers : ReaderStep(r) \/ \E k \in CPUs : Migrate(r, k)
  \/ \E u \in Updaters : UpdaterStep(u)

SrcuSpec == SrcuInit /\ [][SrcuNext]_srcuVars

-----------------------------------------------------------------------------
(* The grace period: when synchronize_srcu() has returned, no reader still *)
(* has the object that was replaced before the call, whatever CPU it       *)
(* started on and however late its store to the counter arrived.           *)
NoUseAfterFree ==
  \A u \in Updaters :
    pos[u] \in {"free", "idle"} => \A r \in Readers : ref[r] # <<u, 1 - ptr[u]>>

(* The sum of f[0], f[1], ..., f[NCpus - 1]. *)
Sum(f) ==
  LET S[n \in 0..NCpus] == IF n = 0 THEN 0 ELSE S[n - 1] + f[n - 1] IN S[NCpus]

Late(k, i) == Cardinality(Pending(buf[k], "c", i))

ReadersOf(i) == {r \in Readers : pos[r] = "in" /\ idx[r] = i}

(* No reader is lost or counted twice: for each rank, the counters of all  *)
(* CPUs, as the CPUs themselves see them, add up to the readers that are   *)
(* in a critical section of the rank, although a reader counts down on     *)
(* another CPU than it counted up on and single counters wrap around.      *)
EveryReaderCounted ==
  \A i \in {0, 1} :
    Sum([k \in CPUs |-> load_c(k, i)]) % RefWord = Cardinality(ReadersOf(i))

(* Why the owner may add up the old rank one CPU at a time, from memory:   *)
(* while it does, no reader is about to enter the rank, and what is still  *)
(* in the store buffers are the decrements of readers that have left.  The *)
(* sum only falls, and zero means that every reader of the rank is gone.   *)
OldRankOnlyDrains ==
  \A u \in Updaters : pos[u] = "scan" =>
    LET i == idx[u] IN
    /\ \A r \in Readers : pos[r] = "locking" => idx[r] # i
    /\ Sum([k \in CPUs |-> c[k][i]]) % RefWord =
         Cardinality(ReadersOf(i)) + Sum([k \in CPUs |-> Late(k, i)])

=============================================================================
