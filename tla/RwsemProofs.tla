---------------------------- MODULE RwsemProofs ----------------------------
(***************************************************************************)
(* Rwsem's safety properties, for every number of tasks below the limit of *)
(* asm/rwsem.h.  The count is taken apart into the two numbers it packs:   *)
(* who is active, and how many biases of writers and of the queue there    *)
(* are.  Each is small enough for its half of the word, so a test of the   *)
(* count is a test of them.                                                *)
(***************************************************************************)
EXTENDS Rwsem, KListProofs, FiniteSetTheorems

(* Inside __rwsem_do_wake(), and in the wait loop. *)
DoWake == {"dw_write", "dw_undo", "dw_test", "dw_add", "dw_grant", "dw_wake"}

WaitLoop == {"check", "schedule", "resumed"}

(* wait_lock is held by the one task inside __rwsem_do_wake(), and waiters *)
(* are being granted only by its loop.                                     *)
LockInv ==
  /\ \A t \in Tasks : pc[t] \in DoWake <=> wait_lock = t
  /\ wait_lock = NoTask => loop = 0
  /\ \A t \in Tasks : pc[t] \in {"dw_write", "dw_undo", "dw_test", "dw_add"} => loop = 0
  /\ \A t \in Tasks : pc[t] = "dw_grant" => loop # 0

(* The queue is the waiters that are not granted; they are in the wait     *)
(* loop, or on the way to it with wait_lock held.                          *)
Waiting(t) == pc[t] \in WaitLoop \/ (pc[t] \in DoWake /\ after = "check")

TaskOf(t) ==
  /\ Waiting(t) => (waiting[t] <=> held[t] = "none")
  /\ ~Waiting(t) => ~waiting[t]
  /\ pc[t] \in {"idle", "queue", "wake"} \/ (pc[t] \in DoWake /\ after = "idle") => held[t] = "none"
  /\ pc[t] = "owner" => held[t] # "none"
  /\ pc[t] = "downgrade_wake" \/ (pc[t] \in DoWake /\ after = "owner") => held[t] = "R"

ListInv ==
  /\ LinkedOnce(wait_list)
  /\ Entries(wait_list) = {t \in Tasks : waiting[t]}

(* What __rwsem_do_wake() has found at the front of the queue: a writer,   *)
(* or readers.  The waiters it grants are one writer, or all readers.      *)
Front == flags[wait_list[1]]

FrontInv ==
  /\ \A t \in Tasks : pc[t] \in {"dw_write", "dw_undo"} => wait_list # <<>> /\ Front = "W"
  /\ \A t \in Tasks : pc[t] \in {"dw_test", "dw_add"} => wait_list # <<>> /\ Front = "R"
  /\ loop <= Len(wait_list)
  /\ \A i \in 1..loop : flags[wait_list[i]] = Front
  /\ loop # 0 /\ Front = "W" => loop = 1

(* A writer that has the lock, or is being granted it, has it alone; and   *)
(* readers are granted it only if no writer has it.                        *)
ExclInv ==
  /\ WriterExcludes
  /\ \A t \in Tasks : held[t] = "W" => loop = 0
  /\ \A t, u \in Tasks : pc[t] = "dw_add" => held[u] # "W"
  /\ loop # 0 /\ Front = "W" => \A t \in Tasks : held[t] = "none"

(* The two halves of the count. *)
Contributing(k) == {t \in Tasks : held[t] = k \/ (pc[t] = "queue" /\ flags[t] = k)}

Undoing == \E t \in Tasks : pc[t] = "dw_undo"

One(p) == IF p THEN 1 ELSE 0

Readers == Cardinality(Contributing("R"))
Writers == Cardinality(Contributing("W"))
Undo    == One(Undoing)
ForW    == One(loop # 0 /\ Front = "W")
UndoW   == One(Undoing /\ Len(wait_list) # 1)
Queued  == One(Len(wait_list) > loop)

Actives == Readers + Writers + loop + Undo
Biases  == Writers + ForW + UndoW + Queued

CountInv == count = Actives - ActiveMod * Biases

(* If the lock is free and somebody waits, a task is at work that has not  *)
(* made its last grant yet.                                                *)
Working == AtWork \ {"dw_wake"}

QueueInv ==
  wait_list # <<>> /\ loop = 0 /\ (\A t \in Tasks : held[t] = "none")
    => \E t \in Tasks : pc[t] \in Working

(* Where everybody is, without the count. *)
ShapeInv == TypeOK /\ LockInv /\ (\A t \in Tasks : TaskOf(t)) /\ ListInv /\ FrontInv

(* The inductive invariant. *)
IInv == ShapeInv /\ CountInv /\ ExclInv /\ QueueInv

-----------------------------------------------------------------------------
(* The arithmetic of the word. *)

(* The two halves have room for every task: ActiveMod is 2 h. *)
LEMMA Room ==
  ASSUME Tasks # {}
  PROVE  \E h \in Nat : /\ ActiveMod = 2 * h /\ h >= 2 /\ Cardinality(Tasks) + 1 <= h
                        /\ Cardinality(Tasks) \in Nat /\ Cardinality(Tasks) >= 1
  <1>1. Cardinality(Tasks) \in Nat /\ Cardinality(Tasks) # 0
    BY TasksAssumption, FS_CardinalityType, FS_EmptySet
  <1>2. ActiveMod \div 2 \in Nat /\ ActiveMod = 2 * (ActiveMod \div 2)
    BY RwsemAssumption
  <1>3. QED
    BY <1>1, <1>2, RwsemAssumption

(* A remainder that is one already. *)
LEMMA SmallMod ==
  ASSUME NEW x \in Nat, NEW n \in Nat, x < n
  PROVE  x % n = x
  OBVIOUS

(* Taking multiples of ActiveMod away leaves the active part. *)
LEMMA ActivePart ==
  ASSUME NEW a \in Nat, NEW b \in Nat, a < ActiveMod
  PROVE  Active(a - ActiveMod * b) = a
  <1> DEFINE M == ActiveMod
             x == a - M * b
             q == x \div M
             s == x % M
  <1>0. M \in Nat /\ M > 0
    BY RwsemAssumption
  <1> HIDE DEF M
  <1>1. x \in Int /\ q \in Int /\ s \in 0..(M - 1) /\ x = M * q + s
    BY <1>0
  <1>2. M * (q + b) = a - s
    BY <1>0, <1>1
  <1>3. q + b = 0
    BY <1>0, <1>1, <1>2 DEF M
  <1>4. QED
    BY <1>0, <1>1, <1>2, <1>3 DEF Active, M

(* What the count can be: a active ones, b biases.  It does not wrap. *)
LEMMA NoWrap ==
  ASSUME Tasks # {}, NEW a \in Nat, NEW b \in Nat, a < ActiveMod, b <= Cardinality(Tasks)
  PROVE  Wrap(a - ActiveMod * b) = a - ActiveMod * b
  <1>0. PICK h \in Nat : /\ ActiveMod = 2 * h /\ h >= 2 /\ Cardinality(Tasks) + 1 <= h
                         /\ Cardinality(Tasks) \in Nat
    BY Room
  <1> DEFINE M == ActiveMod
             K == M * h
             x == a - M * b
  <1>1. M \in Nat /\ Word \div 2 = K /\ Word = 2 * K
    BY <1>0 DEF Word
  <1>2. b <= h /\ M * b <= K /\ K >= 2 * M /\ M * b \in Nat /\ K \in Nat
    BY <1>0, <1>1
  <1>3. x \in Int /\ x + K \in Nat /\ x + K < 2 * K
    BY <1>1, <1>2
  <1> HIDE DEF K
  <1>4. (x + K) % (2 * K) = x + K
    BY <1>2, <1>3, SmallMod
  <1>5. QED
    BY <1>1, <1>2, <1>3, <1>4 DEF Wrap

(* Whatever is stored in the count is a value of the word. *)
LEMMA WrapType ==
  ASSUME Tasks # {}, NEW n \in Int
  PROVE  Wrap(n) \in (-(Word \div 2))..(Word \div 2 - 1)
  <1>0. PICK h \in Nat : ActiveMod = 2 * h /\ h >= 2
    BY Room
  <1> DEFINE K == ActiveMod * h
  <1>1. ActiveMod \in Nat /\ Word \div 2 = K /\ Word = 2 * K
    BY <1>0 DEF Word
  <1>2. K \in Nat /\ K > 0
    BY <1>0, <1>1
  <1> HIDE DEF K
  <1>3. (n + K) % (2 * K) \in 0..(2 * K - 1)
    BY <1>2
  <1>4. QED
    BY <1>1, <1>2, <1>3 DEF Wrap

(* What a test of the count says of the two numbers. *)
LEMMA Tests ==
  ASSUME NEW a \in Nat, NEW b \in Nat, a < ActiveMod, NEW c, c = a - ActiveMod * b
  PROVE  /\ c = 0 <=> a = 0 /\ b = 0
         /\ c >= 0 <=> b = 0
         /\ c < WAITING_BIAS <=> b >= 2
         /\ c = WAITING_BIAS <=> a = 0 /\ b = 1
         /\ c > WAITING_BIAS <=> b = 0 \/ (b = 1 /\ a # 0)
  <1> DEFINE M == ActiveMod
  <1>0. M \in Nat /\ M > 0
    BY RwsemAssumption
  <1>1. M * 0 = 0 /\ M * 1 = M /\ (b >= 1 => M * b >= M) /\ (b >= 2 => M * b >= 2 * M) /\ M * b \in Nat
    BY <1>0
  <1>2. b = 0 \/ b = 1 \/ b >= 2
    OBVIOUS
  <1> HIDE DEF M
  <1>3. c = a - M * b /\ a < M /\ WAITING_BIAS = -M
    BY DEF M, WAITING_BIAS
  <1>4. CASE b = 0
    BY <1>0, <1>1, <1>3, <1>4
  <1>5. CASE b = 1
    BY <1>0, <1>1, <1>3, <1>5
  <1>6. CASE b >= 2
    BY <1>0, <1>1, <1>3, <1>6
  <1>7. QED
    BY <1>2, <1>4, <1>5, <1>6

(* A list in which nobody is twice is as long as its set of entries. *)
LEMMA LenIsCard ==
  ASSUME NEW S, NEW q \in Seq(S), LinkedOnce(q)
  PROVE  IsFiniteSet(Entries(q)) /\ Cardinality(Entries(q)) = Len(q)
  <1>1. q \in [1..Len(q) -> Entries(q)] /\ Len(q) \in Nat
    BY DEF Entries
  <1>2. q \in Bijection(1..Len(q), Entries(q))
    BY <1>1 DEF LinkedOnce, Entries, Bijection, Injection, Surjection, IsInjective
  <1>3. ExistsBijection(1..Len(q), Entries(q))
    BY <1>2 DEF ExistsBijection
  <1>4. IsFiniteSet(1..Len(q)) /\ Cardinality(1..Len(q)) = Len(q)
    <2>1. PICK n \in Nat : n = Len(q)
      BY <1>1
    <2>2. IsFiniteSet(1..n) /\ Cardinality(1..n) = (IF 1 > n THEN 0 ELSE n - 1 + 1)
      BY FS_Interval
    <2>3. QED
      BY <2>1, <2>2
  <1>5. QED
    BY <1>3, <1>4, FS_Bijection

(* The sets behind the two numbers, and their bounds: a task holds, is on  *)
(* its way to the queue, or is in it, and nobody counts twice.             *)
Bounded ==
  /\ IsFiniteSet(Contributing("R")) /\ IsFiniteSet(Contributing("W"))
  /\ Readers \in Nat /\ Writers \in Nat /\ loop \in Nat /\ Len(wait_list) \in Nat
  /\ Undo \in 0..1 /\ ForW \in 0..1 /\ UndoW \in 0..1 /\ Queued \in 0..1
  /\ Tasks # {} => /\ Actives \in Nat /\ Biases \in Nat
                   /\ Actives < ActiveMod /\ Biases <= Cardinality(Tasks)

(* The bounds follow from where everybody is. *)
LEMMA Bounds == ShapeInv => Bounded
  <1> SUFFICES ASSUME ShapeInv PROVE Bounded
    OBVIOUS
  <1> DEFINE R == Contributing("R")
             W == Contributing("W")
             Q == Entries(wait_list)
             N == Cardinality(Tasks)
             r == Cardinality(R)
             w == Cardinality(W)
             n == Len(wait_list)
  <1>1. /\ wait_list \in Seq(Tasks) /\ n \in Nat /\ loop \in Nat /\ loop <= n
        /\ LinkedOnce(wait_list) /\ Q = {t \in Tasks : waiting[t]}
    BY DEF ShapeInv, TypeOK, ListInv, FrontInv
  <1>2. R \subseteq Tasks /\ W \subseteq Tasks /\ Q \subseteq Tasks
    BY <1>1 DEF Contributing
  <1>3. R \cap W = {} /\ (R \cup W) \cap Q = {}
    BY <1>1 DEF ShapeInv, TaskOf, Waiting, Contributing, WaitLoop, DoWake
  <1>4. IsFiniteSet(R) /\ IsFiniteSet(W) /\ IsFiniteSet(Q) /\ IsFiniteSet(R \cup W)
    BY <1>2, TasksAssumption, FS_Subset
  <1>5. r \in Nat /\ w \in Nat /\ N \in Nat /\ Cardinality(Q) = n
    BY <1>1, <1>4, TasksAssumption, FS_CardinalityType, LenIsCard
  <1>6. r + w + n <= N
    <2>1. Cardinality(R \cup W) = r + w - Cardinality(R \cap W)
      BY <1>4, FS_Union
    <2>2. Cardinality((R \cup W) \cup Q) = Cardinality(R \cup W) + n - Cardinality((R \cup W) \cap Q)
      BY <1>4, <1>5, FS_Union
    <2>3. Cardinality((R \cup W) \cup Q) <= N
      BY <1>2, TasksAssumption, FS_Subset
    <2>4. Cardinality(R \cap W) = 0 /\ Cardinality((R \cup W) \cap Q) = 0
      BY <1>3, FS_EmptySet
    <2>5. QED
      BY <1>5, <2>1, <2>2, <2>3, <2>4
  <1> HIDE DEF R, W, Q, N, r, w, n
  <1>7. ASSUME Tasks # {}
        PROVE  Actives \in Nat /\ Biases \in Nat /\ Actives < ActiveMod /\ Biases <= N
    <2>1. PICK h \in Nat : ActiveMod = 2 * h /\ N + 1 <= h
      BY <1>7, Room DEF N
    <2>2. Undoing => loop = 0 /\ n >= 1
      BY <1>1 DEF ShapeInv, LockInv, FrontInv, Undoing, n, TypeOK
    <2>3. Actives = r + w + loop + One(Undoing)
      BY DEF Actives, Readers, Writers, Undo, r, w, R, W
    <2>4. Biases = w + One(loop # 0 /\ Front = "W") + One(Undoing /\ n # 1) + One(n > loop)
      BY DEF Biases, Writers, ForW, UndoW, Queued, w, W, n
    <2>5. loop # 0 /\ Front = "W" => loop = 1
      BY DEF ShapeInv, FrontInv
    <2>6. QED
      BY <1>1, <1>5, <1>6, <2>1, <2>2, <2>3, <2>4, <2>5 DEF One
  <1>8. QED
    BY <1>1, <1>4, <1>5, <1>7 DEF Bounded, Readers, Writers, Undo, ForW, UndoW, Queued, One, R, W, r, w, n, N

(* And after a step. *)
LEMMA BoundsNext == ShapeInv' => Bounded'
  BY Bounds, PTL

(* The tests of the count that the code makes. *)
Read ==
  Tasks # {} =>
    /\ Active(count) = Actives
    /\ count = 0 <=> Actives = 0 /\ Biases = 0
    /\ count >= 0 <=> Biases = 0
    /\ count < WAITING_BIAS <=> Biases >= 2
    /\ count = WAITING_BIAS <=> Actives = 0 /\ Biases = 1
    /\ count > WAITING_BIAS <=> Biases = 0 \/ (Biases = 1 /\ Actives # 0)

(* What they say. *)
LEMMA Reads == ShapeInv /\ CountInv => Read
  <1> SUFFICES ASSUME ShapeInv, CountInv, Tasks # {}
               PROVE  /\ Active(count) = Actives
                      /\ count = 0 <=> Actives = 0 /\ Biases = 0
                      /\ count >= 0 <=> Biases = 0
                      /\ count < WAITING_BIAS <=> Biases >= 2
                      /\ count = WAITING_BIAS <=> Actives = 0 /\ Biases = 1
                      /\ count > WAITING_BIAS <=> Biases = 0 \/ (Biases = 1 /\ Actives # 0)
    BY DEF Read
  <1>1. PICK a \in Nat, b \in Nat : a = Actives /\ b = Biases /\ a < ActiveMod
    BY Bounds DEF Bounded
  <1>2. count = a - ActiveMod * b
    BY <1>1 DEF CountInv
  <1>3. QED
    BY <1>1, <1>2, ActivePart, Tests

(* And after a step. *)
LEMMA ReadsNext == ShapeInv' /\ CountInv' => Read'
  BY Reads, PTL

(* The count keeps up with its two numbers. *)
LEMMA CountStep ==
  ASSUME Tasks # {}, ShapeInv, CountInv, ShapeInv', NEW x \in Int, NEW y \in Int,
         Actives' = Actives + x, Biases' = Biases + y,
         count' = Wrap(count + x - ActiveMod * y)
  PROVE  CountInv'
  <1>1. PICK a \in Nat, b \in Nat : a = Actives /\ b = Biases
    BY Bounds DEF Bounded
  <1>2. PICK c \in Nat, d \in Nat : c = Actives' /\ d = Biases' /\ c < ActiveMod /\ d <= Cardinality(Tasks)
    BY BoundsNext DEF Bounded
  <1>3. count + x - ActiveMod * y = c - ActiveMod * d
    <2>1. count = a - ActiveMod * b /\ c = a + x /\ d = b + y /\ ActiveMod \in Nat
      BY <1>1, <1>2, RwsemAssumption DEF CountInv
    <2>2. QED
      BY <2>1
  <1>4. QED
    BY <1>2, <1>3, NoWrap DEF CountInv

(* Nobody joins or leaves a set of contributors, or one does. *)
LEMMA Contributors ==
  ASSUME NEW S, IsFiniteSet(S), NEW t
  PROVE  /\ Cardinality(S) \in Nat
         /\ t \notin S => Cardinality(S \cup {t}) = Cardinality(S) + 1
         /\ t \in S => Cardinality(S \ {t}) = Cardinality(S) - 1 /\ Cardinality(S) >= 1
  <1>1. Cardinality(S) \in Nat /\ (S # {} => Cardinality(S) # 0)
    BY FS_CardinalityType, FS_EmptySet
  <1>2. t \notin S => Cardinality(S \cup {t}) = Cardinality(S) + 1
    BY FS_AddElement
  <1>3. t \in S => Cardinality(S \ {t}) = Cardinality(S) - 1
    BY FS_RemoveElement
  <1>4. QED
    BY <1>1, <1>2, <1>3

-----------------------------------------------------------------------------
(* The types of the semaphore. *)
DataTypes ==
  /\ wait_list \in Seq(Tasks) /\ wait_lock \in Tasks \cup {NoTask}
  /\ flags \in [Tasks -> {"R", "W"}] /\ waiting \in [Tasks -> BOOLEAN]
  /\ tsk \in Tasks \cup {NoTask} /\ loop \in Nat /\ after \in {"idle", "check", "owner"}
  /\ held \in [Tasks -> {"none", "R", "W"}]

CountType == count \in (-(Word \div 2))..(Word \div 2 - 1)

(* The parts make up TypeOK. *)
LEMMA TypeParts ==
  /\ TypeOK <=> TaskTypeOK(Labels) /\ CountType /\ DataTypes
  /\ TypeOK' <=> TaskTypeOK(Labels)' /\ CountType' /\ DataTypes'
  BY DEF TypeOK, DataTypes, CountType

(* The biases are integers, and what is stored is in range. *)
LEMMA CountIsWord ==
  ASSUME NEW t \in Tasks, TypeOK, NEW d \in Int, count' = Wrap(count + d)
  PROVE  CountType'
  <1>1. count \in Int
    BY RwsemAssumption DEF TypeOK, Word
  <1>2. QED
    BY <1>1, WrapType DEF CountType

(* The steps of the wait loop change no part of the semaphore. *)
LEMMA LocalStep ==
  ASSUME IInv, NEW t \in Tasks, down_failed_check(t) \/ down_failed_resumed(t) \/ Scheduling(t)
  PROVE  IInv'
  <1>0. TypeOK /\ TaskTypeOK(Labels) /\ LockInv /\ (\A u \in Tasks : TaskOf(u)) /\ ListInv /\ FrontInv
    BY TypeParts DEF IInv, ShapeInv
  <1>1. UNCHANGED <<count, wait_list, wait_lock, flags, waiting, tsk, loop, after, held>>
    BY DEF down_failed_check, down_failed_resumed, Scheduling, rwsemVars
  <1>2. /\ TaskTypeOK(Labels)' /\ pc[t] \in WaitLoop
        /\ \A u \in Tasks : u # t => pc'[u] = pc[u]
        /\ pc'[t] \in WaitLoop \/ (pc'[t] = "owner" /\ ~waiting[t])
    <2>1. CASE down_failed_check(t)
      BY <1>0, <2>1 DEF down_failed_check, Goto, set_task_state, TaskTypeOK, Labels, States, WaitLoop
    <2>2. CASE down_failed_resumed(t)
      BY <1>0, <2>2 DEF down_failed_resumed, Goto, set_task_state, TaskTypeOK, Labels, States, WaitLoop
    <2>3. CASE Scheduling(t)
      BY <1>0, <2>3 DEF Scheduling, schedule, deactivate_task, schedule_returns, TaskTypeOK, Labels, States,
                        WaitLoop
    <2>4. QED
      BY <2>1, <2>2, <2>3
  <1>3. \A u \in Tasks : \/ pc'[u] = pc[u]
                         \/ pc[u] \in WaitLoop /\ pc'[u] \in WaitLoop
                         \/ pc[u] \in WaitLoop /\ pc'[u] = "owner" /\ ~waiting[u]
    BY <1>2
  <1>4. \A u \in Tasks : (pc[u] \in DoWake \/ pc'[u] \in DoWake \/ pc[u] \in AtWork \/ pc'[u] \in AtWork)
                           => pc'[u] = pc[u]
    BY <1>3 DEF WaitLoop, DoWake, AtWork
  <1>5. ShapeInv'
    <2>1. TypeOK'
      BY <1>0, <1>1, <1>2, TypeParts DEF CountType, DataTypes
    <2>2. LockInv' /\ FrontInv' /\ ListInv'
      BY <1>0, <1>1, <1>4 DEF LockInv, FrontInv, ListInv, Front, DoWake
    <2>3. \A u \in Tasks : TaskOf(u)'
      BY <1>0, <1>1, <1>3 DEF TaskOf, Waiting, WaitLoop, DoWake
    <2>4. QED
      BY <2>1, <2>2, <2>3 DEF ShapeInv
  <1>6. CountInv'
    <2>1. Contributing("R")' = Contributing("R") /\ Contributing("W")' = Contributing("W")
      BY <1>1, <1>4 DEF Contributing, AtWork
    <2>2. Undoing' <=> Undoing
      BY <1>4 DEF Undoing, DoWake
    <2>3. Actives' = Actives /\ Biases' = Biases
      BY <1>1, <2>1, <2>2 DEF Actives, Biases, Readers, Writers, Undo, ForW, UndoW, Queued, Front
    <2>4. QED
      BY <1>1, <2>3 DEF IInv, CountInv
  <1>7. ExclInv'
    BY <1>1, <1>4 DEF IInv, ExclInv, WriterExcludes, Front, DoWake
  <1>8. QueueInv'
    BY <1>1, <1>4 DEF IInv, QueueInv, Working, AtWork
  <1>9. QED
    BY <1>5, <1>6, <1>7, <1>8 DEF IInv

-----------------------------------------------------------------------------
(* A fast path that succeeds, and one that fails. *)
Enters(t, k) ==
  /\ pc[t] = "idle" /\ pc' = [pc EXCEPT ![t] = "owner"]
  /\ held' = [held EXCEPT ![t] = k]
  /\ count' = Wrap(count + Bias(k))
  /\ UNCHANGED <<state, on_rq, sig, timer, wait_list, wait_lock, flags, waiting, tsk, loop, after>>

Joins(t, k) ==
  /\ pc[t] = "idle" /\ pc' = [pc EXCEPT ![t] = "queue"]
  /\ flags' = [flags EXCEPT ![t] = k]
  /\ state' = [state EXCEPT ![t] = TASK_UNINTERRUPTIBLE]
  /\ count' = Wrap(count + Bias(k))
  /\ UNCHANGED <<on_rq, sig, timer, wait_list, wait_lock, held, waiting, tsk, loop, after>>

(* Each call is one of them, and what a success has seen. *)
LEMMA CallKinds ==
  ASSUME NEW t \in Tasks, Calls(t)
  PROVE  \/ Enters(t, "R") /\ (count >= 0 \/ count' >= 0)
         \/ Enters(t, "W") /\ count = 0
         \/ \E k \in {"R", "W"} : Joins(t, k)
  BY DEF Calls, down_read, down_write, down_read_trylock, down_write_trylock, Down, Goto, set_task_state,
         Enters, Joins, Bias

(* The bias of one more locker, in the two numbers. *)
LEMMA Arrives ==
  ASSUME ShapeInv, CountInv, NEW t \in Tasks, NEW k \in {"R", "W"}, ShapeInv',
         Enters(t, k) \/ Joins(t, k)
  PROVE  /\ CountInv' /\ Actives' = Actives + 1 /\ Biases' = Biases + One(k = "W")
  <1>0. TypeOK /\ TaskTypeOK(Labels) /\ DataTypes /\ TaskOf(t) /\ ListInv /\ LockInv /\ FrontInv
    BY TypeParts DEF ShapeInv
  <1>1. /\ pc[t] = "idle" /\ pc'[t] \in {"owner", "queue"} /\ \A u \in Tasks : u # t => pc'[u] = pc[u]
        /\ (pc'[t] = "queue" /\ flags'[t] = k /\ held'[t] = "none") \/ (pc'[t] = "owner" /\ held'[t] = k)
        /\ \A u \in Tasks : u # t => flags'[u] = flags[u] /\ held'[u] = held[u]
        /\ UNCHANGED <<wait_list, loop>>
        /\ count' = Wrap(count + Bias(k))
    BY <1>0 DEF Enters, Joins, TaskTypeOK, DataTypes, TaskOf
  <1>2. /\ Contributing(k)' = Contributing(k) \cup {t} /\ t \notin Contributing(k)
        /\ \A j \in {"R", "W"} : j # k => Contributing(j)' = Contributing(j)
    BY <1>0, <1>1 DEF Contributing, TaskOf
  <1>3. Bounded
    BY Bounds
  <1>4. /\ Cardinality(Contributing(k)') = Cardinality(Contributing(k)) + 1
        /\ \A j \in {"R", "W"} : j # k => Cardinality(Contributing(j)') = Cardinality(Contributing(j))
    BY <1>2, <1>3, Contributors DEF Bounded
  <1>5. Undoing' <=> Undoing
    BY <1>1 DEF Undoing
  <1>6. loop # 0 => Front' = Front
    <2>1. ASSUME loop # 0 PROVE wait_list[1] \in Tasks /\ waiting[wait_list[1]]
      <3>1. 1 \in 1..Len(wait_list)
        BY <1>0, <2>1 DEF DataTypes, FrontInv
      <3>2. QED
        BY <1>0, <3>1 DEF ListInv, Entries
    <2>2. ~waiting[t]
      BY <1>0, <1>1 DEF TaskOf, Waiting, WaitLoop, DoWake
    <2>3. QED
      BY <1>1, <2>1, <2>2 DEF Front
  <1>7. Actives' = Actives + 1 /\ Biases' = Biases + One(k = "W")
    <2>1. Writers' = Writers + One(k = "W") /\ Readers' + Writers' = Readers + Writers + 1
      <3>1. CASE k = "R"
        BY <1>3, <1>4, <3>1 DEF One, Readers, Writers, Bounded
      <3>2. CASE k = "W"
        BY <1>3, <1>4, <3>2 DEF One, Readers, Writers, Bounded
      <3>3. QED
        BY <3>1, <3>2
    <2>2. loop' = loop /\ Undo' = Undo /\ ForW' = ForW /\ UndoW' = UndoW /\ Queued' = Queued
      BY <1>1, <1>5, <1>6 DEF Undo, ForW, UndoW, Queued, One
    <2>3. /\ Actives = Readers + Writers + loop + Undo /\ Biases = Writers + ForW + UndoW + Queued
          /\ Actives' = Readers' + Writers' + loop' + Undo'
          /\ Biases' = Writers' + ForW' + UndoW' + Queued'
      BY DEF Actives, Biases
    <2>4. One(k = "W") \in Nat
      BY DEF One
    <2>5. Readers' \in Nat /\ Writers' \in Nat
      BY BoundsNext DEF Bounded
    <2>6. /\ Readers \in Nat /\ Writers \in Nat /\ loop \in Nat /\ Undo \in Nat
          /\ ForW \in Nat /\ UndoW \in Nat /\ Queued \in Nat
      BY <1>3 DEF Bounded
    <2>7. Actives' = Actives + 1
      BY <2>1, <2>2, <2>3, <2>4, <2>5, <2>6
    <2>8. Biases' = Biases + One(k = "W")
      BY <2>1, <2>2, <2>3, <2>4, <2>5, <2>6
    <2>9. QED
      BY <2>7, <2>8
  <1>8. count' = Wrap(count + 1 - ActiveMod * One(k = "W"))
    <2>1. count \in Int /\ ActiveMod \in Int
      BY <1>0, RwsemAssumption DEF TypeOK, Word
    <2>2. Bias(k) = 1 - ActiveMod * One(k = "W")
      BY <2>1 DEF Bias, ACTIVE_READ_BIAS, ACTIVE_WRITE_BIAS, WAITING_BIAS, One
    <2>3. One(k = "W") \in Int
      BY DEF One
    <2>4. QED
      BY <1>1, <2>1, <2>2, <2>3
  <1>9. One(k = "W") \in Int /\ Tasks # {}
    BY DEF One
  <1>10. QED
    BY <1>7, <1>8, <1>9, CountStep

(* Both leave everybody else where he is. *)
LEMMA ArriveShape ==
  ASSUME ShapeInv, NEW t \in Tasks, NEW k \in {"R", "W"}, Enters(t, k) \/ Joins(t, k)
  PROVE  ShapeInv'
  <1>0. /\ TypeOK /\ TaskTypeOK(Labels) /\ DataTypes
        /\ LockInv /\ (\A u \in Tasks : TaskOf(u)) /\ ListInv /\ FrontInv
    BY TypeParts DEF ShapeInv
  <1>1. /\ pc[t] = "idle" /\ pc'[t] \in {"owner", "queue"} /\ \A u \in Tasks : u # t => pc'[u] = pc[u]
        /\ (pc'[t] = "queue" /\ held'[t] = "none") \/ (pc'[t] = "owner" /\ held'[t] = k)
        /\ \A u \in Tasks : u # t => flags'[u] = flags[u] /\ held'[u] = held[u]
        /\ UNCHANGED <<wait_list, wait_lock, waiting, loop, after>>
    BY <1>0 DEF Enters, Joins, TaskTypeOK, DataTypes, TaskOf
  <1>2. TypeOK'
    <2>1. TaskTypeOK(Labels)' /\ DataTypes'
      BY <1>0 DEF Enters, Joins, TaskTypeOK, DataTypes, Labels, States
    <2>2. Bias(k) \in Int
      BY RwsemAssumption DEF Bias, ACTIVE_READ_BIAS, ACTIVE_WRITE_BIAS, WAITING_BIAS
    <2>3. CountType'
      BY <1>0, <2>2, CountIsWord DEF Enters, Joins
    <2>4. QED
      BY <2>1, <2>3, TypeParts
  <1>3. LockInv' /\ ListInv'
    BY <1>0, <1>1 DEF LockInv, ListInv, DoWake
  <1>4. \A u \in Tasks : TaskOf(u)'
    BY <1>0, <1>1 DEF TaskOf, Waiting, WaitLoop, DoWake
  <1>5. FrontInv'
    <2>1. ~waiting[t]
      BY <1>0, <1>1 DEF TaskOf, Waiting, WaitLoop, DoWake
    <2>2. \A i \in 1..Len(wait_list) : wait_list[i] \in Tasks /\ flags'[wait_list[i]] = flags[wait_list[i]]
      BY <1>0, <1>1, <2>1 DEF ListInv, Entries
    <2>3. /\ Len(wait_list) \in Nat /\ loop \in Nat /\ (wait_list # <<>> <=> 1 \in 1..Len(wait_list))
          /\ loop <= Len(wait_list)
      BY <1>0 DEF DataTypes, FrontInv
    <2>4. wait_list # <<>> => Front' = Front
      BY <1>1, <2>2, <2>3 DEF Front
    <2>5. loop # 0 => wait_list # <<>>
      BY <2>3
    <2>6. \A i \in 1..loop : flags'[wait_list[i]] = Front'
      BY <1>0, <2>2, <2>3, <2>4, <2>5 DEF FrontInv
    <2>7. QED
      BY <1>0, <1>1, <2>4, <2>5, <2>6 DEF FrontInv, DoWake
  <1>6. QED
    BY <1>2, <1>3, <1>4, <1>5 DEF ShapeInv

(* An empty set of contributors has nobody in it. *)
LEMMA Nobody ==
  ASSUME ShapeInv
  PROVE  /\ Writers = 0 => \A t \in Tasks : held[t] # "W" /\ ~(pc[t] = "queue" /\ flags[t] = "W")
         /\ Readers = 0 => \A t \in Tasks : held[t] # "R" /\ ~(pc[t] = "queue" /\ flags[t] = "R")
  <1>1. Bounded
    BY Bounds
  <1>2. Writers = 0 => Contributing("W") = {}
    BY <1>1, FS_EmptySet DEF Bounded, Writers
  <1>3. Readers = 0 => Contributing("R") = {}
    BY <1>1, FS_EmptySet DEF Bounded, Readers
  <1>4. QED
    BY <1>2, <1>3 DEF Contributing

(* What a count with no active ones, or no biases, says. *)
LEMMA Zeros ==
  ASSUME ShapeInv, NEW t \in Tasks
  PROVE  /\ Actives = 0 => \A u \in Tasks : held[u] = "none" /\ pc[u] # "queue"
         /\ Biases = 0 => /\ \A u \in Tasks : held[u] # "W"
                          /\ loop = Len(wait_list) /\ ~(loop # 0 /\ Front = "W")
  <1>1. /\ Readers \in Nat /\ Writers \in Nat /\ loop \in Nat /\ Undo \in Nat
        /\ ForW \in Nat /\ UndoW \in Nat /\ Queued \in Nat /\ Len(wait_list) \in Nat
    BY Bounds DEF Bounded
  <1>2. Actives = 0 => Readers = 0 /\ Writers = 0
    BY <1>1 DEF Actives
  <1>3. Biases = 0 => Writers = 0 /\ ForW = 0 /\ Queued = 0
    BY <1>1 DEF Biases
  <1>4. Queued = 0 => ~(Len(wait_list) > loop)
    BY DEF Queued, One
  <1>5. ForW = 0 => ~(loop # 0 /\ Front = "W")
    BY DEF ForW, One
  <1>6. loop <= Len(wait_list) /\ held \in [Tasks -> {"none", "R", "W"}] /\ flags \in [Tasks -> {"R", "W"}]
    BY DEF ShapeInv, FrontInv, TypeOK
  <1>7. Actives = 0 => \A u \in Tasks : held[u] = "none" /\ pc[u] # "queue"
    BY <1>2, <1>6, Nobody
  <1>8. Biases = 0 => /\ \A u \in Tasks : held[u] # "W"
                      /\ loop = Len(wait_list) /\ ~(loop # 0 /\ Front = "W")
    BY <1>1, <1>3, <1>4, <1>5, <1>6, Nobody
  <1>9. QED
    BY <1>7, <1>8

(* A fast path succeeds only if nobody waits and the lock is compatible. *)
LEMMA EnterSees ==
  ASSUME ShapeInv, CountInv, NEW t \in Tasks, NEW k \in {"R", "W"}, Enters(t, k),
         k = "W" => count = 0, k = "R" => count >= 0 \/ count' >= 0
  PROVE  /\ \A u \in Tasks : held[u] # "W"
         /\ loop = Len(wait_list) /\ ~(loop # 0 /\ Front = "W")
         /\ k = "W" => loop = 0 /\ \A u \in Tasks : held[u] = "none"
  <1>1. ShapeInv' /\ CountInv' /\ Biases' = Biases + One(k = "W") /\ Tasks # {}
    BY ArriveShape, Arrives
  <1>2. Biases \in Nat
    BY <1>1, Bounds DEF Bounded
  <1>3. Biases = 0 /\ (k = "W" => Actives = 0)
    <2>1. CASE k = "W"
      BY <1>1, <2>1, Reads DEF Read
    <2>2. CASE k = "R"
      <3>1. Biases' = Biases
        BY <1>1, <1>2, <2>2 DEF One
      <3>2. Biases = 0 \/ Biases' = 0
        BY <1>1, <2>2, Reads, ReadsNext DEF Read
      <3>3. QED
        BY <2>2, <3>1, <3>2
    <2>3. QED
      BY <2>1, <2>2
  <1>4. k = "W" => loop = 0
    <2>1. Readers \in Nat /\ Writers \in Nat /\ loop \in Nat /\ Undo \in Nat
      BY Bounds DEF Bounded
    <2>2. QED
      BY <1>3, <2>1 DEF Actives
  <1>5. QED
    BY <1>3, <1>4, Zeros

(* down_read(), down_write() and the trylocks. *)
LEMMA CallsStep ==
  ASSUME IInv, NEW t \in Tasks, Calls(t)
  PROVE  IInv'
  <1>0. ShapeInv /\ CountInv /\ ExclInv /\ QueueInv /\ DataTypes /\ TaskTypeOK(Labels) /\ FrontInv
    BY TypeParts DEF IInv, ShapeInv
  <1>1. CASE \E k \in {"R", "W"} : Joins(t, k)
    <2>1. PICK k \in {"R", "W"} : Joins(t, k)
      BY <1>1
    <2>2. ShapeInv' /\ CountInv'
      BY <1>0, <2>1, ArriveShape, Arrives
    <2>3. pc'[t] = "queue" /\ \A u \in Tasks : u # t => pc'[u] = pc[u]
      BY <1>0, <2>1 DEF Joins, TaskTypeOK
    <2>4. loop # 0 => Front' = Front
      <3>1. ~waiting[t] /\ ListInv
        BY <1>0, <2>1 DEF ShapeInv, TaskOf, Waiting, WaitLoop, DoWake, Joins
      <3>2. loop # 0 => 1 \in 1..Len(wait_list)
        BY <1>0 DEF DataTypes, FrontInv
      <3>3. loop # 0 => wait_list[1] \in Tasks /\ wait_list[1] # t
        BY <3>1, <3>2 DEF ListInv, Entries
      <3>4. QED
        BY <1>0, <2>1, <3>3 DEF Joins, Front, DataTypes
    <2>5. ExclInv'
      BY <1>0, <2>1, <2>3, <2>4 DEF ExclInv, WriterExcludes, Joins
    <2>6. QueueInv'
      BY <2>3 DEF QueueInv, Working, AtWork
    <2>7. QED
      BY <2>2, <2>5, <2>6 DEF IInv
  <1>2. ASSUME NEW k \in {"R", "W"}, Enters(t, k),
               k = "W" => count = 0, k = "R" => count >= 0 \/ count' >= 0
        PROVE  IInv'
    <2>1. ShapeInv' /\ CountInv'
      BY <1>0, <1>2, ArriveShape, Arrives
    <2>2. /\ pc[t] = "idle" /\ pc'[t] = "owner" /\ \A u \in Tasks : u # t => pc'[u] = pc[u]
          /\ held'[t] = k /\ \A u \in Tasks : u # t => held'[u] = held[u]
          /\ UNCHANGED <<wait_list, loop, flags>>
      BY <1>0, <1>2 DEF Enters, TaskTypeOK, DataTypes
    <2>5. /\ \A u \in Tasks : held[u] # "W"
          /\ loop = Len(wait_list) /\ ~(loop # 0 /\ Front = "W")
          /\ k = "W" => loop = 0 /\ \A u \in Tasks : held[u] = "none"
      BY <1>0, <1>2, EnterSees
    <2>6. ExclInv'
      <3>1. Front' = Front
        BY <2>2 DEF Front
      <3>2. loop = 0 => \A u \in Tasks : pc'[u] # "dw_add"
        <4>1. wait_list \in Seq(Tasks)
          BY <1>0 DEF DataTypes
        <4>2. list_empty(wait_list) <=> Len(wait_list) = 0
          BY <4>1, ListEmpty
        <4>3. loop = 0 => wait_list = <<>>
          BY <2>5, <4>2 DEF list_empty
        <4>4. QED
          BY <1>0, <2>2, <4>3 DEF FrontInv
      <3>3. QED
        BY <1>0, <2>2, <2>5, <3>1, <3>2 DEF ExclInv, WriterExcludes
    <2>7. QueueInv'
      BY <2>2 DEF QueueInv
    <2>8. QED
      BY <2>1, <2>6, <2>7 DEF IInv
  <1>3. QED
    BY <1>1, <1>2, CallKinds

(* The count after a step, from what the step does to the parts of the two *)
(* numbers.                                                                *)
LEMMA Recount ==
  ASSUME NEW t \in Tasks, ShapeInv, CountInv, ShapeInv', NEW x \in Int, NEW y \in Int,
         Readers' + Writers' + loop' + Undo' = Readers + Writers + loop + Undo + x,
         Writers' + ForW' + UndoW' + Queued' = Writers + ForW + UndoW + Queued + y,
         count' = Wrap(count + x - ActiveMod * y)
  PROVE  CountInv' /\ Actives' = Actives + x /\ Biases' = Biases + y
  <1>1. Actives' = Actives + x /\ Biases' = Biases + y
    BY DEF Actives, Biases
  <1>2. Tasks # {}
    OBVIOUS
  <1>3. QED
    BY <1>1, <1>2, CountStep

(* The numbers behind a count, before and after a step. *)
LEMMA Parts ==
  ASSUME ShapeInv
  PROVE  /\ Readers \in Nat /\ Writers \in Nat /\ loop \in Nat /\ Undo \in 0..1
         /\ ForW \in 0..1 /\ UndoW \in 0..1 /\ Queued \in 0..1 /\ Len(wait_list) \in Nat
         /\ IsFiniteSet(Contributing("R")) /\ IsFiniteSet(Contributing("W"))
  BY Bounds DEF Bounded

(* The same after a step. *)
LEMMA PartsNext ==
  ASSUME ShapeInv'
  PROVE  /\ Readers' \in Nat /\ Writers' \in Nat /\ loop' \in Nat /\ Undo' \in 0..1
         /\ ForW' \in 0..1 /\ UndoW' \in 0..1 /\ Queued' \in 0..1 /\ Len(wait_list') \in Nat
  BY BoundsNext DEF Bounded

(* One contributor goes, or comes. *)
LEMMA OneLess ==
  ASSUME ShapeInv, NEW t, NEW k \in {"R", "W"}, t \in Contributing(k),
         Contributing(k)' = Contributing(k) \ {t},
         \A j \in {"R", "W"} : j # k => Contributing(j)' = Contributing(j)
  PROVE  /\ k = "R" => Readers' = Readers - 1 /\ Writers' = Writers
         /\ k = "W" => Writers' = Writers - 1 /\ Readers' = Readers
  <1>1. CASE k = "R"
    <2>1. Cardinality(Contributing("R") \ {t}) = Cardinality(Contributing("R")) - 1
      BY <1>1, Parts, Contributors
    <2>2. QED
      BY <1>1, <2>1 DEF Readers, Writers
  <1>2. CASE k = "W"
    <2>1. Cardinality(Contributing("W") \ {t}) = Cardinality(Contributing("W")) - 1
      BY <1>2, Parts, Contributors
    <2>2. QED
      BY <1>2, <2>1 DEF Readers, Writers
  <1>3. QED
    BY <1>1, <1>2

(* One contributor comes. *)
LEMMA OneMore ==
  ASSUME ShapeInv, NEW t, NEW k \in {"R", "W"}, t \notin Contributing(k),
         Contributing(k)' = Contributing(k) \cup {t},
         \A j \in {"R", "W"} : j # k => Contributing(j)' = Contributing(j)
  PROVE  /\ k = "R" => Readers' = Readers + 1 /\ Writers' = Writers
         /\ k = "W" => Writers' = Writers + 1 /\ Readers' = Readers
  <1>1. CASE k = "R"
    <2>1. Cardinality(Contributing("R") \cup {t}) = Cardinality(Contributing("R")) + 1
      BY <1>1, Parts, Contributors
    <2>2. QED
      BY <1>1, <2>1 DEF Readers, Writers
  <1>2. CASE k = "W"
    <2>1. Cardinality(Contributing("W") \cup {t}) = Cardinality(Contributing("W")) + 1
      BY <1>2, Parts, Contributors
    <2>2. QED
      BY <1>2, <2>1 DEF Readers, Writers
  <1>3. QED
    BY <1>1, <1>2

(* Biases in terms of ActiveMod. *)
LEMMA BiasValue ==
  /\ ActiveMod \in Int /\ Bias("R") = 1 /\ Bias("W") = 1 - ActiveMod /\ WAITING_BIAS = -ActiveMod
  /\ ACTIVE_WRITE_BIAS = 1 - ActiveMod /\ ACTIVE_READ_BIAS = 1
  BY RwsemAssumption DEF Bias, ACTIVE_READ_BIAS, ACTIVE_WRITE_BIAS, WAITING_BIAS

(* up_read() and up_write(). *)
LEMMA UpStep ==
  ASSUME IInv, NEW t \in Tasks, NEW k \in {"R", "W"}, Up(t, k)
  PROVE  IInv'
  <1>0. /\ ShapeInv /\ CountInv /\ ExclInv /\ QueueInv /\ TypeOK /\ DataTypes /\ TaskTypeOK(Labels)
        /\ LockInv /\ (\A u \in Tasks : TaskOf(u)) /\ ListInv /\ FrontInv
    BY TypeParts DEF IInv, ShapeInv
  <1>1. /\ held[t] = k /\ held' = [held EXCEPT ![t] = "none"] /\ count' = Wrap(count - Bias(k))
        /\ pc[t] = "owner" /\ pc'[t] = (IF count' < 0 /\ Active(count) = 1 THEN "wake" ELSE "idle")
        /\ \A u \in Tasks : u # t => pc'[u] = pc[u]
        /\ UNCHANGED <<state, on_rq, sig, timer, wait_list, wait_lock, flags, waiting, tsk, loop, after>>
    BY <1>0 DEF Up, Goto, TaskTypeOK
  <1>2. /\ held'[t] = "none" /\ \A u \in Tasks : u # t => held'[u] = held[u]
        /\ pc'[t] \in {"wake", "idle"} /\ Front' = Front
    BY <1>0, <1>1 DEF DataTypes, Front
  <1>3. ShapeInv'
    <2>1. TypeOK'
      <3>1. TaskTypeOK(Labels)' /\ DataTypes'
        BY <1>0, <1>1 DEF Up, Goto, TaskTypeOK, DataTypes, Labels
      <3>2. -Bias(k) \in Int /\ count' = Wrap(count + (-Bias(k)))
        BY <1>0, <1>1, BiasValue, RwsemAssumption DEF TypeOK, Word
      <3>3. QED
        BY <1>0, <3>1, <3>2, TypeParts, CountIsWord
    <2>2. LockInv' /\ ListInv' /\ FrontInv'
      BY <1>0, <1>1, <1>2 DEF LockInv, ListInv, FrontInv, DoWake
    <2>3. \A u \in Tasks : TaskOf(u)'
      BY <1>0, <1>1, <1>2 DEF TaskOf, Waiting, WaitLoop, DoWake
    <2>4. QED
      BY <2>1, <2>2, <2>3 DEF ShapeInv
  <1>4. /\ t \in Contributing(k) /\ Contributing(k)' = Contributing(k) \ {t}
        /\ \A j \in {"R", "W"} : j # k => Contributing(j)' = Contributing(j)
    BY <1>0, <1>1, <1>2 DEF Contributing
  <1>5. /\ (Undoing' <=> Undoing) /\ loop' = loop /\ Undo' = Undo
        /\ ForW' = ForW /\ UndoW' = UndoW /\ Queued' = Queued
    <2>1. Undoing' <=> Undoing
      BY <1>1, <1>2 DEF Undoing
    <2>2. QED
      BY <1>1, <1>2, <2>1 DEF Undo, ForW, UndoW, Queued
  <1>6. CountInv' /\ Actives' = Actives - 1
    <2>0. /\ k = "R" => Readers' = Readers - 1 /\ Writers' = Writers
          /\ k = "W" => Writers' = Writers - 1 /\ Readers' = Readers
      BY <1>0, <1>4, OneLess
    <2>1. count \in Int
      BY <1>0, RwsemAssumption DEF TypeOK, Word
    <2>2. PICK x \in Int, y \in Int : x = -1 /\ y = (IF k = "W" THEN -1 ELSE 0)
      OBVIOUS
    <2>3. count' = Wrap(count + x - ActiveMod * y)
      BY <1>1, <2>1, <2>2, BiasValue
    <2>4. /\ Readers' + Writers' + loop' + Undo' = Readers + Writers + loop + Undo + x
          /\ Writers' + ForW' + UndoW' + Queued' = Writers + ForW + UndoW + Queued + y
      BY <1>0, <1>5, <2>0, <2>2, Parts
    <2>5. CountInv' /\ Actives' = Actives + x
      BY <1>0, <1>3, <2>3, <2>4, Recount
    <2>6. Actives \in Nat
      BY <1>0, Bounds DEF Bounded
    <2>7. QED
      BY <2>2, <2>5, <2>6
  <1>7. ExclInv'
    BY <1>0, <1>1, <1>2 DEF ExclInv, WriterExcludes
  <1>8. QueueInv'
    <2> SUFFICES ASSUME wait_list' # <<>>, loop' = 0, \A u \in Tasks : held'[u] = "none",
                        \A u \in Tasks : pc'[u] \notin Working
                 PROVE  FALSE
      BY DEF QueueInv
    <2>1. Tasks # {} /\ ~Undoing' /\ Contributing("R")' = {} /\ Contributing("W")' = {}
      BY DEF Undoing, Contributing, Working, AtWork
    <2>2. Readers' = 0 /\ Writers' = 0 /\ Undo' = 0
      BY <2>1, FS_EmptySet DEF Readers, Writers, Undo, One
    <2>3. Actives' = 0
      BY <2>2 DEF Actives
    <2>4. Actives = 1 /\ Active(count) = 1
      <3>1. Actives \in Nat
        BY <1>0, <2>1, Bounds DEF Bounded
      <3>2. QED
        BY <1>0, <1>6, <2>1, <2>3, <3>1, Reads DEF Read
    <2>5. Queued' = 1
      <3>1. wait_list' \in Seq(Tasks)
        BY <1>3 DEF ShapeInv, TypeOK
      <3>2. Len(wait_list') > 0
        BY <3>1
      <3>3. QED
        BY <3>2 DEF Queued, One
    <2>6. Biases' # 0 /\ count' \in Int
      <3>1. Biases' # 0
        BY <1>3, <2>5, PartsNext DEF Biases
      <3>2. QED
        BY <1>3, <3>1, RwsemAssumption DEF ShapeInv, TypeOK, Word
    <2>7. count' < 0
      BY <1>3, <1>6, <2>1, <2>6, ReadsNext DEF Read
    <2>8. QED
      BY <1>1, <2>4, <2>7 DEF Working, AtWork
  <1>9. QED
    BY <1>3, <1>6, <1>7, <1>8 DEF IInv

(* downgrade_write() *)
LEMMA DowngradeStep ==
  ASSUME IInv, NEW t \in Tasks, downgrade_write(t)
  PROVE  IInv'
  <1>0. /\ ShapeInv /\ CountInv /\ ExclInv /\ QueueInv /\ TypeOK /\ DataTypes /\ TaskTypeOK(Labels)
        /\ LockInv /\ (\A u \in Tasks : TaskOf(u)) /\ ListInv /\ FrontInv
    BY TypeParts DEF IInv, ShapeInv
  <1>1. /\ held[t] = "W" /\ held' = [held EXCEPT ![t] = "R"] /\ count' = Wrap(count - WAITING_BIAS)
        /\ pc[t] = "owner" /\ pc'[t] \in {"downgrade_wake", "owner"}
        /\ \A u \in Tasks : u # t => pc'[u] = pc[u]
        /\ UNCHANGED <<state, on_rq, sig, timer, wait_list, wait_lock, flags, waiting, tsk, loop, after>>
    BY <1>0 DEF downgrade_write, Goto, TaskTypeOK
  <1>2. held'[t] = "R" /\ (\A u \in Tasks : u # t => held'[u] = held[u]) /\ Front' = Front
    BY <1>0, <1>1 DEF DataTypes, Front
  <1>3. count \in Int /\ -WAITING_BIAS \in Int /\ count' = Wrap(count + (-WAITING_BIAS))
    BY <1>0, <1>1, BiasValue, RwsemAssumption DEF TypeOK, Word
  <1>4. ShapeInv'
    <2>1. TypeOK'
      <3>1. TaskTypeOK(Labels)' /\ DataTypes'
        BY <1>0, <1>1 DEF downgrade_write, Goto, TaskTypeOK, DataTypes, Labels
      <3>2. QED
        BY <1>0, <1>3, <3>1, TypeParts, CountIsWord
    <2>2. LockInv' /\ ListInv' /\ FrontInv'
      BY <1>0, <1>1, <1>2 DEF LockInv, ListInv, FrontInv, DoWake
    <2>3. \A u \in Tasks : TaskOf(u)'
      BY <1>0, <1>1, <1>2 DEF TaskOf, Waiting, WaitLoop, DoWake
    <2>4. QED
      BY <2>1, <2>2, <2>3 DEF ShapeInv
  <1>5. /\ t \in Contributing("W") /\ Contributing("W")' = Contributing("W") \ {t}
        /\ t \notin Contributing("R") /\ Contributing("R")' = Contributing("R") \cup {t}
    BY <1>0, <1>1, <1>2 DEF Contributing
  <1>6. Readers' = Readers + 1 /\ Writers' = Writers - 1
    <2>1. /\ Cardinality(Contributing("W") \ {t}) = Cardinality(Contributing("W")) - 1
          /\ Cardinality(Contributing("R") \cup {t}) = Cardinality(Contributing("R")) + 1
      BY <1>0, <1>5, Parts, Contributors
    <2>2. QED
      BY <1>5, <2>1 DEF Readers, Writers
  <1>7. loop' = loop /\ Undo' = Undo /\ ForW' = ForW /\ UndoW' = UndoW /\ Queued' = Queued
    <2>1. Undoing' <=> Undoing
      BY <1>1, <1>2 DEF Undoing
    <2>2. QED
      BY <1>1, <1>2, <2>1 DEF Undo, ForW, UndoW, Queued
  <1>8. CountInv'
    <2>1. PICK x \in Int, y \in Int : x = 0 /\ y = -1
      OBVIOUS
    <2>2. count' = Wrap(count + x - ActiveMod * y)
      BY <1>1, <1>3, <2>1, BiasValue
    <2>3. /\ Readers' + Writers' + loop' + Undo' = Readers + Writers + loop + Undo + x
          /\ Writers' + ForW' + UndoW' + Queued' = Writers + ForW + UndoW + Queued + y
      BY <1>0, <1>6, <1>7, <2>1, Parts
    <2>4. QED
      BY <1>0, <1>4, <2>2, <2>3, Recount
  <1>9. ExclInv'
    BY <1>0, <1>1, <1>2 DEF ExclInv, WriterExcludes
  <1>10. QueueInv'
    BY <1>2 DEF QueueInv
  <1>11. QED
    BY <1>4, <1>8, <1>9, <1>10 DEF IInv

-----------------------------------------------------------------------------
(* A step of __rwsem_do_wake() that does not touch the queue: the task     *)
(* stays inside, or releases wait_lock and goes on.                        *)
LEMMA WakerShape ==
  ASSUME ShapeInv, NEW t \in Tasks, NEW l, pc[t] \in DoWake, pc' = [pc EXCEPT ![t] = l],
         TypeOK', FrontInv', UNCHANGED <<wait_list, flags, waiting, after, held>>,
         \/ l = after /\ wait_lock' = NoTask /\ loop' = 0
         \/ /\ l \in DoWake /\ wait_lock' = wait_lock
            /\ l \in {"dw_write", "dw_undo", "dw_test", "dw_add"} => loop' = 0
            /\ l = "dw_grant" => loop' # 0
  PROVE  /\ ShapeInv'
         /\ Contributing("R")' = Contributing("R") /\ Contributing("W")' = Contributing("W")
         /\ Readers' = Readers /\ Writers' = Writers
         /\ (Undoing <=> pc[t] = "dw_undo") /\ (Undoing' <=> l = "dw_undo")
         /\ pc'[t] = l /\ wait_lock = t
         /\ \A u \in Tasks : u # t => pc'[u] = pc[u] /\ pc[u] \notin DoWake
  <1>0. TypeOK /\ DataTypes /\ TaskTypeOK(Labels) /\ LockInv /\ (\A u \in Tasks : TaskOf(u)) /\ ListInv
    BY TypeParts DEF ShapeInv
  <1>1. wait_lock = t /\ pc'[t] = l /\ \A u \in Tasks : u # t => pc'[u] = pc[u] /\ pc[u] \notin DoWake
    BY <1>0 DEF LockInv, TaskTypeOK
  <1>2. /\ l # "queue" /\ pc[t] # "queue" /\ (l = "dw_undo" => l \in DoWake)
        /\ after \in {"idle", "check", "owner"}
    BY <1>0 DEF DoWake, DataTypes
  <1>3. LockInv'
    BY <1>0, <1>1, <1>2, RwsemAssumption DEF LockInv, DoWake
  <1>4. \A u \in Tasks : TaskOf(u)'
    BY <1>0, <1>1, <1>2 DEF TaskOf, Waiting, WaitLoop, DoWake
  <1>5. ListInv'
    BY <1>0 DEF ListInv
  <1>6. /\ Contributing("R")' = Contributing("R") /\ Contributing("W")' = Contributing("W")
        /\ Readers' = Readers /\ Writers' = Writers
    <2>1. Contributing("R")' = Contributing("R") /\ Contributing("W")' = Contributing("W")
      BY <1>1, <1>2 DEF Contributing
    <2>2. QED
      BY <2>1 DEF Readers, Writers
  <1>7. (Undoing <=> pc[t] = "dw_undo") /\ (Undoing' <=> l = "dw_undo")
    BY <1>1 DEF Undoing, DoWake
  <1>8. QED
    BY <1>1, <1>3, <1>4, <1>5, <1>6, <1>7 DEF ShapeInv

(* The wakeup of the waiter that was granted. *)
LEMMA WakeStep ==
  ASSUME IInv, NEW t \in Tasks, do_wake_task(t)
  PROVE  IInv'
  <1>0. /\ ShapeInv /\ CountInv /\ ExclInv /\ QueueInv /\ TypeOK /\ DataTypes /\ TaskTypeOK(Labels)
        /\ FrontInv
    BY TypeParts DEF IInv, ShapeInv
  <1> DEFINE l == IF loop = 0 THEN after ELSE "dw_grant"
  <1>1. /\ pc[t] = "dw_wake" /\ pc' = [pc EXCEPT ![t] = l]
        /\ l \notin {"dw_write", "dw_undo", "dw_test", "dw_add"}
        /\ UNCHANGED <<count, wait_list, flags, waiting, loop, after, held>>
        /\ loop = 0 => l = after /\ wait_lock' = NoTask
        /\ loop # 0 => l = "dw_grant" /\ wait_lock' = wait_lock
    <2>1. after \in {"idle", "check", "owner"} /\ pc[t] = "dw_wake"
      BY <1>0 DEF do_wake_task, DataTypes
    <2>2. CASE loop = 0
      BY <2>1, <2>2 DEF do_wake_task, Unlock
    <2>3. CASE loop # 0
      BY <2>1, <2>3 DEF do_wake_task, Unlock
    <2>4. QED
      BY <2>2, <2>3
  <1>2. TypeOK'
    <2>1. TaskTypeOK(Labels)'
      BY <1>0, <1>1 DEF do_wake_task, wake_up_process, try_to_wake_up, TaskTypeOK, Labels, States, DataTypes
    <2>2. CountType' /\ DataTypes'
      BY <1>0, <1>1 DEF do_wake_task, CountType, DataTypes, TypeOK
    <2>3. QED
      BY <2>1, <2>2, TypeParts
  <1>3. \A u \in Tasks : pc'[u] \in {"dw_write", "dw_undo", "dw_test", "dw_add"} => pc[u] = pc'[u]
    BY <1>0, <1>1 DEF TaskTypeOK
  <1>4. FrontInv'
    BY <1>0, <1>1, <1>3 DEF FrontInv, Front
  <1>5. pc[t] \in DoWake /\ "dw_grant" \in DoWake
    BY <1>1 DEF DoWake
  <1> HIDE DEF l
  <1>6. /\ ShapeInv' /\ Contributing("R")' = Contributing("R") /\ Contributing("W")' = Contributing("W")
        /\ Readers' = Readers /\ Writers' = Writers
        /\ (Undoing <=> pc[t] = "dw_undo") /\ (Undoing' <=> l = "dw_undo")
        /\ pc'[t] = l /\ wait_lock = t
        /\ \A u \in Tasks : u # t => pc'[u] = pc[u] /\ pc[u] \notin DoWake
    BY <1>0, <1>1, <1>2, <1>4, <1>5, WakerShape
  <1>7. CountInv'
    <2>1. ~Undoing /\ ~Undoing' /\ Front' = Front
      BY <1>1, <1>6 DEF Front
    <2>2. Undo' = Undo /\ ForW' = ForW /\ UndoW' = UndoW /\ Queued' = Queued
      BY <1>1, <2>1 DEF Undo, ForW, UndoW, Queued, One
    <2>3. Actives' = Actives /\ Biases' = Biases
      BY <1>1, <1>6, <2>2 DEF Actives, Biases
    <2>4. QED
      BY <1>0, <1>1, <2>3 DEF CountInv
  <1>8. ExclInv'
    BY <1>0, <1>1, <1>3 DEF ExclInv, WriterExcludes, Front
  <1>9. QueueInv'
    BY <1>0, <1>1, <1>6 DEF QueueInv, Working, AtWork
  <1>10. QED
    BY <1>6, <1>7, <1>8, <1>9 DEF IInv

(* If somebody contributes, he holds the lock or is about to queue up. *)
Populated == Readers + Writers # 0 => \E u \in Tasks : held[u] # "none" \/ pc[u] = "queue"

(* A set with nobody in it adds nothing. *)
LEMMA Somebody == ShapeInv => Populated
  <1> SUFFICES ASSUME ShapeInv, \A u \in Tasks : held[u] = "none" /\ pc[u] # "queue"
               PROVE  Readers + Writers = 0
    BY DEF Populated
  <1>1. Contributing("R") = {} /\ Contributing("W") = {}
    BY DEF Contributing
  <1>2. Readers = 0 /\ Writers = 0
    BY <1>1, FS_EmptySet DEF Readers, Writers
  <1>3. QED
    BY <1>2

(* And after a step. *)
LEMMA SomebodyNext == ShapeInv' => Populated'
  BY Somebody, PTL

(* A queue that is not empty has a first waiter. *)
LEMMA FirstWaiter ==
  ASSUME ShapeInv, wait_list # <<>>
  PROVE  /\ Len(wait_list) \in Nat /\ Len(wait_list) >= 1 /\ 1 \in 1..Len(wait_list)
         /\ wait_list[1] \in Entries(wait_list) /\ wait_list[1] \in Tasks /\ waiting[wait_list[1]]
  <1>1. wait_list \in Seq(Tasks) /\ Entries(wait_list) = {t \in Tasks : waiting[t]}
    BY DEF ShapeInv, TypeOK, ListInv
  <1>2. Len(wait_list) \in Nat /\ Len(wait_list) >= 1
    BY <1>1
  <1>3. wait_list[1] \in Entries(wait_list)
    BY <1>2 DEF Entries
  <1>4. QED
    BY <1>1, <1>2, <1>3

(* The first waiter is the last one if there is only one. *)
LEMMA AdjustmentValue ==
  ASSUME ShapeInv, wait_list # <<>>
  PROVE  WriteAdjustment = IF Len(wait_list) = 1 THEN 1 ELSE 1 - ActiveMod
  <1>1. Len(wait_list) \in Nat /\ Len(wait_list) >= 1 /\ LinkedOnce(wait_list)
    BY FirstWaiter DEF ShapeInv, ListInv
  <1>2. wait_list[Len(wait_list)] = wait_list[1] <=> Len(wait_list) = 1
    <2>1. PICK n \in Nat : n = Len(wait_list) /\ n >= 1
      BY <1>1
    <2>2. n \in 1..n /\ 1 \in 1..n
      BY <2>1
    <2>3. wait_list[n] = wait_list[1] => n = 1
      BY <1>1, <2>1, <2>2 DEF LinkedOnce
    <2>4. QED
      BY <2>1, <2>3
  <1>3. QED
    BY <1>1, <1>2, BiasValue DEF WriteAdjustment, list_is_last, list_first_entry

(* The first look at the count when readers are at the front. *)
LEMMA TestStep ==
  ASSUME IInv, NEW t \in Tasks, readers_only_test(t)
  PROVE  IInv'
  <1>0. /\ ShapeInv /\ CountInv /\ ExclInv /\ QueueInv /\ TypeOK /\ DataTypes /\ TaskTypeOK(Labels)
        /\ FrontInv /\ LockInv
    BY TypeParts DEF IInv, ShapeInv
  <1>1. /\ pc[t] = "dw_test" /\ UNCHANGED <<count, wait_list, flags, waiting, loop, after, held, tsk>>
        /\ UNCHANGED <<state, on_rq, sig, timer>> /\ after \in {"idle", "check", "owner"}
        /\ count \in Int /\ WAITING_BIAS \in Int /\ loop = 0 /\ wait_list # <<>> /\ Front = "R"
    BY <1>0, BiasValue, RwsemAssumption DEF readers_only_test, DataTypes, TypeOK, Word, LockInv, FrontInv
  <1>2. PICK l \in {"idle", "check", "owner", "dw_add"} :
          /\ pc' = [pc EXCEPT ![t] = l]
          /\ \/ l = after /\ wait_lock' = NoTask /\ count < WAITING_BIAS
             \/ l = "dw_add" /\ wait_lock' = wait_lock /\ count >= WAITING_BIAS
    BY <1>1 DEF readers_only_test, Unlock
  <1>3. TypeOK'
    <2>1. TaskTypeOK(Labels)' /\ CountType' /\ DataTypes'
      BY <1>0, <1>1, <1>2 DEF TaskTypeOK, Labels, CountType, DataTypes, TypeOK
    <2>2. QED
      BY <2>1, TypeParts
  <1>4. FrontInv'
    BY <1>0, <1>1, <1>2 DEF FrontInv, Front, TaskTypeOK
  <1>5. pc[t] \in DoWake /\ "dw_add" \in DoWake
    BY <1>1 DEF DoWake
  <1>6. /\ ShapeInv' /\ Readers' = Readers /\ Writers' = Writers
        /\ (Undoing <=> pc[t] = "dw_undo") /\ (Undoing' <=> l = "dw_undo")
        /\ pc'[t] = l /\ wait_lock = t
        /\ \A u \in Tasks : u # t => pc'[u] = pc[u] /\ pc[u] \notin DoWake
    BY <1>0, <1>1, <1>2, <1>3, <1>4, <1>5, WakerShape
  <1>7. CountInv'
    <2>1. ~Undoing /\ ~Undoing' /\ Front' = Front
      BY <1>1, <1>2, <1>6 DEF Front
    <2>2. Undo' = Undo /\ ForW' = ForW /\ UndoW' = UndoW /\ Queued' = Queued
      BY <1>1, <2>1 DEF Undo, ForW, UndoW, Queued, One
    <2>3. Actives' = Actives /\ Biases' = Biases
      BY <1>1, <1>6, <2>2 DEF Actives, Biases
    <2>4. QED
      BY <1>0, <1>1, <2>3 DEF CountInv
  <1>8. Biases = Writers + 1 /\ Writers \in Nat /\ Readers \in Nat
    <2>1. Len(wait_list) \in Nat /\ Len(wait_list) >= 1 /\ ~Undoing
      BY <1>0, <1>1, <1>6, FirstWaiter
    <2>2. ForW = 0 /\ UndoW = 0 /\ Queued = 1
      BY <1>1, <2>1 DEF ForW, UndoW, Queued, One
    <2>3. QED
      BY <1>0, <2>2, Parts DEF Biases
  <1>9. count < WAITING_BIAS <=> Biases >= 2
    BY <1>0, Reads DEF Read
  <1>10. ExclInv'
    <2>1. l = "dw_add" => \A u \in Tasks : held[u] # "W"
      <3>1. l = "dw_add" => Writers = 0
        BY <1>1, <1>2, <1>8, <1>9
      <3>2. QED
        BY <1>0, <3>1, Nobody
    <2>2. QED
      BY <1>0, <1>1, <1>2, <1>6, <2>1 DEF ExclInv, WriterExcludes, Front, DoWake
  <1>11. QueueInv'
    <2>1. CASE l = "dw_add"
      BY <1>6, <2>1 DEF QueueInv, Working, AtWork
    <2>2. CASE l # "dw_add"
      <3>1. Readers + Writers # 0
        BY <1>1, <1>2, <1>8, <1>9, <2>2
      <3>2. PICK u \in Tasks : held[u] # "none" \/ pc[u] = "queue"
        BY <1>0, <3>1, Somebody DEF Populated
      <3>3. held'[u] # "none" \/ pc'[u] = "queue"
        BY <1>1, <1>6, <3>2
      <3>4. QED
        BY <3>3 DEF QueueInv, Working, AtWork
    <2>3. QED
      BY <2>1, <2>2
  <1>12. QED
    BY <1>6, <1>7, <1>10, <1>11 DEF IInv

(* The attempt to give the lock to the writer at the front. *)
LEMMA TryStep ==
  ASSUME IInv, NEW t \in Tasks, try_again_write(t)
  PROVE  IInv'
  <1>0. /\ ShapeInv /\ CountInv /\ ExclInv /\ QueueInv /\ TypeOK /\ DataTypes /\ TaskTypeOK(Labels)
        /\ FrontInv /\ LockInv
    BY TypeParts DEF IInv, ShapeInv
  <1>1. /\ pc[t] = "dw_write" /\ UNCHANGED <<wait_list, wait_lock, flags, waiting, after, held, tsk>>
        /\ UNCHANGED <<state, on_rq, sig, timer>> /\ count' = Wrap(count + WriteAdjustment)
        /\ count \in Int /\ loop = 0 /\ wait_list # <<>> /\ Front = "W"
    BY <1>0, RwsemAssumption DEF try_again_write, Goto, DataTypes, TypeOK, Word, LockInv, FrontInv
  <1>2. PICK l \in {"dw_undo", "dw_grant"} :
          /\ pc' = [pc EXCEPT ![t] = l]
          /\ \/ l = "dw_undo" /\ loop' = 0
             \/ l = "dw_grant" /\ loop' = 1 /\ Active(count) = 0
    BY <1>1 DEF try_again_write, Goto
  <1>3. /\ Len(wait_list) \in Nat /\ Len(wait_list) >= 1
        /\ WriteAdjustment = IF Len(wait_list) = 1 THEN 1 ELSE 1 - ActiveMod
    BY <1>0, <1>1, FirstWaiter, AdjustmentValue
  <1>4. TypeOK'
    <2>1. TaskTypeOK(Labels)' /\ DataTypes'
      BY <1>0, <1>1, <1>2 DEF TaskTypeOK, Labels, DataTypes
    <2>2. WriteAdjustment \in Int
      BY <1>3, BiasValue
    <2>3. QED
      BY <1>0, <1>1, <2>1, <2>2, TypeParts, CountIsWord
  <1>5. FrontInv'
    <2>1. Front' = Front
      BY <1>1 DEF Front
    <2>2. \A i \in 1..loop' : flags[wait_list[i]] = Front
      BY <1>2, <1>3 DEF Front
    <2>3. loop' <= Len(wait_list) /\ (loop' # 0 => loop' = 1)
      BY <1>2, <1>3
    <2>4. \A u \in Tasks : pc'[u] = pc[u] \/ (u = t /\ pc'[u] \in {"dw_undo", "dw_grant"})
      BY <1>0, <1>2 DEF TaskTypeOK
    <2>5. QED
      BY <1>0, <1>1, <2>1, <2>2, <2>3, <2>4 DEF FrontInv
  <1>6. /\ pc[t] \in DoWake /\ l \in DoWake
        /\ l \in {"dw_write", "dw_undo", "dw_test", "dw_add"} => loop' = 0
        /\ l = "dw_grant" => loop' # 0
    BY <1>1, <1>2 DEF DoWake
  <1>7. /\ ShapeInv' /\ Readers' = Readers /\ Writers' = Writers
        /\ (Undoing <=> pc[t] = "dw_undo") /\ (Undoing' <=> l = "dw_undo")
        /\ pc'[t] = l /\ wait_lock = t
        /\ \A u \in Tasks : u # t => pc'[u] = pc[u] /\ pc[u] \notin DoWake
    BY <1>0, <1>1, <1>2, <1>4, <1>5, <1>6, WakerShape
  <1>8. CountInv'
    <2>1. PICK x \in Int, y \in Int : x = 1 /\ y = IF Len(wait_list) = 1 THEN 0 ELSE 1
      OBVIOUS
    <2>2. count' = Wrap(count + x - ActiveMod * y)
      BY <1>1, <1>3, <2>1, BiasValue
    <2>3. Undo = 0 /\ ForW = 0 /\ UndoW = 0 /\ Queued = 1
      BY <1>1, <1>3, <1>7 DEF Undo, ForW, UndoW, Queued, One
    <2>4. loop' + Undo' = 1 /\ ForW' + UndoW' + Queued' = 1 + y
      <3>1. CASE l = "dw_undo"
        <4>1. Undoing' /\ loop' = 0
          BY <1>2, <1>7, <3>1
        <4>2. Undo' = 1 /\ ForW' = 0 /\ Queued' = 1 /\ UndoW' = IF Len(wait_list) = 1 THEN 0 ELSE 1
          BY <1>1, <1>3, <4>1 DEF Undo, ForW, UndoW, Queued, One
        <4>3. QED
          BY <2>1, <4>1, <4>2
      <3>2. CASE l = "dw_grant"
        <4>1. ~Undoing' /\ loop' = 1 /\ Front' = "W"
          BY <1>1, <1>2, <1>7, <3>2 DEF Front
        <4>2. Undo' = 0 /\ ForW' = 1 /\ UndoW' = 0 /\ Queued' = IF Len(wait_list) = 1 THEN 0 ELSE 1
          <5>1. PICK n \in Nat : n = Len(wait_list) /\ n = Len(wait_list') /\ n >= 1
            BY <1>1, <1>3
          <5>2. Undo' = 0 /\ ForW' = 1 /\ UndoW' = 0
            BY <4>1 DEF Undo, ForW, UndoW, One
          <5>3. Queued' = IF n = 1 THEN 0 ELSE 1
            BY <4>1, <5>1 DEF Queued, One
          <5>4. QED
            BY <5>1, <5>2, <5>3
        <4>3. QED
          BY <2>1, <4>1, <4>2
      <3>3. QED
        BY <3>1, <3>2
    <2>5. /\ Readers' + Writers' + loop' + Undo' = Readers + Writers + loop + Undo + x
          /\ Writers' + ForW' + UndoW' + Queued' = Writers + ForW + UndoW + Queued + y
      <3>1. PICK r \in Nat, w \in Nat : Readers = r /\ Writers = w /\ Readers' = r /\ Writers' = w
        BY <1>0, <1>7, Parts
      <3>2. PICK a \in Nat, b \in Nat, c \in Nat, d \in Nat, e \in Nat :
              loop' = a /\ Undo' = b /\ ForW' = c /\ UndoW' = d /\ Queued' = e
        BY <1>7, PartsNext
      <3>3. a + b = 1 /\ c + d + e = 1 + y
        BY <2>4, <3>2
      <3>4. QED
        BY <1>1, <2>1, <2>3, <3>1, <3>2, <3>3
    <2>6. QED
      BY <1>0, <1>7, <2>2, <2>5, Recount
  <1>9. l = "dw_grant" => \A u \in Tasks : held[u] = "none"
    <2>1. l = "dw_grant" => Actives = 0
      BY <1>0, <1>2, Reads DEF Read
    <2>2. QED
      BY <1>0, <2>1, Zeros
  <1>10. ExclInv'
    BY <1>0, <1>1, <1>2, <1>7, <1>9 DEF ExclInv, WriterExcludes, Front, DoWake
  <1>11. QueueInv'
    BY <1>2, <1>7 DEF QueueInv, Working, AtWork
  <1>12. QED
    BY <1>7, <1>8, <1>10, <1>11 DEF IInv

(* The attempt is taken back. *)
LEMMA UndoStep ==
  ASSUME IInv, NEW t \in Tasks, undo_write(t)
  PROVE  IInv'
  <1>0. /\ ShapeInv /\ CountInv /\ ExclInv /\ QueueInv /\ TypeOK /\ DataTypes /\ TaskTypeOK(Labels)
        /\ FrontInv /\ LockInv
    BY TypeParts DEF IInv, ShapeInv
  <1>1. /\ pc[t] = "dw_undo" /\ UNCHANGED <<wait_list, flags, waiting, loop, after, held, tsk>>
        /\ UNCHANGED <<state, on_rq, sig, timer>> /\ count' = Wrap(count - WriteAdjustment)
        /\ count \in Int /\ loop = 0 /\ wait_list # <<>> /\ Front = "W" /\ after \in {"idle", "check", "owner"}
    BY <1>0, RwsemAssumption DEF undo_write, DataTypes, TypeOK, Word, LockInv, FrontInv
  <1>2. PICK l \in {"idle", "check", "owner", "dw_write"} :
          /\ pc' = [pc EXCEPT ![t] = l]
          /\ \/ l = after /\ wait_lock' = NoTask /\ Active(count') # 0
             \/ l = "dw_write" /\ wait_lock' = wait_lock
    BY <1>1 DEF undo_write, Unlock
  <1>3. /\ Len(wait_list) \in Nat /\ Len(wait_list) >= 1 /\ WriteAdjustment \in Int
        /\ WriteAdjustment = IF Len(wait_list) = 1 THEN 1 ELSE 1 - ActiveMod
    BY <1>0, <1>1, FirstWaiter, AdjustmentValue, BiasValue
  <1>4. TypeOK'
    <2>1. TaskTypeOK(Labels)' /\ DataTypes'
      BY <1>0, <1>1, <1>2 DEF TaskTypeOK, Labels, DataTypes
    <2>2. -WriteAdjustment \in Int /\ count' = Wrap(count + (-WriteAdjustment))
      BY <1>1, <1>3
    <2>3. QED
      BY <1>0, <1>1, <2>1, <2>2, TypeParts, CountIsWord
  <1>5. FrontInv'
    BY <1>0, <1>1, <1>2 DEF FrontInv, Front, TaskTypeOK
  <1>6. pc[t] \in DoWake /\ "dw_write" \in DoWake
    BY <1>1 DEF DoWake
  <1>7. /\ ShapeInv' /\ Readers' = Readers /\ Writers' = Writers
        /\ (Undoing <=> pc[t] = "dw_undo") /\ (Undoing' <=> l = "dw_undo")
        /\ pc'[t] = l /\ wait_lock = t
        /\ \A u \in Tasks : u # t => pc'[u] = pc[u] /\ pc[u] \notin DoWake
    BY <1>0, <1>1, <1>2, <1>4, <1>5, <1>6, WakerShape
  <1>8. Undoing /\ ~Undoing'
    BY <1>1, <1>2, <1>7
  <1>9. CountInv'
    <2>1. PICK x \in Int, y \in Int : x = -1 /\ y = IF Len(wait_list) = 1 THEN 0 ELSE -1
      OBVIOUS
    <2>2. count' = Wrap(count + x - ActiveMod * y)
      BY <1>1, <1>3, <2>1, BiasValue
    <2>3. Undo = 1 /\ Undo' = 0 /\ ForW = 0 /\ ForW' = 0 /\ Queued = 1 /\ Queued' = 1
      BY <1>1, <1>3, <1>8 DEF Undo, ForW, Queued, One
    <2>4. UndoW' = 0 /\ UndoW = IF Len(wait_list) = 1 THEN 0 ELSE 1
      BY <1>1, <1>3, <1>8 DEF UndoW, One
    <2>5. /\ Readers' + Writers' + loop' + Undo' = Readers + Writers + loop + Undo + x
          /\ Writers' + ForW' + UndoW' + Queued' = Writers + ForW + UndoW + Queued + y
      BY <1>0, <1>1, <1>7, <2>1, <2>3, <2>4, Parts
    <2>6. QED
      BY <1>0, <1>7, <2>2, <2>5, Recount
  <1>10. ExclInv'
    BY <1>0, <1>1, <1>2, <1>7 DEF ExclInv, WriterExcludes, Front, DoWake
  <1>11. QueueInv'
    <2>1. CASE l = "dw_write"
      BY <1>7, <2>1 DEF QueueInv, Working, AtWork
    <2>2. CASE l # "dw_write"
      <3>1. Active(count') = Actives' /\ Actives' # 0
        BY <1>2, <1>7, <1>9, <2>2, ReadsNext DEF Read
      <3>2. Undo' = 0 /\ loop' = 0
        BY <1>1, <1>8 DEF Undo, One
      <3>3. Readers' + Writers' # 0
        BY <1>7, <3>1, <3>2, PartsNext DEF Actives
      <3>4. \E u \in Tasks : held'[u] # "none" \/ pc'[u] = "queue"
        BY <1>7, <3>3, SomebodyNext DEF Populated
      <3>5. QED
        BY <3>4 DEF QueueInv, Working, AtWork
    <2>3. QED
      BY <2>1, <2>2
  <1>12. QED
    BY <1>7, <1>9, <1>10, <1>11 DEF IInv

(* Woken is the number of readers before the first writer. *)
LEMMA WokenReaders ==
  ASSUME ShapeInv, wait_list # <<>>, Front = "R"
  PROVE  /\ Woken \in 1..Len(wait_list)
         /\ \A i \in 1..Woken : flags[wait_list[i]] = "R"
         /\ Woken < Len(wait_list) => flags[wait_list[Woken + 1]] = "W"
  <1> DEFINE n == Len(wait_list)
             P(m) == /\ \A i \in 1..m : flags[wait_list[i]] = "R"
                     /\ m < n => flags[wait_list[m + 1]] = "W"
             S == {i \in 1..n : flags[wait_list[i]] = "W"}
  <1>1. n \in Nat /\ n >= 1 /\ flags[wait_list[1]] = "R"
    BY FirstWaiter DEF Front
  <1>2. \A i \in 1..n : flags[wait_list[i]] \in {"R", "W"}
    BY DEF ShapeInv, TypeOK
  <1> HIDE DEF n
  <1>3. \E m \in 1..n : P(m)
    <2>1. CASE S = {}
      <3>1. \A i \in 1..n : flags[wait_list[i]] = "R"
        BY <1>2, <2>1
      <3>2. QED
        BY <1>1, <3>1
    <2>2. CASE S # {}
      <3>1. S \in SUBSET Nat
        BY <1>1
      <3>2. PICK k \in S : \A j \in S : k <= j
        BY <2>2, <3>1, Least
      <3>3. k \in 1..n /\ flags[wait_list[k]] = "W" /\ k # 1
        BY <1>1, <3>2
      <3>4. \A i \in 1..n : i < k => flags[wait_list[i]] = "R"
        BY <1>1, <1>2, <3>2, <3>3
      <3>5. k - 1 \in 1..n /\ (k - 1) + 1 = k /\ \A i \in 1..(k - 1) : i \in 1..n /\ i < k
        BY <1>1, <3>3
      <3>6. P(k - 1)
        BY <3>3, <3>4, <3>5
      <3>7. QED
        BY <3>5, <3>6
    <2>3. QED
      BY <2>1, <2>2
  <1>4. Woken = CHOOSE m \in 1..n : P(m)
    BY DEF Woken, n
  <1> HIDE DEF P
  <1>5. Woken \in 1..n /\ P(Woken)
    BY <1>3, <1>4
  <1>6. QED
    BY <1>5 DEF P, n

(* The readers at the front are counted as active. *)
LEMMA AddStep ==
  ASSUME IInv, NEW t \in Tasks, readers_only_add(t)
  PROVE  IInv'
  <1>0. /\ ShapeInv /\ CountInv /\ ExclInv /\ QueueInv /\ TypeOK /\ DataTypes /\ TaskTypeOK(Labels)
        /\ FrontInv /\ LockInv
    BY TypeParts DEF IInv, ShapeInv
  <1>1. /\ pc[t] = "dw_add" /\ pc' = [pc EXCEPT ![t] = "dw_grant"]
        /\ UNCHANGED <<wait_list, wait_lock, flags, waiting, after, held, tsk>>
        /\ UNCHANGED <<state, on_rq, sig, timer>> /\ loop' = Woken
        /\ count' = Wrap(count + Woken * ACTIVE_READ_BIAS
                           - (IF Woken = Len(wait_list) THEN WAITING_BIAS ELSE 0))
        /\ count \in Int /\ loop = 0 /\ wait_list # <<>> /\ Front = "R"
    BY <1>0, RwsemAssumption DEF readers_only_add, Goto, DataTypes, TypeOK, Word, LockInv, FrontInv
  <1>2. PICK n \in Nat, w \in Nat : /\ n = Len(wait_list) /\ w = Woken /\ w >= 1 /\ w <= n
                                    /\ \A i \in 1..w : flags[wait_list[i]] = "R"
    BY <1>0, <1>1, FirstWaiter, WokenReaders
  <1>3. PICK x \in Int, y \in Int : x = w /\ y = IF w = n THEN -1 ELSE 0
    BY <1>2
  <1>4. count' = Wrap(count + x - ActiveMod * y)
    <2>1. PICK a \in Int : a = x - ActiveMod * y
      BY <1>3, BiasValue
    <2>2. a = w * ACTIVE_READ_BIAS - (IF w = n THEN WAITING_BIAS ELSE 0)
      BY <1>3, <2>1, BiasValue
    <2>3. count' = Wrap(count + w * ACTIVE_READ_BIAS - (IF w = n THEN WAITING_BIAS ELSE 0))
      BY <1>1, <1>2
    <2>4. /\ count + w * ACTIVE_READ_BIAS - (IF w = n THEN WAITING_BIAS ELSE 0) = count + a
          /\ count + x - ActiveMod * y = count + a
      BY <1>1, <1>3, <2>1, <2>2, BiasValue
    <2>5. QED
      BY <2>3, <2>4
  <1>5. TypeOK'
    <2>1. TaskTypeOK(Labels)' /\ DataTypes'
      BY <1>0, <1>1, <1>2 DEF TaskTypeOK, Labels, DataTypes
    <2>2. PICK a \in Int : a = x - ActiveMod * y
      BY <1>3, BiasValue
    <2>3. count' = Wrap(count + a)
      BY <1>1, <1>4, <2>2, BiasValue
    <2>4. QED
      BY <1>0, <2>1, <2>3, TypeParts, CountIsWord
  <1>6. FrontInv'
    <2>1. Front' = Front
      BY <1>1 DEF Front
    <2>2. \A u \in Tasks : pc'[u] = pc[u] \/ (u = t /\ pc'[u] = "dw_grant")
      BY <1>0, <1>1 DEF TaskTypeOK
    <2>3. QED
      BY <1>0, <1>1, <1>2, <2>1, <2>2 DEF FrontInv
  <1>7. pc[t] \in DoWake /\ "dw_grant" \in DoWake /\ loop' # 0
    BY <1>1, <1>2 DEF DoWake
  <1>8. /\ ShapeInv' /\ Readers' = Readers /\ Writers' = Writers
        /\ (Undoing <=> pc[t] = "dw_undo") /\ (Undoing' <=> "dw_grant" = "dw_undo")
        /\ \A u \in Tasks : u # t => pc'[u] = pc[u] /\ pc[u] \notin DoWake
    BY <1>0, <1>1, <1>5, <1>6, <1>7, WakerShape
  <1>9. CountInv'
    <2>1. ~Undoing /\ ~Undoing' /\ Front' = "R"
      BY <1>1, <1>8 DEF Front
    <2>2. Undo = 0 /\ Undo' = 0 /\ ForW = 0 /\ ForW' = 0 /\ UndoW = 0 /\ UndoW' = 0
      BY <1>1, <2>1 DEF Undo, ForW, UndoW, One
    <2>3. Queued = 1 /\ Queued' = IF w = n THEN 0 ELSE 1
      BY <1>1, <1>2 DEF Queued, One
    <2>4. /\ Readers' + Writers' + loop' + Undo' = Readers + Writers + loop + Undo + x
          /\ Writers' + ForW' + UndoW' + Queued' = Writers + ForW + UndoW + Queued + y
      BY <1>0, <1>1, <1>2, <1>3, <1>8, <2>2, <2>3, Parts
    <2>5. QED
      BY <1>0, <1>4, <1>8, <2>4, Recount
  <1>10. ExclInv'
    <2>1. \A u \in Tasks : held[u] # "W" /\ pc'[u] # "dw_add"
      BY <1>0, <1>1, <1>8 DEF ExclInv, DoWake, TaskTypeOK
    <2>2. Front' = "R"
      BY <1>1 DEF Front
    <2>3. QED
      BY <1>0, <1>1, <2>1, <2>2 DEF ExclInv, WriterExcludes
  <1>11. QueueInv'
    BY <1>7 DEF QueueInv
  <1>12. QED
    BY <1>8, <1>9, <1>10, <1>11 DEF IInv

(* Unlinking the first entry moves the others up by one. *)
LEMMA DelFirst ==
  ASSUME NEW S, NEW q \in Seq(S), LinkedOnce(q), NEW n \in Nat, n = Len(q), n >= 1
  PROVE  \A i \in 1..(n - 1) : list_del(q[1], q)[i] = q[i + 1]
  <1> DEFINE k == CHOOSE i \in 1..n : q[i] = q[1]
  <1>1. 1 \in 1..n
    OBVIOUS
  <1>2. k \in 1..n /\ q[k] = q[1]
    BY <1>1
  <1>3. k = 1
    BY <1>1, <1>2 DEF LinkedOnce
  <1>4. list_del(q[1], q) = [i \in 1..(n - 1) |-> IF i < k THEN q[i] ELSE q[i + 1]]
    BY DEF list_del
  <1> HIDE DEF k
  <1>5. \A i \in 1..(n - 1) : ~(i < k)
    BY <1>3
  <1>6. QED
    BY <1>4, <1>5

(* The first waiter is granted the lock. *)
LEMMA GrantStep ==
  ASSUME IInv, NEW t \in Tasks, do_wake_grant(t)
  PROVE  IInv'
  <1>0. /\ ShapeInv /\ CountInv /\ ExclInv /\ QueueInv /\ TypeOK /\ DataTypes /\ TaskTypeOK(Labels)
        /\ FrontInv /\ LockInv /\ ListInv /\ (\A u \in Tasks : TaskOf(u))
    BY TypeParts DEF IInv, ShapeInv
  <1>1. PICK w \in Tasks, k \in {"R", "W"} :
          w = wait_list[1] /\ k = flags[w] /\ w \in Entries(wait_list) /\ waiting[w]
    <2>1. wait_list # <<>>
      BY <1>0 DEF do_wake_grant, Goto, LockInv, FrontInv, DataTypes
    <2>2. QED
      BY <1>0, <2>1, FirstWaiter DEF DataTypes
  <1> DEFINE q == list_del(w, wait_list)
  <1>a. /\ pc[t] = "dw_grant" /\ pc' = [pc EXCEPT ![t] = "dw_wake"] /\ wait_list' = q /\ tsk' = w
        /\ waiting' = [waiting EXCEPT ![w] = FALSE] /\ held' = [held EXCEPT ![w] = k]
        /\ loop' = loop - 1 /\ UNCHANGED <<count, wait_lock, flags, after, state, on_rq, sig, timer>>
    BY <1>1 DEF do_wake_grant, Goto, list_first_entry
  <1> HIDE DEF q
  <1>2. /\ wait_lock = t /\ pc'[t] = "dw_wake" /\ pc[t] \in DoWake
        /\ \A u \in Tasks : u # t => pc'[u] = pc[u] /\ pc[u] \notin DoWake
    BY <1>0, <1>a DEF LockInv, TaskTypeOK, DoWake
  <1>3. PICK n \in Nat, m \in Nat : n = Len(wait_list) /\ loop = m /\ m >= 1 /\ m <= n
    BY <1>0, <1>a DEF DataTypes, LockInv, FrontInv
  <1>4. Front = k
    BY <1>1 DEF Front
  <1>5. /\ q \in Seq(Tasks) /\ Len(q) = n - 1 /\ Entries(q) = Entries(wait_list) \ {w} /\ LinkedOnce(q)
        /\ \A i \in 1..(n - 1) : q[i] = wait_list[i + 1]
    <2>1. wait_list \in Seq(Tasks) /\ LinkedOnce(wait_list) /\ n >= 1
      BY <1>0, <1>3 DEF DataTypes, ListInv
    <2>2. q \in Seq(Tasks) /\ Len(q) = n - 1 /\ Entries(q) = Entries(wait_list) \ {w} /\ LinkedOnce(q)
      BY <1>1, <1>3, <2>1, ListDel DEF q
    <2>3. \A i \in 1..(n - 1) : list_del(wait_list[1], wait_list)[i] = wait_list[i + 1]
      BY <1>3, <2>1, DelFirst
    <2>4. QED
      BY <1>1, <2>2, <2>3 DEF q
  <1>6. /\ held[w] = "none" /\ held'[w] = k /\ \A u \in Tasks : u # w => held'[u] = held[u]
        /\ ~waiting'[w] /\ \A u \in Tasks : u # w => waiting'[u] = waiting[u]
        /\ pc[w] # "queue" /\ Waiting(w)
    BY <1>0, <1>a, <1>1, <1>4 DEF DataTypes, TaskOf, Waiting, WaitLoop, DoWake
  <1>7. m - 1 >= 1 => Front' = k
    <2>1. ASSUME m - 1 >= 1 PROVE q[1] = wait_list[2] /\ flags[wait_list[2]] = Front
      <3>1. 1 \in 1..(n - 1) /\ 2 \in 1..m /\ 1 + 1 = 2
        BY <1>3, <2>1
      <3>2. q[1] = wait_list[1 + 1]
        BY <1>5, <3>1
      <3>3. QED
        BY <1>0, <1>3, <3>1, <3>2 DEF FrontInv
    <2>2. QED
      BY <1>a, <1>1, <1>4, <2>1 DEF Front
  <1>8. ShapeInv'
    <2>1. TypeOK'
      <3>1. TaskTypeOK(Labels)'
        BY <1>0, <1>a DEF TaskTypeOK, Labels
      <3>2. CountType'
        BY <1>0, <1>a DEF CountType, TypeOK
      <3>3. DataTypes'
        BY <1>0, <1>a, <1>3, <1>1, <1>4, <1>5 DEF DataTypes
      <3>4. QED
        BY <3>1, <3>2, <3>3, TypeParts
    <2>2. LockInv'
      BY <1>0, <1>a, <1>2, RwsemAssumption DEF LockInv, DoWake
    <2>3. \A u \in Tasks : TaskOf(u)'
      BY <1>0, <1>a, <1>2, <1>1, <1>4, <1>6 DEF TaskOf, Waiting, WaitLoop, DoWake
    <2>4. ListInv'
      BY <1>0, <1>a, <1>1, <1>4, <1>5, <1>6 DEF ListInv
    <2>5. FrontInv'
      <3>1. \A u \in Tasks : pc'[u] \notin {"dw_write", "dw_undo", "dw_test", "dw_add"}
        BY <1>2 DEF DoWake
      <3>2. loop' <= Len(wait_list')
        BY <1>a, <1>3, <1>5
      <3>3. \A i \in 1..loop' : flags'[wait_list'[i]] = Front'
        <4> SUFFICES ASSUME NEW i \in 1..(m - 1) PROVE flags[q[i]] = Front'
          BY <1>a, <1>3
        <4>1. i \in 1..(n - 1) /\ i + 1 \in 1..m /\ m - 1 >= 1
          BY <1>3
        <4>2. flags[wait_list[i + 1]] = k
          BY <1>0, <1>3, <1>1, <1>4, <4>1 DEF FrontInv
        <4>3. QED
          BY <1>5, <1>7, <4>1, <4>2
      <3>4. loop' # 0 /\ Front' = "W" => loop' = 1
        <4>1. loop' # 0 => m - 1 >= 1
          BY <1>a, <1>3
        <4>2. k = "W" => m = 1
          BY <1>0, <1>3, <1>1, <1>4 DEF FrontInv
        <4>3. QED
          BY <1>3, <1>7, <4>1, <4>2
      <3>5. QED
        BY <3>1, <3>2, <3>3, <3>4 DEF FrontInv
    <2>6. QED
      BY <2>1, <2>2, <2>3, <2>4, <2>5 DEF ShapeInv
  <1>9. /\ w \notin Contributing(k) /\ Contributing(k)' = Contributing(k) \cup {w}
        /\ \A j \in {"R", "W"} : j # k => Contributing(j)' = Contributing(j)
    <2>1. \A u \in Tasks : pc'[u] = "queue" <=> pc[u] = "queue"
      BY <1>a, <1>2
    <2>2. QED
      BY <1>a, <1>1, <1>4, <1>6, <2>1 DEF Contributing
  <1>10. CountInv'
    <2>1. /\ k = "R" => Readers' = Readers + 1 /\ Writers' = Writers
          /\ k = "W" => Writers' = Writers + 1 /\ Readers' = Readers
      BY <1>0, <1>1, <1>4, <1>9, OneMore
    <2>2. ~Undoing /\ ~Undoing'
      BY <1>a, <1>2 DEF Undoing, DoWake
    <2>3. Undo = 0 /\ Undo' = 0 /\ UndoW = 0 /\ UndoW' = 0
      BY <2>2 DEF Undo, UndoW, One
    <2>4. Queued' = Queued
      <3>1. /\ Queued = IF n > m THEN 1 ELSE 0
            /\ Queued' = IF n - 1 > m - 1 THEN 1 ELSE 0
        BY <1>a, <1>3, <1>5 DEF Queued, One
      <3>2. QED
        BY <1>3, <3>1
    <2>5. /\ k = "W" => ForW = 1 /\ ForW' = 0
          /\ k = "R" => ForW = 0 /\ ForW' = 0
      <3>1. k = "W" => m = 1
        BY <1>0, <1>3, <1>1, <1>4 DEF FrontInv
      <3>2. k = "W" => ForW = 1 /\ ForW' = 0
        BY <1>a, <1>3, <1>1, <1>4, <3>1 DEF ForW, One
      <3>3. k = "R" => ~(loop' # 0 /\ Front' = "W")
        BY <1>a, <1>3, <1>7
      <3>4. k = "R" => ForW = 0 /\ ForW' = 0
        BY <1>1, <1>4, <3>3 DEF ForW, One
      <3>5. QED
        BY <3>2, <3>4
    <2>6. /\ Readers' + Writers' + loop' + Undo' = Readers + Writers + loop + Undo
          /\ Writers' + ForW' + UndoW' + Queued' = Writers + ForW + UndoW + Queued
      <3>1. CASE k = "R"
        BY <1>0, <1>a, <1>3, <2>1, <2>3, <2>4, <2>5, <3>1, Parts
      <3>2. CASE k = "W"
        BY <1>0, <1>a, <1>3, <2>1, <2>3, <2>4, <2>5, <3>2, Parts
      <3>3. QED
        BY <1>1, <1>4, <3>1, <3>2
    <2>7. Actives' = Actives /\ Biases' = Biases
      BY <2>6 DEF Actives, Biases
    <2>8. QED
      BY <1>0, <1>a, <2>7 DEF CountInv
  <1>11. ExclInv'
    <2>1. \A u \in Tasks : pc'[u] # "dw_add"
      BY <1>2 DEF DoWake
    <2>2. \A u \in Tasks : held[u] # "W"
      BY <1>0, <1>3 DEF ExclInv
    <2>3. CASE k = "R"
      <3>1. \A u \in Tasks : held'[u] # "W"
        BY <1>1, <1>4, <1>6, <2>2, <2>3
      <3>2. ~(loop' # 0 /\ Front' = "W")
        BY <1>a, <1>3, <1>7, <2>3
      <3>3. QED
        BY <2>1, <3>1, <3>2 DEF ExclInv, WriterExcludes
    <2>4. CASE k = "W"
      <3>1. loop # 0 /\ loop' = 0
        BY <1>0, <1>a, <1>3, <1>1, <1>4, <2>4 DEF FrontInv
      <3>2. \A u \in Tasks : u # w => held'[u] = "none"
        BY <1>0, <1>1, <1>4, <1>6, <2>4, <3>1 DEF ExclInv
      <3>3. QED
        BY <2>1, <3>1, <3>2 DEF ExclInv, WriterExcludes
    <2>5. QED
      BY <1>1, <1>4, <2>3, <2>4
  <1>12. QueueInv'
    BY <1>1, <1>4, <1>6 DEF QueueInv
  <1>13. QED
    BY <1>8, <1>10, <1>11, <1>12 DEF IInv

-----------------------------------------------------------------------------
(* Where a task goes on that takes wait_lock. *)
NextOf(l) == IF l = "queue" THEN "check" ELSE IF l = "wake" THEN "idle" ELSE "owner"

(* A task takes wait_lock, and releases it at once or stays inside         *)
(* __rwsem_do_wake().                                                      *)
LEMMA LockerShape ==
  ASSUME ShapeInv, NEW t \in Tasks, NEW l, NEW f \in {"queue", "wake", "downgrade_wake"}, pc[t] = f,
         wait_lock = NoTask, pc' = [pc EXCEPT ![t] = l], TypeOK', ListInv', FrontInv',
         loop' = loop, held' = held,
         \A u \in Tasks : u # t => waiting'[u] = waiting[u], waiting'[t] <=> f = "queue",
         \/ l = NextOf(f) /\ wait_lock' = NoTask
         \/ l \in {"dw_write", "dw_test", "dw_add"} /\ wait_lock' = t /\ after' = NextOf(f)
  PROVE  /\ ShapeInv' /\ loop = 0 /\ ~Undoing /\ ~Undoing' /\ pc'[t] = l /\ ~waiting[t]
         /\ \A u \in Tasks : u # t => pc'[u] = pc[u]
         /\ \A u \in Tasks : pc[u] \notin DoWake /\ (u # t => pc'[u] \notin DoWake)
  <1>0. TypeOK /\ DataTypes /\ TaskTypeOK(Labels) /\ LockInv /\ (\A u \in Tasks : TaskOf(u))
    BY TypeParts DEF ShapeInv
  <1>1. pc'[t] = l /\ \A u \in Tasks : u # t => pc'[u] = pc[u]
    BY <1>0 DEF TaskTypeOK
  <1>2. loop = 0 /\ \A u \in Tasks : pc[u] \notin DoWake
    BY <1>0, RwsemAssumption DEF LockInv
  <1>3. ~Undoing /\ ~Undoing'
    BY <1>1, <1>2 DEF Undoing, DoWake, NextOf
  <1>4. ~waiting[t]
    BY <1>0 DEF TaskOf, Waiting, WaitLoop, DoWake
  <1>5. LockInv'
    BY <1>1, <1>2, RwsemAssumption DEF LockInv, DoWake, NextOf
  <1>6. ASSUME NEW u \in Tasks PROVE TaskOf(u)'
    <2>1. CASE u # t
      BY <1>0, <1>1, <1>2, <2>1 DEF TaskOf, Waiting
    <2>2. CASE u = t
      <3>1. CASE f = "queue"
        BY <1>0, <1>1, <2>2, <3>1 DEF TaskOf, Waiting, WaitLoop, DoWake, NextOf
      <3>2. CASE f = "wake"
        BY <1>0, <1>1, <2>2, <3>2 DEF TaskOf, Waiting, WaitLoop, DoWake, NextOf
      <3>3. CASE f = "downgrade_wake"
        BY <1>0, <1>1, <2>2, <3>3 DEF TaskOf, Waiting, WaitLoop, DoWake, NextOf
      <3>4. QED
        BY <3>1, <3>2, <3>3
    <2>3. QED
      BY <2>1, <2>2
  <1>7. QED
    BY <1>1, <1>2, <1>3, <1>4, <1>5, <1>6 DEF ShapeInv

(* rwsem_wake() and rwsem_downgrade_wake(). *)
LEMMA WakeTypeStep ==
  ASSUME IInv, NEW t \in Tasks, rwsem_wake(t) \/ rwsem_downgrade_wake(t)
  PROVE  IInv'
  <1>0. /\ ShapeInv /\ CountInv /\ ExclInv /\ QueueInv /\ TypeOK /\ DataTypes /\ TaskTypeOK(Labels)
        /\ FrontInv /\ LockInv /\ ListInv /\ TaskOf(t)
    BY TypeParts DEF IInv, ShapeInv
  <1>1. PICK f \in {"wake", "downgrade_wake"} :
          rwsem_wake_type(t, f, IF f = "wake" THEN "ANY" ELSE "READ_OWNED", NextOf(f))
    BY DEF rwsem_wake, rwsem_downgrade_wake, NextOf
  <1>2. /\ pc[t] = f /\ wait_lock = NoTask
        /\ UNCHANGED <<state, on_rq, sig, timer, count, wait_list, flags, waiting, tsk, loop, held>>
    BY <1>1 DEF rwsem_wake_type
  <1>3. PICK l \in {"idle", "owner", "dw_write", "dw_test", "dw_add"} :
          /\ pc' = [pc EXCEPT ![t] = l]
          /\ \/ l = NextOf(f) /\ wait_lock' = NoTask /\ after' \in {after, NextOf(f)}
             \/ l \in {"dw_write", "dw_test", "dw_add"} /\ wait_lock' = t /\ after' = NextOf(f)
          /\ l = "dw_write" => wait_list # <<>> /\ Front = "W"
          /\ l \in {"dw_test", "dw_add"} => wait_list # <<>> /\ Front # "W"
          /\ l = "dw_add" => f = "downgrade_wake"
          /\ f = "wake" => l \in {"dw_write", "dw_test"} \/ wait_list = <<>>
    <2>1. CASE wait_list = <<>>
      BY <1>1, <2>1 DEF rwsem_wake_type, list_empty, Unlock, NextOf
    <2>2. CASE wait_list # <<>> /\ f = "wake"
      BY <1>1, <2>2 DEF rwsem_wake_type, list_empty, do_wake, Unlock, NextOf, Front, list_first_entry
    <2>3. CASE wait_list # <<>> /\ f # "wake"
      BY <1>1, <2>3 DEF rwsem_wake_type, list_empty, do_wake, Unlock, NextOf, Front, list_first_entry
    <2>4. QED
      BY <2>1, <2>2, <2>3
  <1>4. Front' = Front /\ (wait_list # <<>> => Front \in {"R", "W"})
    <2>1. wait_list # <<>> => wait_list[1] \in Tasks
      BY <1>0, FirstWaiter
    <2>2. QED
      BY <1>0, <1>2, <2>1 DEF Front, DataTypes
  <1>5. pc'[t] = l /\ \A u \in Tasks : u # t => pc'[u] = pc[u]
    BY <1>0, <1>3 DEF TaskTypeOK
  <1>6. TypeOK'
    <2>1. TaskTypeOK(Labels)'
      BY <1>0, <1>2, <1>3 DEF TaskTypeOK, Labels
    <2>2. CountType'
      BY <1>0, <1>2 DEF CountType, TypeOK
    <2>3. DataTypes'
      BY <1>0, <1>2, <1>3 DEF DataTypes, NextOf
    <2>4. QED
      BY <2>1, <2>2, <2>3, TypeParts
  <1>7. ListInv' /\ FrontInv'
    BY <1>0, <1>2, <1>3, <1>4, <1>5 DEF ListInv, FrontInv
  <1>8. ~waiting[t] /\ \A u \in Tasks : waiting'[u] = waiting[u]
    BY <1>0, <1>2 DEF TaskOf, Waiting, WaitLoop, DoWake
  <1>9. /\ ShapeInv' /\ loop = 0 /\ ~Undoing /\ ~Undoing'
        /\ \A u \in Tasks : pc[u] \notin DoWake /\ (u # t => pc'[u] \notin DoWake)
    BY <1>0, <1>2, <1>3, <1>6, <1>7, <1>8, LockerShape
  <1>10. CountInv'
    <2>1. Contributing("R")' = Contributing("R") /\ Contributing("W")' = Contributing("W")
      BY <1>2, <1>5 DEF Contributing
    <2>2. Readers' = Readers /\ Writers' = Writers
      BY <2>1 DEF Readers, Writers
    <2>3. Undo' = Undo /\ ForW' = ForW /\ UndoW' = UndoW /\ Queued' = Queued
      BY <1>2, <1>9 DEF Undo, ForW, UndoW, Queued, One
    <2>4. Actives' = Actives /\ Biases' = Biases
      BY <1>2, <2>2, <2>3 DEF Actives, Biases
    <2>5. QED
      BY <1>0, <1>2, <2>4 DEF CountInv
  <1>11. f = "downgrade_wake" => held[t] = "R"
    BY <1>0, <1>2 DEF TaskOf
  <1>12. ExclInv'
    <2>1. l = "dw_add" => \A u \in Tasks : held[u] # "W"
      BY <1>0, <1>3, <1>11 DEF ExclInv, WriterExcludes
    <2>2. \A u \in Tasks : pc'[u] = "dw_add" => u = t /\ l = "dw_add"
      BY <1>5, <1>9 DEF DoWake
    <2>3. QED
      BY <1>0, <1>2, <1>4, <2>1, <2>2 DEF ExclInv, WriterExcludes
  <1>13. QueueInv'
    <2>1. CASE f = "wake"
      BY <1>2, <1>3, <1>5, <2>1 DEF QueueInv, Working, AtWork
    <2>2. CASE f = "downgrade_wake"
      BY <1>2, <1>11, <2>2 DEF QueueInv
    <2>3. QED
      BY <2>1, <2>2
  <1>14. QED
    BY <1>9, <1>10, <1>12, <1>13 DEF IInv

(* No bias of a writer, no writer. *)
NoWriter == Writers = 0 => \A u \in Tasks : held[u] # "W"

(* It follows from where everybody is. *)
LEMMA WriterCounts == ShapeInv => NoWriter
  BY Nobody DEF NoWriter

(* And after a step. *)
LEMMA WriterCountsNext == ShapeInv' => NoWriter'
  BY WriterCounts, PTL

(* rwsem_down_failed_common() up to the release of wait_lock. *)
LEMMA QueueStep ==
  ASSUME IInv, NEW t \in Tasks, down_failed_queue(t)
  PROVE  IInv'
  <1>0. /\ ShapeInv /\ CountInv /\ ExclInv /\ QueueInv /\ TypeOK /\ DataTypes /\ TaskTypeOK(Labels)
        /\ FrontInv /\ LockInv /\ ListInv /\ TaskOf(t)
    BY TypeParts DEF IInv, ShapeInv
  <1>1. PICK k \in {"R", "W"} : k = flags[t]
    BY <1>0 DEF DataTypes
  <1> DEFINE empty == wait_list = <<>>
             q == list_add_tail(t, wait_list)
             adjustment == (IF empty THEN WAITING_BIAS ELSE 0) - Bias(k)
  <1>2. /\ pc[t] = "queue" /\ wait_lock = NoTask /\ wait_list' = q
        /\ waiting' = [waiting EXCEPT ![t] = TRUE] /\ count' = Wrap(count + adjustment)
        /\ UNCHANGED <<state, on_rq, sig, timer, flags, tsk, loop, held>>
    BY <1>1 DEF down_failed_queue, list_empty
  <1>3. ~waiting[t] /\ waiting'[t] /\ (\A u \in Tasks : u # t => waiting'[u] = waiting[u]) /\ held[t] = "none"
    BY <1>0, <1>2 DEF TaskOf, Waiting, WaitLoop, DoWake, DataTypes
  <1>4. PICK n \in Nat : n = Len(wait_list) /\ (empty <=> n = 0)
    BY <1>0 DEF DataTypes
  <1>5. /\ q \in Seq(Tasks) /\ Len(q) = n + 1 /\ Entries(q) = Entries(wait_list) \cup {t} /\ LinkedOnce(q)
        /\ q # <<>> /\ (~empty => q[1] = wait_list[1]) /\ q[1] \in Tasks
    <2>1. wait_list \in Seq(Tasks) /\ LinkedOnce(wait_list) /\ t \notin Entries(wait_list)
      BY <1>0, <1>3 DEF DataTypes, ListInv
    <2>2. /\ q \in Seq(Tasks) /\ Entries(q) = Entries(wait_list) \cup {t} /\ LinkedOnce(q)
      BY <2>1, ListAddTail
    <2>3. Len(q) = n + 1 /\ (n # 0 => q[1] = wait_list[1])
      BY <1>4, <2>1 DEF list_add_tail
    <2>4. q # <<>> /\ q[1] \in Tasks
      BY <2>2, <2>3
    <2>5. QED
      BY <1>4, <2>2, <2>3, <2>4
  <1> HIDE DEF q
  <1>6. PICK l \in {"check", "dw_write", "dw_add"} :
          /\ pc' = [pc EXCEPT ![t] = l]
          /\ \/ l = "check" /\ wait_lock' = NoTask /\ after' \in {after, "check"}
             \/ l \in {"dw_write", "dw_add"} /\ wait_lock' = t /\ after' = "check"
          /\ l = "dw_write" => Front' = "W"
          /\ l = "dw_add" => Front' # "W" /\ (count' = WAITING_BIAS \/ count' > WAITING_BIAS)
          /\ count' = WAITING_BIAS => l # "check"
    <2>0. Front' = flags[list_first_entry(wait_list')]
      BY <1>2 DEF Front, list_first_entry
    <2>1. CASE count' = WAITING_BIAS
      <3>1. do_wake(t, "NO_ACTIVE", wait_list', "check")
        BY <2>1 DEF down_failed_queue
      <3>2. QED
        BY <2>0, <2>1, <3>1 DEF do_wake, Unlock
    <2>2. CASE count' # WAITING_BIAS
      <3>1. \/ count' > WAITING_BIAS /\ do_wake(t, "READ_OWNED", wait_list', "check")
            \/ Unlock(t, "check") /\ UNCHANGED after
        BY <2>2 DEF down_failed_queue
      <3>2. QED
        BY <2>0, <2>2, <3>1 DEF do_wake, Unlock
    <2>3. QED
      BY <2>1, <2>2
  <1>7. pc'[t] = l /\ \A u \in Tasks : u # t => pc'[u] = pc[u]
    BY <1>0, <1>6 DEF TaskTypeOK
  <1>8. loop = 0 /\ \A u \in Tasks : pc[u] \notin DoWake
    BY <1>0, <1>2, RwsemAssumption DEF LockInv
  <1>9. Front' \in {"R", "W"}
    BY <1>0, <1>2, <1>5 DEF Front, DataTypes
  <1>10. PICK x \in Int, y \in Int : /\ x = -1
                                     /\ y = (IF k = "W" THEN -1 ELSE 0) + (IF n = 0 THEN 1 ELSE 0)
    OBVIOUS
  <1>11. count \in Int /\ adjustment \in Int /\ adjustment = x - ActiveMod * y
    <2>1. count \in Int
      BY <1>0, RwsemAssumption DEF TypeOK, Word
    <2>2. CASE k = "R"
      BY <1>4, <1>10, <2>1, <2>2, BiasValue
    <2>3. CASE k = "W"
      BY <1>4, <1>10, <2>1, <2>3, BiasValue
    <2>4. QED
      BY <2>2, <2>3
  <1>12. count' = Wrap(count + x - ActiveMod * y)
    <2>1. PICK a \in Int : a = adjustment
      BY <1>11
    <2>2. count + a = count + x - ActiveMod * y
      BY <1>11, <2>1, BiasValue
    <2>3. QED
      BY <1>2, <2>1, <2>2
  <1>13. TypeOK'
    <2>1. TaskTypeOK(Labels)'
      BY <1>0, <1>2, <1>6 DEF TaskTypeOK, Labels
    <2>2. DataTypes'
      BY <1>0, <1>2, <1>5, <1>6 DEF DataTypes
    <2>3. CountType'
      BY <1>0, <1>2, <1>11, CountIsWord
    <2>4. QED
      BY <2>1, <2>2, <2>3, TypeParts
  <1>14. ListInv'
    BY <1>0, <1>2, <1>3, <1>5 DEF ListInv
  <1>15. FrontInv'
    <2>1. \A u \in Tasks : pc'[u] \in DoWake => u = t
      BY <1>7, <1>8
    <2>2. loop' = 0 /\ loop' <= Len(wait_list')
      BY <1>2, <1>5, <1>8
    <2>3. \A i \in 1..loop' : flags'[wait_list'[i]] = Front'
      BY <2>2
    <2>4. QED
      BY <1>2, <1>5, <1>6, <1>7, <1>9, <2>1, <2>2, <2>3 DEF FrontInv, DoWake
  <1>16. ShapeInv' /\ ~Undoing /\ ~Undoing'
    <2>1. NextOf("queue") = "check"
      BY DEF NextOf
    <2>2. QED
      BY <1>0, <1>2, <1>3, <1>6, <1>13, <1>14, <1>15, <2>1, LockerShape
  <1>17. /\ t \in Contributing(k) /\ Contributing(k)' = Contributing(k) \ {t}
         /\ \A j \in {"R", "W"} : j # k => Contributing(j)' = Contributing(j)
    BY <1>1, <1>2, <1>3, <1>6, <1>7 DEF Contributing
  <1>18. Undo = 0 /\ Undo' = 0 /\ ForW = 0 /\ ForW' = 0 /\ UndoW = 0 /\ UndoW' = 0 /\ loop' = 0
    BY <1>2, <1>8, <1>16 DEF Undo, ForW, UndoW, One
  <1>19. Queued' = 1 /\ Queued = IF n = 0 THEN 0 ELSE 1
    BY <1>2, <1>4, <1>5, <1>8 DEF Queued, One
  <1>20. CountInv'
    <2>1. /\ k = "R" => Readers' = Readers - 1 /\ Writers' = Writers
          /\ k = "W" => Writers' = Writers - 1 /\ Readers' = Readers
      BY <1>0, <1>17, OneLess
    <2>2. /\ Readers' + Writers' + loop' + Undo' = Readers + Writers + loop + Undo + x
          /\ Writers' + ForW' + UndoW' + Queued' = Writers + ForW + UndoW + Queued + y
      <3>1. CASE k = "R"
        BY <1>0, <1>8, <1>10, <1>18, <1>19, <2>1, <3>1, Parts
      <3>2. CASE k = "W"
        BY <1>0, <1>8, <1>10, <1>18, <1>19, <2>1, <3>2, Parts
      <3>3. QED
        BY <3>1, <3>2
    <2>3. QED
      BY <1>0, <1>12, <1>16, <2>2, Recount
  <1>21. PICK r \in Nat, w \in Nat, a \in Nat, b \in Nat :
            /\ Readers' = r /\ Writers' = w /\ Actives' = a /\ Biases' = b /\ a = r + w /\ b = w + 1
    BY <1>16, <1>18, <1>19, PartsNext DEF Actives, Biases
  <1>22. /\ count' = WAITING_BIAS <=> Actives' = 0 /\ Biases' = 1
         /\ count' > WAITING_BIAS <=> Biases' = 0 \/ (Biases' = 1 /\ Actives' # 0)
    BY <1>16, <1>20, ReadsNext DEF Read
  <1>23. ExclInv'
    <2>0. l = "dw_add" => Biases' = 0 \/ Biases' = 1
      BY <1>6, <1>22
    <2>1. l = "dw_add" => Writers' = 0
      BY <1>21, <2>0
    <2>2. l = "dw_add" => \A u \in Tasks : held'[u] # "W"
      BY <1>16, <2>1, WriterCountsNext DEF NoWriter
    <2>3. \A u \in Tasks : pc'[u] = "dw_add" => l = "dw_add"
      BY <1>7, <1>8 DEF DoWake
    <2>4. QED
      BY <1>0, <1>2, <1>18, <2>2, <2>3 DEF ExclInv, WriterExcludes
  <1>24. QueueInv'
    <2>1. CASE l # "check"
      BY <1>7, <2>1 DEF QueueInv, Working, AtWork
    <2>2. CASE l = "check"
      <3>0. ~(Actives' = 0 /\ Biases' = 1)
        BY <1>6, <1>22, <2>2
      <3>1. Readers' + Writers' # 0
        BY <1>21, <3>0
      <3>2. \E u \in Tasks : held'[u] # "none" \/ pc'[u] = "queue"
        BY <1>16, <3>1, SomebodyNext DEF Populated
      <3>3. QED
        BY <3>2 DEF QueueInv, Working, AtWork
    <2>3. QED
      BY <2>1, <2>2
  <1>25. QED
    BY <1>16, <1>20, <1>23, <1>24 DEF IInv

-----------------------------------------------------------------------------
(* The invariant holds at the start. *)
LEMMA InitIInv == Init => IInv
  <1> SUFFICES ASSUME Init PROVE IInv
    OBVIOUS
  <1>1. TypeOK
    <2>1. count = 0 /\ ActiveMod \in Nat
      BY RwsemAssumption DEF Init
    <2>2. TaskTypeOK(Labels)
      BY DEF Init, TaskInit, TaskTypeOK, Labels, States
    <2>3. DataTypes
      BY DEF Init, DataTypes
    <2>4. CountType
      <3>1. Word \div 2 \in Nat /\ Word \div 2 >= 1
        <4>1. ActiveMod \div 2 \in Nat /\ ActiveMod = 2 * (ActiveMod \div 2)
          BY RwsemAssumption
        <4>2. Cardinality(Tasks) \in Nat
          BY TasksAssumption, FS_CardinalityType
        <4>3. ActiveMod \div 2 >= 1
          BY <4>1, <4>2, RwsemAssumption
        <4>4. PICK h \in Nat : h >= 1 /\ ActiveMod = 2 * h
          BY <4>1, <4>3
        <4>5. PICK j \in Nat : j = h * h /\ j >= 1
          BY <4>4
        <4>6. Word = 2 * (2 * j)
          BY <4>4, <4>5 DEF Word
        <4>7. QED
          BY <4>5, <4>6
      <3>2. QED
        BY <2>1, <3>1 DEF CountType
    <2>5. QED
      BY <2>2, <2>3, <2>4, TypeParts
  <1>2. /\ (\A t \in Tasks : pc[t] = "idle" /\ held[t] = "none" /\ ~waiting[t]) /\ loop = 0
        /\ wait_list = <<>> /\ Len(wait_list) = 0 /\ wait_lock = NoTask /\ count = 0
    BY DEF Init, TaskInit
  <1>3. LockInv
    BY <1>2, RwsemAssumption DEF LockInv, DoWake
  <1>4. \A t \in Tasks : TaskOf(t)
    BY <1>2 DEF TaskOf, Waiting, WaitLoop, DoWake
  <1>5. ListInv /\ FrontInv
    BY <1>2 DEF ListInv, FrontInv, LinkedOnce, Entries
  <1>6. ShapeInv
    BY <1>1, <1>3, <1>4, <1>5 DEF ShapeInv
  <1>7. CountInv
    <2>1. Contributing("R") = {} /\ Contributing("W") = {} /\ ~Undoing
      BY <1>2 DEF Contributing, Undoing
    <2>2. Readers = 0 /\ Writers = 0
      BY <2>1, FS_EmptySet DEF Readers, Writers
    <2>3. Undo = 0 /\ ForW = 0 /\ UndoW = 0 /\ Queued = 0
      BY <1>2, <2>1 DEF Undo, ForW, UndoW, Queued, One
    <2>4. Actives = 0 /\ Biases = 0
      BY <1>2, <2>2, <2>3 DEF Actives, Biases
    <2>5. QED
      BY <1>2, <2>4, BiasValue DEF CountInv
  <1>8. ExclInv /\ QueueInv
    BY <1>2 DEF ExclInv, WriterExcludes, QueueInv
  <1>9. QED
    BY <1>6, <1>7, <1>8 DEF IInv

(* Every step keeps it. *)
LEMMA NextIInv == IInv /\ [Next]_vars => IInv'
  <1> SUFFICES ASSUME IInv, [Next]_vars PROVE IInv'
    OBVIOUS
  <1>1. CASE UNCHANGED vars
    <2>1. /\ UNCHANGED <<pc, state, on_rq, sig, timer, count, wait_list, wait_lock>>
          /\ UNCHANGED <<flags, waiting, tsk, loop, after, held>>
      BY <1>1 DEF vars, taskVars, rwsemVars
    <2>2. ShapeInv'
      BY <2>1 DEF IInv, ShapeInv, TypeOK, TaskTypeOK, LockInv, TaskOf, Waiting, ListInv, FrontInv, Front
    <2>3. CountInv'
      <3>1. Readers' = Readers /\ Writers' = Writers /\ (Undoing' <=> Undoing)
        BY <2>1 DEF Readers, Writers, Contributing, Undoing
      <3>2. Undo' = Undo /\ ForW' = ForW /\ UndoW' = UndoW /\ Queued' = Queued
        BY <2>1, <3>1 DEF Undo, ForW, UndoW, Queued, One, Front
      <3>3. Actives' = Actives /\ Biases' = Biases
        BY <2>1, <3>1, <3>2 DEF Actives, Biases
      <3>4. QED
        BY <2>1, <3>3 DEF IInv, CountInv
    <2>4. ExclInv' /\ QueueInv'
      BY <2>1 DEF IInv, ExclInv, WriterExcludes, QueueInv, Front
    <2>5. QED
      BY <2>2, <2>3, <2>4 DEF IInv
  <1>2. ASSUME NEW t \in Tasks,
               Calls(t) \/ Release(t) \/ downgrade_write(t) \/ Lockers(t) \/ Steps(t) \/ Scheduling(t)
        PROVE  IInv'
    <2>1. CASE Calls(t)
      BY <2>1, CallsStep
    <2>2. CASE Release(t)
      BY <2>2, UpStep DEF Release, up_read, up_write
    <2>3. CASE downgrade_write(t)
      BY <2>3, DowngradeStep
    <2>4. CASE Lockers(t)
      BY <2>4, QueueStep, WakeTypeStep DEF Lockers
    <2>5. CASE try_again_write(t) \/ undo_write(t) \/ readers_only_test(t) \/ readers_only_add(t)
      BY <2>5, TryStep, UndoStep, TestStep, AddStep
    <2>6. CASE do_wake_grant(t) \/ do_wake_task(t)
      BY <2>6, GrantStep, WakeStep
    <2>7. CASE down_failed_check(t) \/ down_failed_resumed(t) \/ Scheduling(t)
      BY <2>7, LocalStep
    <2>8. QED
      BY <1>2, <2>1, <2>2, <2>3, <2>4, <2>5, <2>6, <2>7 DEF Steps
  <1>3. QED
    BY <1>1, <1>2 DEF Next

(* The two numbers add up to the sum of everybody's biases. *)
LEMMA TwoNumbers == ShapeInv /\ CountInv => CountAccounts
  <1> SUFFICES ASSUME ShapeInv, CountInv PROVE CountAccounts
    OBVIOUS
  <1>0. LockInv /\ FrontInv /\ loop \in Nat /\ Len(wait_list) \in Nat
    BY Parts DEF ShapeInv
  <1> DEFINE granting == IF loop = 0 THEN 0 ELSE loop * Bias(flags[wait_list[1]])
             undoing  == IF \E t \in Tasks : pc[t] = "dw_undo" THEN WriteAdjustment ELSE 0
             queued   == IF Len(wait_list) > loop THEN WAITING_BIAS ELSE 0
  <1>1. PICK r \in Nat, w \in Nat, m \in Nat, u \in 0..1, fw \in 0..1, uw \in 0..1, qd \in 0..1 :
          /\ Readers = r /\ Writers = w /\ loop = m /\ Undo = u /\ ForW = fw /\ UndoW = uw /\ Queued = qd
    BY Parts
  <1>2. count = (r + w + m + u) - ActiveMod * (w + fw + uw + qd)
    BY <1>1 DEF CountInv, Actives, Biases
  <1>3. granting \in Int /\ granting = m - ActiveMod * fw
    <2>1. CASE m = 0
      <3>1. ForW = 0
        BY <1>1, <2>1 DEF ForW, One
      <3>2. QED
        BY <1>1, <2>1, <3>1, BiasValue
    <2>2. CASE m # 0
      <3>1. Front \in {"R", "W"}
        <4>1. wait_list \in Seq(Tasks) /\ flags \in [Tasks -> {"R", "W"}]
          BY DEF ShapeInv, TypeOK
        <4>2. 1 \in 1..Len(wait_list)
          BY <1>0, <1>1, <2>2 DEF FrontInv
        <4>3. QED
          BY <4>1, <4>2 DEF Front
      <3>2. CASE Front = "R"
        <4>1. ForW = 0
          BY <3>2 DEF ForW, One
        <4>2. granting = m * 1
          BY <1>1, <2>2, <3>2, BiasValue DEF Front
        <4>3. QED
          BY <1>1, <4>1, <4>2, BiasValue
      <3>3. CASE Front = "W"
        <4>1. ForW = 1 /\ m = 1
          BY <1>0, <1>1, <2>2, <3>3 DEF ForW, One, FrontInv
        <4>2. granting = 1 * (1 - ActiveMod)
          BY <1>1, <2>2, <3>3, <4>1, BiasValue DEF Front
        <4>3. QED
          BY <1>1, <4>1, <4>2, BiasValue
      <3>4. QED
        BY <3>1, <3>2, <3>3
    <2>3. QED
      BY <2>1, <2>2
  <1>4. undoing \in Int /\ undoing = u - ActiveMod * uw
    <2>1. CASE Undoing
      <3>1. wait_list # <<>>
        BY <1>0, <2>1 DEF Undoing, FrontInv
      <3>2. undoing = IF Len(wait_list) = 1 THEN 1 ELSE 1 - ActiveMod
        BY <2>1, <3>1, AdjustmentValue DEF Undoing
      <3>3. Undo = 1 /\ UndoW = IF Len(wait_list) = 1 THEN 0 ELSE 1
        BY <2>1 DEF Undo, UndoW, One
      <3>4. QED
        BY <1>1, <3>2, <3>3, BiasValue
    <2>2. CASE ~Undoing
      <3>1. undoing = 0
        BY <2>2 DEF Undoing
      <3>2. Undo = 0 /\ UndoW = 0
        BY <2>2 DEF Undo, UndoW, One
      <3>3. QED
        BY <1>1, <3>1, <3>2, BiasValue
    <2>3. QED
      BY <2>1, <2>2
  <1>5. queued \in Int /\ queued = 0 - ActiveMod * qd
    <2>1. CASE Len(wait_list) > loop
      BY <1>1, <2>1, BiasValue DEF Queued, One
    <2>2. CASE ~(Len(wait_list) > loop)
      BY <1>1, <2>2, BiasValue DEF Queued, One
    <2>3. QED
      BY <2>1, <2>2
  <1>6. Sum(Contributing("R"), "R") = r * 1 /\ Sum(Contributing("W"), "W") = w * (1 - ActiveMod)
    BY <1>1, BiasValue DEF Sum, Readers, Writers
  <1> HIDE DEF granting, undoing, queued
  <1>7. count = Sum(Contributing("R"), "R") + Sum(Contributing("W"), "W") + granting + undoing + queued
    <2>1. PICK M \in Int : M = ActiveMod
      BY BiasValue
    <2>2. M * (w + fw + uw + qd) = M * w + M * fw + M * uw + M * qd /\ w * (1 - M) = w - M * w
      BY <2>1
    <2>3. PICK mw \in Int, mf \in Int, mu \in Int, mq \in Int :
            mw = M * w /\ mf = M * fw /\ mu = M * uw /\ mq = M * qd
      BY <2>1
    <2>4. /\ count = (r + w + m + u) - (mw + mf + mu + mq)
          /\ granting = m - mf /\ undoing = u - mu /\ queued = 0 - mq
          /\ Sum(Contributing("R"), "R") = r /\ Sum(Contributing("W"), "W") = w - mw
      BY <1>2, <1>3, <1>4, <1>5, <1>6, <2>1, <2>2, <2>3
    <2>5. QED
      BY <2>3, <2>4
  <1>8. QED
    BY <1>7 DEF CountAccounts, Contributing, granting, undoing, queued

-----------------------------------------------------------------------------
(* The inductive invariant holds in every state of every behaviour. *)
THEOREM Invariance == Spec => []IInv
  BY InitIInv, NextIInv, PTL DEF Spec

(* Every variable keeps its type: the count stays a word whatever the fast *)
(* paths and lib/rwsem.c add to it.                                        *)
THEOREM TypeCorrect == Spec => []TypeOK
  <1>1. IInv => TypeOK
    BY DEF IInv, ShapeInv
  <1>2. QED
    BY <1>1, Invariance, PTL

(* WriterExcludes: the fast paths of asm/rwsem.h and the grants of         *)
(* __rwsem_do_wake() never let a writer in beside anybody else.            *)
THEOREM Exclusion == Spec => []WriterExcludes
  <1>1. IInv => WriterExcludes
    BY DEF IInv, ExclInv
  <1>2. QED
    BY <1>1, Invariance, PTL

(* CountAccounts: for up to the documented number of lockers, sem->count   *)
(* never wraps and is the sum of what everybody has put into it, between   *)
(* any two of the locked instructions that change it.                      *)
THEOREM CountIsSum == Spec => []CountAccounts
  <1>1. IInv => CountAccounts
    BY TwoNumbers DEF IInv
  <1>2. QED
    BY <1>1, Invariance, PTL

(* NoStuckQueue: whoever leaves the lock free while somebody waits leaves  *)
(* a task at work that will look at the queue, whatever attempt to grant   *)
(* the lock was undone in between.                                         *)
THEOREM QueueServed == Spec => []NoStuckQueue
  <1>1. IInv => NoStuckQueue
    <2> SUFFICES ASSUME IInv, wait_list # <<>>, \A t \in Tasks : held[t] = "none"
                 PROVE  \E t \in Tasks : pc[t] \in AtWork
      BY DEF NoStuckQueue
    <2>1. CASE loop = 0
      BY <2>1 DEF IInv, QueueInv, Working
    <2>2. CASE loop # 0
      <3>1. wait_lock \in Tasks
        BY <2>2 DEF IInv, ShapeInv, LockInv, TypeOK
      <3>2. pc[wait_lock] \in DoWake
        BY <3>1 DEF IInv, ShapeInv, LockInv
      <3>3. QED
        BY <3>1, <3>2 DEF DoWake, AtWork
    <2>3. QED
      BY <2>1, <2>2
  <1>2. QED
    BY <1>1, Invariance, PTL

-----------------------------------------------------------------------------
(* The refinement of FairRWLock. *)

(* A waiter being granted waits: it has nothing yet and is inside. *)
LEMMA GrantingWaits ==
  ASSUME ShapeInv, NEW u \in Granting
  PROVE  u \in Entries(wait_list) /\ u \in Tasks /\ waiting[u] /\ flags[u] = Front
  <1>1. /\ wait_list \in Seq(Tasks) /\ loop \in Nat /\ loop <= Len(wait_list)
        /\ Entries(wait_list) = {t \in Tasks : waiting[t]}
        /\ \A i \in 1..loop : flags[wait_list[i]] = Front
    BY DEF ShapeInv, TypeOK, ListInv, FrontInv
  <1>2. PICK i \in 1..loop : u = wait_list[i]
    BY DEF Granting
  <1>3. i \in 1..Len(wait_list)
    BY <1>1
  <1>4. u \in Entries(wait_list)
    BY <1>2, <1>3 DEF Entries
  <1>5. QED
    BY <1>1, <1>2, <1>4

(* A function on 1..d is a sequence of length d. *)
LEMMA FcnIsSeq ==
  ASSUME NEW S, NEW d \in Nat, NEW f \in [1..d -> S]
  PROVE  f \in Seq(S) /\ Len(f) = d
  OBVIOUS

(* The abstract queue has the waiters that are not being granted. *)
LEMMA QueueShape ==
  ASSUME ShapeInv
  PROVE  /\ Len(wait_list) - loop \in Nat /\ Len(Queue) = Len(wait_list) - loop
         /\ \A i \in 1..Len(Queue) : /\ Queue[i].who = wait_list[loop + i]
                                     /\ Queue[i].wants = flags[wait_list[loop + i]]
                                     /\ loop + i \in 1..Len(wait_list)
         /\ Queue \in Seq([who : Tasks, wants : {"R", "W"}])
  <1>1. PICK n \in Nat, m \in Nat : n = Len(wait_list) /\ m = loop /\ m <= n
    BY Parts DEF ShapeInv, FrontInv
  <1>2. PICK d \in Nat : d = n - m
    <2>1. n - m \in Nat
      BY <1>1
    <2>2. QED
      BY <2>1
  <1>3. wait_list \in [1..n -> Tasks] /\ flags \in [Tasks -> {"R", "W"}]
    BY <1>1 DEF ShapeInv, TypeOK
  <1>4. Queue = [i \in 1..d |-> [who |-> wait_list[m + i], wants |-> flags[wait_list[m + i]]]]
    BY <1>1, <1>2 DEF Queue
  <1>5. \A i \in 1..d : m + i \in 1..n /\ wait_list[m + i] \in Tasks
    BY <1>1, <1>2, <1>3
  <1>6. Queue \in [1..d -> [who : Tasks, wants : {"R", "W"}]]
    BY <1>3, <1>4, <1>5
  <1>7. Queue \in Seq([who : Tasks, wants : {"R", "W"}]) /\ Len(Queue) = d
    BY <1>6, FcnIsSeq
  <1>8. QED
    BY <1>1, <1>2, <1>4, <1>5, <1>7

(* A step that leaves the queue, the grants and the holders alone. *)
LEMMA SameLock ==
  ASSUME ShapeInv, UNCHANGED <<wait_list, loop, held>>,
         \A u \in Entries(wait_list) : flags'[u] = flags[u]
  PROVE  Mode' = Mode /\ Queue' = Queue
  <1>1. Granting' = Granting
    BY DEF Granting
  <1>2. Mode' = Mode
    BY <1>1, GrantingWaits DEF Mode
  <1>3. PICK n \in Nat, m \in Nat : n = Len(wait_list) /\ m = loop /\ m <= n
    BY Parts DEF ShapeInv, FrontInv
  <1>4. \A i \in 1..(n - m) : flags'[wait_list[m + i]] = flags[wait_list[m + i]]
    <2>1. \A i \in 1..(n - m) : m + i \in 1..n
      BY <1>3
    <2>2. QED
      BY <1>3, <2>1 DEF Entries
  <1>5. Queue' = Queue
    BY <1>3, <1>4 DEF Queue
  <1>6. QED
    BY <1>2, <1>5

(* A task that does not wait, and what it has of the abstract lock. *)
LEMMA Outside ==
  ASSUME ShapeInv, NEW t \in Tasks, ~waiting[t]
  PROVE  t \notin Granting /\ Mode[t] = held[t] /\ ~Abstract!Queued(t)
  <1>1. t \notin Granting
    BY GrantingWaits
  <1>2. Mode[t] = held[t]
    BY <1>1 DEF Mode
  <1>3. ~Abstract!Queued(t)
    <2> SUFFICES ASSUME NEW i \in 1..Len(Queue), Queue[i].who = t PROVE FALSE
      BY DEF Abstract!Queued
    <2>1. t = wait_list[loop + i] /\ loop + i \in 1..Len(wait_list)
      BY QueueShape
    <2>2. t \in Entries(wait_list)
      BY <2>1 DEF Entries
    <2>3. QED
      BY <2>2 DEF ShapeInv, ListInv
  <1>4. QED
    BY <1>1, <1>2, <1>3

(* A step of one such task that changes only what it has. *)
LEMMA OneMode ==
  ASSUME ShapeInv, NEW t \in Tasks, ~waiting[t], NEW k, held' = [held EXCEPT ![t] = k],
         UNCHANGED <<wait_list, loop, flags>>
  PROVE  Mode' = [Mode EXCEPT ![t] = k] /\ Queue' = Queue
  <1>1. Granting' = Granting /\ t \notin Granting /\ held \in [Tasks -> {"none", "R", "W"}]
    BY Outside DEF Granting, ShapeInv, TypeOK
  <1>2. Mode' = [Mode EXCEPT ![t] = k]
    BY <1>1 DEF Mode
  <1>3. Queue' = Queue
    BY DEF Queue
  <1>4. QED
    BY <1>2, <1>3

(* The fast paths: down_read() and down_write() that succeed enter, and    *)
(* one that fails has not joined the queue yet.                            *)
LEMMA CallsRefine ==
  ASSUME IInv, NEW t \in Tasks, Calls(t)
  PROVE  Abstract!RWNext \/ UNCHANGED <<Mode, Queue>>
  <1>0. /\ ShapeInv /\ CountInv /\ TypeOK /\ DataTypes /\ TaskTypeOK(Labels) /\ TaskOf(t) /\ ListInv
    BY TypeParts DEF IInv, ShapeInv
  <1>1. CASE \E k \in {"R", "W"} : Joins(t, k)
    <2>1. PICK k \in {"R", "W"} : Joins(t, k)
      BY <1>1
    <2>2. ~waiting[t]
      BY <1>0, <2>1 DEF TaskOf, Waiting, WaitLoop, DoWake, Joins
    <2>3. \A u \in Entries(wait_list) : flags'[u] = flags[u]
      BY <1>0, <2>1, <2>2 DEF Joins, ListInv, DataTypes
    <2>4. QED
      BY <1>0, <2>1, <2>3, SameLock DEF Joins
  <1>2. ASSUME NEW k \in {"R", "W"}, Enters(t, k),
               k = "W" => count = 0, k = "R" => count >= 0 \/ count' >= 0
        PROVE  Abstract!RWNext
    <2>1. /\ \A u \in Tasks : held[u] # "W"
          /\ loop = Len(wait_list) /\ ~(loop # 0 /\ Front = "W")
          /\ k = "W" => loop = 0 /\ \A u \in Tasks : held[u] = "none"
      BY <1>0, <1>2, EnterSees
    <2>2. /\ ~waiting[t] /\ held[t] = "none" /\ held' = [held EXCEPT ![t] = k]
          /\ UNCHANGED <<wait_list, loop, flags>>
      BY <1>0, <1>2 DEF TaskOf, Waiting, WaitLoop, DoWake, Enters
    <2>3. Mode' = [Mode EXCEPT ![t] = k] /\ Queue' = Queue /\ Mode[t] = "none" /\ ~Abstract!Queued(t)
      BY <1>0, <2>2, OneMode, Outside
    <2>4. Queue = <<>>
      <3>1. Queue \in Seq([who : Tasks, wants : {"R", "W"}]) /\ Len(Queue) = 0
        BY <1>0, <2>1, QueueShape, Parts
      <3>2. QED
        BY <3>1
    <2>5. Abstract!Compatible(k)
      <3>1. Granting # {} => loop # 0
        BY <1>0 DEF Granting, DataTypes
      <3>2. \A u \in Granting : flags[u] = Front
        BY <1>0, GrantingWaits
      <3>3. \A u \in Tasks : Mode[u] # "W"
        BY <2>1, <3>1, <3>2 DEF Mode
      <3>4. k = "W" => \A u \in Tasks : Mode[u] = "none"
        BY <2>1, <3>1 DEF Mode
      <3>5. QED
        BY <3>3, <3>4 DEF Abstract!Compatible, Abstract!WriteOwned, Abstract!ReadOwned
    <2>6. Abstract!Enter(t, k)
      BY <2>3, <2>4, <2>5 DEF Abstract!Enter
    <2>7. QED
      BY <2>6 DEF Abstract!RWNext
  <1>3. QED
    BY <1>1, <1>2, CallKinds

(* up_read(), up_write() and downgrade_write(). *)
LEMMA ReleaseRefines ==
  ASSUME IInv, NEW t \in Tasks, Release(t) \/ downgrade_write(t)
  PROVE  Abstract!RWNext
  <1>0. ShapeInv /\ DataTypes /\ TaskOf(t)
    BY TypeParts DEF IInv, ShapeInv
  <1>1. CASE Release(t)
    <2>1. PICK k \in {"R", "W"} : Up(t, k)
      BY <1>1 DEF Release, up_read, up_write
    <2>2. /\ ~waiting[t] /\ held[t] = k /\ held' = [held EXCEPT ![t] = "none"]
          /\ UNCHANGED <<wait_list, loop, flags>>
      BY <1>0, <2>1 DEF Up, Goto, TaskOf, Waiting, WaitLoop, DoWake
    <2>3. Mode' = [Mode EXCEPT ![t] = "none"] /\ Queue' = Queue /\ Mode[t] # "none"
      BY <1>0, <2>2, OneMode, Outside
    <2>4. Abstract!Leave(t)
      BY <2>3 DEF Abstract!Leave
    <2>5. QED
      BY <2>4 DEF Abstract!RWNext
  <1>2. CASE downgrade_write(t)
    <2>1. /\ ~waiting[t] /\ held[t] = "W" /\ held' = [held EXCEPT ![t] = "R"]
          /\ UNCHANGED <<wait_list, loop, flags>>
      BY <1>0, <1>2 DEF downgrade_write, Goto, TaskOf, Waiting, WaitLoop, DoWake
    <2>2. Mode' = [Mode EXCEPT ![t] = "R"] /\ Queue' = Queue /\ Mode[t] = "W"
      BY <1>0, <2>1, OneMode, Outside
    <2>3. Abstract!Downgrade(t)
      BY <2>2 DEF Abstract!Downgrade
    <2>4. QED
      BY <2>3 DEF Abstract!RWNext
  <1>3. QED
    BY <1>1, <1>2

(* rwsem_down_failed_common() puts its caller at the end of the queue. *)
LEMMA QueueRefines ==
  ASSUME IInv, NEW t \in Tasks, down_failed_queue(t)
  PROVE  Abstract!RWNext
  <1>0. ShapeInv /\ DataTypes /\ TaskOf(t) /\ LockInv
    BY TypeParts DEF IInv, ShapeInv
  <1>1. /\ ~waiting[t] /\ held[t] = "none" /\ loop = 0 /\ wait_list' = list_add_tail(t, wait_list)
        /\ UNCHANGED <<loop, held, flags>>
    BY <1>0 DEF down_failed_queue, TaskOf, Waiting, WaitLoop, DoWake, LockInv
  <1>2. PICK k \in {"R", "W"} : k = flags[t]
    BY <1>0 DEF DataTypes
  <1>3. Mode' = Mode
    <2>1. Granting = {} /\ Granting' = {}
      BY <1>1 DEF Granting
    <2>2. QED
      BY <1>1, <2>1 DEF Mode
  <1>4. PICK n \in Nat : n = Len(wait_list) /\ wait_list \in [1..n -> Tasks] /\ wait_list \in Seq(Tasks)
    BY <1>0 DEF DataTypes
  <1>5. /\ Len(wait_list') = n + 1 /\ wait_list'[n + 1] = t
        /\ \A i \in 1..n : wait_list'[i] = wait_list[i]
    BY <1>1, <1>4 DEF list_add_tail
  <1>6. Queue' = Append(Queue, [who |-> t, wants |-> k])
    <2> DEFINE E(j) == [who |-> wait_list[j], wants |-> flags[wait_list[j]]]
    <2>1. Queue = [i \in 1..n |-> E(i)]
      BY <1>1, <1>4 DEF Queue
    <2>2. Queue' = [i \in 1..(n + 1) |-> [who |-> wait_list'[i], wants |-> flags[wait_list'[i]]]]
      BY <1>1, <1>5 DEF Queue
    <2>3. Queue \in Seq([who : Tasks, wants : {"R", "W"}]) /\ Len(Queue) = n
      BY <1>0, <1>1, <1>4, QueueShape
    <2>4. Append(Queue, [who |-> t, wants |-> k])
            = [i \in 1..(n + 1) |-> IF i = n + 1 THEN [who |-> t, wants |-> k] ELSE Queue[i]]
      BY <2>3
    <2>5. \A i \in 1..(n + 1) : [who |-> wait_list'[i], wants |-> flags[wait_list'[i]]]
                                  = IF i = n + 1 THEN [who |-> t, wants |-> k] ELSE Queue[i]
      <3> SUFFICES ASSUME NEW i \in 1..(n + 1)
                   PROVE  [who |-> wait_list'[i], wants |-> flags[wait_list'[i]]]
                            = IF i = n + 1 THEN [who |-> t, wants |-> k] ELSE Queue[i]
        OBVIOUS
      <3>1. CASE i = n + 1
        BY <1>2, <1>5, <3>1
      <3>2. CASE i # n + 1
        <4>1. i \in 1..n
          BY <3>2
        <4>2. Queue[i] = E(i)
          BY <2>1, <4>1
        <4>3. QED
          BY <1>5, <3>2, <4>1, <4>2
      <3>3. QED
        BY <3>1, <3>2
    <2>6. QED
      BY <2>2, <2>4, <2>5
  <1>7. Abstract!Wait(t, k)
    BY <1>0, <1>1, <1>3, <1>6, Outside DEF Abstract!Wait
  <1>8. QED
    BY <1>7 DEF Abstract!RWNext

(* The step that counts the first n waiters as active admits them. *)
LEMMA AdmitRefines ==
  ASSUME ShapeInv, NEW n \in 1..Len(wait_list), loop = 0, loop' = n, UNCHANGED <<wait_list, flags, held>>,
         \A i \in 1..n : flags[wait_list[i]] = Front,
         Front = "W" => n = 1,
         Front = "R" /\ n < Len(wait_list) => flags[wait_list[n + 1]] = "W",
         \A u \in Tasks : held[u] # "W" /\ (Front = "W" => held[u] = "none")
  PROVE  Abstract!RWNext
  <1>0. PICK d \in Nat : d = Len(wait_list) /\ n \in 1..d /\ wait_list \in [1..d -> Tasks]
    BY DEF ShapeInv, TypeOK
  <1>1. /\ Queue \in Seq([who : Tasks, wants : {"R", "W"}]) /\ Len(Queue) = d
        /\ \A i \in 1..d : Queue[i].who = wait_list[i] /\ Queue[i].wants = flags[wait_list[i]]
    <2>1. \A i \in 1..d : 0 + i = i
      OBVIOUS
    <2>2. QED
      BY <1>0, <2>1, QueueShape
  <1>2. 1 \in 1..d /\ Queue[1].wants = Front /\ Front \in {"R", "W"}
    <2>1. 1 \in 1..d
      BY <1>0
    <2>2. QED
      BY <1>0, <1>1, <2>1 DEF Front, ShapeInv, TypeOK
  <1>3. Granting = {} /\ Granting' = {wait_list[i] : i \in 1..n}
    BY DEF Granting
  <1>4. \A u \in Tasks : Mode[u] = held[u]
    BY <1>3 DEF Mode
  <1>5. Abstract!Compatible(Front)
    BY <1>4 DEF Abstract!Compatible, Abstract!WriteOwned, Abstract!ReadOwned
  <1>6. \A i \in 1..n : i \in 1..d
    BY <1>0
  <1>7. Mode' = [u \in Tasks |-> IF \E i \in 1..n : Queue[i].who = u THEN Front ELSE Mode[u]]
    <2>1. ASSUME NEW u \in Tasks
          PROVE  (IF u \in Granting' THEN flags'[u] ELSE held'[u])
                   = IF \E i \in 1..n : Queue[i].who = u THEN Front ELSE Mode[u]
      <3>1. CASE u \in Granting'
        <4>1. PICK i \in 1..n : u = wait_list[i]
          BY <1>3, <3>1
        <4>2. Queue[i].who = u /\ flags'[u] = Front
          BY <1>1, <1>6, <4>1
        <4>3. QED
          BY <3>1, <4>2
      <3>2. CASE u \notin Granting'
        <4>1. ~\E i \in 1..n : Queue[i].who = u
          BY <1>1, <1>3, <1>6, <3>2
        <4>2. QED
          BY <1>4, <3>2, <4>1
      <3>3. QED
        BY <3>1, <3>2
    <2>2. QED
      BY <2>1 DEF Mode
  <1>8. Queue' = SubSeq(Queue, n + 1, Len(Queue))
    <2> DEFINE E(j) == [who |-> wait_list[j], wants |-> flags[wait_list[j]]]
    <2>1. Queue = [i \in 1..d |-> E(i)]
      BY <1>0 DEF Queue
    <2>2. Queue' = [i \in 1..(d - n) |-> E(n + i)]
      BY <1>0 DEF Queue
    <2>3. SubSeq(Queue, n + 1, d) = [i \in 1..(d - n) |-> Queue[n + i]]
      BY <1>0, <1>1
    <2>4. \A i \in 1..(d - n) : n + i \in 1..d
      BY <1>0
    <2> HIDE DEF E
    <2>5. \A i \in 1..(d - n) : Queue[n + i] = E(n + i)
      BY <2>1, <2>4
    <2>6. QED
      BY <1>1, <2>2, <2>3, <2>5
  <1>9. Abstract!Admit(n)
    <2>1. Front = "R" => /\ \A i \in 1..n : Queue[i].wants = "R"
                         /\ n < Len(Queue) => Queue[n + 1].wants = "W"
      <3>1. n < d => n + 1 \in 1..d
        BY <1>0
      <3>2. QED
        BY <1>0, <1>1, <1>6, <3>1
    <2>2. n \in 1..Len(Queue) /\ Abstract!Compatible(Queue[1].wants)
      BY <1>0, <1>1, <1>2, <1>5
    <2>3. IF Queue[1].wants = "W" THEN n = 1
          ELSE /\ \A i \in 1..n : Queue[i].wants = "R"
               /\ n < Len(Queue) => Queue[n + 1].wants = "W"
      BY <1>2, <2>1
    <2>4. QED
      BY <1>2, <1>7, <1>8, <2>2, <2>3 DEF Abstract!Admit
  <1>10. QED
    BY <1>0, <1>1, <1>9 DEF Abstract!RWNext

(* The steps of __rwsem_do_wake() that change the count. *)
LEMMA WakerRefines ==
  ASSUME IInv, NEW t \in Tasks, try_again_write(t) \/ undo_write(t) \/ readers_only_add(t)
  PROVE  Abstract!RWNext \/ UNCHANGED <<Mode, Queue>>
  <1>0. ShapeInv /\ CountInv /\ ExclInv /\ DataTypes /\ LockInv /\ FrontInv
    BY TypeParts DEF IInv, ShapeInv
  <1>1. CASE undo_write(t)
    BY <1>0, <1>1, SameLock DEF undo_write
  <1>2. CASE try_again_write(t)
    <2>1. /\ pc[t] = "dw_write" /\ UNCHANGED <<wait_list, flags, held>>
          /\ loop = 0 /\ wait_list # <<>> /\ Front = "W"
          /\ loop' = loop \/ (loop' = 1 /\ Active(count) = 0)
      BY <1>0, <1>2 DEF try_again_write, Goto, LockInv, FrontInv
    <2>2. CASE loop' = loop
      BY <1>0, <2>1, <2>2, SameLock
    <2>3. CASE loop' = 1 /\ Active(count) = 0
      <3>1. Actives = 0
        BY <1>0, <2>3, Reads DEF Read
      <3>2. \A u \in Tasks : held[u] = "none"
        BY <1>0, <3>1, Zeros
      <3>3. 1 \in 1..Len(wait_list) /\ \A i \in 1..1 : flags[wait_list[i]] = Front
        BY <1>0, <2>1, FirstWaiter DEF Front
      <3>4. QED
        BY <1>0, <2>1, <2>3, <3>2, <3>3, AdmitRefines
    <2>4. QED
      BY <2>1, <2>2, <2>3
  <1>3. CASE readers_only_add(t)
    <2>1. /\ pc[t] = "dw_add" /\ UNCHANGED <<wait_list, flags, held>> /\ loop' = Woken
          /\ loop = 0 /\ wait_list # <<>> /\ Front = "R"
      BY <1>0, <1>3 DEF readers_only_add, Goto, LockInv, FrontInv
    <2>2. PICK n \in 1..Len(wait_list) : /\ n = Woken /\ \A i \in 1..n : flags[wait_list[i]] = "R"
                                         /\ n < Len(wait_list) => flags[wait_list[n + 1]] = "W"
      BY <1>0, <2>1, WokenReaders
    <2>3. \A u \in Tasks : held[u] # "W"
      BY <1>0, <2>1 DEF ExclInv
    <2>4. QED
      BY <1>0, <2>1, <2>2, <2>3, AdmitRefines
  <1>4. QED
    BY <1>1, <1>2, <1>3

(* The grant itself: the waiter has had the abstract lock before. *)
LEMMA GrantRefines ==
  ASSUME IInv, NEW t \in Tasks, do_wake_grant(t)
  PROVE  UNCHANGED <<Mode, Queue>>
  <1>0. ShapeInv /\ DataTypes /\ LockInv /\ FrontInv /\ ListInv
    BY TypeParts DEF IInv, ShapeInv
  <1>1. PICK n \in Nat, m \in Nat : n = Len(wait_list) /\ loop = m /\ m >= 1 /\ m <= n
    BY <1>0 DEF do_wake_grant, Goto, DataTypes, LockInv, FrontInv
  <1>2. PICK w \in Tasks : w = wait_list[1] /\ w \in Entries(wait_list)
    <2>1. wait_list # <<>>
      BY <1>0, <1>1 DEF DataTypes
    <2>2. QED
      BY <1>0, <2>1, FirstWaiter
  <1> DEFINE q == list_del(w, wait_list)
  <1>3. wait_list' = q /\ held' = [held EXCEPT ![w] = flags[w]] /\ loop' = m - 1 /\ flags' = flags
    BY <1>1, <1>2 DEF do_wake_grant, list_first_entry
  <1>4. Len(q) = n - 1 /\ \A i \in 1..(n - 1) : q[i] = wait_list[i + 1]
    <2>1. wait_list \in Seq(Tasks) /\ LinkedOnce(wait_list) /\ n >= 1
      BY <1>0, <1>1 DEF DataTypes, ListInv
    <2>2. Len(q) = n - 1
      BY <1>1, <1>2, <2>1, ListDel
    <2>3. \A i \in 1..(n - 1) : list_del(wait_list[1], wait_list)[i] = wait_list[i + 1]
      BY <1>1, <2>1, DelFirst
    <2>4. QED
      BY <1>2, <2>2, <2>3
  <1> HIDE DEF q
  <1>5. Granting' = Granting \ {w} /\ w \in Granting
    <2>1. Granting = {wait_list[i] : i \in 1..m} /\ Granting' = {q[i] : i \in 1..(m - 1)}
      BY <1>1, <1>3 DEF Granting
    <2>2. \A i \in 1..(m - 1) : q[i] = wait_list[i + 1] /\ i + 1 \in 1..m /\ i + 1 # 1
      BY <1>1, <1>4
    <2>3. \A i \in 1..m : i = 1 \/ (i - 1 \in 1..(m - 1) /\ (i - 1) + 1 = i)
      BY <1>1
    <2>4. \A i \in 1..m : wait_list[i] = w => i = 1
      <3>1. 1 \in 1..n /\ \A i \in 1..m : i \in 1..n
        BY <1>1
      <3>2. QED
        BY <1>0, <1>1, <1>2, <3>1 DEF ListInv, LinkedOnce
    <2>5. w \in Granting
      <3>1. 1 \in 1..m
        BY <1>1
      <3>2. QED
        BY <1>2, <2>1, <3>1
    <2>6. Granting' \subseteq Granting \ {w}
      BY <2>1, <2>2, <2>4
    <2>7. \A u \in Granting \ {w} : u \in Granting'
      <3> SUFFICES ASSUME NEW i \in 1..m, wait_list[i] # w PROVE wait_list[i] \in Granting'
        BY <2>1
      <3>1. i - 1 \in 1..(m - 1) /\ (i - 1) + 1 = i
        BY <1>2, <2>3
      <3>2. q[i - 1] = wait_list[i]
        BY <2>2, <3>1
      <3>3. QED
        BY <2>1, <3>1, <3>2
    <2>8. QED
      BY <2>5, <2>6, <2>7
  <1>6. Mode' = Mode
    BY <1>0, <1>2, <1>3, <1>5 DEF Mode, DataTypes
  <1>7. Queue' = Queue
    <2>1. \A i \in 1..(n - m) : q[(m - 1) + i] = wait_list[m + i]
      <3>1. \A i \in 1..(n - m) : (m - 1) + i \in 1..(n - 1) /\ ((m - 1) + i) + 1 = m + i
        BY <1>1
      <3>2. QED
        BY <1>4, <3>1
    <2>2. (n - 1) - (m - 1) = n - m
      BY <1>1
    <2>3. Queue' = [i \in 1..(n - m) |-> [who |-> q[(m - 1) + i], wants |-> flags[q[(m - 1) + i]]]]
      BY <1>3, <1>4, <2>2 DEF Queue
    <2>4. Queue = [i \in 1..(n - m) |-> [who |-> wait_list[m + i], wants |-> flags[wait_list[m + i]]]]
      BY <1>1 DEF Queue
    <2>5. QED
      BY <2>1, <2>3, <2>4
  <1>8. QED
    BY <1>6, <1>7

(* ImplementsFairRWLock: every step of the fast paths and of lib/rwsem.c   *)
(* is a step of the atomic FIFO reader/writer lock, or changes nothing of  *)
(* it.  In particular no fast path overtakes a queue, and the readers in   *)
(* front of the first writer are admitted together, by the one xadd that   *)
(* counts them.                                                            *)
THEOREM RwsemRefinesFairRWLock == Spec => ImplementsFairRWLock
  <1>1. Init => Abstract!RWInit
    <2> SUFFICES ASSUME Init PROVE Abstract!RWInit
      OBVIOUS
    <2>1. loop = 0 /\ wait_list = <<>> /\ Len(wait_list) = 0 /\ \A t \in Tasks : held[t] = "none"
      BY DEF Init
    <2>2. Granting = {} /\ Mode = [t \in Tasks |-> "none"]
      BY <2>1 DEF Granting, Mode
    <2>3. Queue = <<>>
      <3>1. ShapeInv
        BY InitIInv DEF IInv
      <3>2. Queue \in Seq([who : Tasks, wants : {"R", "W"}]) /\ Len(Queue) = 0
        BY <2>1, <3>1, QueueShape
      <3>3. QED
        BY <3>2
    <2>4. QED
      BY <2>2, <2>3 DEF Abstract!RWInit
  <1>2. IInv /\ [Next]_vars => [Abstract!RWNext]_<<Mode, Queue>>
    <2> SUFFICES ASSUME IInv, [Next]_vars PROVE Abstract!RWNext \/ UNCHANGED <<Mode, Queue>>
      OBVIOUS
    <2>0. ShapeInv
      BY DEF IInv
    <2>1. ASSUME UNCHANGED <<wait_list, loop, held, flags>> PROVE UNCHANGED <<Mode, Queue>>
      BY <2>0, <2>1, SameLock
    <2>2. CASE UNCHANGED vars
      BY <2>1, <2>2 DEF vars, rwsemVars
    <2>3. ASSUME NEW t \in Tasks,
                 Calls(t) \/ Release(t) \/ downgrade_write(t) \/ Lockers(t) \/ Steps(t) \/ Scheduling(t)
          PROVE  Abstract!RWNext \/ UNCHANGED <<Mode, Queue>>
      <3>1. CASE Calls(t)
        BY <3>1, CallsRefine
      <3>2. CASE Release(t) \/ downgrade_write(t)
        BY <3>2, ReleaseRefines
      <3>3. CASE down_failed_queue(t)
        BY <3>3, QueueRefines
      <3>4. CASE rwsem_wake(t) \/ rwsem_downgrade_wake(t)
        BY <2>1, <3>4 DEF rwsem_wake, rwsem_downgrade_wake, rwsem_wake_type
      <3>5. CASE try_again_write(t) \/ undo_write(t) \/ readers_only_add(t)
        BY <3>5, WakerRefines
      <3>6. CASE do_wake_grant(t)
        BY <3>6, GrantRefines
      <3>7. CASE readers_only_test(t) \/ do_wake_task(t)
        BY <2>1, <3>7 DEF readers_only_test, do_wake_task
      <3>8. CASE down_failed_check(t) \/ down_failed_resumed(t) \/ Scheduling(t)
        BY <2>1, <3>8 DEF down_failed_check, down_failed_resumed, Scheduling, rwsemVars
      <3>9. QED
        BY <2>3, <3>1, <3>2, <3>3, <3>4, <3>5, <3>6, <3>7, <3>8 DEF Lockers, Steps
    <2>4. QED
      BY <2>2, <2>3 DEF Next
  <1>3. QED
    BY Invariance, <1>1, <1>2, PTL DEF Spec, ImplementsFairRWLock, Abstract!RWSpec
=============================================================================
