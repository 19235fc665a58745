----------------------------- MODULE FairRWLock -----------------------------
(***************************************************************************)
(* What a reader/writer semaphore promises, with every operation atomic:   *)
(* writers exclude everybody, whoever cannot have the lock at once joins a *)
(* FIFO queue, nobody overtakes the queue, and the readers at its front    *)
(* get the lock together.                                                  *)
(***************************************************************************)
EXTENDS Naturals, Sequences

CONSTANT Threads

VARIABLES
  mode,    \* what each thread has: "none", "R" or "W"
  queue    \* the waiting threads with what they ask for, first come first

ReadOwned  == \E t \in Threads : mode[t] = "R"
WriteOwned == \E t \in Threads : mode[t] = "W"

Queued(t) == \E i \in 1..Len(queue) : queue[i].who = t

Compatible(k) == ~WriteOwned /\ (k = "W" => ~ReadOwned)

RWInit == mode = [t \in Threads |-> "none"] /\ queue = <<>>

Enter(t, k) ==
  /\ mode[t] = "none" /\ ~Queued(t)
  /\ queue = <<>> /\ Compatible(k)
  /\ mode' = [mode EXCEPT ![t] = k]
  /\ UNCHANGED queue

Wait(t, k) ==
  /\ mode[t] = "none" /\ ~Queued(t)
  /\ queue' = Append(queue, [who |-> t, wants |-> k])
  /\ UNCHANGED mode

(* The first n of the queue get the lock: one writer, or readers only, and *)
(* then all of those in front of the first writer.                         *)
Admit(n) ==
  /\ n \in 1..Len(queue)
  /\ Compatible(queue[1].wants)
  /\ IF queue[1].wants = "W" THEN n = 1
     ELSE /\ \A i \in 1..n : queue[i].wants = "R"
          /\ n < Len(queue) => queue[n + 1].wants = "W"
  /\ mode' = [t \in Threads |->
                IF \E i \in 1..n : queue[i].who = t THEN queue[1].wants ELSE mode[t]]
  /\ queue' = SubSeq(queue, n + 1, Len(queue))

Leave(t) ==
  /\ mode[t] # "none"
  /\ mode' = [mode EXCEPT ![t] = "none"]
  /\ UNCHANGED queue

Downgrade(t) ==
  /\ mode[t] = "W"
  /\ mode' = [mode EXCEPT ![t] = "R"]
  /\ UNCHANGED queue

RWNext ==
  \/ \E t \in Threads : \/ \E k \in {"R", "W"} : Enter(t, k) \/ Wait(t, k)
                        \/ Leave(t) \/ Downgrade(t)
  \/ \E n \in 1..Len(queue) : Admit(n)

RWSpec == RWInit /\ [][RWNext]_<<mode, queue>>

=============================================================================
