----------------------------- MODULE TimerWheel -----------------------------
(***************************************************************************)
(* When the timers of one base expire: the cascading wheel of              *)
(* kernel/timer.c, the cached next_timer of a base, and the CPU that stops *)
(* its tick until then (kernel/time/tick-sched.c).                         *)
(*                                                                         *)
(* Times are words that wrap around, compared by the sign of their         *)
(* difference.  The five vectors tv1..tv5 consume all the bits of a word   *)
(* (8 + 4 * 6 of 32); here their widths are a parameter with the same      *)
(* property.  All that is done under base->lock is one step.  The order of *)
(* the timers within a slot is left open, and so is what the handlers do:  *)
(* they may arm and delete timers between two slots.                       *)
(***************************************************************************)
EXTENDS Integers, FiniteSets, Sequences, FiniteSetsExt

CONSTANTS
  Timers,
  Bits,         \* <<TVR_BITS, TVN_BITS, TVN_BITS, TVN_BITS, TVN_BITS>>
  CallTimes,    \* the jiffies at which callers arm timers, a bound
  Offsets,      \* how far from jiffies the callers ask their timers to expire
  Slacks,       \* the values of timer->slack; -1 is the automatic slack
  AutoSlack,    \* the automatic slack is this fraction of the time left (256)
  MaxLag,       \* how far a CPU that ticks lets __run_timers() fall behind
  MaxLate,      \* how late a timer may be when it is added
  MaxSleep,     \* how long a CPU sleeps if no event is programmed
  NULL

Shift == <<0, Bits[1], Bits[1] + Bits[2], Bits[1] + Bits[2] + Bits[3],
           Bits[1] + Bits[2] + Bits[3] + Bits[4],
           Bits[1] + Bits[2] + Bits[3] + Bits[4] + Bits[5]>>

(* BIT[n] is 1UL << n. *)
BIT[n \in 0..Shift[6]] == IF n = 0 THEN 1 ELSE 2 * BIT[n - 1]

Size == [l \in 1..5 |-> BIT[Bits[l]]]     \* TVR_SIZE, TVN_SIZE
Unit == [l \in 1..6 |-> BIT[Shift[l]]]    \* the jiffies of one slot
Word == Unit[6]                          \* unsigned long
Half == Word \div 2
NEXT_TIMER_MAX_DELTA == Word \div 4 - 1  \* (1UL << 30) - 1

ASSUME TimerWheelAssumption ==
  /\ Bits \in [1..5 -> Nat \ {0}] /\ CallTimes \subseteq Nat
  /\ Offsets \subseteq Int /\ Slacks \subseteq {-1} \cup Nat
  /\ AutoSlack \in Nat \ {0} /\ MaxLag \in 1..NEXT_TIMER_MAX_DELTA
  /\ MaxLate \in Nat /\ MaxSleep \in Nat /\ MaxSleep > NEXT_TIMER_MAX_DELTA

(* Something wakes every CPU up before the words lap: the code has no such *)
(* bound for a CPU without an event.  Even with the slack, and on the base *)
(* of a CPU that has slept so long, no timeout is half a word away; it     *)
(* follows that none is NEXT_TIMER_MAX_DELTA, 12 days, in the future.      *)
ASSUME OffsetsAssumption ==
  \A o \in Offsets \cup {0}, s \in Slacks \cup {0} :
    /\ -MaxLate <= o
    /\ o + (IF s = -1 THEN o \div AutoSlack ELSE s) + MaxLate + MaxSleep + MaxLag < Half

Levels == 1..5
Words == 0..(Word - 1)
Slots == UNION {{l} \X (0..(Size[l] - 1)) : l \in Levels}

ASSUME NullAssumption == NULL \notin Words \cup Slots

VARIABLES
  jiffies,
  timer_jiffies,  \* base->timer_jiffies, the next jiffy to run
  next_timer,     \* base->next_timer
  at,             \* the slot of every pending timer, NULL for the others
  expires,        \* timer->expires, of no interest unless the timer is pending
  deferrable,     \* the timers of init_timer_deferrable()
  tick,           \* "on"; "stopped", the CPU sleeps without tick; "irq", it
                  \* takes an interrupt out of that sleep
  wake,           \* ts->idle_expires of a CPU that sleeps; NULL is KTIME_MAX
  moving,         \* the timers that are on their way to this base
  unkicked        \* history: those that came while the CPU slept, of which
                  \* it has not been told

lists == <<at, expires, deferrable>>
flight == <<moving, unkicked>>
wheelVars == <<jiffies, timer_jiffies, next_timer, lists, tick, wake, flight>>

WheelTypeOK ==
  /\ {jiffies, timer_jiffies, next_timer} \subseteq Words
  /\ at \in [Timers -> Slots \cup {NULL}]
  /\ expires \in [Timers -> Words]
  /\ deferrable \subseteq Timers
  /\ tick \in {"on", "stopped", "irq"}
  /\ wake \in Words \cup {NULL}
  /\ moving \subseteq Timers /\ unkicked \subseteq Timers

(* jiffies starts so that it wraps soon (INITIAL_JIFFIES). *)
WheelInit ==
  /\ jiffies = Word - 2
  /\ timer_jiffies = jiffies /\ next_timer = jiffies
  /\ at = [t \in Timers |-> NULL]
  /\ expires = [t \in Timers |-> 0]
  /\ deferrable \in SUBSET Timers
  /\ tick = "on" /\ wake = NULL
  /\ moving = {} /\ unkicked = {}

-----------------------------------------------------------------------------
(* include/linux/jiffies.h *)
time_before(a, b) == (a - b) % Word >= Half

time_before_eq(a, b) == ~time_before(b, a)

Pending(t) == at[t] # NULL

Counted(t) == Pending(t) /\ t \notin deferrable

-----------------------------------------------------------------------------
(* apply_slack(): the roundest time between the one asked for and the      *)
(* latest one allowed, by clearing the low bits of the latter.             *)
expires_limit(e, slack, now) ==
  IF slack # -1 THEN (e + slack) % Word
  ELSE IF time_before(now, e) THEN (e + ((e - now) % Word) \div AutoSlack) % Word
  ELSE e

(* The highest bit in which a and b differ: find_last_bit() of a ^ b. *)
last_bit(a, b) ==
  CHOOSE i \in 0..(Shift[6] - 1) :
    a \div BIT[i] # b \div BIT[i] /\ a \div BIT[i + 1] = b \div BIT[i + 1]

apply_slack_MutMask(e, slack, now) ==    \* rounds away one bit too many
  LET limit == expires_limit(e, slack, now) IN
    IF limit = e THEN e ELSE limit - (limit % BIT[last_bit(e, limit) + 1])

apply_slack(e, slack, now) ==
  LET limit == expires_limit(e, slack, now) IN
    IF limit = e THEN e ELSE limit - (limit % BIT[last_bit(e, limit)])

-----------------------------------------------------------------------------
(* internal_add_timer(): the slot for a timer that expires at e, when the  *)
(* base is at tj.  A timer in the past goes where it will run next.        *)
internal_add_timer(e, tj) ==
  LET idx == (e - tj) % Word
      l == Min({5} \cup {k \in 1..4 : idx < Unit[k + 1]})
  IN  IF idx >= Half THEN <<1, tj % Size[1]>>
                     ELSE <<l, (e \div Unit[l]) % Size[l]>>

(* The slot of vector l that comes up at jiffy j. *)
INDEX(l, j) == (j \div Unit[l]) % Size[l]

(* The slots that __run_timers() cascades at jiffy j: a vector advances    *)
(* when all the vectors below it have come round to slot 0.                *)
cascade(j) ==
  {<<l, INDEX(l, j)>> : l \in {k \in 2..5 : \A i \in 1..(k - 1) : INDEX(i, j) = 0}}

-----------------------------------------------------------------------------
(* base->next_timer, when a timer t that expires at e leaves the wheel, or *)
(* comes to it.  It is only a lower bound: next_timer = timer_jiffies says *)
(* that it has to be computed again.                                       *)
next_without(t) ==
  IF expires[t] = next_timer /\ t \notin deferrable THEN timer_jiffies ELSE next_timer

next_with(t, e, next) ==
  IF time_before(e, next) /\ t \notin deferrable THEN e ELSE next

(* T[l]: the slot of tv_l that will be cascaded next, in units of slots.   *)
RoundUp(n, size) ==
  (IF n % size = 0 THEN n ELSE (n + size - (n % size)) % Word) \div size

CascadeTime ==
  LET t2 == RoundUp(timer_jiffies, Size[1])
      t3 == RoundUp(t2, Size[2])
      t4 == RoundUp(t3, Size[3])
  IN  <<timer_jiffies, t2, t3, t4, RoundUp(t4, Size[4])>>

(* The expiry times in the i-th slot of vector l that comes up, and the    *)
(* first slot in which there are any (Size[l] if there are none).      *)
Nth(l, i) ==
  {expires[t] : t \in {u \in Timers :
     Counted(u) /\ at[u] = <<l, (CascadeTime[l] + i) % Size[l]>>}}

FirstUsed(l) == Min({Size[l]} \cup {i \in 0..(Size[l] - 1) : Nth(l, i) # {}})

(* Slot i of vector l comes up before the vector above is cascaded. *)
Before(l, i) ==
  LET index == CascadeTime[l] % Size[l] IN index # 0 /\ index + i < Size[l]

Earlier(a, S) ==
  LET B == {e \in S : time_before(e, a)} IN
    IF B = {} THEN a ELSE CHOOSE e \in B : \A f \in B : time_before_eq(e, f)

(* One vector of __next_timer_interrupt(): it looks for the first timer or, *)
(* if it has one, in the slot whose cascade may bring an earlier one.      *)
Look(r, l) ==
  LET i == IF r.found THEN 0 ELSE FirstUsed(l) IN
  IF r.done \/ i = Size[l] THEN r
  ELSE [found |-> TRUE, at |-> Earlier(r.at, Nth(l, i)), done |-> Before(l, i)]

(* __next_timer_interrupt(), if the first timer found in tv1 expires at e. *)
next_timer_interrupt_MutTv1(e) ==        \* stops at the first timer it finds
  LET r == IF e # NULL THEN [found |-> TRUE, at |-> e, done |-> TRUE]
           ELSE [found |-> FALSE, at |-> (timer_jiffies + NEXT_TIMER_MAX_DELTA) % Word,
                 done |-> FALSE]
  IN  Look(Look(Look(Look(r, 2), 3), 4), 5).at

next_timer_interrupt(e) ==
  LET r == IF e # NULL
             THEN [found |-> TRUE, at |-> e, done |-> Before(1, FirstUsed(1))]
             ELSE [found |-> FALSE, at |-> (timer_jiffies + NEXT_TIMER_MAX_DELTA) % Word,
                   done |-> FALSE]
  IN  Look(Look(Look(Look(r, 2), 3), 4), 5).at

FirstInTv1 ==
  IF FirstUsed(1) = Size[1] THEN {NULL} ELSE Nth(1, FirstUsed(1))

-----------------------------------------------------------------------------
(* __mod_timer() of a timer that stays on this base, or comes to it. *)
Add(t, e) ==
  /\ at' = [at EXCEPT ![t] = internal_add_timer(e, timer_jiffies)]
  /\ expires' = [expires EXCEPT ![t] = e]
  /\ next_timer' = next_with(t, e, IF Pending(t) THEN next_without(t) ELSE next_timer)

(* mod_timer() that leaves or puts a timer here under one hold of the      *)
(* lock: its caller is on this CPU, or has the lock of this base and finds *)
(* the CPU busy, which cannot stop its tick before the lock is dropped.  A *)
(* timer that is pending for that very time is left alone.                 *)
mod_timer(t, e, slack) ==
  /\ tick # "stopped"
  /\ ~(Pending(t) /\ expires[t] = e)
  /\ Add(t, apply_slack(e, slack, jiffies))
  /\ UNCHANGED <<jiffies, timer_jiffies, deferrable, tick, wake, flight>>

(* mod_timer_pending() and mod_timer_pinned() know no slack. *)
mod_timer_pending(t, e) ==
  /\ tick # "stopped" /\ Pending(t)
  /\ Add(t, e)
  /\ UNCHANGED <<jiffies, timer_jiffies, deferrable, tick, wake, flight>>

mod_timer_pinned(t, e) ==
  /\ tick # "stopped"
  /\ ~(Pending(t) /\ expires[t] = e)
  /\ Add(t, e)
  /\ UNCHANGED <<jiffies, timer_jiffies, deferrable, tick, wake, flight>>

(* get_nohz_timer_target(): __mod_timer() on an idle CPU, with the lock of *)
(* another base, chooses this base because its CPU is busy; then it drops  *)
(* that lock.                                                              *)
get_nohz_timer_target(t) ==
  /\ tick = "on" /\ ~Pending(t)
  /\ moving' = moving \cup {t}
  /\ UNCHANGED <<jiffies, timer_jiffies, next_timer, lists, tick, wake, unkicked>>

(* __mod_timer() has got the lock of this base, and adds the timer whatever *)
(* the CPU does by now.  It does not wake it up.                           *)
timer_set_base(t, e) ==
  /\ Add(t, e)
  /\ moving' = moving \ {t}
  /\ unkicked' = IF tick = "stopped" THEN unkicked \cup {t} ELSE unkicked
  /\ UNCHANGED <<jiffies, timer_jiffies, deferrable, tick, wake>>

(* wake_up_idle_cpu(): a CPU that sleeps leaves the idle loop, which       *)
(* restarts its tick.                                                      *)
wake_up_idle_cpu == tick' = "on" /\ wake' = NULL /\ unkicked' = {}

(* add_timer_on(), from another CPU. *)
add_timer_on(t, e) ==
  /\ ~Pending(t)
  /\ Add(t, e)
  /\ wake_up_idle_cpu
  /\ UNCHANGED <<jiffies, timer_jiffies, deferrable, moving>>

(* del_timer(), on any CPU; also how a timer leaves for another base. *)
del_timer(t) ==
  /\ Pending(t)
  /\ at' = [at EXCEPT ![t] = NULL]
  /\ expires' = [expires EXCEPT ![t] = 0]
  /\ next_timer' = next_without(t)
  /\ unkicked' = unkicked \ {t}
  /\ UNCHANGED <<jiffies, timer_jiffies, deferrable, tick, wake, moving>>

-----------------------------------------------------------------------------
(* One turn of the loop of __run_timers(): cascade, advance timer_jiffies, *)
(* and run the timers of one slot of tv1.                                  *)
Cascaded_MutStay(j) == at                \* forgets the cascade

Cascaded(j) ==
  [t \in Timers |-> IF at[t] \in cascade(j) THEN internal_add_timer(expires[t], j) ELSE at[t]]

__run_timers ==
  LET c == Cascaded(timer_jiffies)
      Expired(t) == c[t] = <<1, INDEX(1, timer_jiffies)>>
  IN
  /\ tick # "stopped"
  /\ time_before_eq(timer_jiffies, jiffies)
  /\ at' = [t \in Timers |-> IF Expired(t) THEN NULL ELSE c[t]]
  /\ expires' = [t \in Timers |-> IF Expired(t) THEN 0 ELSE expires[t]]
  /\ timer_jiffies' = (timer_jiffies + 1) % Word
  /\ UNCHANGED <<jiffies, next_timer, deferrable, tick, wake, flight>>

-----------------------------------------------------------------------------
(* Time.  The timekeeping CPU advances jiffies.  The CPU that owns this    *)
(* base runs its timer softirq soon while it ticks, and sleeps until its   *)
(* event otherwise; without an event it sleeps until something else wakes  *)
(* it up.                                                                  *)
Lag == (jiffies + 1 - timer_jiffies) % Word

(* The cached next_timer is not examined while the CPU is busy, and is of  *)
(* no use once it is so old that a new timer seems to be before it: the    *)
(* CPU must have been idle until then (12 days, with HZ=1000).             *)
NextTimerIsRecent == (timer_jiffies - next_timer) % Word \notin NEXT_TIMER_MAX_DELTA..(Half - 1)

do_timer ==
  /\ \/ tick = "on" /\ Lag < MaxLag /\ NextTimerIsRecent
     \/ tick = "stopped" /\ wake # NULL /\ jiffies # wake
     \/ tick = "stopped" /\ wake = NULL /\ Lag < MaxSleep
  /\ jiffies' = (jiffies + 1) % Word
  /\ UNCHANGED <<timer_jiffies, next_timer, lists, tick, wake, flight>>

(* An interrupt, its own timer event included, ends the sleep of the CPU.  *)
irq_enter ==
  /\ tick = "stopped"
  /\ tick' = "irq" /\ wake' = NULL /\ unkicked' = {}
  /\ UNCHANGED <<jiffies, timer_jiffies, next_timer, lists, moving>>

(* The CPU has something to run. *)
tick_nohz_restart_sched_tick ==
  /\ tick = "irq"
  /\ tick' = "on"
  /\ UNCHANGED <<jiffies, timer_jiffies, next_timer, lists, wake, flight>>

(* get_next_timer_interrupt(): the cached next_timer unless the base has   *)
(* reached it.  The set of its possible results, for it depends on which   *)
(* timer is the first of its slot.                                         *)
get_next_timer_interrupt ==
  IF time_before_eq(next_timer, timer_jiffies)
    THEN {next_timer_interrupt(e) : e \in FirstInTv1}
    ELSE {next_timer}

(* tick_nohz_stop_sched_tick(), from the idle loop or at the end of an     *)
(* interrupt.  If a timer is due it raises the softirq, and ksoftirqd gets *)
(* the CPU.  Beyond NEXT_TIMER_MAX_DELTA no event is programmed.           *)
tick_nohz_stop_sched_tick ==
  \E next \in get_next_timer_interrupt :
    LET delta == IF time_before_eq(next, jiffies) THEN 0 ELSE (next - jiffies) % Word IN
    /\ tick # "stopped"
    /\ next_timer' = next
    /\ \/ /\ delta = 0 \/ (delta = 1 /\ tick = "on")
          /\ tick' = "on" /\ wake' = NULL
       \/ /\ delta > 1 \/ (delta = 1 /\ tick = "irq")
          /\ tick' = "stopped"
          /\ wake' = IF delta < NEXT_TIMER_MAX_DELTA THEN next ELSE NULL
    /\ UNCHANGED <<jiffies, timer_jiffies, lists, flight>>

-----------------------------------------------------------------------------
Arm(t) ==
  /\ jiffies \in CallTimes
  /\ \E o \in Offsets :
    LET e == (jiffies + o) % Word IN
      \/ /\ t \notin moving
         /\ \/ \E s \in Slacks : mod_timer(t, e, s)
            \/ mod_timer_pending(t, e) \/ mod_timer_pinned(t, e) \/ add_timer_on(t, e)
      \/ /\ t \in moving
         /\ \/ timer_set_base(t, e)
            \/ \E s \in Slacks : timer_set_base(t, apply_slack(e, s, jiffies))

Target(t) == jiffies \in CallTimes /\ t \notin moving /\ get_nohz_timer_target(t)

WheelNext ==
  \/ \E t \in Timers : Arm(t) \/ Target(t) \/ del_timer(t)
  \/ __run_timers \/ do_timer
  \/ irq_enter \/ tick_nohz_restart_sched_tick \/ tick_nohz_stop_sched_tick

WheelSpec == WheelInit /\ [][WheelNext]_wheelVars

-----------------------------------------------------------------------------
(* The wheel loses no timer and runs none early.  When __run_timers() runs *)
(* a jiffy it runs exactly the timers that expire in it, or that were      *)
(* already late when they were added, whichever vectors they went through  *)
(* and however often the words have wrapped.                               *)
FiresOnTime ==
  [][timer_jiffies' # timer_jiffies =>
       \A t \in Timers : Pending(t) =>
         (at'[t] = NULL <=> time_before_eq(expires[t], timer_jiffies))]_wheelVars

(* A CPU sleeps past no timer: as long as its tick is stopped, no timer is *)
(* overdue that is not deferrable, although the time to wake up comes from *)
(* a cached next_timer that insertions, deletions and the passing of time  *)
(* have made stale.  A timer is due when it expires, or with the next      *)
(* jiffy to be run if it was added late.  The exception is a timer that    *)
(* __mod_timer() brought to the base after the CPU had gone to sleep.      *)
Overdue(t) == time_before(expires[t], jiffies) /\ time_before(timer_jiffies, jiffies)

NoOversleep ==
  tick = "stopped" => \A t \in Timers : Counted(t) /\ t \notin unkicked => ~Overdue(t)

(* "The kernel will do a ->function(->data) callback from the timer        *)
(* interrupt at the ->expires point in the future", as the comment above   *)
(* add_timer() has it, of every timer that is not deferrable.  This does   *)
(* NOT hold, because of the timers that NoOversleep excepts.               *)
NoTimerForgotten == tick = "stopped" => \A t \in Timers : Counted(t) => ~Overdue(t)

(* apply_slack() never makes a timer expire before the time asked for, nor *)
(* after the limit, at any moment and also where the sum of the two wraps  *)
(* around.                                                                 *)
SlackInRange ==
  \A o \in Offsets, s \in Slacks :
    LET e == (jiffies + o) % Word
        limit == expires_limit(e, s, jiffies)
        r == apply_slack(e, s, jiffies)
    IN  (r - e) % Word <= (limit - e) % Word

=============================================================================
