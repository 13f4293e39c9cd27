---------------------------- MODULE SystemTimer ----------------------------
(***************************************************************************)
(* The system timer and its two users in the kernel.  The counter raises a *)
(* flag when its low word equals the compare register C1; the handler of   *)
(* CLOCK_TICK moves C1 on by one tick and clears the flag, a read or a     *)
(* write at a time, while the counter runs.  The idle accounting, called   *)
(* by park(), reads the low word to split the time between busy_us_ and    *)
(* idle_us_: it sleeps in wfi until an interrupt is pending.  The low word *)
(* has Bits bits, 32 in the hardware; the accumulators are twice as wide.     *)
(*                                                                         *)
(* "now" is the whole counter, of which programs see the low word.  spent, *)
(* since and served are history: how much of it went to tasks and handlers *)
(* ("busy") and to wfi ("asleep"), the time since the last match, and the  *)
(* ticks handled.                                                          *)
(***************************************************************************)
EXTENDS Naturals

CONSTANTS
  Bits,
  TICK_TIME_US,  \* the period asked for
  MaxLatency,    \* from a match until the handler has cleared the flag
  Start,         \* the time at which the timer event is initialized
  MaxNow         \* bound: how long the timer is watched

LowWord == 2 ^ Bits
Long    == LowWord * LowWord

(* The assumption on MaxLatency is the one the code makes: nothing delays   *)
(* the handler by a whole tick.                                             *)
ASSUME TimerAssumption ==
  /\ Bits \in Nat /\ LowWord \in Nat /\ Start \in Nat /\ MaxNow \in Nat
  /\ TICK_TIME_US \in 2..(LowWord \div 2)
  /\ MaxLatency \in 0..(TICK_TIME_US - 1)

VARIABLES
  now, spent, since, served,
  C1, M1,                              \* compare register, match flag in CS
  pc,                                  \* what the core is doing
  late,                                \* the handler's comparison
  start, last_busy_us, idle_us, busy_us  \* go_idle and its IdleManager
clockVars == <<now, spent, since>>
tickVars == <<C1, M1, late, served>>
idleVars == <<start, last_busy_us, idle_us, busy_us>>
timerVars == <<clockVars, tickVars, idleVars, pc>>

time_get == now % LowWord
MinusLong(a, b) == (a + Long - b) % Long     \* uint64_t a - b
MinusWord(a, b) == (a + LowWord - b) % LowWord     \* uint32_t a - b

Handling == {"compare", "write", "clear", "clear_again"}
Running == {"tasks"} \cup Handling

(* set_timer_interrupt(1, TICK_TIME_US) and the IdleManager's constructor.  *)
TimerInit ==
  /\ now = Start /\ spent = [busy |-> 0, asleep |-> 0] /\ since = 0
  /\ C1 = (Start + TICK_TIME_US) % LowWord
  /\ M1 = FALSE /\ late = FALSE /\ served = 0
  /\ pc = "tasks"
  /\ start = 0 /\ last_busy_us = time_get /\ idle_us = 0 /\ busy_us = 0

(* A microsecond passes. *)
Spent(p) == IF p \in Running THEN "busy" ELSE "asleep"
Count ==
  /\ now < MaxNow
  /\ M1 \/ pc \in Handling => since < MaxLatency
  /\ now' = now + 1
  /\ spent' = IF pc = "woken" THEN spent ELSE [spent EXCEPT ![Spent(pc)] = @ + 1]
  /\ LET match == now' % LowWord = C1
     IN  /\ M1' = (M1 \/ match)
         /\ since' = IF match THEN 0 ELSE since + 1
  /\ UNCHANGED <<C1, late, served, idleVars, pc>>
-----------------------------------------------------------------------------
(* The tick. *)

At(here, next) == pc = here /\ pc' = next /\ UNCHANGED <<clockVars, idleVars>>

Take == M1 /\ At("tasks", "compare") /\ UNCHANGED tickVars

NextTick == (C1 + TICK_TIME_US) % LowWord

(* update_timer_interrupt: is the next tick already past? *)
Compare ==
  /\ At("compare", "write")
  /\ late' = (NextTick < time_get)
  /\ UNCHANGED <<C1, M1, served>>

FromNow == (time_get + TICK_TIME_US) % LowWord  \* mutant: the period starts when it is handled
Reprogrammed == IF late THEN (time_get + TICK_TIME_US) % LowWord ELSE NextTick
Write ==
  /\ At("write", "clear")
  /\ C1' = Reprogrammed
  /\ UNCHANGED <<M1, late, served>>

Clear ==
  /\ At("clear", "clear_again")
  /\ M1' = FALSE
  /\ UNCHANGED <<C1, late, served>>

(* clear_timer_interrupt in handle_event. *)
ClearAgain ==
  /\ At("clear_again", "tasks")
  /\ M1' = FALSE
  /\ served' = served + 1
  /\ UNCHANGED <<C1, late>>
-----------------------------------------------------------------------------
(* go_idle, with interrupts masked. *)

(* Up to the wfi.  start is 32 bits wide and last_busy_us_ 64, so the       *)
(* difference is taken in 64 bits.                                          *)
BusyAfter(s) == (busy_us + MinusLong(s, last_busy_us)) % Long
GoIdle ==
  /\ pc = "tasks" /\ pc' = "asleep"
  /\ start' = time_get
  /\ busy_us' = BusyAfter(time_get)
  /\ UNCHANGED <<clockVars, tickVars, last_busy_us, idle_us>>

(* The tick or another interrupt ends the wfi.  Both operands are 32 bits.  *)
IdleAfterWide(e) == (idle_us + MinusLong(e, start)) % Long  \* mutant: as for busy_us
IdleAfter(e) == (idle_us + MinusWord(e, start)) % Long
Wake ==
  /\ pc = "asleep" /\ pc' = "woken"
  /\ idle_us' = IdleAfter(time_get)
  /\ UNCHANGED <<clockVars, tickVars, start, last_busy_us, busy_us>>

(* The timer is read a second time for last_busy_us_. *)
BusyAgain ==
  /\ pc = "woken" /\ pc' = "tasks"
  /\ last_busy_us' = time_get
  /\ UNCHANGED <<clockVars, tickVars, start, idle_us, busy_us>>

TimerNext == Count \/ Take \/ Compare \/ Write \/ Clear \/ ClearAgain
          \/ GoIdle \/ Wake \/ BusyAgain
TimerSpec == TimerInit /\ [][TimerNext]_timerVars
-----------------------------------------------------------------------------
(* Ticks do not drift: until the counter first wraps, the k-th interrupt    *)
(* comes exactly k periods after the start, however late each was handled.  *)
(* And no match is missed, at the wrap neither: the next one is never more  *)
(* than a period away, and would else be a whole round of the counter away. *)
TicksKept ==
  LET next == Start + (served + 1) * TICK_TIME_US
  IN  pc = "tasks" =>
        /\ next < LowWord => C1 = next
        /\ M1 \/ MinusWord(C1, time_get) \in 1..TICK_TIME_US

(* The time slept is accounted to the microsecond, across any wrap of the   *)
(* 32-bit counter: end - start is taken in the width of the counter, and    *)
(* the tick keeps every sleep far shorter than a wrap.  busy_us_ is the time *)
(* in which tasks ran, as the comment "account for busy time" in go_idle    *)
(* says, only until the counter first wraps, 71 minutes after reset: then   *)
(* 2^32 us are taken off it.                                                *)
IdleExact == pc # "asleep" => idle_us = spent.asleep % Long
BusyExact == pc = "asleep" => busy_us = spent.busy
AccountsExact == IdleExact /\ (now < LowWord => BusyExact)
-----------------------------------------------------------------------------
InWord == 0..(LowWord - 1)
TimerTypeOK ==
  /\ now \in Nat /\ spent \in [busy : Nat, asleep : Nat] /\ since \in Nat /\ served \in Nat
  /\ C1 \in InWord /\ M1 \in BOOLEAN /\ late \in BOOLEAN
  /\ pc \in Running \cup {"asleep", "woken"}
  /\ start \in InWord /\ last_busy_us \in InWord /\ idle_us \in Nat /\ busy_us \in Nat

Pending     == M1 /\ pc \notin {"clear", "clear_again"}  \* matched, and C1 not moved on yet
ToNext      == MinusWord(C1, time_get)                   \* until the counter is at C1
Elapsed     == MinusWord(time_get, C1)
Slept       == MinusWord(time_get, start)
DueAt(k)    == Start + k * TICK_TIME_US                  \* when the k-th tick is due

(* Before the match the next tick is at most a period ahead; after it the   *)
(* handler comes to move C1 on before a period is over.                     *)
MatchAhead ==
  /\ pc \in {"compare", "write", "clear", "clear_again"} => M1 \/ pc = "clear_again"
  /\ M1 \/ pc \in Handling => since <= MaxLatency
  /\ IF Pending THEN Elapsed = since ELSE ToNext \in 1..TICK_TIME_US
  /\ pc \in {"clear", "clear_again"} => ToNext >= TICK_TIME_US - since

(* Until the counter wraps, C1 is the time of a tick and not only congruent *)
(* to it.                                                                   *)
NoDrift ==
  LET k == IF pc \in {"clear", "clear_again"} THEN served + 2 ELSE served + 1
  IN  /\ DueAt(k) < LowWord =>
           C1 = DueAt(k) /\ (IF Pending THEN now = DueAt(k) + since ELSE now < DueAt(k))
      /\ pc = "write" /\ DueAt(k + 1) < LowWord => ~late

(* The core sleeps from one tick to the next at most.                       *)
SleepShort ==
  pc = "asleep" =>
    /\ Slept <= spent.asleep /\ idle_us = (spent.asleep - Slept) % Long
    /\ IF M1 THEN Slept <= TICK_TIME_US + since ELSE Slept + ToNext <= TICK_TIME_US

BusyKept ==
  now < LowWord =>
    /\ spent.busy <= now
    /\ IF pc \in Running THEN last_busy_us <= now /\ busy_us + (now - last_busy_us) = spent.busy
                         ELSE busy_us = spent.busy

TimerIInv == TimerTypeOK /\ MatchAhead /\ NoDrift /\ IdleExact /\ SleepShort /\ BusyKept
=============================================================================
