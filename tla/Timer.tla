------------------------------- MODULE Timer -------------------------------
(***************************************************************************)
(* Time as the kernel sees it: the tick of handler_timer, the conversions  *)
(* between milliseconds and ticks, uptime_ms and msleep of                 *)
(* src/kernel/acpi/timer.c, against a clock that counts milliseconds.      *)
(*                                                                         *)
(* sched_sleep_jiffies is reduced to its wake-up tick here; module Sched   *)
(* has the rest of it.  Products are 64 bits wide in the code and Width    *)
(* bits here.                                                              *)
(***************************************************************************)
EXTENDS Integers

CONSTANTS
  Hz,      \* g_timer_hz, a divisor of 1000
  Width,   \* the width of uint64_t
  Ms,      \* the requests of msleep
  MaxNow   \* bound: how long the machine runs, in milliseconds

ASSUME TimerAssumption ==
  /\ Hz \in 1 .. 1000 /\ 1000 % Hz = 0
  /\ Width \in Nat
  /\ Ms \subseteq 0 .. 2^Width - 1
  /\ MaxNow \in Nat

VARIABLES
  now,          \* milliseconds since the timer was started
  jiffies,
  asleep,       \* somebody is in msleep
  ms,           \* its request
  since,        \* when it called
  wake_jiffies

timerVars == <<now, jiffies, asleep, ms, since, wake_jiffies>>

\* The period of the LAPIC timer in milliseconds.
Period == 1000 \div Hz

WrapTime(n) == n % 2^Width

jiffies_to_ms(jf) == WrapTime(jf * 1000) \div Hz

TickMore(m) == WrapTime(m * Hz) \div 1000 + 1

\* Rounded down, but never to no tick at all.
ms_to_jiffies(m) ==
  LET jf == WrapTime(m * Hz) \div 1000
  IN IF m = 0 THEN 0 ELSE IF jf = 0 THEN 1 ELSE jf

uptime_ms == jiffies_to_ms(jiffies)

-----------------------------------------------------------------------------

TimerInit ==
  /\ now = 0 /\ jiffies = 0
  /\ asleep = FALSE /\ ms = 0 /\ since = 0 /\ wake_jiffies = 0

\* handler_timer, on the BSP, at the end of every period.
ticked == IF (now + 1) % Period = 0 THEN WrapTime(jiffies + 1) ELSE jiffies

\* A millisecond passes.
Elapse ==
  /\ now < MaxNow
  /\ now' = now + 1
  /\ jiffies' = ticked
  /\ UNCHANGED <<asleep, ms, since, wake_jiffies>>

\* msleep(0) returns at once.
msleep(m) ==
  /\ ~asleep
  /\ m # 0
  /\ asleep' = TRUE
  /\ ms' = m
  /\ since' = now
  /\ wake_jiffies' = WrapTime(jiffies + ms_to_jiffies(m))
  /\ UNCHANGED <<now, jiffies>>

WakeNextTick == jiffies + 1 >= wake_jiffies

\* sched_wake_sleepers finds the sleeper due.
due == jiffies >= wake_jiffies

\* The sleeper runs again, at the wake-up tick or later.
msleep_return ==
  /\ asleep
  /\ due
  /\ asleep' = FALSE
  /\ ms' = 0
  /\ since' = 0
  /\ UNCHANGED <<now, jiffies, wake_jiffies>>

TimerNext ==
  \/ Elapse
  \/ \E m \in Ms : msleep(m)
  \/ msleep_return

-----------------------------------------------------------------------------
(* Properties.                                                             *)

\* uptime_ms is never ahead of the clock and less than a period behind it.
UptimeTracks == uptime_ms <= now /\ now < uptime_ms + Period

\* msleep misses the requested time by less than two periods, whenever between
\* two ticks it is called: one lost by rounding down, one in the tick that is
\* already under way.
SleepNearlyEnough ==
  [][asleep /\ ~asleep' => now - since + 2 * Period > ms]_timerVars

\* A sleeper is due once the requested time has passed, or one tick if it asked
\* for less: the timer never makes it wait longer.
DueInTime ==
  asleep /\ now - since >= ms /\ now - since >= Period => due

\* Both conversions of timer.c keep to the clock: the uptime follows it, and a
\* sleeper is due when its time is over.
ClockExact == UptimeTracks /\ DueInTime

=============================================================================
