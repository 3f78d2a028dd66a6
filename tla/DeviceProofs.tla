---------------------------- MODULE DeviceProofs ----------------------------
(***************************************************************************)
(* Proofs about the devices: the ring of the keyboard is a queue for every *)
(* size of it, the conversions of the clock keep to the time for every     *)
(* tick, a transfer of the disk driver reads and writes the bytes that     *)
(* were asked for, for any number of tasks, sizes and partitions, the      *)
(* console shows what was printed, for every size of the screen, and the   *)
(* ext4 driver answers what is on a volume, for every volume that keeps to *)
(* the format.                                                             *)
(***************************************************************************)
EXTENDS Kbd, Timer, Disk, Console, Ext4, Iteration, SequenceTheorems, FiniteSetTheorems,
        TLAPS

KbdSpec == KbdInit /\ [][KbdNext]_kbdVars

-----------------------------------------------------------------------------
(* Indices modulo the size of the ring.                                    *)

\* An index of the ring is in the ring.
LEMMA ModRange ==
  ASSUME NEW S \in Nat \ {0}, NEW n \in Nat
  PROVE  n % S \in 0 .. S - 1
OBVIOUS

\* An index below twice the size wraps at most once.
LEMMA ModOnce ==
  ASSUME NEW S \in Nat \ {0}, NEW n \in 0 .. 2 * S - 1
  PROVE  n % S = IF n < S THEN n ELSE n - S
OBVIOUS

\* Less than a round apart, two indices differ.
LEMMA ModDistinct ==
  ASSUME NEW S \in Nat \ {0}, NEW a \in 0 .. 2 * S - 1, NEW b \in 0 .. 2 * S - 1,
         a < b, b < a + S
  PROVE  a % S # b % S
BY ModOnce

\* Going on from an index that has wrapped.
LEMMA ModAdd ==
  ASSUME NEW S \in Nat \ {0}, NEW a \in 0 .. 2 * S - 1, NEW b \in Nat,
         a + b <= 2 * S - 1
  PROVE  ((a % S) + b) % S = (a + b) % S
<1>1. CASE a < S
  BY <1>1, ModOnce
<1>2. CASE a >= S
  <2>1. a % S = a - S
    BY <1>2, ModOnce
  <2> DEFINE c == a - S + b
             d == a + b
  <2>2. c \in 0 .. 2 * S - 1 /\ c < S /\ d \in 0 .. 2 * S - 1 /\ ~(d < S) /\ c = d - S
    BY <1>2
  <2> HIDE DEF c, d
  <2>3. c % S = c
    BY <2>2, ModOnce
  <2>4. d % S = d - S
    BY <2>2, ModOnce
  <2> QED
    BY <2>1, <2>2, <2>3, <2>4 DEF c, d
<1> QED
  BY <1>1, <1>2

-----------------------------------------------------------------------------
(* The ring.                                                               *)

Char == {KeyMap[sc] : sc \in ScanCode} \cup {"none"}

\* Where the i-th unread character is.
At(i) == (g_kbd_head + i - 1) % KbdSize

\* The tail is count characters after the head, and in between is what was
\* typed and not read.
RingInv ==
  /\ g_kbd_buf \in [0 .. KbdSize - 1 -> Char]
  /\ g_kbd_head \in 0 .. KbdSize - 1
  /\ g_kbd_count \in 0 .. KbdSize
  /\ g_kbd_tail = (g_kbd_head + g_kbd_count) % KbdSize
  /\ typed \in Seq(Char) /\ Len(typed) = g_kbd_count
  /\ \A i \in 1 .. g_kbd_count : typed[i] = g_kbd_buf[At(i)]
  /\ got = due_got

\* The initial state satisfies it.
LEMMA InitRing == KbdInit => RingInv
<1> SUFFICES ASSUME KbdInit PROVE RingInv
  OBVIOUS
<1>1. 0 % KbdSize = 0
  BY KbdAssumption, ModOnce
<1>2. <<>> \in Seq(Char) /\ Len(<<>>) = 0
  OBVIOUS
<1> QED
  BY <1>1, <1>2, KbdAssumption DEF KbdInit, RingInv, Char

\* A key: it is stored behind the others, or nothing changes.
LEMMA KeyStep ==
  ASSUME RingInv, NEW sc \in ScanCode, handler_kbd(sc) PROVE RingInv'
<1> USE KbdAssumption
<1> DEFINE n == g_kbd_count
<1>1. CASE KeyMap[sc] # "none" /\ Room
  <2>0. n < KbdSize /\ n \in Nat /\ Len(typed) < KbdSize
    BY <1>1 DEF Room, RingInv
  <2>1. /\ g_kbd_buf' = [g_kbd_buf EXCEPT ![g_kbd_tail] = KeyMap[sc]]
        /\ g_kbd_tail' = (g_kbd_tail + 1) % KbdSize
        /\ g_kbd_count' = n + 1
        /\ typed' = Append(typed, KeyMap[sc])
        /\ UNCHANGED <<g_kbd_head, got, due_got>>
    BY <1>1, <2>0 DEF handler_kbd
  <2>2. KeyMap[sc] \in Char /\ g_kbd_tail \in 0 .. KbdSize - 1
    <3>1. g_kbd_head + g_kbd_count \in Nat /\ KbdSize \in Nat \ {0}
      BY <1>1, KbdAssumption DEF RingInv
    <3>2. (g_kbd_head + g_kbd_count) % KbdSize \in 0 .. KbdSize - 1
      BY <3>1, ModRange
    <3> QED
      BY <3>2 DEF Char, RingInv
  <2>3. /\ typed' \in Seq(Char) /\ Len(typed') = n + 1
        /\ \A i \in 1 .. n : typed'[i] = typed[i]
        /\ typed'[n + 1] = KeyMap[sc]
    <3>1. typed \in Seq(Char) /\ Len(typed) = n /\ typed' = Append(typed, KeyMap[sc])
      BY <2>1 DEF RingInv
    <3> HIDE DEF n
    <3> QED
      BY <2>2, <3>1, AppendProperties
  <2>4. g_kbd_tail' = (g_kbd_head + (n + 1)) % KbdSize
    <3>1. g_kbd_head + n \in 0 .. 2 * KbdSize - 1 /\ g_kbd_head + n + 1 <= 2 * KbdSize - 1
      BY <2>0 DEF RingInv
    <3>2. (((g_kbd_head + n) % KbdSize) + 1) % KbdSize = (g_kbd_head + n + 1) % KbdSize
      BY <3>1, ModAdd
    <3> QED
      BY <2>0, <2>1, <3>2 DEF RingInv
  <2>5. ASSUME NEW i \in 1 .. n + 1
        PROVE  typed'[i] = g_kbd_buf'[(g_kbd_head + i - 1) % KbdSize]
    <3>1. CASE i = n + 1
      <4>1. (g_kbd_head + i - 1) % KbdSize = g_kbd_tail
        BY <2>0, <3>1 DEF RingInv
      <4> QED
        BY <2>1, <2>2, <2>3, <3>1, <4>1 DEF RingInv
    <3>2. CASE i \in 1 .. n
      <4>1. /\ g_kbd_head + i - 1 \in 0 .. 2 * KbdSize - 1
            /\ g_kbd_head + n \in 0 .. 2 * KbdSize - 1
            /\ g_kbd_head + i - 1 < g_kbd_head + n
            /\ g_kbd_head + n < g_kbd_head + i - 1 + KbdSize
        BY <2>0, <3>2 DEF RingInv
      <4>2. (g_kbd_head + i - 1) % KbdSize # g_kbd_tail
        BY <4>1, ModDistinct DEF RingInv
      <4>3. (g_kbd_head + i - 1) % KbdSize \in 0 .. KbdSize - 1
        <5>1. g_kbd_head + i - 1 \in Nat
          BY <4>1
        <5> QED
          BY <5>1, ModRange
      <4>4. g_kbd_buf'[(g_kbd_head + i - 1) % KbdSize] = g_kbd_buf[At(i)]
        BY <2>1, <4>2, <4>3 DEF RingInv, At
      <4> QED
        BY <2>3, <3>2, <4>4 DEF RingInv
    <3> QED
      BY <2>0, <3>1, <3>2
  <2>6. g_kbd_buf' \in [0 .. KbdSize - 1 -> Char]
    BY <2>1, <2>2 DEF RingInv
  <2> QED
    BY <2>0, <2>1, <2>3, <2>4, <2>5, <2>6 DEF RingInv, At
<1>2. CASE ~(KeyMap[sc] # "none" /\ Room)
  <2>1. UNCHANGED kbdVars
    BY <1>2 DEF handler_kbd, kbdVars, RingInv, Room
  <2> QED
    BY <2>1 DEF RingInv, At, kbdVars
<1> QED
  BY <1>1, <1>2

\* A read: it returns the first characters typed and leaves the others.
LEMMA ReadStep ==
  ASSUME RingInv, NEW n \in 1 .. MaxRead, kbd0_read(n) PROVE RingInv'
<1> USE KbdAssumption
<1> DEFINE k == g_kbd_count
           m == IF n < k THEN n ELSE k
<1>0. k \in Nat /\ m \in 0 .. k /\ k <= KbdSize /\ Len(typed) = k
  BY DEF RingInv
<1>1. /\ got' = [i \in 1 .. m |-> g_kbd_buf[(g_kbd_head + i - 1) % KbdSize]]
      /\ g_kbd_head' = (g_kbd_head + m) % KbdSize
      /\ g_kbd_count' = k - m
      /\ due_got' = SubSeq(typed, 1, m)
      /\ typed' = SubSeq(typed, Len(due_got') + 1, k)
      /\ UNCHANGED <<g_kbd_buf, g_kbd_tail>>
  BY <1>0 DEF kbd0_read
<1> HIDE DEF m
<1>2. typed \in Seq(Char) /\ \A i \in 1 .. k : typed[i] \in Char
  BY <1>0 DEF RingInv
<1>3. /\ due_got' \in Seq(Char) /\ Len(due_got') = m
      /\ \A i \in 1 .. m : due_got'[i] = typed[i]
  <2>1. \A i \in 1 .. m : typed[i] \in Char
    BY <1>0, <1>2
  <2>2. /\ due_got' \in Seq(Char)
        /\ Len(due_got') = IF 1 <= m THEN m - 1 + 1 ELSE 0
        /\ \A i \in 1 .. m - 1 + 1 : due_got'[i] = typed[1 + i - 1]
    BY <1>0, <1>1, <2>1, SubSeqProperties
  <2> QED
    BY <1>0, <2>2
<1>4. /\ typed' \in Seq(Char) /\ Len(typed') = k - m
      /\ \A i \in 1 .. k - m : typed'[i] = typed[m + i]
  <2>1. \A i \in m + 1 .. k : typed[i] \in Char
    BY <1>0, <1>2
  <2>2. typed' = SubSeq(typed, m + 1, k)
    BY <1>1, <1>3
  <2>3. /\ typed' \in Seq(Char)
        /\ Len(typed') = IF m + 1 <= k THEN k - (m + 1) + 1 ELSE 0
        /\ \A i \in 1 .. k - (m + 1) + 1 : typed'[i] = typed[(m + 1) + i - 1]
    BY <1>0, <2>1, <2>2, SubSeqProperties
  <2> QED
    BY <1>0, <2>3
<1>5. got' = due_got'
  <2>1. due_got' = [i \in 1 .. m |-> due_got'[i]]
    BY <1>0, <1>3
  <2>2. \A i \in 1 .. m : due_got'[i] = g_kbd_buf[(g_kbd_head + i - 1) % KbdSize]
    <3> SUFFICES ASSUME NEW i \in 1 .. m
                 PROVE  due_got'[i] = g_kbd_buf[(g_kbd_head + i - 1) % KbdSize]
      OBVIOUS
    <3>1. i \in 1 .. k /\ due_got'[i] = typed[i]
      BY <1>0, <1>3
    <3>2. typed[i] = g_kbd_buf[At(i)]
      BY <3>1 DEF RingInv
    <3> QED
      BY <3>1, <3>2 DEF At
  <2> QED
    BY <1>1, <2>1, <2>2
<1>6. g_kbd_head + m \in 0 .. 2 * KbdSize - 1 /\ g_kbd_head \in Nat
  BY <1>0 DEF RingInv
<1>7. g_kbd_head' \in 0 .. KbdSize - 1
  <2>1. g_kbd_head + m \in Nat
    BY <1>6
  <2> QED
    BY <1>1, <2>1, ModRange
<1>8. g_kbd_tail' = (g_kbd_head' + (k - m)) % KbdSize
  <2>1. k - m \in Nat /\ (g_kbd_head + m) + (k - m) <= 2 * KbdSize - 1
        /\ (g_kbd_head + m) + (k - m) = g_kbd_head + k
    BY <1>0 DEF RingInv
  <2>2. (((g_kbd_head + m) % KbdSize) + (k - m)) % KbdSize
          = ((g_kbd_head + m) + (k - m)) % KbdSize
    BY <1>6, <2>1, ModAdd
  <2> QED
    BY <1>1, <2>1, <2>2 DEF RingInv
<1>9. ASSUME NEW i \in 1 .. k - m
      PROVE  typed'[i] = g_kbd_buf'[(g_kbd_head' + i - 1) % KbdSize]
  <2>1. i - 1 \in Nat /\ (g_kbd_head + m) + (i - 1) <= 2 * KbdSize - 1
        /\ (g_kbd_head + m) + (i - 1) = g_kbd_head + (m + i) - 1
        /\ m + i \in 1 .. k
    BY <1>0 DEF RingInv
  <2>2. (((g_kbd_head + m) % KbdSize) + (i - 1)) % KbdSize
          = ((g_kbd_head + m) + (i - 1)) % KbdSize
    BY <1>6, <2>1, ModAdd
  <2>3. g_kbd_head' + i - 1 = g_kbd_head' + (i - 1)
    BY <1>0, <1>7
  <2>4. (g_kbd_head' + i - 1) % KbdSize = At(m + i)
    BY <1>1, <2>1, <2>2, <2>3 DEF At
  <2> QED
    BY <1>1, <1>4, <2>1, <2>4 DEF RingInv
<1>10. g_kbd_count' \in 0 .. KbdSize
  BY <1>0, <1>1
<1> QED
  BY <1>1, <1>4, <1>5, <1>7, <1>8, <1>9, <1>10 DEF RingInv, At

\* The ring is a queue for every KBD_BUF_SIZE, key map and length of a read: a
\* reader gets the keys in the order handler_kbd stored them, each once, and a
\* key that finds the ring full overwrites nothing.
THEOREM KeysCorrect == KbdSpec => []KeysExact
<1>1. RingInv /\ [KbdNext]_kbdVars => RingInv'
  <2>1. ASSUME RingInv, UNCHANGED kbdVars PROVE RingInv'
    BY <2>1 DEF RingInv, At, kbdVars
  <2> QED
    BY <2>1, KeyStep, ReadStep DEF KbdNext
<1>2. RingInv => KeysExact
  <2> SUFFICES ASSUME RingInv PROVE KeysExact
    OBVIOUS
  <2>1. typed = [i \in 1 .. g_kbd_count |-> typed[i]]
    BY DEF RingInv
  <2> QED
    BY <2>1 DEF RingInv, KeysExact, At
<1> QED
  BY <1>1, <1>2, InitRing, PTL DEF KbdSpec

-----------------------------------------------------------------------------
(* The clock.                                                              *)

TimerSpec == TimerInit /\ [][TimerNext]_timerVars

\* The products of the conversions fit the width, as 64 bits do for millions of years.
Fits == \A m \in Ms \cup {0} : (MaxNow + m) * Hz < 2^Width

\* Which tick it is, and where the wake-up tick is from the request on.
ClockInv ==
  /\ now \in 0 .. MaxNow /\ jiffies \in Nat
  /\ jiffies * Period <= now /\ now < jiffies * Period + Period
  /\ asleep \in BOOLEAN
  /\ asleep => /\ ms \in Ms \ {0} /\ since \in 0 .. now /\ wake_jiffies \in Nat
               /\ wake_jiffies * Period <= since + ms \/ wake_jiffies * Period <= since + Period
               /\ wake_jiffies * Period + 2 * Period > since + ms

\* A tick is a whole number of milliseconds.
LEMMA PeriodExact == Period \in Nat \ {0} /\ Period * Hz = 1000 /\ Hz \in Nat \ {0}
BY TimerAssumption DEF Period

\* A request is a number of milliseconds.
LEMMA RequestNat == \A m \in Ms : m \in Nat
BY TimerAssumption

\* Small numbers do not wrap.
LEMMA NoWrap ==
  ASSUME Fits, NEW n \in Nat, NEW m \in Ms \cup {0}, n <= (MaxNow + m) * Hz
  PROVE  WrapTime(n) = n
<1> DEFINE w == 2^Width
           x == (MaxNow + m) * Hz
<1>1. w \in Int /\ m \in Nat
  BY TimerAssumption
<1>2. x \in Nat /\ x < w
  BY <1>1, TimerAssumption DEF Fits
<1> HIDE DEF w, x
<1>3. n % w = n
  BY <1>1, <1>2 DEF x
<1> QED
  BY <1>3 DEF WrapTime, w

\* The ticks so far, in the products of the conversions.
LEMMA TicksFit ==
  ASSUME ClockInv PROVE jiffies * 1000 <= now * Hz /\ now * Hz <= MaxNow * Hz /\ jiffies <= now
<1> DEFINE x == jiffies * Period
<1>1. x \in Nat /\ x <= now /\ now \in Nat /\ now <= MaxNow /\ MaxNow \in Nat
  BY PeriodExact, TimerAssumption DEF ClockInv
<1>2. jiffies * 1000 = x * Hz
  BY PeriodExact DEF ClockInv
<1>3. jiffies <= x
  BY PeriodExact DEF ClockInv
<1> HIDE DEF x
<1>4. x * Hz <= now * Hz /\ now * Hz <= MaxNow * Hz
  BY <1>1, PeriodExact
<1> QED
  BY <1>1, <1>2, <1>3, <1>4 DEF ClockInv

\* uptime_ms is the time of the last tick.
LEMMA UptimeIs == ASSUME Fits, ClockInv PROVE uptime_ms = jiffies * Period
<1>1. WrapTime(jiffies * 1000) = jiffies * 1000
  <2> DEFINE n == jiffies * 1000
  <2>1. n \in Nat /\ n <= (MaxNow + 0) * Hz
    BY TicksFit, PeriodExact, TimerAssumption DEF ClockInv
  <2> HIDE DEF n
  <2>2. WrapTime(n) = n
    BY <2>1, NoWrap
  <2> QED
    BY <2>2 DEF n
<1>2. (jiffies * 1000) \div Hz = jiffies * Period
  BY PeriodExact DEF ClockInv
<1> QED
  BY <1>1, <1>2 DEF uptime_ms, jiffies_to_ms

\* A millisecond: the handler counts a tick exactly when a period is over.
LEMMA ElapseStep == ASSUME Fits, ClockInv, Elapse PROVE ClockInv'
<1> DEFINE d == Period
           x == jiffies * d
<1>0. d \in Nat \ {0} /\ x \in Nat /\ x <= now /\ now < x + d /\ now \in Nat
  BY PeriodExact DEF ClockInv
<1>1. (jiffies + 1) * d = x + d
  BY <1>0 DEF ClockInv
<1>2. (now + 1) % d = 0 <=> now + 1 = x + d
  <2> DEFINE r == now + 1 - x
             j == jiffies + 1
  <2>1. r \in 1 .. d /\ now + 1 = x + r /\ j \in Nat
    BY <1>0 DEF ClockInv
  <2>2. CASE r = d
    <3>1. now + 1 = j * d
      BY <1>0, <1>1, <2>1, <2>2
    <3>2. (j * d) % d = 0
      <4> HIDE DEF j, d
      <4> QED
        BY <1>0, <2>1
    <3> QED
      BY <2>1, <2>2, <3>1, <3>2
  <2>3. CASE r # d
    <3>1. r \in 0 .. d - 1
      BY <1>0, <2>1, <2>3
    <3>2. (x + r) % d = r
      <4> HIDE DEF r, d
      <4> QED
        BY <1>0, <3>1 DEF ClockInv
    <3> QED
      BY <1>0, <2>1, <2>3, <3>2
  <2> QED
    BY <2>2, <2>3
<1>3. now' = now + 1 /\ now' \in 0 .. MaxNow
      /\ UNCHANGED <<asleep, ms, since, wake_jiffies>>
  BY TimerAssumption DEF Elapse, ClockInv
<1>4. WrapTime(jiffies + 1) = jiffies + 1 \/ now + 1 # x + d
  <2>1. SUFFICES ASSUME now + 1 = x + d PROVE WrapTime(jiffies + 1) = jiffies + 1
    OBVIOUS
  <2>2. jiffies + 1 <= now + 1
    BY TicksFit DEF ClockInv
  <2>3. now + 1 <= MaxNow /\ MaxNow <= (MaxNow + 0) * Hz
    BY <1>3, PeriodExact, TimerAssumption
  <2> DEFINE n == jiffies + 1
             y == (MaxNow + 0) * Hz
  <2>4. n \in Nat /\ y \in Nat
    BY PeriodExact, TimerAssumption DEF ClockInv
  <2>5. n <= y
    BY <1>0, <2>2, <2>3, <2>4, TimerAssumption
  <2> HIDE DEF n
  <2>6. WrapTime(n) = n
    BY <2>4, <2>5, NoWrap
  <2> QED
    BY <2>6 DEF n
<1>5. \/ now + 1 = x + d /\ jiffies' = jiffies + 1
      \/ now + 1 # x + d /\ jiffies' = jiffies
  BY <1>2, <1>4 DEF Elapse, ticked
<1>6. jiffies' \in Nat /\ jiffies' * d <= now' /\ now' < jiffies' * d + d
  <2>1. CASE now + 1 = x + d /\ jiffies' = jiffies + 1
    BY <1>0, <1>1, <1>3, <2>1 DEF ClockInv
  <2>2. CASE now + 1 # x + d /\ jiffies' = jiffies
    BY <1>0, <1>3, <2>2 DEF ClockInv
  <2> QED
    BY <1>5, <2>1, <2>2
<1>7. since \in 0 .. now => since \in 0 .. now'
  BY <1>0, <1>3
<1> QED
  BY <1>3, <1>6, <1>7 DEF ClockInv

\* ms_to_jiffies: so many ticks are no longer than the request, or one, and less
\* than a tick shorter.
LEMMA TicksOf ==
  ASSUME Fits, NEW m \in Ms \ {0}
  PROVE  LET t == ms_to_jiffies(m)
         IN  /\ t \in Nat /\ (t * 1000 <= m * Hz \/ t = 1)
             /\ t \in Nat /\ (t * Period <= m \/ t = 1)
             /\ m < t * Period + Period
<1> DEFINE d == Period
           y == m * Hz
           q == y \div 1000
           t == ms_to_jiffies(m)
<1>0. m \in Nat /\ m # 0 /\ d \in Nat \ {0} /\ d * Hz = 1000 /\ Hz \in Nat \ {0}
  BY PeriodExact, TimerAssumption
<1>1. y \in Nat /\ q \in Nat /\ q * 1000 <= y /\ y < q * 1000 + 1000
  BY <1>0
<1>2. WrapTime(y) = y
  <2>1. m * Hz <= (MaxNow + m) * Hz
    BY <1>0, TimerAssumption
  <2> HIDE DEF y
  <2> QED
    BY <1>1, <2>1, NoWrap DEF y
<1>3. t = IF q = 0 THEN 1 ELSE q
  BY <1>0, <1>2 DEF ms_to_jiffies
<1>4. q * d <= m /\ m < q * d + d
  <2> DEFINE x == q * d
  <2>1. x \in Nat /\ q * 1000 = x * Hz /\ 1000 = d * Hz
    BY <1>0, <1>1
  <2> HIDE DEF x, q, d, y
  <2>2. x * Hz <= m * Hz /\ m * Hz < (x + d) * Hz
    BY <1>0, <1>1, <2>1 DEF y
  <2>3. x <= m
    BY <1>0, <2>1, <2>2
  <2>4. m < x + d
    BY <1>0, <2>1, <2>2
  <2> QED
    BY <2>3, <2>4 DEF x
<1> HIDE DEF q, d, y, t
<1>5. CASE q = 0
  <2>1. t = 1 /\ m < t * d + d
    BY <1>0, <1>3, <1>4, <1>5
  <2> QED
    BY <2>1 DEF t, d
<1>6. CASE q # 0
  <2>1. t = q
    BY <1>3, <1>6
  <2> QED
    BY <1>1, <1>4, <2>1 DEF t, d, y
<1> QED
  BY <1>5, <1>6

\* A request: the wake-up tick is counted from the tick that is under way.
LEMMA SleepStep == ASSUME Fits, ClockInv, NEW m \in Ms, msleep(m) PROVE ClockInv'
<1> DEFINE d == Period
           j == jiffies
           t == ms_to_jiffies(m)
<1>0. /\ d \in Nat \ {0} /\ j \in Nat /\ now \in 0 .. MaxNow /\ MaxNow \in Nat
      /\ j * d \in Nat /\ j * d <= now /\ now < j * d + d
      /\ Hz \in Nat \ {0}
  BY PeriodExact, TimerAssumption DEF ClockInv
<1>1. /\ m # 0 /\ m \in Nat /\ asleep' = TRUE /\ ms' = m /\ since' = now
      /\ wake_jiffies' = WrapTime(j + t) /\ UNCHANGED <<now, jiffies>>
  BY TimerAssumption DEF msleep
<1>2. /\ t \in Nat /\ (t * 1000 <= m * Hz \/ t = 1)
      /\ t \in Nat /\ (t * d <= m \/ t = 1)
      /\ m < t * d + d
  BY <1>1, TicksOf
<1>3. t \in Nat
  BY <1>2
<1> HIDE DEF d, t
<1>4. WrapTime(j + t) = j + t
  <2> DEFINE n == j + t
  <2>1. j * 1000 <= MaxNow * Hz /\ j <= MaxNow
    <3>1. j * 1000 <= now * Hz /\ now * Hz <= MaxNow * Hz /\ j <= now
      BY TicksFit
    <3>2. now * Hz \in Nat /\ MaxNow * Hz \in Nat
      BY <1>0
    <3> QED
      BY <1>0, <3>1, <3>2
  <2>2. CASE t * 1000 <= m * Hz
    <3>1. (MaxNow + m) * Hz = MaxNow * Hz + m * Hz /\ MaxNow * Hz \in Nat /\ m * Hz \in Nat
      BY <1>0, <1>1
    <3>2. n \in Nat /\ n <= MaxNow * Hz + m * Hz
      BY <1>0, <1>3, <2>1, <2>2, <3>1
    <3> HIDE DEF n
    <3>3. WrapTime(n) = n
      BY <3>1, <3>2, NoWrap
    <3> QED
      BY <3>3 DEF n
  <2>3. CASE t = 1
    <3>1. MaxNow + m <= (MaxNow + m) * Hz
      BY <1>0, <1>1
    <3> DEFINE z == (MaxNow + m) * Hz
    <3>2. z \in Nat
      BY <1>0, <1>1
    <3>3. n \in Nat /\ n <= z
      <4> HIDE DEF z
      <4> QED
        BY <1>0, <1>1, <2>1, <2>3, <3>1, <3>2 DEF z
    <3> HIDE DEF n
    <3>4. WrapTime(n) = n
      BY <3>3, NoWrap
    <3> QED
      BY <3>4 DEF n
  <2> QED
    BY <1>2, <2>2, <2>3
<1>5. (j + t) * d = j * d + t * d /\ t * d \in Nat /\ (t = 1 => t * d = d)
  BY <1>0, <1>3
<1>6. wake_jiffies' \in Nat /\ wake_jiffies' * d = j * d + t * d
  BY <1>0, <1>1, <1>3, <1>4, <1>5
<1>7. /\ wake_jiffies' * d <= since' + ms' \/ wake_jiffies' * d <= since' + d
      /\ wake_jiffies' * d + 2 * d > since' + ms'
  <2> DEFINE x == j * d
             y == t * d
  <2>1. x \in Nat /\ y \in Nat /\ wake_jiffies' * d = x + y /\ x <= now /\ now < x + d
        /\ (y <= m \/ y = d) /\ m < y + d
    BY <1>0, <1>2, <1>5, <1>6
  <2> HIDE DEF x, y
  <2> QED
    BY <1>0, <1>1, <2>1
<1> QED
  BY <1>0, <1>1, <1>6, <1>7 DEF ClockInv, d

\* The clock and the wake-up ticks keep to it.
LEMMA ClockNext == ASSUME Fits PROVE ClockInv /\ [TimerNext]_timerVars => ClockInv'
<1> SUFFICES ASSUME ClockInv, [TimerNext]_timerVars PROVE ClockInv'
  OBVIOUS
<1>1. CASE UNCHANGED timerVars
  BY <1>1 DEF timerVars, ClockInv
<1>2. CASE msleep_return
  BY <1>2 DEF msleep_return, ClockInv
<1> QED
  BY <1>1, <1>2, ElapseStep, SleepStep DEF TimerNext

\* At the start no tick has passed.
LEMMA ClockStart == TimerInit => ClockInv
<1> SUFFICES ASSUME TimerInit PROVE ClockInv
  OBVIOUS
<1>1. Period \in Nat \ {0} /\ 0 \in 0 .. MaxNow
  BY PeriodExact, TimerAssumption
<1>2. ~asleep /\ asleep \in BOOLEAN
  BY DEF TimerInit
<1>3. now = 0 /\ jiffies = 0
  BY DEF TimerInit
<1> QED
  BY <1>1, <1>2, <1>3 DEF ClockInv

\* For every tick that divides a second, uptime_ms follows the clock within a tick,
\* and a sleeper of msleep is due when its time is over, whenever it called.
THEOREM ClockCorrect == ASSUME Fits PROVE TimerSpec => []ClockExact
<1>1. ClockInv => ClockExact
  <2> SUFFICES ASSUME ClockInv PROVE ClockExact
    OBVIOUS
  <2> DEFINE d == Period
             x == jiffies * d
  <2>1. d \in Nat \ {0} /\ x \in Nat /\ x <= now /\ now < x + d /\ now \in Nat
    BY PeriodExact DEF ClockInv
  <2>2. UptimeTracks
    BY <2>1, UptimeIs DEF UptimeTracks
  <2>3. ASSUME asleep, now - since >= ms, now - since >= d PROVE due
    <3> DEFINE w == wake_jiffies
               y == w * d
    <3>1. w \in Nat /\ ms \in Nat /\ since \in Nat /\ (y <= since + ms \/ y <= since + d)
          /\ jiffies \in Nat
      <4>1. ms \in Nat
        BY <2>3, RequestNat DEF ClockInv
      <4> QED
        BY <2>3, <4>1 DEF ClockInv
    <3>2. y \in Nat
      BY <2>1, <3>1
    <3> HIDE DEF d
    <3>3. y < x + d
      <4> HIDE DEF x, y
      <4> QED
        BY <2>1, <2>3, <3>1, <3>2
    <3>4. w < jiffies + 1
      <4> SUFFICES ASSUME w >= jiffies + 1 PROVE FALSE
        BY <3>1
      <4>1. w * d >= (jiffies + 1) * d
        BY <2>1, <3>1
      <4>2. (jiffies + 1) * d = x + d
        BY <2>1, <3>1
      <4> QED
        BY <2>1, <3>2, <3>3, <4>1, <4>2
    <3> QED
      BY <3>1, <3>4 DEF due
  <2> QED
    BY <2>2, <2>3 DEF ClockExact, DueInTime
<1> QED
  BY <1>1, ClockNext, ClockStart, PTL DEF TimerSpec

\* msleep misses the requested time by less than two ticks, for every tick.
THEOREM SleepCorrect == ASSUME Fits PROVE TimerSpec => SleepNearlyEnough
<1> DEFINE A == asleep /\ ~asleep' => now - since + 2 * Period > ms
<1>1. ClockInv /\ [TimerNext]_timerVars => [A]_timerVars
  <2> SUFFICES ASSUME ClockInv, TimerNext, asleep, ~asleep' PROVE now - since + 2 * Period > ms
    OBVIOUS
  <2>1. msleep_return
    BY DEF TimerNext, Elapse, msleep
  <2> DEFINE d == Period
             w == wake_jiffies
             x == jiffies * d
             y == w * d
  <2>2. /\ d \in Nat \ {0} /\ x \in Nat /\ x <= now /\ now \in Nat /\ jiffies \in Nat
        /\ w \in Nat /\ y \in Nat /\ ms \in Nat /\ since \in Nat /\ y + 2 * d > since + ms
    <3>1. ms \in Nat
      BY RequestNat DEF ClockInv
    <3>2. d \in Nat \ {0}
      BY PeriodExact
    <3> HIDE DEF d
    <3>3. /\ x <= now /\ now \in Nat /\ jiffies \in Nat
          /\ w \in Nat /\ since \in Nat /\ y + 2 * d > since + ms
      BY DEF ClockInv, d
    <3>4. x \in Nat /\ y \in Nat
      BY <3>2, <3>3
    <3> QED
      BY <3>1, <3>2, <3>3, <3>4
  <2>3. jiffies >= w
    BY <2>1 DEF msleep_return, due
  <2>4. x >= y
    <3> HIDE DEF d, w
    <3> QED
      BY <2>2, <2>3
  <2> HIDE DEF x, y, d
  <2>5. now - since + 2 * d > ms
    BY <2>2, <2>4
  <2> QED
    BY <2>5 DEF d
<1> QED
  BY <1>1, ClockNext, ClockStart, PTL DEF TimerSpec, SleepNearlyEnough

-----------------------------------------------------------------------------
(* The disk.                                                               *)

\* The quotient and the rest.
LEMMA DivMod ==
  ASSUME NEW x \in Nat, NEW d \in Nat \ {0}
  PROVE  /\ x \div d \in Nat /\ x % d \in 0 .. d - 1
         /\ x = d * (x \div d) + (x % d)
         /\ x = (x \div d) * d + (x % d)
         /\ x = (x % d) + d * (x \div d)
         /\ x % d \in Nat
OBVIOUS

\* Multiples add up.
LEMMA Multiples ==
  ASSUME NEW x \in Nat, NEW y \in Nat, NEW d \in Nat
  PROVE  x * d \in Nat /\ y * d \in Nat /\ (x + y) * d = x * d + y * d
OBVIOUS

\* A number lies in one multiple of d only.
LEMMA DivUnique ==
  ASSUME NEW x \in Nat, NEW d \in Nat \ {0}, NEW q \in Int, NEW r \in 0 .. d - 1, x = q * d + r
  PROVE  q = x \div d /\ r = x % d
<1> DEFINE p == x \div d
           s == x % d
<1>1. p \in Nat /\ s \in 0 .. d - 1 /\ x = p * d + s
  BY DivMod
<1> HIDE DEF p, s
<1>2. ASSUME q < p PROVE FALSE
  <2>1. (q + 1) * d <= p * d
    BY <1>1, <1>2
  <2> QED
    BY <1>1, <2>1
<1>3. ASSUME p < q PROVE FALSE
  <2>1. (p + 1) * d <= q * d
    BY <1>1, <1>3
  <2> QED
    BY <1>1, <2>1
<1>4. p = q
  BY <1>1, <1>2, <1>3
<1>5. s = r
  BY <1>1, <1>4
<1> QED
  BY <1>4, <1>5 DEF p, s

\* Shifting twice.
LEMMA DivTwice ==
  ASSUME NEW x \in Nat, NEW a \in Nat \ {0}, NEW b \in Nat \ {0}
  PROVE  a * b \in Nat \ {0} /\ x \div (a * b) = (x \div a) \div b
<1> DEFINE p == x \div a
           q == p \div b
           d == a * b
<1>0. d \in Nat \ {0}
  OBVIOUS
<1>1. p \in Nat /\ x % a \in 0 .. a - 1 /\ x = a * p + (x % a)
  BY DivMod
<1>2. q \in Nat /\ p % b \in 0 .. b - 1 /\ p = q * b + (p % b)
  BY <1>1, DivMod
<1> DEFINE s == p % b
           t == x % a
           r == a * s + t
<1> HIDE DEF p, q, s, t
<1>3. x = a * (q * b + s) + t
  BY <1>1, <1>2 DEF s, t
<1>4. a * (q * b + s) = q * d + a * s
  BY <1>1, <1>2 DEF s, d
<1>5. a * s <= d - a /\ a * s \in Nat
  <2>1. s \in Nat /\ s + 1 <= b
    BY <1>2 DEF s
  <2>2. a * s \in Nat /\ a * (s + 1) <= a * b /\ a * (s + 1) = a * s + a
    BY <2>1
  <2> QED
    BY <2>1, <2>2 DEF d
<1> HIDE DEF d
<1>6. r \in 0 .. d - 1 /\ x = q * d + r
  BY <1>0, <1>1, <1>2, <1>3, <1>4, <1>5 DEF t, s
<1> HIDE DEF r
<1>7. q = x \div d
  <2>1. q \in Int
    BY <1>2
  <2> QED
    BY <1>0, <2>1, <1>6, DivUnique, Zenon
<1> QED
  BY <1>0, <1>7 DEF d, q, p

\* The registers are numbers, and the rest of the sizes.
LEMMA Sizes ==
  /\ Sectors \in Nat \ {0} /\ Bs \in Nat \ {0} /\ Radix \in Nat \ {0} /\ Nibble \in Nat \ {0}
  /\ Clamp \in Nat \ {0} /\ Split \in Nat \ {0} /\ Clamp <= Radix /\ Lba48 \in BOOLEAN
BY DiskAssumption

\* The digits of x make up x again: four of them, the last below N, or six.
Reassembled(x, R, N, w2, w3, w4, w5) ==
  /\ x < w3 * N =>
       x = (x % R) + R * (((x \div R) % R) + R * (((x \div w2) % R) + R * ((x \div w3) % N)))
  /\ x < w5 * R =>
       x = (x % R) + R * (((x \div R) % R) + R * (((x \div w2) % R) + R *
           (((x \div w3) % R) + R * (((x \div w4) % R) + R * ((x \div w5) % R)))))

\* The address a drive puts together from four, or six, digits is the one that was taken
\* apart.
LEMMA DigitsOf ==
  ASSUME NEW x \in Nat, NEW R \in Nat \ {0}, NEW N \in Nat \ {0},
         NEW w2, w2 = R * R, NEW w3, w3 = w2 * R, NEW w4, w4 = w3 * R, NEW w5, w5 = w4 * R
  PROVE  Reassembled(x, R, N, w2, w3, w4, w5)
<1> DEFINE x1 == x \div R
           x2 == x1 \div R
           x3 == x2 \div R
           x4 == x3 \div R
           x5 == x4 \div R
<1>0. x1 = x \div R /\ x2 = x1 \div R /\ x3 = x2 \div R /\ x4 = x3 \div R /\ x5 = x4 \div R
  OBVIOUS
<1> HIDE DEF x1, x2, x3, x4, x5
<1>1. x1 \in Nat /\ x = (x % R) + R * x1 /\ x % R \in Nat
  BY <1>0, DivMod, Zenon
<1>2. x2 \in Nat /\ x1 = (x1 % R) + R * x2 /\ x1 % R \in Nat
  BY <1>0, <1>1, DivMod, Zenon
<1>3. x3 \in Nat /\ x2 = (x2 % R) + R * x3 /\ x2 % R \in Nat
  BY <1>0, <1>2, DivMod, Zenon
<1>4. x4 \in Nat /\ x3 = (x3 % R) + R * x4 /\ x3 % R \in Nat
  BY <1>0, <1>3, DivMod, Zenon
<1>5. x5 \in Nat /\ x4 = (x4 % R) + R * x5 /\ x4 % R \in Nat
  BY <1>0, <1>4, DivMod, Zenon
<1>s. ASSUME NEW w \in Nat \ {0}
      PROVE  w * R \in Nat \ {0} /\ x \div (w * R) = (x \div w) \div R
  <2>1. \A a \in Nat \ {0}, b \in Nat \ {0} : a * b \in Nat \ {0} /\ x \div (a * b) = (x \div a) \div b
    BY DivTwice, Zenon
  <2> QED
    BY <2>1, Zenon
<1>6. w2 \in Nat \ {0} /\ x \div w2 = x2
  BY <1>0, DivTwice, ZenonT(40)
<1>7. w3 \in Nat \ {0} /\ x \div w3 = x3
  <2>1. w2 * R \in Nat \ {0} /\ x \div (w2 * R) = (x \div w2) \div R
    BY <1>6, <1>s
  <2> QED
    BY <2>1, <1>0, <1>6
<1>8. w4 \in Nat \ {0} /\ x \div w4 = x4
  <2>1. w3 * R \in Nat \ {0} /\ x \div (w3 * R) = (x \div w3) \div R
    BY <1>7, <1>s
  <2> QED
    BY <2>1, <1>0, <1>7
<1>9. w5 \in Nat \ {0} /\ x \div w5 = x5
  <2>1. w4 * R \in Nat \ {0} /\ x \div (w4 * R) = (x \div w4) \div R
    BY <1>8, <1>s
  <2> QED
    BY <2>1, <1>0, <1>8
<1>10. ASSUME NEW w \in Nat \ {0}, NEW m \in Nat \ {0}, x < w * m
       PROVE  (x \div w) % m = x \div w
  <2> DEFINE q == x \div w
  <2>1. q \in Nat /\ q * w <= x
    BY DivMod
  <2> HIDE DEF q
  <2>2. q < m
    <3>1. SUFFICES ASSUME m <= q PROVE FALSE
      BY <2>1
    <3>2. m * w <= q * w
      BY <2>1, <3>1
    <3> QED
      BY <2>1, <3>2, <1>10
  <2>3. q % m = q
    BY <2>1, <2>2
  <2> QED
    BY <2>3 DEF q
<1>11. x < w3 * N => x3 % N = x3
  BY <1>7, <1>10
<1>12. x < w5 * R => x5 % R = x5
  BY <1>9, <1>10
<1>13. ASSUME x < w3 * N
       PROVE  x = (x % R) + R * ((x1 % R) + R * ((x2 % R) + R * (x3 % N)))
  BY <1>13, <1>11, <1>1, <1>2, <1>3
<1>14. ASSUME x < w5 * R
       PROVE  x = (x % R) + R * ((x1 % R) + R * ((x2 % R) + R * ((x3 % R) + R * ((x4 % R) + R * (x5 % R)))))
  BY <1>14, <1>12, <1>1, <1>2, <1>3, <1>4, <1>5
<1> QED
  BY <1>0, <1>6, <1>7, <1>8, <1>9, <1>13, <1>14 DEF Reassembled

\* The weights, one by one.
LEMMA Weights ==
  /\ Weight[1] = 1 /\ Weight[2] = Radix /\ Weight[3] = Radix * Radix /\ Weight[4] = Weight[3] * Radix
  /\ Weight[5] = Weight[4] * Radix /\ Weight[6] = Weight[5] * Radix
BY DEF Weight

\* A drive does what the registers of a command within its reach ask for.
LEMMA CommandExact ==
  ASSUME NEW x \in Nat, NEW m \in 1 .. Clamp, x + m <= Sectors, Lba48 \/ x + m <= Limit28
  PROVE  Decoded(Registers(x, m)).lba = x /\ Decoded(Registers(x, m)).count = m
<1>0. /\ Radix \in Nat \ {0} /\ Nibble \in Nat \ {0} /\ Clamp \in Nat \ {0} /\ Clamp <= Radix
      /\ Lba48 \in BOOLEAN /\ Sectors \in Nat
  BY Sizes
<1> DEFINE w3 == Weight[3]
           w4 == Weight[4]
           w5 == Weight[5]
           w6 == Weight[6]
<1>w. /\ Weight[1] = 1 /\ Weight[2] = Radix /\ w3 = Radix * Radix /\ w4 = w3 * Radix
      /\ w5 = w4 * Radix /\ w6 = w5 * Radix
  BY Weights
<1>l. Limit28 = w4 * Nibble - 1 /\ (Lba48 => Sectors <= w6 * Radix)
  BY DiskAssumption DEF Limit28
<1> HIDE DEF w3, w4, w5, w6
<1>n. w3 \in Nat /\ w4 \in Nat /\ w5 \in Nat /\ w6 \in Nat
  BY <1>0, <1>w
<1>d. /\ x < w4 * Nibble =>
              x = (x % Radix) + Radix * (((x \div Radix) % Radix) + Radix *
                  (((x \div w3) % Radix) + Radix * ((x \div w4) % Nibble)))
      /\ x < w6 * Radix =>
              x = (x % Radix) + Radix * (((x \div Radix) % Radix) + Radix * (((x \div w3) % Radix) + Radix *
                  (((x \div w4) % Radix) + Radix * (((x \div w5) % Radix) + Radix * ((x \div w6) % Radix)))))
  <2>1. Reassembled(x, Radix, Nibble, w3, w4, w5, w6)
    BY <1>0, <1>w, DigitsOf, Zenon
  <2> QED
    BY <2>1, Zenon DEF Reassembled
<1>g. /\ Digit(x, 0) = x % Radix /\ Digit(x, 1) = (x \div Radix) % Radix
      /\ Digit(x, 2) = (x \div w3) % Radix /\ Digit(x, 3) = (x \div w4) % Radix
      /\ Digit(x, 4) = (x \div w5) % Radix /\ Digit(x, 5) = (x \div w6) % Radix
  <2>1. x \div 1 = x
    OBVIOUS
  <2> QED
    BY <2>1, <1>w DEF Digit, w3, w4, w5, w6
<1> HIDE DEF Digit
<1> DEFINE r == Registers(x, m)
<1>1. CASE use48(x, m)
  <2>1. r = [ext |-> TRUE, count |-> m % (Radix * Radix), lba |-> [k \in 0 .. 5 |-> Digit(x, k)]]
    BY <1>1 DEF Registers
  <2> HIDE DEF r
  <2>2. /\ r.ext = TRUE /\ r.count = m % (Radix * Radix)
        /\ r.lba[0] = x % Radix /\ r.lba[1] = (x \div Radix) % Radix
        /\ r.lba[2] = (x \div w3) % Radix /\ r.lba[3] = (x \div w4) % Radix
        /\ r.lba[4] = (x \div w5) % Radix /\ r.lba[5] = (x \div w6) % Radix
    BY <2>1, <1>g
  <2>3. x < w6 * Radix
    BY <1>1, <1>l, <1>0, <1>n DEF use48
  <2>4. Decoded(r).lba = x
    BY <2>2, <2>3, <1>d DEF Decoded
  <2>5. Decoded(r).count = m
    <3>1. CASE Radix = 1
      BY <3>1, <2>2, <1>0 DEF Decoded
    <3>2. CASE Radix # 1
      <4>1. Radix < Radix * Radix /\ Radix * Radix \in Nat
        BY <3>2, <1>0
      <4>2. m % (Radix * Radix) = m
        BY <4>1, <1>0
      <4> QED
        BY <4>2, <2>2, <1>0 DEF Decoded
    <3> QED
      BY <3>1, <3>2
  <2> QED
    BY <2>4, <2>5 DEF r
<1>2. CASE ~use48(x, m)
  <2>1. r = [ext |-> FALSE, count |-> IF m = Radix THEN 0 ELSE m % Radix,
             lba |-> [k \in 0 .. 3 |-> IF k = 3 THEN (x \div w4) % Nibble ELSE Digit(x, k)]]
    BY <1>2 DEF Registers, w4
  <2> HIDE DEF r
  <2>2. /\ r.ext = FALSE /\ r.count = IF m = Radix THEN 0 ELSE m % Radix
        /\ r.lba[0] = x % Radix /\ r.lba[1] = (x \div Radix) % Radix
        /\ r.lba[2] = (x \div w3) % Radix /\ r.lba[3] = (x \div w4) % Nibble
    BY <2>1, <1>g
  <2>3. x < w4 * Nibble
    BY <1>2, <1>l, <1>0, <1>n DEF use48
  <2>4. Decoded(r).lba = x
    BY <2>2, <2>3, <1>d DEF Decoded
  <2>5. Decoded(r).count = m
    BY <2>2, <1>0 DEF Decoded
  <2> QED
    BY <2>4, <2>5 DEF r
<1> QED
  BY <1>1, <1>2

\* Sector j of a transfer within the drive's reach is the j-th from its first.
LEMMA SectorExact ==
  ASSUME NEW lba \in Nat, NEW n \in Nat, pio_check(lba, n), NEW j \in 0 .. n - 1
  PROVE  Sector(lba, n, j) = lba + j /\ j % Clamp < Command(lba, n, j).count
<1>0. Clamp \in Nat \ {0} /\ Lba48 \in BOOLEAN /\ Sectors \in Nat
  BY Sizes
<1> DEFINE q == j \div Clamp
           o == j % Clamp
           f == q * Clamp
           m == Least(Clamp, n - f)
<1>1. q \in Nat /\ o \in 0 .. Clamp - 1 /\ j = f + o
  <2>1. j \in Nat
    OBVIOUS
  <2> QED
    BY <2>1, <1>0, DivMod, Zenon
<1>2. f \in Nat
  BY <1>1, <1>0
<1> HIDE DEF q, o, f
<1>3. m \in 1 .. Clamp /\ f + m <= n /\ o < m
  BY <1>0, <1>1, <1>2 DEF Least
<1> HIDE DEF m
<1>4. Limit28 \in Int
  <2>1. Radix \in Nat /\ Nibble \in Nat
    BY Sizes
  <2> QED
    BY <2>1, Weights DEF Limit28
<1>5. lba + f \in Nat /\ lba + f + m <= Sectors /\ (Lba48 \/ lba + f + m <= Limit28)
  BY <1>0, <1>2, <1>3, <1>4 DEF pio_check
<1>6. Command(lba, n, j) = Decoded(Registers(lba + f, m))
  BY DEF Command, f, q, m
<1>7. Command(lba, n, j).lba = lba + f /\ Command(lba, n, j).count = m
  BY <1>3, <1>5, <1>6, CommandExact
<1>8. Sector(lba, n, j) = Command(lba, n, j).lba + o
  BY DEF Sector, o
<1>9. j % Clamp = o
  BY DEF o
<1> QED
  BY <1>1, <1>2, <1>3, <1>7, <1>8, <1>9

-----------------------------------------------------------------------------
(* Positions in a partition and addresses on the disk.                     *)

\* The bytes of t's partition.
Bytes(t) == {a \in Addr : a \div Bs \in Own(t)}

\* The partitions are parts of the drive.
LEMMA PartitionOf ==
  ASSUME NEW t \in Task
  PROVE  /\ Start[t] \in Nat /\ NBlocks[t] \in Nat /\ Size(t) \in Nat
         /\ NBlocks[t] # 0 => Start[t] + NBlocks[t] <= Sectors
<1>1. Start[t] \in Nat /\ NBlocks[t] \in Nat /\ Own(t) \subseteq 0 .. Sectors - 1
  BY DiskAssumption
<1>2. Sectors \in Nat /\ Bs \in Nat
  BY Sizes
<1>3. ASSUME NBlocks[t] # 0 PROVE Start[t] + NBlocks[t] <= Sectors
  <2>1. Start[t] + NBlocks[t] - 1 \in Own(t)
    BY <1>1, <1>3 DEF Own
  <2> QED
    BY <1>1, <1>2, <2>1
<1> QED
  BY <1>1, <1>2, <1>3 DEF Size

\* No byte is in two partitions.
LEMMA BytesApart ==
  ASSUME NEW t \in Task, NEW u \in Task, t # u, NEW a \in Bytes(t)
  PROVE  a \notin Bytes(u)
<1>1. Own(t) \cap Own(u) = {}
  BY DiskAssumption
<1> QED
  BY <1>1 DEF Bytes

\* Where byte p of a partition is.
LEMMA ByteAt ==
  ASSUME NEW t \in Task, NEW p \in 0 .. Size(t) - 1
  PROVE  /\ ByteAddr(t, p) \in Bytes(t) /\ ByteAddr(t, p) \in Addr /\ ByteAddr(t, p) \in Nat
         /\ ByteAddr(t, p) \div Bs = Start[t] + p \div Bs
         /\ ByteAddr(t, p) % Bs = p % Bs
         /\ p \div Bs \in 0 .. NBlocks[t] - 1
<1>0. Bs \in Nat \ {0} /\ Sectors \in Nat
  BY Sizes
<1>1. Start[t] \in Nat /\ NBlocks[t] \in Nat /\ (NBlocks[t] # 0 => Start[t] + NBlocks[t] <= Sectors)
  BY PartitionOf
<1> DEFINE q == p \div Bs
           o == p % Bs
           S == Start[t]
           N == NBlocks[t]
           a == ByteAddr(t, p)
<1>p. p \in Nat /\ p < N * Bs
  BY <1>0, <1>1 DEF Size
<1>2. q \in Nat /\ o \in 0 .. Bs - 1 /\ p = q * Bs + o
  BY <1>p, <1>0, DivMod, Zenon
<1>3. S \in Nat /\ N \in Nat /\ (N # 0 => S + N <= Sectors)
  BY <1>1
<1>a. a = S * Bs + p
  BY DEF ByteAddr
<1> HIDE DEF q, o, S, N, a
<1>4. q < N
  <2>1. SUFFICES ASSUME N <= q PROVE FALSE
    BY <1>2, <1>3
  <2>2. N * Bs <= q * Bs
    BY <2>1, <1>0, <1>2, <1>3
  <2>3. N * Bs \in Nat /\ q * Bs \in Nat
    BY <1>0, <1>2, <1>3
  <2> QED
    BY <2>2, <2>3, <1>2, <1>p
<1>5. a = (S + q) * Bs + o /\ a \in Nat
  BY <1>0, <1>2, <1>3, <1>a
<1>6. S + q = a \div Bs /\ o = a % Bs
  <2>1. S + q \in Int
    BY <1>2, <1>3
  <2> QED
    BY <2>1, <1>0, <1>2, <1>5, DivUnique, Zenon
<1>7. a \in Addr
  <2>1. S + q + 1 <= Sectors
    BY <1>0, <1>2, <1>3, <1>4
  <2>2. (S + q + 1) * Bs <= Sectors * Bs
    BY <2>1, <1>0, <1>2, <1>3
  <2>3. (S + q + 1) * Bs = (S + q) * Bs + Bs /\ (S + q) * Bs \in Nat /\ Sectors * Bs \in Nat
    BY <1>0, <1>2, <1>3
  <2> QED
    BY <2>2, <2>3, <1>0, <1>2, <1>5 DEF Addr
<1>8. a \div Bs \in Own(t)
  <2>1. S + q \in S .. S + N - 1
    BY <1>2, <1>3, <1>4
  <2> QED
    BY <2>1, <1>6 DEF Own, S, N
<1> QED
  BY <1>2, <1>3, <1>4, <1>5, <1>6, <1>7, <1>8 DEF Bytes, q, o, S, N, a

\* A byte of a partition is at a position of it.
LEMMA PositionOf ==
  ASSUME NEW t \in Task, NEW a \in Bytes(t)
  PROVE  /\ a - Start[t] * Bs \in 0 .. Size(t) - 1
         /\ a = ByteAddr(t, a - Start[t] * Bs)
<1>0. Bs \in Nat \ {0} /\ Sectors \in Nat
  BY Sizes
<1>1. Start[t] \in Nat /\ NBlocks[t] \in Nat
  BY PartitionOf
<1> DEFINE q == a \div Bs
           o == a % Bs
           S == Start[t]
           N == NBlocks[t]
<1>a. a \in Nat
  BY <1>0 DEF Bytes, Addr
<1>2. q \in Nat /\ o \in 0 .. Bs - 1 /\ a = q * Bs + o
  BY <1>a, <1>0, DivMod, Zenon
<1>3. S <= q /\ q + 1 <= S + N /\ S \in Nat /\ N \in Nat
  BY <1>1, <1>2 DEF Bytes, Own
<1>s. Size(t) = N * Bs
  BY DEF Size
<1> HIDE DEF q, o, S, N
<1>4. S * Bs <= q * Bs /\ (q + 1) * Bs <= (S + N) * Bs
  BY <1>0, <1>2, <1>3
<1>5. S * Bs \in Nat /\ q * Bs \in Nat /\ (q + 1) * Bs = q * Bs + Bs /\ (S + N) * Bs = S * Bs + N * Bs /\ N * Bs \in Nat
  BY <1>0, <1>2, <1>3
<1>6. a - S * Bs \in 0 .. N * Bs - 1 /\ a = S * Bs + (a - S * Bs)
  BY <1>0, <1>2, <1>4, <1>5
<1> QED
  BY <1>6, <1>s DEF ByteAddr, S

-----------------------------------------------------------------------------
(* The inductive invariant.                                                *)

\* The variables of the tasks are numbers, and everything is there for every task and
\* every byte.
DiskTypeOK ==
  /\ DOMAIN disk = Addr /\ DOMAIN may = Addr
  /\ pos \in [Task -> Nat] /\ len \in [Task -> Nat] /\ done \in [Task -> Nat]
  /\ DOMAIN req = Task /\ DOMAIN tmp = Task /\ DOMAIN buf = Task

\* The request of t lies in its partition, and is done so far.
InRequest(t) ==
  /\ req[t].pos \in Nat /\ req[t].len \in Nat /\ req[t].pos + req[t].len <= Size(t)
  /\ pos[t] = req[t].pos + done[t] /\ done[t] + len[t] = req[t].len

\* What a read has put into the buffer may be on the disk there.
BufferRight(t) ==
  req[t].kind = "read" =>
    \A i \in 0 .. done[t] - 1 : buf[t][i] \in may[ByteAddr(t, req[t].pos + i)]

\* What a write has done is on the disk, and what it is still to do may be.
DoneRight(t) ==
  req[t].kind = "write" =>
    /\ \A i \in 0 .. done[t] - 1 : disk[ByteAddr(t, req[t].pos + i)] = Data(t, i)
    /\ \A i \in 0 .. req[t].len - 1 : Data(t, i) \in may[ByteAddr(t, req[t].pos + i)]

\* The sector read to be changed is still what is on the disk.
SectorFresh(t) ==
  tmp[t] # Nobody =>
    /\ Writing(t) /\ Phase(t) # "middle"
    /\ \A o \in 0 .. Bs - 1 : tmp[t][o] = disk[Disk0(t) * Bs + o]

RequestRight(t) ==
  /\ req[t] # Nobody => InRequest(t) /\ BufferRight(t) /\ DoneRight(t)
  /\ SectorFresh(t)

DiskInv ==
  /\ DiskTypeOK
  /\ \A a \in Addr : disk[a] \in may[a]
  /\ \A t \in Task : RequestRight(t)

-----------------------------------------------------------------------------
(* A transfer.                                                             *)

\* The next transfer of t is within its partition, takes at least one byte of the
\* request and whole sectors of the drive.
Fitting(t) ==
  /\ Lba(t) \in Nat /\ pos[t] % Bs \in 0 .. Bs - 1 /\ pos[t] = Lba(t) * Bs + (pos[t] % Bs)
  /\ Blocks(t) \in 1 .. Split /\ Lba(t) + Blocks(t) <= NBlocks[t]
  /\ Chunk(t) \in 1 .. len[t] /\ (pos[t] % Bs) + Chunk(t) <= Blocks(t) * Bs
  /\ Phase(t) = "middle" => pos[t] % Bs = 0 /\ Chunk(t) = Blocks(t) * Bs
  /\ Phase(t) # "middle" => Blocks(t) = 1

LEMMA TransferFits ==
  ASSUME DiskTypeOK, NEW t \in Task, InRequest(t), Phase(t) # "out"
  PROVE  Fitting(t)
<1>0. Bs \in Nat \ {0} /\ Split \in Nat \ {0}
  BY Sizes
<1> DEFINE l == Lba(t)
           r == pos[t] % Bs
           n == len[t]
           B == Blocks(t)
           C == Chunk(t)
           N == NBlocks[t]
<1>1. pos[t] \in Nat /\ n \in Nat
  BY DEF DiskTypeOK
<1>2. l \in Nat /\ r \in 0 .. Bs - 1 /\ pos[t] = l * Bs + r
  BY <1>0, <1>1, DivMod, Zenon DEF Lba
<1>3. N \in Nat /\ pos[t] + n <= N * Bs
  BY <1>0, <1>1, PartitionOf DEF InRequest, Size, DiskTypeOK
<1>4. n # 0 /\ Phase(t) = (IF r # 0 THEN "head" ELSE IF n >= Bs THEN "middle" ELSE "tail")
  BY DEF Phase
<1> HIDE DEF l, r, n, N
<1>5. B \in 1 .. Split /\ C \in 1 .. n /\ r + C <= B * Bs
      /\ (Phase(t) = "middle" => r = 0 /\ C = B * Bs) /\ (Phase(t) # "middle" => B = 1)
  <2>1. CASE Phase(t) = "middle"
    <3> DEFINE d == n \div Bs
    <3>1. r = 0 /\ n >= Bs
      BY <2>1, <1>4
    <3>2. d \in Nat /\ n % Bs \in 0 .. Bs - 1 /\ n = d * Bs + (n % Bs)
      BY <1>0, <1>1, DivMod, Zenon
    <3>3. B = Least(Split, d) /\ C = Least(Split, d) * Bs
      BY <2>1 DEF Blocks, Chunk, n
    <3> HIDE DEF d, B, C
    <3>4. d >= 1
      <4>1. SUFFICES ASSUME d = 0 PROVE FALSE
        BY <3>2
      <4> QED
        BY <4>1, <3>1, <3>2, <1>0
    <3>5. B \in 1 .. Split /\ B <= d
      BY <3>2, <3>3, <3>4, <1>0 DEF Least
    <3>6. C = B * Bs
      BY <3>3
    <3>7. B * Bs <= d * Bs /\ B * Bs >= 1 * Bs /\ d * Bs \in Nat /\ B * Bs \in Nat
      BY <3>2, <3>5, <1>0
    <3> QED
      BY <2>1, <3>1, <3>2, <3>5, <3>6, <3>7, <1>0, <1>1
  <2>2. CASE Phase(t) = "head"
    <3>1. r # 0
      BY <2>2, <1>4
    <3>2. B = 1 /\ C = Least(Bs - r, n)
      BY <2>2 DEF Blocks, Chunk, r, n
    <3> HIDE DEF B, C
    <3> QED
      BY <2>2, <3>1, <3>2, <1>0, <1>1, <1>2, <1>4 DEF Least
  <2>3. CASE Phase(t) = "tail"
    <3>1. r = 0 /\ n < Bs
      BY <2>3, <1>0, <1>1, <1>4
    <3>2. B = 1 /\ C = n
      BY <2>3 DEF Blocks, Chunk, r, n
    <3> HIDE DEF B, C
    <3> QED
      BY <2>3, <3>1, <3>2, <1>0, <1>1, <1>2, <1>4
  <2> QED
    BY <1>4, <2>1, <2>2, <2>3
<1> HIDE DEF B, C
<1>6. l + B <= N
  <2>1. CASE Phase(t) = "middle"
    <3>1. l * Bs + B * Bs <= N * Bs
      BY <2>1, <1>0, <1>1, <1>2, <1>3, <1>5
    <3>2. SUFFICES ASSUME N + 1 <= l + B PROVE FALSE
      BY <1>2, <1>3, <1>5
    <3>3. (N + 1) * Bs <= (l + B) * Bs
      BY <3>2, <1>0, <1>2, <1>3, <1>5
    <3>4. (N + 1) * Bs = N * Bs + Bs /\ (l + B) * Bs = l * Bs + B * Bs /\ N * Bs \in Nat
          /\ l * Bs \in Nat /\ B * Bs \in Nat
      BY <1>0, <1>2, <1>3, <1>5
    <3> QED
      BY <3>1, <3>3, <3>4, <1>0
  <2>2. CASE Phase(t) # "middle"
    <3>1. l * Bs < N * Bs
      BY <1>0, <1>1, <1>2, <1>3, <1>4
    <3>2. SUFFICES ASSUME N <= l PROVE FALSE
      BY <2>2, <1>2, <1>3, <1>5
    <3>3. N * Bs <= l * Bs /\ N * Bs \in Nat /\ l * Bs \in Nat
      BY <3>2, <1>0, <1>2, <1>3
    <3> QED
      BY <3>1, <3>3
  <2> QED
    BY <2>1, <2>2
<1> QED
  BY <1>2, <1>5, <1>6, Zenon DEF Fitting, l, r, n, B, C, N

\* The drive accepts it.
LEMMA TransferAccepted ==
  ASSUME NEW t \in Task, Fitting(t)
  PROVE  /\ part_ok(t, Lba(t), Blocks(t)) /\ pio_check(Disk0(t), Blocks(t))
         /\ Possible(Disk0(t), Blocks(t), Blocks(t))
         /\ Disk0(t) = Start[t] + Lba(t) /\ Disk0(t) \in Nat /\ Blocks(t) \in Nat
<1>0. Split \in Nat /\ Sectors \in Nat /\ Lba48 \in BOOLEAN /\ (~Lba48 => Sectors <= Limit28)
  BY Sizes, DiskAssumption
<1>1. /\ Start[t] \in Nat /\ NBlocks[t] \in Nat
      /\ NBlocks[t] # 0 => Start[t] + NBlocks[t] <= Sectors
  BY PartitionOf
<1> DEFINE l == Lba(t)
           B == Blocks(t)
<1>2. l \in Nat /\ B \in 1 .. Split /\ l + B <= NBlocks[t]
  BY DEF Fitting
<1>3. Disk0(t) = Start[t] + l
  BY DEF Disk0
<1> HIDE DEF l, B
<1>4. part_ok(t, l, B)
  BY <1>0, <1>1, <1>2 DEF part_ok
<1>5. Limit28 \in Int
  <2>1. Radix \in Nat /\ Nibble \in Nat
    BY Sizes
  <2> QED
    BY <2>1, Weights DEF Limit28
<1>6. pio_check(Disk0(t), B) /\ Disk0(t) \in Nat /\ B \in Nat
  BY <1>0, <1>1, <1>2, <1>3, <1>5 DEF pio_check
<1>7. Possible(Disk0(t), B, B)
  BY <1>6, SectorExact DEF Possible
<1> QED
  BY <1>3, <1>4, <1>6, <1>7 DEF l, B

\* The disk after k of n sectors.
LEMMA Stored ==
  ASSUME NEW lba \in Nat, NEW n \in Nat, pio_check(lba, n), NEW k \in 0 .. n, NEW data, NEW a \in Addr
  PROVE  pio_write_sectors(lba, n, data, k)[a] =
           IF a \div Bs \in lba .. lba + k - 1 THEN data[a \div Bs - lba][a % Bs] ELSE disk[a]
<1> DEFINE q == a \div Bs
           Hit(j) == Sector(lba, n, j) = q
           c == CHOOSE j \in 0 .. k - 1 : Hit(j)
<1>0. a \in Nat /\ Bs \in Nat \ {0}
  BY Sizes DEF Addr
<1>1. q \in Nat
  BY <1>0, DivMod, Zenon
<1>2. \A j \in 0 .. k - 1 : Sector(lba, n, j) = lba + j
  <2>1. ASSUME NEW j \in 0 .. k - 1 PROVE j \in 0 .. n - 1
    OBVIOUS
  <2> QED
    BY <2>1, SectorExact
<1>3. pio_write_sectors(lba, n, data, k)[a] =
        IF \E j \in 0 .. k - 1 : Hit(j) THEN data[c][a % Bs] ELSE disk[a]
  BY DEF pio_write_sectors
<1> HIDE DEF q
<1>4. CASE q \in lba .. lba + k - 1
  <2>1. q - lba \in 0 .. k - 1 /\ lba + (q - lba) = q
    BY <1>1, <1>4
  <2>2. Hit(q - lba)
    BY <2>1, <1>2
  <2>3. c \in 0 .. k - 1 /\ Hit(c)
    BY <2>1, <2>2, Zenon
  <2> HIDE DEF c
  <2>4. c = q - lba
    BY <2>3, <1>1, <1>2
  <2> QED
    BY <1>3, <1>4, <2>1, <2>2, <2>4 DEF q
<1>5. CASE q \notin lba .. lba + k - 1
  <2>1. \A j \in 0 .. k - 1 : ~Hit(j)
    BY <1>1, <1>2, <1>5
  <2> QED
    BY <1>3, <1>5, <2>1 DEF q
<1> QED
  BY <1>4, <1>5

\* Position p of the partition is in the next transfer of t.
InChunk(t, p) == pos[t] <= p /\ p < pos[t] + Chunk(t)

\* Where a transfer of t puts its bytes, and the rest of the sectors it leaves as it was.
LEMMA StoreEffect ==
  ASSUME DiskTypeOK, NEW t \in Task, req[t] # Nobody, InRequest(t), SectorFresh(t), Fitting(t),
         Phase(t) = "middle" \/ tmp[t] # Nobody, NEW k \in 0 .. Blocks(t), NEW a \in Addr
  PROVE  /\ pio_write_sectors(Disk0(t), Blocks(t), Payload(t), k)[a] =
              IF a \div Bs \in Disk0(t) .. Disk0(t) + k - 1 /\ InChunk(t, a - Start[t] * Bs)
              THEN Data(t, a - ByteAddr(t, req[t].pos)) ELSE disk[a]
         /\ a \div Bs \in Disk0(t) .. Disk0(t) + k - 1 => a \in Bytes(t)
         /\ InChunk(t, a - Start[t] * Bs) => a \div Bs \in Disk0(t) .. Disk0(t) + Blocks(t) - 1
<1> DEFINE S == Start[t]
           l == Lba(t)
           B == Blocks(t)
           C == Chunk(t)
           D == Disk0(t)
           d == done[t]
           P == pos[t]
           r == P % Bs
           q == a \div Bs
           o == a % Bs
           p == a - S * Bs
           j == q - D
<1>0. Bs \in Nat \ {0} /\ a \in Nat
  BY Sizes DEF Addr
<1>1. q \in Nat /\ o \in 0 .. Bs - 1 /\ a = q * Bs + o
  BY <1>0, DivMod, Zenon
<1>2. /\ l \in Nat /\ r \in 0 .. Bs - 1 /\ P = l * Bs + r /\ B \in Nat /\ B >= 1 /\ l + B <= NBlocks[t]
      /\ C \in Nat /\ C >= 1 /\ r + C <= B * Bs
      /\ Phase(t) = "middle" => r = 0 /\ C = B * Bs
      /\ Phase(t) # "middle" => B = 1
  <2>1. len[t] \in Nat /\ Split \in Nat
    BY Sizes DEF DiskTypeOK
  <2> QED
    BY <2>1 DEF Fitting
<1>3. pio_check(D, B) /\ D = S + l /\ D \in Nat
  BY TransferAccepted
<1>4. S \in Nat /\ NBlocks[t] \in Nat /\ d \in Nat /\ P \in Nat
  BY PartitionOf DEF DiskTypeOK
<1>5. req[t].pos \in Nat /\ P = req[t].pos + d
  BY DEF InRequest
<1>6. ByteAddr(t, req[t].pos) = S * Bs + req[t].pos
  BY DEF ByteAddr
<1>7. pio_write_sectors(D, B, Payload(t), k)[a] = IF q \in D .. D + k - 1 THEN Payload(t)[j][o] ELSE disk[a]
  BY <1>2, <1>3, Stored
<1>i. InChunk(t, p) <=> P <= p /\ p < P + C
  BY DEF InChunk
<1>s. S * Bs \in Nat /\ l * Bs \in Nat /\ q * Bs \in Nat /\ B * Bs \in Nat /\ D * Bs = S * Bs + l * Bs
  <2>1. S \in Nat /\ l \in Nat /\ q \in Nat /\ B \in Nat /\ D = S + l
    BY <1>1, <1>2, <1>3, <1>4
  <2> HIDE DEF S, l, B, D, q
  <2> QED
    BY <2>1, <1>0, Multiples
<1>8. ASSUME q \in D .. D + k - 1
      PROVE  /\ j \in 0 .. B - 1 /\ q = D + j
             /\ Payload(t)[j][o] = IF Phase(t) = "middle" THEN Data(t, d + j * Bs + o - r)
                                   ELSE IF r <= o /\ o < r + C THEN Data(t, d + j * Bs + o - r) ELSE tmp[t][o]
  <2>1. j \in 0 .. B - 1 /\ q = D + j
    BY <1>8, <1>1, <1>2, <1>3
  <2>2. j \in 0 .. Blocks(t) - 1 /\ o \in 0 .. Bs - 1
    BY <2>1, <1>1
  <2> HIDE DEF j, o
  <2> QED
    BY <2>1, <2>2 DEF Payload, Merged
<1>9. ASSUME q \in D .. D + k - 1, InChunk(t, p)
      PROVE  Payload(t)[j][o] = Data(t, a - ByteAddr(t, req[t].pos))
  <2>1. j \in 0 .. B - 1 /\ q = D + j
    BY <1>9, <1>8
  <2>2. q * Bs = D * Bs + j * Bs /\ j * Bs \in Nat
    <3>1. D \in Nat /\ j \in Nat
      BY <2>1, <1>2, <1>3
    <3> HIDE DEF D, q, j, B
    <3> QED
      BY <2>1, <3>1, <1>0, Multiples
  <2>3. P <= p /\ p < P + C
    BY <1>9, <1>i
  <2> HIDE DEF S, l, B, C, D, d, P, r, q, o, j
  <2>4. a = S * Bs + l * Bs + j * Bs + o
    BY <2>2, <1>0, <1>1, <1>s
  <2>5. d + j * Bs + o - r = a - (S * Bs + req[t].pos)
    BY <2>2, <2>4, <1>1, <1>2, <1>4, <1>5, <1>s
  <2>6. CASE Phase(t) = "middle"
    BY <2>5, <2>6, <1>6, <1>8, <1>9
  <2>7. CASE Phase(t) # "middle"
    <3>1. j = 0
      BY <2>1, <2>7, <1>2
    <3>2. j * Bs = 0
      BY <3>1, <1>0
    <3>3. r <= o /\ o < r + C
      BY <2>3, <2>4, <3>2, <1>0, <1>1, <1>2, <1>4, <1>s
    <3> QED
      BY <2>5, <2>7, <3>3, <1>6, <1>8, <1>9
  <2> QED
    BY <2>6, <2>7
<1>10. ASSUME q \in D .. D + k - 1, ~InChunk(t, p)
       PROVE  Payload(t)[j][o] = disk[a]
  <2>1. j \in 0 .. B - 1 /\ q = D + j
    BY <1>10, <1>8
  <2>2. q * Bs = D * Bs + j * Bs /\ j * Bs \in Nat
    <3>1. D \in Nat /\ j \in Nat
      BY <2>1, <1>2, <1>3
    <3> HIDE DEF D, q, j, B
    <3> QED
      BY <2>1, <3>1, <1>0, Multiples
  <2>3. ~(P <= p /\ p < P + C)
    BY <1>10, <1>i
  <2>n. tmp[t] # Nobody => \A e \in 0 .. Bs - 1 : tmp[t][e] = disk[D * Bs + e]
    BY DEF SectorFresh
  <2> HIDE DEF S, l, B, C, D, d, P, r, q, o, j
  <2>4. a = S * Bs + l * Bs + j * Bs + o
    BY <2>2, <1>0, <1>1, <1>s
  <2>5. Phase(t) # "middle"
    <3>1. SUFFICES ASSUME Phase(t) = "middle" PROVE FALSE
      OBVIOUS
    <3>2. r = 0 /\ C = B * Bs
      BY <3>1, <1>2
    <3>3. j + 1 <= B /\ j \in Nat
      BY <2>1, <1>2
    <3>4. (j + 1) * Bs <= B * Bs /\ (j + 1) * Bs = j * Bs + Bs
      BY <3>3, <1>0, <1>2
    <3> QED
      BY <2>2, <2>3, <2>4, <3>2, <3>4, <1>0, <1>1, <1>2, <1>s
  <2>6. j = 0 /\ j * Bs = 0
    BY <2>1, <2>5, <1>0, <1>2
  <2>7. a = D * Bs + o
    BY <2>4, <2>6, <1>0, <1>1, <1>s
  <2>8. ~(r <= o /\ o < r + C)
    BY <2>3, <2>4, <2>6, <1>0, <1>1, <1>2, <1>4, <1>s
  <2>9. tmp[t][o] = disk[a]
    BY <2>5, <2>7, <2>n, <1>1
  <2> QED
    BY <2>5, <2>8, <2>9, <1>8, <1>10
<1>11. ASSUME q \in D .. D + k - 1 PROVE a \in Bytes(t)
  <2>1. q \in S .. S + NBlocks[t] - 1
    BY <1>8, <1>11, <1>2, <1>3, <1>4
  <2> QED
    BY <2>1 DEF Bytes, Own
<1>12. ASSUME InChunk(t, p) PROVE q \in D .. D + B - 1
  <2>1. P <= p /\ p < P + C
    BY <1>12, <1>i
  <2> HIDE DEF S, l, B, C, D, d, P, r, q, o, j
  <2>2. l * Bs + S * Bs <= q * Bs + o /\ q * Bs + o < S * Bs + l * Bs + B * Bs
    BY <2>1, <1>0, <1>1, <1>2, <1>4, <1>s
  <2>3. D <= q
    <3>1. SUFFICES ASSUME q + 1 <= D PROVE FALSE
      BY <1>1, <1>3
    <3>2. (q + 1) * Bs <= D * Bs /\ (q + 1) * Bs = q * Bs + Bs
      BY <3>1, <1>0, <1>1, <1>3
    <3> QED
      BY <2>2, <3>2, <1>0, <1>1, <1>s
  <2>4. q < D + B
    <3>1. SUFFICES ASSUME D + B <= q PROVE FALSE
      BY <1>1, <1>2, <1>3
    <3>2. (D + B) * Bs <= q * Bs /\ (D + B) * Bs = D * Bs + B * Bs
      BY <3>1, <1>0, <1>1, <1>2, <1>3
    <3> QED
      BY <2>2, <3>2, <1>0, <1>1, <1>s
  <2> QED
    BY <2>3, <2>4, <1>1, <1>2, <1>3
<1> QED
  BY <1>7, <1>9, <1>10, <1>11, <1>12

\* The sector a transfer starts with is the task's own.
LEMMA OwnSector ==
  ASSUME NEW t \in Task, Fitting(t), NEW o \in 0 .. Bs - 1
  PROVE  Disk0(t) * Bs + o \in Bytes(t) /\ Disk0(t) * Bs + o \in Addr
<1> DEFINE l == Lba(t)
           S == Start[t]
           N == NBlocks[t]
<1>0. Bs \in Nat \ {0} /\ Split \in Nat
  BY Sizes
<1>1. S \in Nat /\ N \in Nat /\ Size(t) = N * Bs
  BY PartitionOf DEF Size
<1>2. l \in Nat /\ l + 1 <= N
  BY <1>0, <1>1 DEF Fitting
<1>3. Disk0(t) = S + l
  BY DEF Disk0
<1>a. ByteAddr(t, l * Bs + o) = S * Bs + (l * Bs + o)
  BY DEF ByteAddr
<1> HIDE DEF l, S, N
<1>4. (l + 1) * Bs <= N * Bs /\ (l + 1) * Bs = l * Bs + Bs /\ l * Bs \in Nat /\ N * Bs \in Nat
  BY <1>0, <1>1, <1>2
<1>5. l * Bs + o \in 0 .. Size(t) - 1
  BY <1>0, <1>1, <1>4
<1>6. S * Bs + (l * Bs + o) = (S + l) * Bs + o
  BY <1>0, <1>1, <1>2
<1> QED
  BY <1>3, <1>5, <1>6, <1>a, ByteAt

\* A byte of a request is the task's own.
LEMMA OwnByte ==
  ASSUME NEW t \in Task, InRequest(t), NEW i \in 0 .. req[t].len - 1
  PROVE  ByteAddr(t, req[t].pos + i) \in Bytes(t) /\ ByteAddr(t, req[t].pos + i) \in Addr
<1>1. req[t].pos + i \in 0 .. Size(t) - 1
  BY PartitionOf DEF InRequest
<1> QED
  BY <1>1, ByteAt

\* Nothing of u's has changed.
Kept(u) ==
  /\ req'[u] = req[u] /\ pos'[u] = pos[u] /\ len'[u] = len[u]
  /\ done'[u] = done[u] /\ tmp'[u] = tmp[u] /\ buf'[u] = buf[u]

\* Nothing outside t's partition has changed.
KeptOutside(t) ==
  \A a \in Addr : a \notin Bytes(t) => disk'[a] = disk[a] /\ may'[a] = may[a]

\* A request of another task is none the worse for it.
LEMMA OthersKept ==
  ASSUME DiskInv, NEW t \in Task, NEW u \in Task, u # t, KeptOutside(t), Kept(u)
  PROVE  RequestRight(u)'
<1>0. RequestRight(u) /\ DiskTypeOK
  BY DEF DiskInv
<1>1. \A a \in Bytes(u) : a \in Addr => disk'[a] = disk[a] /\ may'[a] = may[a]
  BY BytesApart DEF KeptOutside
<1>2. ASSUME req[u] # Nobody PROVE (InRequest(u) /\ BufferRight(u) /\ DoneRight(u))'
  <2>1. InRequest(u) /\ BufferRight(u) /\ DoneRight(u)
    BY <1>0, <1>2 DEF RequestRight
  <2>2. InRequest(u)'
    BY <2>1 DEF InRequest, Kept, Size
  <2>3. \A i \in 0 .. req[u].len - 1 :
          LET a == ByteAddr(u, req[u].pos + i) IN disk'[a] = disk[a] /\ may'[a] = may[a]
    BY <1>1, <2>1, OwnByte
  <2>4. \A i \in 0 .. done[u] - 1 : i \in 0 .. req[u].len - 1
    BY <2>1, <1>0 DEF InRequest, DiskTypeOK
  <2>5. BufferRight(u)'
    BY <2>1, <2>3, <2>4 DEF BufferRight, Kept, ByteAddr
  <2>6. DoneRight(u)'
    BY <2>1, <2>3, <2>4 DEF DoneRight, Kept, ByteAddr, Data
  <2> QED
    BY <2>2, <2>5, <2>6
<1>3. ASSUME tmp[u] # Nobody PROVE SectorFresh(u)'
  <2>1. /\ Writing(u) /\ Phase(u) # "middle"
        /\ \A o \in 0 .. Bs - 1 : tmp[u][o] = disk[Disk0(u) * Bs + o]
    BY <1>0, <1>3 DEF RequestRight, SectorFresh
  <2>2. Fitting(u)
    BY <2>1, <1>0, TransferFits DEF Writing, RequestRight
  <2>3. \A o \in 0 .. Bs - 1 : disk'[Disk0(u) * Bs + o] = disk[Disk0(u) * Bs + o]
    BY <2>2, <1>1, OwnSector
  <2>4. Phase(u)' = Phase(u) /\ Disk0(u)' = Disk0(u)
    BY DEF Kept, Phase, Disk0, Lba
  <2>5. Writing(u)'
    BY <2>1, <2>4 DEF Writing, Kept
  <2> QED
    BY <2>1, <2>3, <2>4, <2>5 DEF SectorFresh, Kept
<1>4. SectorFresh(u)'
  <2>1. CASE tmp[u] = Nobody
    BY <2>1 DEF SectorFresh, Kept
  <2> QED
    BY <2>1, <1>3
<1> QED
  BY <1>2, <1>4 DEF RequestRight, Kept

-----------------------------------------------------------------------------
(* The steps.                                                              *)

\* The bytes of a part of a request, as addresses.
LEMMA AddressesOf ==
  ASSUME NEW t \in Task, InRequest(t), NEW n \in 0 .. req[t].len, NEW a \in Addr
  PROVE  /\ ByteAddr(t, req[t].pos) <= a /\ a < ByteAddr(t, req[t].pos + n)
              => /\ a - ByteAddr(t, req[t].pos) \in 0 .. n - 1
                 /\ a = ByteAddr(t, req[t].pos + (a - ByteAddr(t, req[t].pos)))
                 /\ a \in Bytes(t)
         /\ \A i \in 0 .. n - 1 : /\ ByteAddr(t, req[t].pos) <= ByteAddr(t, req[t].pos + i)
                                  /\ ByteAddr(t, req[t].pos + i) < ByteAddr(t, req[t].pos + n)
                                  /\ ByteAddr(t, req[t].pos + i) - ByteAddr(t, req[t].pos) = i
<1> DEFINE P == req[t].pos
           x == a - ByteAddr(t, P)
           S == Start[t] * Bs
<1>1. Bs \in Nat /\ Start[t] \in Nat /\ P \in Nat /\ req[t].len \in Nat /\ a \in Nat
  BY Sizes, PartitionOf DEF InRequest, Addr
<1>2. S \in Nat
  BY <1>1
<1>3. ByteAddr(t, P) = S + P /\ \A i : ByteAddr(t, P + i) = S + (P + i)
  BY DEF ByteAddr
<1>4. ASSUME S + P <= a, a < S + (P + n)
      PROVE  x \in 0 .. n - 1 /\ a = ByteAddr(t, P + x) /\ a \in Bytes(t)
  <2>1. x \in 0 .. n - 1 /\ a = S + (P + x)
    <3> HIDE DEF S, P
    <3> QED
      BY <1>1, <1>2, <1>3, <1>4
  <2>2. x \in 0 .. req[t].len - 1
    BY <2>1, <1>1
  <2> HIDE DEF x, S, P
  <2>3. a = ByteAddr(t, P + x)
    BY <2>1, <1>3
  <2> QED
    BY <2>1, <2>2, <2>3, OwnByte DEF P
<1> HIDE DEF S, P
<1> QED
  BY <1>1, <1>2, <1>3, <1>4 DEF P

\* A request that ends: the bytes that are done are on the disk for good.
LEMMA Returned ==
  ASSUME DiskInv, NEW t \in Task, req[t] # Nobody, Return(t), UNCHANGED <<pos, done, buf>>,
         DOMAIN disk' = Addr, \A a \in Addr : disk'[a] \in may[a],
         \A a \in Addr : a \notin Bytes(t) => disk'[a] = disk[a],
         \A i \in 0 .. done[t] - 1 : LET a == ByteAddr(t, req[t].pos + i) IN disk'[a] = disk[a]
  PROVE  DiskInv'
<1>0. DiskTypeOK /\ InRequest(t) /\ DoneRight(t)
  BY DEF DiskInv, RequestRight
<1>1. /\ req' = [req EXCEPT ![t] = Nobody] /\ len' = [len EXCEPT ![t] = 0]
      /\ tmp' = [tmp EXCEPT ![t] = Nobody]
  BY DEF Return
<1> DEFINE b == ByteAddr(t, req[t].pos)
           e == ByteAddr(t, req[t].pos + done[t])
           In(a) == req[t].kind = "write" /\ b <= a /\ a < e
<1>2. may' = [a \in Addr |-> IF In(a) THEN {Data(t, a - b)} ELSE may[a]]
  BY Zenon DEF Return
<1>3. ASSUME NEW a \in Addr, In(a)
      PROVE  a \in Bytes(t) /\ disk'[a] = Data(t, a - b)
  <2>1. done[t] \in 0 .. req[t].len
    BY <1>0 DEF InRequest, DiskTypeOK
  <2>2. a - b \in 0 .. done[t] - 1 /\ a = ByteAddr(t, req[t].pos + (a - b)) /\ a \in Bytes(t)
    BY <2>1, <1>0, <1>3, AddressesOf
  <2> DEFINE x == a - b
  <2> HIDE DEF x
  <2>3. x \in 0 .. done[t] - 1 /\ a = ByteAddr(t, req[t].pos + x) /\ a \in Bytes(t)
    BY <2>2 DEF x
  <2>4. disk'[a] = disk[a] /\ disk[a] = Data(t, x)
    BY <2>3, <1>0, <1>3 DEF DoneRight
  <2> QED
    BY <2>3, <2>4 DEF x
<1> HIDE DEF In
<1>4. DiskTypeOK'
  BY <1>0, <1>1, <1>2 DEF DiskTypeOK
<1>5. ASSUME NEW a \in Addr PROVE disk'[a] \in may'[a]
  BY <1>2, <1>3
<1>6. KeptOutside(t)
  BY <1>2, <1>3 DEF KeptOutside
<1>7. ASSUME NEW u \in Task PROVE RequestRight(u)'
  <2>1. CASE u = t
    <3>1. req'[u] = Nobody /\ tmp'[u] = Nobody
      BY <2>1, <1>0, <1>1 DEF DiskTypeOK
    <3> QED
      BY <3>1 DEF RequestRight, SectorFresh
  <2>2. CASE u # t
    <3>1. Kept(u)
      BY <2>2, <1>0, <1>1 DEF Kept, DiskTypeOK
    <3> QED
      BY <3>1, <2>2, <1>6, OthersKept
  <2> QED
    BY <2>1, <2>2
<1> QED
  BY <1>4, <1>5, <1>7 DEF DiskInv

\* A request that begins.
LEMMA BlockStep ==
  ASSUME DiskInv, NEW t \in Task, NEW kind \in {"read", "write"}, NEW p \in 0 .. Size(t) - 1,
         NEW n \in 1 .. Size(t), devfs_block(t, kind, p, n)
  PROVE  DiskInv'
<1>0. DiskTypeOK /\ Size(t) \in Nat
  BY PartitionOf DEF DiskInv
<1> DEFINE m == Least(n, Size(t) - p)
           b == ByteAddr(t, p)
           In(a) == kind = "write" /\ a \in b .. ByteAddr(t, p + m - 1)
<1>1. m \in Nat \ {0} /\ p \in Nat /\ p + m <= Size(t)
  BY <1>0 DEF Least
<1>2. /\ req[t] = Nobody
      /\ req' = [req EXCEPT ![t] = [kind |-> kind, pos |-> p, len |-> m]]
      /\ pos' = [pos EXCEPT ![t] = p] /\ len' = [len EXCEPT ![t] = m]
      /\ done' = [done EXCEPT ![t] = 0] /\ buf' = [buf EXCEPT ![t] = <<>>]
      /\ UNCHANGED <<disk, tmp>>
  BY DEF devfs_block
<1>3. may' = [a \in Addr |-> IF In(a) THEN may[a] \cup {Data(t, a - b)} ELSE may[a]]
  BY Zenon DEF devfs_block
<1> HIDE DEF m
<1>4. /\ req'[t] = [kind |-> kind, pos |-> p, len |-> m] /\ pos'[t] = p /\ len'[t] = m /\ done'[t] = 0
      /\ tmp'[t] = Nobody
  <2>1. tmp[t] = Nobody
    BY <1>2 DEF DiskInv, RequestRight, SectorFresh, Writing
  <2> QED
    BY <2>1, <1>0, <1>2 DEF DiskTypeOK
<1>5. req'[t].kind = kind /\ req'[t].pos = p /\ req'[t].len = m
  BY <1>4
<1>6. InRequest(t)'
  BY <1>1, <1>4, <1>5 DEF InRequest, Size
<1>7. DiskTypeOK'
  BY <1>0, <1>1, <1>2, <1>3 DEF DiskTypeOK
<1>s. ASSUME NEW a \in Addr PROVE may[a] \subseteq may'[a]
  BY <1>3
<1>8. ASSUME NEW a \in Addr, In(a) PROVE a \in Bytes(t)
  <2> DEFINE S == Start[t] * Bs
  <2>1. S \in Nat /\ b = S + p /\ ByteAddr(t, p + m - 1) = S + (p + m - 1)
    BY PartitionOf, Sizes DEF ByteAddr
  <2> HIDE DEF S
  <2>2. a \in S + p .. S + (p + m - 1) /\ a \in Nat
    BY <2>1, <1>8 DEF Addr
  <2>3. a - S \in 0 .. Size(t) - 1 /\ a = S + (a - S)
    BY <2>1, <2>2, <1>0, <1>1
  <2> DEFINE x == a - S
  <2> HIDE DEF x
  <2>4. x \in 0 .. Size(t) - 1 /\ a = S + x
    BY <2>3 DEF x
  <2>5. a = ByteAddr(t, x)
    BY <2>4 DEF ByteAddr, S
  <2> QED
    BY <2>4, <2>5, ByteAt
<1>9. ASSUME NEW i \in 0 .. m - 1, kind = "write"
      PROVE  Data(t, i) \in may'[ByteAddr(t, p + i)]
  <2> DEFINE S == Start[t] * Bs
             a == ByteAddr(t, p + i)
  <2>1. S \in Nat /\ b = S + p /\ ByteAddr(t, p + m - 1) = S + (p + m - 1) /\ a = S + (p + i)
    BY PartitionOf, Sizes DEF ByteAddr
  <2>2. a \in Addr
    <3>1. p + i \in 0 .. Size(t) - 1
      BY <1>0, <1>1
    <3> QED
      BY <3>1, ByteAt
  <2> HIDE DEF S, a
  <2>3. In(a) /\ a - b = i
    BY <2>1, <1>1, <1>9
  <2> HIDE DEF In
  <2>4. Data(t, i) \in may'[a]
    BY <2>2, <2>3, <1>3
  <2> QED
    BY <2>4 DEF a
<1>10. KeptOutside(t)
  BY <1>2, <1>3, <1>8 DEF KeptOutside
<1>11. ASSUME NEW u \in Task PROVE RequestRight(u)'
  <2>1. CASE u = t
    <3>1. BufferRight(t)'
      BY <1>4 DEF BufferRight
    <3>2. DoneRight(t)'
      BY <1>4, <1>5, <1>9 DEF DoneRight, Data, ByteAddr
    <3>3. SectorFresh(t)'
      BY <1>4 DEF SectorFresh
    <3> QED
      BY <3>1, <3>2, <3>3, <2>1, <1>6 DEF RequestRight
  <2>2. CASE u # t
    <3>1. Kept(u)
      BY <2>2, <1>0, <1>2 DEF Kept, DiskTypeOK
    <3> QED
      BY <3>1, <2>2, <1>10, OthersKept
  <2> QED
    BY <2>1, <2>2
<1>12. \A a \in Addr : disk'[a] \in may'[a]
  BY <1>2, <1>s DEF DiskInv
<1> QED
  BY <1>7, <1>11, <1>12 DEF DiskInv

\* The whole of the invariant but for the request that moved on.
LEMMA MovedOn ==
  ASSUME DiskInv, NEW t \in Task, req[t] # Nobody, Fitting(t), Advanced(t, Chunk(t)), DOMAIN buf' = Task,
         \A u \in Task : u # t => buf'[u] = buf[u],
         DOMAIN disk' = Addr, \A a \in Addr : disk'[a] \in may[a],
         \A a \in Addr : a \notin Bytes(t) => disk'[a] = disk[a],
         BufferRight(t)', DoneRight(t)'
  PROVE  DiskInv'
<1>0. DiskTypeOK /\ InRequest(t)
  BY DEF DiskInv, RequestRight
<1>1. Chunk(t) \in Nat /\ Chunk(t) <= len[t] /\ len[t] \in Nat /\ pos[t] \in Nat /\ done[t] \in Nat
  BY <1>0 DEF Fitting, DiskTypeOK
<1> DEFINE C == Chunk(t)
<1>2. /\ pos' = [pos EXCEPT ![t] = @ + C] /\ done' = [done EXCEPT ![t] = @ + C]
      /\ len' = [len EXCEPT ![t] = @ - C] /\ tmp' = [tmp EXCEPT ![t] = Nobody]
      /\ UNCHANGED <<req, may>>
  BY DEF Advanced
<1> HIDE DEF C
<1>3. C \in Nat /\ C <= len[t]
  BY <1>1 DEF C
<1>4. pos'[t] = pos[t] + C /\ done'[t] = done[t] + C /\ len'[t] = len[t] - C /\ tmp'[t] = Nobody
  BY <1>0, <1>2 DEF DiskTypeOK
<1>5. len[t] - C \in Nat /\ pos[t] + C \in Nat /\ done[t] + C \in Nat
  BY <1>1, <1>3
<1>6. DiskTypeOK'
  BY <1>0, <1>2, <1>5 DEF DiskTypeOK
<1>7. InRequest(t)'
  BY <1>0, <1>1, <1>2, <1>3, <1>4 DEF InRequest, Size
<1>8. KeptOutside(t)
  BY <1>2 DEF KeptOutside
<1>9. ASSUME NEW u \in Task PROVE RequestRight(u)'
  <2>1. CASE u = t
    BY <2>1, <1>2, <1>4, <1>7 DEF RequestRight, SectorFresh
  <2>2. CASE u # t
    <3>1. Kept(u)
      BY <2>2, <1>0, <1>2 DEF Kept, DiskTypeOK
    <3> QED
      BY <3>1, <2>2, <1>8, OthersKept
  <2> QED
    BY <2>1, <2>2
<1> QED
  BY <1>2, <1>6, <1>9 DEF DiskInv

\* Give_up with the disk as it was.
LEMMA GaveUp ==
  ASSUME DiskInv, NEW t \in Task, req[t] # Nobody, Return(t), UNCHANGED <<pos, done, buf, disk>>
  PROVE  DiskInv'
<1>1. DOMAIN disk' = Addr /\ \A a \in Addr : disk'[a] \in may[a]
  BY DEF DiskInv, DiskTypeOK
<1> QED
  BY <1>1, Returned

\* A byte that is read is the one at its position.
LEMMA ByteRead ==
  ASSUME NEW t \in Task, Fitting(t), DiskTypeOK, InRequest(t), NEW b \in Nat,
         pos[t] <= b, b < pos[t] + Chunk(t)
  PROVE  pio_read_sector(Disk0(t), Blocks(t), b \div Bs - Lba(t))[b % Bs] = disk[ByteAddr(t, b)]
<1> DEFINE q == b \div Bs
           o == b % Bs
           l == Lba(t)
           B == Blocks(t)
           D == Disk0(t)
           a == ByteAddr(t, b)
           S == Start[t]
<1>0. Bs \in Nat \ {0}
  BY Sizes
<1>1. q \in Nat /\ o \in 0 .. Bs - 1 /\ b = q * Bs + o
  BY <1>0, DivMod, Zenon
<1>2. b \in 0 .. Size(t) - 1
  BY PartitionOf DEF InRequest, Fitting, DiskTypeOK
<1>3. a \in Addr /\ a \div Bs = S + q /\ a % Bs = o /\ a \in Nat
  BY <1>2, ByteAt
<1>4. D = S + l /\ D \in Nat /\ B \in Nat /\ pio_check(D, B)
  BY TransferAccepted
<1>5. q \in l .. l + B - 1
  <2>2. l \in Nat /\ S \in Nat /\ pos[t] % Bs \in 0 .. Bs - 1 /\ pos[t] = l * Bs + (pos[t] % Bs)
        /\ (pos[t] % Bs) + Chunk(t) <= B * Bs /\ Chunk(t) \in Nat
    BY PartitionOf DEF Fitting, DiskTypeOK
  <2> DEFINE r == pos[t] % Bs
             C == Chunk(t)
             P == pos[t]
  <2>3. r \in 0 .. Bs - 1 /\ P = l * Bs + r /\ r + C <= B * Bs /\ C \in Nat /\ P <= b /\ b < P + C
    BY <2>2
  <2> HIDE DEF r, C, P, l, B, q, o
  <2>4. l * Bs \in Nat /\ B * Bs \in Nat /\ q * Bs \in Nat
    BY <1>0, <1>1, <1>4, <2>2
  <2>5. l <= q
    <3>1. SUFFICES ASSUME q + 1 <= l PROVE FALSE
      BY <1>1, <2>2
    <3>2. (q + 1) * Bs <= l * Bs /\ (q + 1) * Bs = q * Bs + Bs
      BY <3>1, <1>0, <1>1, <2>2
    <3> QED
      BY <3>2, <2>3, <2>4, <1>0, <1>1
  <2>6. q < l + B
    <3>1. SUFFICES ASSUME l + B <= q PROVE FALSE
      BY <1>1, <2>2, <1>4
    <3>2. (l + B) * Bs <= q * Bs /\ (l + B) * Bs = l * Bs + B * Bs
      BY <3>1, <1>0, <1>1, <1>4, <2>2
    <3> QED
      BY <3>2, <2>3, <2>4, <1>0, <1>1
  <2> QED
    BY <2>5, <2>6, <1>1, <1>4, <2>2
<1>6. q - l \in 0 .. B - 1 /\ D + (q - l) = S + q
  <2>1. l \in Nat /\ S \in Nat
    BY PartitionOf DEF Fitting
  <2> HIDE DEF q, l, B, D, S
  <2> QED
    BY <2>1, <1>1, <1>4, <1>5
<1>7. Sector(D, B, q - l) = S + q
  <2>1. Sector(D, B, q - l) = D + (q - l)
    BY <1>4, <1>6, SectorExact
  <2> QED
    BY <2>1, <1>6
<1>8. (S + q) * Bs + o = a
  <2>1. S \in Nat /\ a = S * Bs + b
    BY PartitionOf DEF ByteAddr
  <2> HIDE DEF S, q, o, a
  <2> QED
    BY <2>1, <1>0, <1>1
<1>9. pio_read_sector(D, B, q - l)[o] =
        LET x == Sector(D, B, q - l) * Bs + o IN IF x \in Addr THEN disk[x] ELSE Nobody
  BY <1>1 DEF pio_read_sector
<1> HIDE DEF q, o, l, B, D, a, S
<1>10. pio_read_sector(D, B, q - l)[o] = disk[a]
  BY <1>3, <1>7, <1>8, <1>9
<1> QED
  BY <1>10 DEF q, o, l, B, D, a

\* A read.
LEMMA SectorReadStep ==
  ASSUME DiskInv, NEW t \in Task, NEW ok \in BOOLEAN, devfs_block_read(t, ok)
  PROVE  DiskInv'
<1>0. /\ req[t] # Nobody /\ req[t].kind = "read" /\ Phase(t) # "out" /\ UNCHANGED disk
      /\ DiskTypeOK /\ InRequest(t) /\ BufferRight(t)
  BY DEF devfs_block_read, DiskInv, RequestRight
<1>1. CASE ~ok
  BY <1>0, <1>1, GaveUp DEF devfs_block_read, Give_up
<1>2. CASE ok
  <2>1. Fitting(t)
    BY <1>0, TransferFits
  <2> DEFINE C == Chunk(t)
             d == done[t]
             Read(i) == pio_read_sector(Disk0(t), Blocks(t), (pos[t] + i - d) \div Bs - Lba(t))[(pos[t] + i - d) % Bs]
  <2>2. /\ Advanced(t, C)
        /\ buf' = [buf EXCEPT ![t] = [i \in 0 .. d + C - 1 |-> IF i < d THEN buf[t][i] ELSE Read(i)]]
    BY <1>2, Zenon DEF devfs_block_read
  <2>3. buf'[t] = [i \in 0 .. d + C - 1 |-> IF i < d THEN buf[t][i] ELSE Read(i)]
    BY <2>2, <1>0 DEF DiskTypeOK
  <2>4. /\ C \in Nat /\ C <= len[t] /\ d \in Nat /\ len[t] \in Nat /\ pos[t] \in Nat
        /\ done'[t] = d + C /\ req' = req /\ may' = may
    BY <2>1, <2>2, <1>0 DEF Fitting, Advanced, DiskTypeOK
  <2>5. ASSUME NEW i \in 0 .. d + C - 1
        PROVE  buf'[t][i] \in may[ByteAddr(t, req[t].pos + i)]
    <3>1. CASE i < d
      <4>1. i \in 0 .. done[t] - 1
        BY <3>1, <2>4
      <4> QED
        BY <2>3, <3>1, <4>1, <1>0 DEF BufferRight
    <3>2. CASE ~(i < d)
      <4> DEFINE b == pos[t] + i - d
      <4>1. b \in Nat /\ pos[t] <= b /\ b < pos[t] + C /\ b = req[t].pos + i
        BY <3>2, <2>4, <1>0 DEF InRequest
      <4>2. buf'[t][i] = Read(i)
        BY <2>3, <3>2
      <4> HIDE DEF b
      <4>3. Read(i) = disk[ByteAddr(t, b)]
        BY <4>1, <2>1, <1>0, ByteRead DEF b
      <4>4. i \in 0 .. req[t].len - 1
        BY <2>4, <1>0 DEF InRequest
      <4>5. ByteAddr(t, req[t].pos + i) \in Addr
        BY <4>4, <1>0, OwnByte
      <4>6. disk[ByteAddr(t, req[t].pos + i)] \in may[ByteAddr(t, req[t].pos + i)]
        BY <4>5 DEF DiskInv
      <4> HIDE DEF Read
      <4> QED
        BY <4>1, <4>2, <4>3, <4>6
    <3> QED
      BY <3>1, <3>2
  <2> HIDE DEF Read
  <2>6. BufferRight(t)'
    BY <2>4, <2>5 DEF BufferRight, ByteAddr
  <2>7. DoneRight(t)'
    BY <2>4, <1>0 DEF DoneRight
  <2>8. DOMAIN buf' = Task /\ \A u \in Task : u # t => buf'[u] = buf[u]
    BY <2>2, <1>0 DEF DiskTypeOK
  <2>9. DOMAIN disk' = Addr /\ \A a \in Addr : disk'[a] \in may[a]
    BY <1>0 DEF DiskInv, DiskTypeOK
  <2>10. \A a \in Addr : a \notin Bytes(t) => disk'[a] = disk[a]
    BY <1>0
  <2> QED
    BY <1>0, <2>1, <2>2, <2>6, <2>7, <2>8, <2>9, <2>10, MovedOn
<1> QED
  BY <1>1, <1>2

\* The sector is read that a write shares.
LEMMA FetchStep ==
  ASSUME DiskInv, NEW t \in Task, NEW ok \in BOOLEAN, devfs_write_fetch(t, ok)
  PROVE  DiskInv'
<1>0. /\ Writing(t) /\ Phase(t) # "middle" /\ UNCHANGED disk
      /\ DiskTypeOK /\ InRequest(t) /\ req[t] # Nobody /\ Phase(t) # "out"
  BY DEF devfs_write_fetch, DiskInv, RequestRight, Writing
<1>1. CASE ~ok
  BY <1>0, <1>1, GaveUp DEF devfs_write_fetch, Give_up
<1>2. CASE ok
  <2>1. /\ tmp' = [tmp EXCEPT ![t] = pio_read_sector(Disk0(t), 1, 0)]
        /\ UNCHANGED <<req, pos, len, done, buf, may>>
    BY <1>2 DEF devfs_write_fetch
  <2>2. Fitting(t)
    BY <1>0, TransferFits
  <2>3. pio_check(Disk0(t), 1) /\ Disk0(t) \in Nat
    BY <2>2, <1>0, TransferAccepted DEF Fitting
  <2>4. Sector(Disk0(t), 1, 0) = Disk0(t)
    BY <2>3, SectorExact
  <2>5. \A o \in 0 .. Bs - 1 : pio_read_sector(Disk0(t), 1, 0)[o] = disk[Disk0(t) * Bs + o]
    BY <2>2, <2>4, OwnSector DEF pio_read_sector
  <2>6. tmp'[t] = pio_read_sector(Disk0(t), 1, 0) /\ \A u \in Task : u # t => tmp'[u] = tmp[u]
    BY <2>1, <1>0 DEF DiskTypeOK
  <2>7. DiskTypeOK'
    BY <2>1, <1>0 DEF DiskTypeOK
  <2>8. ASSUME NEW u \in Task PROVE RequestRight(u)'
    <3>0. RequestRight(u)
      BY DEF DiskInv
    <3>1. req[u] # Nobody => (InRequest(u) /\ BufferRight(u) /\ DoneRight(u))'
      BY <3>0, <2>1, <1>0 DEF RequestRight, InRequest, BufferRight, DoneRight, Size, ByteAddr, Data
    <3>2. Writing(u)' = Writing(u) /\ Phase(u)' = Phase(u) /\ Disk0(u)' = Disk0(u)
      BY <2>1 DEF Writing, Phase, Disk0, Lba
    <3>3. SectorFresh(u)'
      <4>1. CASE u = t
        BY <4>1, <3>2, <2>5, <2>6, <1>0 DEF SectorFresh
      <4>2. CASE u # t
        BY <4>2, <3>0, <3>2, <2>6, <1>0 DEF SectorFresh, RequestRight
      <4> QED
        BY <4>1, <4>2
    <3> QED
      BY <3>1, <3>3, <2>1 DEF RequestRight
  <2> QED
    BY <2>1, <2>7, <2>8, <1>0 DEF DiskInv
<1> QED
  BY <1>1, <1>2

\* Sectors are written, all of them or some.
LEMMA StoreStep ==
  ASSUME DiskInv, NEW t \in Task, NEW k \in 0 .. Split, NEW ok \in BOOLEAN, devfs_write_store(t, k, ok)
  PROVE  DiskInv'
<1>0. /\ req[t] # Nobody /\ req[t].kind = "write" /\ Phase(t) # "out"
      /\ Phase(t) = "middle" \/ tmp[t] # Nobody
      /\ DiskTypeOK /\ InRequest(t) /\ DoneRight(t) /\ SectorFresh(t)
  BY DEF devfs_write_store, Writing, DiskInv, RequestRight
<1>1. Fitting(t)
  BY <1>0, TransferFits
<1>2. /\ k \in 0 .. Blocks(t) /\ (ok => k = Blocks(t))
      /\ disk' = pio_write_sectors(Disk0(t), Blocks(t), Payload(t), k)
  <2>1. Split \in Nat /\ Blocks(t) \in Nat
    BY <1>1, Sizes DEF Fitting
  <2> QED
    BY <2>1 DEF devfs_write_store
<1> DEFINE D == Disk0(t)
           P == req[t].pos
           Hit(a) == a \div Bs \in D .. D + k - 1 /\ InChunk(t, a - Start[t] * Bs)
<1>3. ASSUME NEW a \in Addr
      PROVE  /\ disk'[a] = IF Hit(a) THEN Data(t, a - ByteAddr(t, P)) ELSE disk[a]
             /\ a \notin Bytes(t) => disk'[a] = disk[a]
             /\ ok /\ InChunk(t, a - Start[t] * Bs) => Hit(a)
  <2>1. /\ pio_write_sectors(D, Blocks(t), Payload(t), k)[a] = IF Hit(a) THEN Data(t, a - ByteAddr(t, P)) ELSE disk[a]
        /\ a \div Bs \in D .. D + k - 1 => a \in Bytes(t)
        /\ InChunk(t, a - Start[t] * Bs) => a \div Bs \in D .. D + Blocks(t) - 1
    BY <1>0, <1>1, <1>2, StoreEffect
  <2> QED
    BY <2>1, <1>2
<1>4. DOMAIN disk' = Addr
  BY <1>2 DEF pio_write_sectors
<1>5. /\ Chunk(t) \in Nat /\ Chunk(t) <= len[t] /\ len[t] \in Nat /\ done[t] \in Nat /\ pos[t] \in Nat
      /\ P \in Nat /\ req[t].len \in Nat /\ pos[t] = P + done[t] /\ done[t] + len[t] = req[t].len
  BY <1>0, <1>1 DEF Fitting, InRequest, DiskTypeOK
<1>6. ASSUME NEW i \in 0 .. req[t].len - 1
      PROVE  LET a == ByteAddr(t, P + i)
             IN  /\ a \in Addr /\ a - ByteAddr(t, P) = i /\ a - Start[t] * Bs = P + i
                 /\ InChunk(t, a - Start[t] * Bs) <=> done[t] <= i /\ i < done[t] + Chunk(t)
  <2> DEFINE S == Start[t] * Bs
             a == ByteAddr(t, P + i)
  <2>1. S \in Nat /\ a = S + (P + i) /\ ByteAddr(t, P) = S + P
    BY Sizes, PartitionOf DEF ByteAddr
  <2>2. a \in Addr
    BY <1>0, OwnByte
  <2> HIDE DEF S, a, P
  <2>3. a - ByteAddr(t, P) = i /\ a - S = P + i
    BY <2>1, <1>5
  <2>4. InChunk(t, a - S) <=> done[t] <= i /\ i < done[t] + Chunk(t)
    BY <2>3, <1>5 DEF InChunk
  <2> QED
    BY <2>2, <2>3, <2>4 DEF a, S
<1>7. ASSUME NEW a \in Addr PROVE disk'[a] \in may[a]
  <2>1. CASE ~Hit(a)
    BY <2>1, <1>3 DEF DiskInv
  <2>2. CASE Hit(a)
    <3> DEFINE S == Start[t] * Bs
               i == a - (S + P)
    <3>1. S \in Nat /\ ByteAddr(t, P) = S + P /\ ByteAddr(t, P + i) = S + (P + i)
      BY Sizes, PartitionOf DEF ByteAddr
    <3>2. pos[t] <= a - S /\ a - S < pos[t] + Chunk(t) /\ a \in Nat
      BY <2>2 DEF InChunk, Addr
    <3> HIDE DEF S, P
    <3>3. i \in 0 .. req[t].len - 1 /\ S + (P + i) = a
      BY <3>1, <3>2, <1>5
    <3> HIDE DEF i
    <3>4. Data(t, i) \in may[ByteAddr(t, P + i)]
      BY <3>3, <1>0 DEF DoneRight, P
    <3>5. Data(t, i) \in may[a]
      BY <3>1, <3>3, <3>4
    <3>6. disk'[a] = Data(t, a - (S + P))
      BY <2>2, <3>1, <1>3
    <3> QED
      BY <3>5, <3>6 DEF i
  <2> QED
    BY <2>1, <2>2
<1> HIDE DEF Hit
<1>8. ASSUME NEW i \in 0 .. done[t] - 1
      PROVE  LET a == ByteAddr(t, P + i) IN disk'[a] = disk[a]
  <2>1. i \in 0 .. req[t].len - 1
    BY <1>5
  <2> DEFINE a == ByteAddr(t, P + i)
  <2>2. a \in Addr /\ ~InChunk(t, a - Start[t] * Bs)
    BY <2>1, <1>6, <1>5
  <2> HIDE DEF a
  <2>3. ~Hit(a)
    BY <2>2 DEF Hit
  <2>4. disk'[a] = disk[a]
    BY <2>2, <2>3, <1>3
  <2> QED
    BY <2>4 DEF a
<1>9. CASE ~ok
  <2>1. Return(t) /\ UNCHANGED <<pos, done, buf>>
    BY <1>9 DEF devfs_write_store, Give_up
  <2> QED
    BY <2>1, <1>0, <1>3, <1>4, <1>7, <1>8, Returned
<1>10. CASE ok
  <2>1. Advanced(t, Chunk(t)) /\ UNCHANGED buf
    BY <1>10 DEF devfs_write_store
  <2>2. done'[t] = done[t] + Chunk(t) /\ req' = req /\ may' = may
    BY <2>1, <1>0 DEF Advanced, DiskTypeOK
  <2>3. ASSUME NEW i \in 0 .. done[t] + Chunk(t) - 1
        PROVE  disk'[ByteAddr(t, P + i)] = Data(t, i)
    <3>1. CASE i \in 0 .. done[t] - 1
      BY <3>1, <1>8, <1>0 DEF DoneRight
    <3>2. CASE i \notin 0 .. done[t] - 1
      <4> DEFINE a == ByteAddr(t, P + i)
      <4>1. i \in 0 .. req[t].len - 1 /\ done[t] <= i /\ i < done[t] + Chunk(t)
        BY <3>2, <1>5
      <4>2. a \in Addr /\ a - ByteAddr(t, P) = i /\ InChunk(t, a - Start[t] * Bs)
        BY <4>1, <1>6
      <4> HIDE DEF a
      <4>3. disk'[a] = Data(t, i)
        BY <4>2, <1>3, <1>10
      <4> QED
        BY <4>3 DEF a
    <3> QED
      BY <3>1, <3>2
  <2>4. DoneRight(t)'
    <3>1. \A i \in 0 .. done'[t] - 1 : disk'[ByteAddr(t, req'[t].pos + i)] = Data(t, i)
      <4>1. ASSUME NEW i \in 0 .. done'[t] - 1 PROVE disk'[ByteAddr(t, P + i)] = Data(t, i)
        <5>1. i \in 0 .. done[t] + Chunk(t) - 1
          BY <2>2, <1>5
        <5> QED
          BY <5>1, <2>3
      <4>2. req'[t].pos = P
        BY <2>2
      <4> HIDE DEF P
      <4> QED
        BY <4>1, <4>2
    <3>2. \A i \in 0 .. req'[t].len - 1 : Data(t, i) \in may'[ByteAddr(t, req'[t].pos + i)]
      BY <2>2, <1>0 DEF DoneRight
    <3> QED
      BY <3>1, <3>2 DEF DoneRight, ByteAddr, Data
  <2>5. BufferRight(t)'
    BY <2>2, <1>0 DEF BufferRight
  <2>6. DOMAIN buf' = Task /\ \A u \in Task : u # t => buf'[u] = buf[u]
    BY <2>1, <1>0 DEF DiskTypeOK
  <2> QED
    BY <2>1, <2>4, <2>5, <2>6, <1>0, <1>1, <1>3, <1>4, <1>7, MovedOn
<1> QED
  BY <1>9, <1>10

DiskSpec == DiskInit /\ [][DiskNext]_diskVars

\* Whatever the sizes of the sectors, registers and transfers, the partitions and the
\* number of tasks: every write puts exactly its bytes on the disk and every read returns
\* the partition's, however the transfers of the tasks interleave and wherever one
\* fails (devfs.c, part.c, ata_pio.c).
THEOREM DiskCorrect == DiskSpec => []DiskExact
<1>1. DiskInit => DiskInv
  <2>1. SUFFICES ASSUME DiskInit PROVE DiskInv
    OBVIOUS
  <2>2. DiskTypeOK
    BY <2>1 DEF DiskInit, DiskTypeOK
  <2>3. \A a \in Addr : disk[a] \in may[a]
    BY <2>1 DEF DiskInit
  <2>4. \A t \in Task : RequestRight(t)
    BY <2>1 DEF DiskInit, RequestRight, SectorFresh
  <2> QED
    BY <2>2, <2>3, <2>4 DEF DiskInv
<1>2. DiskInv /\ [DiskNext]_diskVars => DiskInv'
  <2>1. SUFFICES ASSUME DiskInv, [DiskNext]_diskVars PROVE DiskInv'
    OBVIOUS
  <2>2. CASE UNCHANGED diskVars
    BY <2>1, <2>2 DEF diskVars, DiskInv, DiskTypeOK, RequestRight, InRequest, BufferRight, DoneRight,
                      SectorFresh, Writing, Phase, Disk0, Lba, Size, ByteAddr, Data
  <2>3. ASSUME NEW t \in Task, devfs_block_return(t) PROVE DiskInv'
    BY <2>1, <2>3, GaveUp DEF devfs_block_return
  <2> QED
    <3>1. ASSUME NEW t \in Task, NEW kind \in {"read", "write"}, NEW p \in 0 .. Size(t) - 1,
                 NEW n \in 1 .. Size(t), devfs_block(t, kind, p, n)
          PROVE  DiskInv'
      BY <2>1, <3>1, BlockStep
    <3>2. ASSUME NEW t \in Task, NEW ok \in BOOLEAN, devfs_block_read(t, ok) \/ devfs_write_fetch(t, ok)
          PROVE  DiskInv'
      BY <2>1, <3>2, SectorReadStep, FetchStep
    <3>3. ASSUME NEW t \in Task, NEW ok \in BOOLEAN, NEW k \in 0 .. Split, devfs_write_store(t, k, ok)
          PROVE  DiskInv'
      BY <2>1, <3>3, StoreStep
    <3> QED
      BY <2>1, <2>2, <2>3, <3>1, <3>2, <3>3, Zenon DEF DiskNext
<1>3. DiskInv => DiskExact
  <2>1. SUFFICES ASSUME DiskInv PROVE DiskExact
    OBVIOUS
  <2>2. ASSUME NEW t \in Task, req[t] # Nobody, Phase(t) # "out"
        PROVE  pio_check(Disk0(t), Blocks(t)) /\ Possible(Disk0(t), Blocks(t), Blocks(t))
    BY <2>1, <2>2, TransferFits, TransferAccepted DEF DiskInv, RequestRight
  <2>3. WritesExact
    BY <2>1, <2>2 DEF WritesExact, DiskInv
  <2>4. ReadsExact
    BY <2>1 DEF ReadsExact, DiskInv, RequestRight, InRequest, BufferRight
  <2> QED
    BY <2>3, <2>4 DEF DiskExact
<1> QED
  BY <1>1, <1>2, <1>3, PTL DEF DiskSpec

-----------------------------------------------------------------------------
(* The console: what a cell, a row, a screen and its history hold.         *)


Ch == Letter \cup {Space, "T", "M", "H"}
Row == [0 .. Cols - 1 -> Ch]
Pixel == [ch : Ch, inv : BOOLEAN]
Cells(r, V) == [0 .. r - 1 -> [0 .. Cols - 1 -> V]]
Grid(r) == Cells(r, Ch)
Pixels(r) == Cells(r, Pixel)

\* The consoles of r rows, and the histories of what was printed.
Screens(r) ==
  [rows : {r}, text : {NoText} \cup Grid(r), pix : Pixels(r), cx : 0 .. Cols - 1, cy : 0 .. r - 1,
   phase : BOOLEAN, enabled : BOOLEAN]
Sheets == [paper : [0 .. MaxLine -> Row], line : Nat, col : 0 .. Cols - 1]

\* The line in the first of r rows when l is the last one.
First(r, l) == IF l < r THEN 0 ELSE l - r + 1

\* The r rows of console k show the lines of the paper P from f on, inverted or not.
OnScreen(k, P, r, f) ==
  \A y \in 0 .. r - 1, x \in 0 .. Cols - 1 :
    /\ k.text # NoText => k.text[y][x] = P[f + y][x]
    /\ k.pix[y][x].ch = P[f + y][x] \/ (k.text = NoText /\ k.pix[y][x].ch = Space)

\* The lines below l that are not on the screen are blank.
BlankBelow(P, r, l) ==
  \A m \in 0 .. MaxLine, x \in 0 .. Cols - 1 : m > l /\ m >= r => P[m][x] = Space

\* Console k shows the end of the paper P at line l.
Shows(k, P, l) ==
  /\ k.cy = l - First(k.rows, l)
  /\ OnScreen(k, P, k.rows, First(k.rows, l))
  /\ BlankBelow(P, k.rows, l)

\* No cell is inverted.
Plain(k) == \A y \in 0 .. k.rows - 1, x \in 0 .. Cols - 1 : ~k.pix[y][x].inv

\* Only the cell of a visible cursor is.
CursorOnly(k) ==
  \A y \in 0 .. k.rows - 1, x \in 0 .. Cols - 1 :
    k.pix[y][x].inv <=> (k.phase /\ k.enabled /\ x = k.cx /\ y = k.cy)

\* What the cursor and the state of its blinking are.
SameCursor(k, j) == j.cx = k.cx /\ j.cy = k.cy /\ j.phase = k.phase /\ j.enabled = k.enabled

\* A console of r rows with other fields.
LEMMA ScreenFields ==
  ASSUME NEW r, NEW k \in Screens(r)
  PROVE  /\ k.rows = r /\ k.text \in {NoText} \cup Grid(r) /\ k.pix \in Pixels(r)
         /\ k.cx \in 0 .. Cols - 1 /\ k.cy \in 0 .. r - 1
         /\ k.phase \in BOOLEAN /\ k.enabled \in BOOLEAN
         /\ k = [rows |-> r, text |-> k.text, pix |-> k.pix, cx |-> k.cx, cy |-> k.cy,
                 phase |-> k.phase, enabled |-> k.enabled]
BY DEF Screens

\* The record of a console is one.
LEMMA ScreenOf ==
  ASSUME NEW r, NEW T \in {NoText} \cup Grid(r), NEW P \in Pixels(r), NEW x \in 0 .. Cols - 1,
         NEW y \in 0 .. r - 1, NEW p \in BOOLEAN, NEW e \in BOOLEAN
  PROVE  [rows |-> r, text |-> T, pix |-> P, cx |-> x, cy |-> y, phase |-> p, enabled |-> e] \in Screens(r)
BY DEF Screens

\* Moving the cursor.
LEMMA Moved ==
  ASSUME NEW r, NEW k \in Screens(r), NEW x \in 0 .. Cols - 1, NEW y \in 0 .. r - 1
  PROVE  /\ [k EXCEPT !.cx = x] \in Screens(r) /\ [k EXCEPT !.cx = x, !.cy = y] \in Screens(r)
         /\ [k EXCEPT !.cx = x] = [rows |-> r, text |-> k.text, pix |-> k.pix, cx |-> x, cy |-> k.cy,
                                   phase |-> k.phase, enabled |-> k.enabled]
         /\ [k EXCEPT !.cx = x, !.cy = y] = [rows |-> r, text |-> k.text, pix |-> k.pix, cx |-> x, cy |-> y,
                                             phase |-> k.phase, enabled |-> k.enabled]
<1>1. k = [rows |-> r, text |-> k.text, pix |-> k.pix, cx |-> k.cx, cy |-> k.cy,
           phase |-> k.phase, enabled |-> k.enabled]
  BY ScreenFields
<1>2. /\ [k EXCEPT !.cx = x] = [rows |-> r, text |-> k.text, pix |-> k.pix, cx |-> x, cy |-> k.cy,
                                phase |-> k.phase, enabled |-> k.enabled]
      /\ [k EXCEPT !.cx = x, !.cy = y] = [rows |-> r, text |-> k.text, pix |-> k.pix, cx |-> x, cy |-> y,
                                          phase |-> k.phase, enabled |-> k.enabled]
  <2> DEFINE j == [k EXCEPT !.cx = x]
  <2>1. j = [rows |-> r, text |-> k.text, pix |-> k.pix, cx |-> x, cy |-> k.cy,
             phase |-> k.phase, enabled |-> k.enabled]
    BY <1>1
  <2>2. [k EXCEPT !.cx = x, !.cy = y] = [j EXCEPT !.cy = y]
    OBVIOUS
  <2>3. [j EXCEPT !.cy = y] = [rows |-> r, text |-> k.text, pix |-> k.pix, cx |-> x, cy |-> y,
                               phase |-> k.phase, enabled |-> k.enabled]
    <3> HIDE DEF j
    <3> QED
      BY <2>1
  <2> QED
    BY <2>1, <2>2, <2>3, Zenon
<1> QED
  BY <1>2, ScreenFields, ScreenOf

\* One cell of a grid of anything.
Put(G, x, y, v) == [G EXCEPT ![y][x] = v]

LEMMA OneCell ==
  ASSUME NEW r, NEW V, NEW G \in Cells(r, V), NEW x \in 0 .. Cols - 1, NEW y \in 0 .. r - 1, NEW v \in V
  PROVE  /\ Put(G, x, y, v) \in Cells(r, V)
         /\ \A b \in 0 .. r - 1, a \in 0 .. Cols - 1 :
              Put(G, x, y, v)[b][a] = IF b = y /\ a = x THEN v ELSE G[b][a]
BY DEF Put, Cells

\* A character stored and drawn.
Drawn(k, x, y, ch) == con_draw_locked(SetText(k, x, y, ch), x, y, ch)

\* Console j is k with the character ch at row y and column x.
DrawnAs(k, j, r, x, y, ch) ==
  /\ j \in Screens(r) /\ SameCursor(k, j)
  /\ k.text = NoText => j.text = NoText
  /\ \A b \in 0 .. r - 1, a \in 0 .. Cols - 1 :
       /\ k.text # NoText => j.text[b][a] = IF b = y /\ a = x THEN ch ELSE k.text[b][a]
       /\ j.pix[b][a].ch = IF b = y /\ a = x THEN ch ELSE k.pix[b][a].ch
       /\ j.pix[b][a].inv <=> k.pix[b][a].inv /\ ~(b = y /\ a = x)

\* That is what drawing a character does.
LEMMA DrawEffect ==
  ASSUME NEW r, NEW k \in Screens(r), NEW x \in 0 .. Cols - 1, NEW y \in 0 .. r - 1, NEW ch \in Ch
  PROVE  DrawnAs(k, Drawn(k, x, y, ch), r, x, y, ch)
<1> DEFINE T == IF k.text = NoText THEN NoText ELSE Put(k.text, x, y, ch)
           c == Cell(ch, FALSE)
           P == Put(k.pix, x, y, c)
           R == [rows |-> r, text |-> T, pix |-> P, cx |-> k.cx, cy |-> k.cy,
                 phase |-> k.phase, enabled |-> k.enabled]
<1>1. c \in Pixel
  BY DEF Cell, Pixel
<1>2. /\ P \in Pixels(r)
      /\ \A b \in 0 .. r - 1, a \in 0 .. Cols - 1 : P[b][a] = IF b = y /\ a = x THEN c ELSE k.pix[b][a]
  <2>1. k.pix \in Cells(r, Pixel)
    BY ScreenFields DEF Pixels
  <2> HIDE DEF c
  <2> QED
    BY <1>1, <2>1, OneCell DEF Pixels
<1>3. /\ T \in {NoText} \cup Grid(r)
      /\ k.text # NoText => \A b \in 0 .. r - 1, a \in 0 .. Cols - 1 : T[b][a] = IF b = y /\ a = x THEN ch ELSE k.text[b][a]
  <2>1. CASE k.text = NoText
    BY <2>1
  <2>2. CASE k.text # NoText
    <3>1. k.text \in Grid(r)
      BY <2>2, ScreenFields
    <3> QED
      BY <2>2, <3>1, OneCell DEF Grid
  <2> QED
    BY <2>1, <2>2
<1>4. Drawn(k, x, y, ch) = R
  <2> DEFINE j == [rows |-> r, text |-> T, pix |-> k.pix, cx |-> k.cx, cy |-> k.cy,
                   phase |-> k.phase, enabled |-> k.enabled]
  <2>1. SetText(k, x, y, ch) = j
    <3>1. k.text # NoText => [k EXCEPT !.text[y][x] = ch] = [k EXCEPT !.text = Put(k.text, x, y, ch)]
      BY ScreenFields DEF Put
    <3>2. [k EXCEPT !.text = Put(k.text, x, y, ch)] =
            [rows |-> r, text |-> Put(k.text, x, y, ch), pix |-> k.pix, cx |-> k.cx, cy |-> k.cy,
             phase |-> k.phase, enabled |-> k.enabled]
      BY ScreenFields
    <3>3. CASE k.text = NoText
      BY <3>3, ScreenFields DEF SetText
    <3>4. CASE k.text # NoText
      BY <3>1, <3>2, <3>4 DEF SetText
    <3> QED
      BY <3>3, <3>4
  <2>2. j.pix = k.pix
    OBVIOUS
  <2>3. [j EXCEPT !.pix[y][x] = Cell(ch, FALSE)] = [j EXCEPT !.pix = Put(j.pix, x, y, Cell(ch, FALSE))]
    BY DEF Put
  <2>4. [j EXCEPT !.pix = P] = R
    <3> HIDE DEF T, P
    <3> QED
      OBVIOUS
  <2> HIDE DEF j
  <2> QED
    BY <2>1, <2>2, <2>3, <2>4 DEF Drawn, con_draw_locked
<1> HIDE DEF T, P
<1>5. R \in Screens(r)
  BY <1>2, <1>3, ScreenFields, ScreenOf
<1>6. /\ R.text = T /\ R.pix = P /\ SameCursor(k, R)
      /\ k.text = NoText => T = NoText
  BY DEF SameCursor, T
<1>7. c.ch = ch /\ c.inv = FALSE
  BY DEF Cell
<1> HIDE DEF R, c
<1>8. \A b \in 0 .. r - 1, a \in 0 .. Cols - 1 :
        /\ R.pix[b][a].ch = IF b = y /\ a = x THEN ch ELSE k.pix[b][a].ch
        /\ R.pix[b][a].inv <=> k.pix[b][a].inv /\ ~(b = y /\ a = x)
  <2> SUFFICES ASSUME NEW b \in 0 .. r - 1, NEW a \in 0 .. Cols - 1
               PROVE  /\ R.pix[b][a].ch = IF b = y /\ a = x THEN ch ELSE k.pix[b][a].ch
                      /\ R.pix[b][a].inv <=> k.pix[b][a].inv /\ ~(b = y /\ a = x)
    OBVIOUS
  <2>1. R.pix[b][a] = IF b = y /\ a = x THEN c ELSE k.pix[b][a]
    BY <1>2, <1>6
  <2>2. CASE b = y /\ a = x
    <3>1. R.pix[b][a] = c
      BY <2>1, <2>2
    <3> QED
      BY <2>2, <3>1, <1>7
  <2>3. CASE ~(b = y /\ a = x)
    <3>1. R.pix[b][a] = k.pix[b][a]
      BY <2>1, <2>3, Zenon
    <3> QED
      BY <2>3, <3>1
  <2> QED
    BY <2>2, <2>3
<1>9. DrawnAs(k, R, r, x, y, ch)
  BY <1>3, <1>5, <1>6, <1>8 DEF DrawnAs
<1> QED
  BY <1>4, <1>9

-----------------------------------------------------------------------------
(* What a step of the console leaves on the screen.                        *)

Papers == [0 .. MaxLine -> Row]

\* Q is the paper P with ch in the columns from .. to - 1 of line l.
Filled(P, Q, l, from, to, ch) ==
  \A m \in 0 .. MaxLine, a \in 0 .. Cols - 1 :
    Q[m][a] = IF m = l /\ from <= a /\ a < to THEN ch ELSE P[m][a]

\* Line l is in row l - First(r, l), no other is, and the screen is within the paper.
LEMMA Window ==
  ASSUME NEW r \in Nat \ {0}, r - 1 <= MaxLine, NEW l \in 0 .. MaxLine
  PROVE  /\ First(r, l) \in Nat /\ l - First(r, l) \in 0 .. r - 1
         /\ \A y \in 0 .. r - 1 : First(r, l) + y \in 0 .. MaxLine
BY ConsoleAssumption DEF First

\* A paper that reads the same is shown the same.
LEMMA ShowsSame ==
  ASSUME NEW r \in Nat \ {0}, r - 1 <= MaxLine, NEW k \in Screens(r), NEW l \in 0 .. MaxLine,
         NEW P, NEW Q, \A m \in 0 .. MaxLine, a \in 0 .. Cols - 1 : Q[m][a] = P[m][a], Shows(k, P, l)
  PROVE  Shows(k, Q, l)
<1>1. k.rows = r
  BY ScreenFields
<1>2. \A y \in 0 .. r - 1 : First(r, l) + y \in 0 .. MaxLine
  BY Window
<1>3. OnScreen(k, Q, r, First(r, l))
  BY <1>1, <1>2 DEF Shows, OnScreen
<1>4. BlankBelow(Q, r, l)
  BY <1>1 DEF Shows, BlankBelow
<1> QED
  BY <1>1, <1>3, <1>4 DEF Shows

\* A character at column x of the line of the cursor.
LEMMA DrawShows ==
  ASSUME NEW r \in Nat \ {0}, r - 1 <= MaxLine, NEW k \in Screens(r), NEW l \in 0 .. MaxLine,
         NEW x \in 0 .. Cols - 1, NEW ch \in Ch, NEW P, NEW Q, Shows(k, P, l), Filled(P, Q, l, x, x + 1, ch)
  PROVE  Shows(Drawn(k, x, k.cy, ch), Q, l)
<1> DEFINE j == Drawn(k, x, k.cy, ch)
           f == First(r, l)
<1>0. DrawnAs(k, j, r, x, k.cy, ch)
  BY ScreenFields, DrawEffect
<1> HIDE DEF j
<1>1. /\ k.cy \in 0 .. r - 1 /\ k.rows = r /\ j.rows = r /\ j.cy = k.cy /\ k.cy = l - f
      /\ f \in Nat /\ \A y \in 0 .. r - 1 : f + y \in 0 .. MaxLine
  <2>1. k.cy \in 0 .. r - 1 /\ k.rows = r
    BY ScreenFields
  <2>2. j.rows = r /\ j.cy = k.cy
    BY <1>0, ScreenFields DEF DrawnAs, SameCursor
  <2> QED
    BY <2>1, <2>2, Window DEF Shows
<1>2. ASSUME NEW y \in 0 .. r - 1, NEW a \in 0 .. Cols - 1
      PROVE  /\ k.text = NoText => j.text = NoText
             /\ k.text # NoText => j.text[y][a] = IF y = k.cy /\ a = x THEN ch ELSE k.text[y][a]
             /\ j.pix[y][a].ch = IF y = k.cy /\ a = x THEN ch ELSE k.pix[y][a].ch
             /\ Q[f + y][a] = IF y = k.cy /\ a = x THEN ch ELSE P[f + y][a]
  <2>1. Q[f + y][a] = IF y = k.cy /\ a = x THEN ch ELSE P[f + y][a]
    <3>1. f + y \in 0 .. MaxLine /\ (f + y = l <=> y = k.cy) /\ (x <= a /\ a < x + 1 <=> a = x)
      BY SMTT(20), <1>1, ConsoleAssumption
    <3> HIDE DEF f
    <3> QED
      BY <3>1 DEF Filled
  <2> QED
    BY <1>0, <2>1 DEF DrawnAs
<1>3. ASSUME NEW y \in 0 .. r - 1, NEW a \in 0 .. Cols - 1
      PROVE  /\ j.text # NoText => j.text[y][a] = Q[f + y][a]
             /\ j.pix[y][a].ch = Q[f + y][a] \/ (j.text = NoText /\ j.pix[y][a].ch = Space)
  <2>1. /\ k.text # NoText => k.text[y][a] = P[f + y][a]
        /\ k.pix[y][a].ch = P[f + y][a] \/ (k.text = NoText /\ k.pix[y][a].ch = Space)
    BY <1>1 DEF Shows, OnScreen
  <2> HIDE DEF f
  <2> QED
    BY <1>2, <2>1
<1>4. ASSUME NEW m \in 0 .. MaxLine, NEW a \in 0 .. Cols - 1, m > l, m >= r PROVE Q[m][a] = Space
  <2>1. BlankBelow(P, r, l)
    BY <1>1 DEF Shows
  <2> QED
    BY <1>1, <1>4, <2>1 DEF BlankBelow, Filled
<1>5. OnScreen(j, Q, r, f) /\ BlankBelow(Q, r, l)
  BY <1>3, <1>4 DEF OnScreen, BlankBelow
<1>6. Shows(j, Q, l)
  BY <1>1, <1>5 DEF Shows
<1> QED
  BY <1>6 DEF j

\* A drawn character is not inverted.
LEMMA DrawPlain ==
  ASSUME NEW r, NEW k \in Screens(r), NEW x \in 0 .. Cols - 1, NEW ch \in Ch, Plain(k)
  PROVE  Plain(Drawn(k, x, k.cy, ch))
<1>1. k.cy \in 0 .. r - 1 /\ k.rows = r
  BY ScreenFields
<1> DEFINE j == Drawn(k, x, k.cy, ch)
<1>2. DrawnAs(k, j, r, x, k.cy, ch)
  BY <1>1, DrawEffect
<1> HIDE DEF j
<1>3. j.rows = r
  BY <1>2, ScreenFields DEF DrawnAs
<1>4. Plain(j)
  BY <1>1, <1>2, <1>3 DEF Plain, DrawnAs
<1> QED
  BY <1>4 DEF j

\* The pixels and the grid of k a row higher, the last row empty.
ScrolledAs(k, j, r) ==
  /\ j \in Screens(r) /\ SameCursor(k, j)
  /\ k.text = NoText => j.text = NoText
  /\ \A y \in 0 .. r - 1, x \in 0 .. Cols - 1 :
       /\ k.text # NoText => j.text[y][x] = IF y = r - 1 THEN Space ELSE k.text[y + 1][x]
       /\ j.pix[y][x].ch = IF y = r - 1 THEN Space ELSE k.pix[y + 1][x].ch
       /\ j.pix[y][x].inv <=> y # r - 1 /\ k.pix[y + 1][x].inv

\* A grid after it moved up.
LEMMA ScrolledGrid ==
  ASSUME NEW r \in Nat \ {0}, NEW V, NEW G \in Cells(r, V), NEW last \in [0 .. Cols - 1 -> V]
  PROVE  /\ ScrolledUp(r, G, last) \in Cells(r, V)
         /\ \A y \in 0 .. r - 1 : ScrolledUp(r, G, last)[y] = IF y = r - 1 THEN last ELSE G[y + 1]
<1>1. \A y \in 0 .. r - 1 : y # r - 1 => y + 1 \in 0 .. r - 1
  OBVIOUS
<1> QED
  BY <1>1 DEF ScrolledUp, Cells

LEMMA ScrollEffect ==
  ASSUME NEW r \in Nat \ {0}, NEW k \in Screens(r)
  PROVE  ScrolledAs(k, con_scroll_locked(k), r)
<1> DEFINE e == [c \in 0 .. Cols - 1 |-> Cell(Space, FALSE)]
           B == Blank
           T == IF k.text = NoText THEN NoText ELSE ScrolledUp(r, k.text, B)
           P == ScrolledUp(r, k.pix, e)
           R == [rows |-> r, text |-> T, pix |-> P, cx |-> k.cx, cy |-> k.cy,
                 phase |-> k.phase, enabled |-> k.enabled]
<1>1. /\ e \in [0 .. Cols - 1 -> Pixel] /\ B \in [0 .. Cols - 1 -> Ch]
      /\ \A x \in 0 .. Cols - 1 : e[x].ch = Space /\ e[x].inv = FALSE /\ B[x] = Space
  BY DEF Cell, Pixel, Ch, Blank
<1> HIDE DEF e, B
<1>2. P \in Pixels(r) /\ \A y \in 0 .. r - 1 : P[y] = IF y = r - 1 THEN e ELSE k.pix[y + 1]
  BY <1>1, ScreenFields, ScrolledGrid DEF Pixels
<1>3. /\ T \in {NoText} \cup Grid(r)
      /\ k.text = NoText => T = NoText
      /\ k.text # NoText => \A y \in 0 .. r - 1 : T[y] = IF y = r - 1 THEN B ELSE k.text[y + 1]
  <2>1. k.text # NoText => k.text \in Cells(r, Ch)
    BY ScreenFields DEF Grid
  <2> QED
    BY <1>1, <2>1, ScrolledGrid DEF Grid
<1>4. con_scroll_locked(k) = R
  <2>1. k = [rows |-> r, text |-> k.text, pix |-> k.pix, cx |-> k.cx, cy |-> k.cy,
             phase |-> k.phase, enabled |-> k.enabled]
    BY ScreenFields
  <2>2. k.rows = r
    BY ScreenFields
  <2>3. con_scroll_locked(k) = [k EXCEPT !.text = T, !.pix = P]
    BY <2>2 DEF con_scroll_locked, e, B
  <2> HIDE DEF T, P
  <2> DEFINE j == [k EXCEPT !.text = T]
  <2>4. j = [rows |-> r, text |-> T, pix |-> k.pix, cx |-> k.cx, cy |-> k.cy,
             phase |-> k.phase, enabled |-> k.enabled]
    BY <2>1
  <2>5. [k EXCEPT !.text = T, !.pix = P] = [j EXCEPT !.pix = P]
    OBVIOUS
  <2> HIDE DEF j
  <2>6. [j EXCEPT !.pix = P] = R
    BY <2>4
  <2> QED
    BY <2>3, <2>5, <2>6, Zenon
<1> HIDE DEF T, P
<1>5. R \in Screens(r)
  BY <1>2, <1>3, ScreenFields, ScreenOf
<1>6. R.text = T /\ R.pix = P /\ SameCursor(k, R)
  BY DEF SameCursor
<1> HIDE DEF R
<1>7. \A y \in 0 .. r - 1, x \in 0 .. Cols - 1 :
        /\ k.text # NoText => R.text[y][x] = IF y = r - 1 THEN Space ELSE k.text[y + 1][x]
        /\ R.pix[y][x].ch = IF y = r - 1 THEN Space ELSE k.pix[y + 1][x].ch
        /\ R.pix[y][x].inv <=> y # r - 1 /\ k.pix[y + 1][x].inv
  <2> SUFFICES ASSUME NEW y \in 0 .. r - 1, NEW x \in 0 .. Cols - 1
               PROVE  /\ k.text # NoText => R.text[y][x] = IF y = r - 1 THEN Space ELSE k.text[y + 1][x]
                      /\ R.pix[y][x].ch = IF y = r - 1 THEN Space ELSE k.pix[y + 1][x].ch
                      /\ R.pix[y][x].inv <=> y # r - 1 /\ k.pix[y + 1][x].inv
    OBVIOUS
  <2>1. CASE y = r - 1
    BY <2>1, <1>1, <1>2, <1>3, <1>6
  <2>2. CASE y # r - 1
    BY <2>2, <1>2, <1>3, <1>6
  <2> QED
    BY <2>1, <2>2
<1>8. ScrolledAs(k, R, r)
  BY <1>3, <1>5, <1>6, <1>7 DEF ScrolledAs
<1> QED
  BY <1>4, <1>8

\* A console with the cursor elsewhere.
MovedAs(k, j, r, x, y) ==
  /\ j \in Screens(r) /\ j.rows = k.rows /\ j.text = k.text /\ j.pix = k.pix
  /\ j.phase = k.phase /\ j.enabled = k.enabled /\ j.cx = x /\ j.cy = y

LEMMA MoveEffect ==
  ASSUME NEW r, NEW k \in Screens(r), NEW x \in 0 .. Cols - 1, NEW y \in 0 .. r - 1
  PROVE  MovedAs(k, [k EXCEPT !.cx = x], r, x, k.cy) /\ MovedAs(k, [k EXCEPT !.cx = x, !.cy = y], r, x, y)
<1> DEFINE a == [k EXCEPT !.cx = x]
           b == [k EXCEPT !.cx = x, !.cy = y]
<1>1. k.rows = r
  BY ScreenFields
<1>2. a \in Screens(r) /\ b \in Screens(r)
  BY Moved
<1>3. /\ a = [rows |-> r, text |-> k.text, pix |-> k.pix, cx |-> x, cy |-> k.cy,
              phase |-> k.phase, enabled |-> k.enabled]
      /\ b = [rows |-> r, text |-> k.text, pix |-> k.pix, cx |-> x, cy |-> y,
              phase |-> k.phase, enabled |-> k.enabled]
  BY Moved, Zenon
<1> HIDE DEF a, b
<1>4. MovedAs(k, a, r, x, k.cy)
  BY <1>1, <1>2, <1>3 DEF MovedAs
<1>5. MovedAs(k, b, r, x, y)
  BY <1>1, <1>2, <1>3 DEF MovedAs
<1> QED
  BY <1>4, <1>5 DEF a, b

\* Console j is k after the end of a line: one row lower, or all moved up.
NextLineAs(k, j, r) ==
  \/ /\ k.cy + 1 < r /\ MovedAs(k, j, r, 0, k.cy + 1)
  \/ /\ k.cy = r - 1
     /\ \E i \in Screens(r) : ScrolledAs(k, i, r) /\ MovedAs(i, j, r, 0, r - 1)

LEMMA NewlineEffect ==
  ASSUME NEW r \in Nat \ {0}, NEW k \in Screens(r)
  PROVE  NextLineAs(k, con_newline_locked(k), r)
<1>1. k.rows = r /\ k.cy \in 0 .. r - 1 /\ 0 \in 0 .. Cols - 1
  BY ScreenFields, ConsoleAssumption
<1>2. CASE k.cy + 1 < r
  <2>1. k.cy + 1 \in 0 .. r - 1 /\ ~ScrollDue(k)
    BY <1>1, <1>2 DEF ScrollDue
  <2>2. con_newline_locked(k) = [k EXCEPT !.cx = 0, !.cy = k.cy + 1]
    BY <2>1, ScreenFields DEF con_newline_locked
  <2>3. MovedAs(k, [k EXCEPT !.cx = 0, !.cy = k.cy + 1], r, 0, k.cy + 1)
    BY <1>1, <2>1, MoveEffect
  <2> QED
    BY <1>2, <2>2, <2>3 DEF NextLineAs
<1>3. CASE k.cy = r - 1
  <2> DEFINE i == con_scroll_locked(k)
  <2>1. ScrollDue(k) /\ r - 1 \in 0 .. r - 1
    BY <1>1, <1>3 DEF ScrollDue
  <2>2. ScrolledAs(k, i, r)
    BY ScrollEffect
  <2>3. con_newline_locked(k) = [i EXCEPT !.cx = 0, !.cy = r - 1]
    BY <1>1, <2>1 DEF con_newline_locked
  <2> HIDE DEF i
  <2>4. i \in Screens(r)
    BY <2>2 DEF ScrolledAs
  <2>5. MovedAs(i, [i EXCEPT !.cx = 0, !.cy = r - 1], r, 0, r - 1)
    BY <1>1, <2>1, <2>4, MoveEffect
  <2> QED
    BY <1>3, <2>2, <2>3, <2>4, <2>5 DEF NextLineAs
<1> QED
  BY <1>1, <1>2, <1>3

\* The end of a line keeps the type of the console and does not invert a cell.
LEMMA NextLineType ==
  ASSUME NEW r \in Nat \ {0}, NEW k \in Screens(r), NEW j, NextLineAs(k, j, r)
  PROVE  /\ j \in Screens(r) /\ j.cx = 0 /\ j.phase = k.phase /\ j.enabled = k.enabled
         /\ Plain(k) => Plain(j)
<1>1. k.rows = r
  BY ScreenFields
<1>2. CASE MovedAs(k, j, r, 0, k.cy + 1)
  BY <1>2 DEF MovedAs, Plain
<1>3. ASSUME NEW i \in Screens(r), ScrolledAs(k, i, r), MovedAs(i, j, r, 0, r - 1)
      PROVE  /\ j \in Screens(r) /\ j.cx = 0 /\ j.phase = k.phase /\ j.enabled = k.enabled
             /\ Plain(k) => Plain(j)
  <2>1. j \in Screens(r) /\ j.cx = 0 /\ j.pix = i.pix /\ j.phase = k.phase /\ j.enabled = k.enabled
    BY <1>3 DEF MovedAs, ScrolledAs, SameCursor
  <2>2. j.rows = r
    BY <2>1, ScreenFields
  <2>3. ASSUME Plain(k), NEW y \in 0 .. r - 1, NEW x \in 0 .. Cols - 1 PROVE ~j.pix[y][x].inv
    <3>1. i.pix[y][x].inv <=> y # r - 1 /\ k.pix[y + 1][x].inv
      BY <1>3 DEF ScrolledAs
    <3>2. y # r - 1 => ~k.pix[y + 1][x].inv
      BY <1>1, <2>3 DEF Plain
    <3> QED
      BY <2>1, <3>1, <3>2
  <2> QED
    BY <2>1, <2>2, <2>3 DEF Plain
<1> QED
  BY <1>2, <1>3 DEF NextLineAs

\* The next line of the paper is on the screen after it.
LEMMA NextLineShows ==
  ASSUME NEW r \in Nat \ {0}, r - 1 <= MaxLine, NEW k \in Screens(r), NEW j, NextLineAs(k, j, r),
         NEW l \in 0 .. MaxLine - 1, NEW P, Shows(k, P, l)
  PROVE  Shows(j, P, l + 1)
<1> DEFINE f == First(r, l)
           g == First(r, l + 1)
<1>0. MaxLine \in Nat
  BY ConsoleAssumption
<1>1. k.rows = r /\ j.rows = r /\ l \in Nat /\ f \in Nat /\ l - f = k.cy /\ f <= l
  <2>1. k.rows = r
    BY ScreenFields
  <2>2. j \in Screens(r)
    BY NextLineType
  <2>3. j.rows = r
    BY <2>2, ScreenFields
  <2>4. l \in 0 .. MaxLine /\ l \in Nat
    BY <1>0
  <2>5. f \in Nat /\ l - f \in 0 .. r - 1
    BY <2>4, Window
  <2>6. k.cy = l - f
    BY <2>1 DEF Shows
  <2> HIDE DEF f
  <2> QED
    BY <2>1, <2>3, <2>4, <2>5, <2>6
<1>s. OnScreen(k, P, r, f) /\ BlankBelow(P, r, l)
  BY <1>1 DEF Shows
<1>b. BlankBelow(P, r, l + 1)
  BY <1>0, <1>1, <1>s DEF BlankBelow
<1>2. CASE k.cy + 1 < r /\ MovedAs(k, j, r, 0, k.cy + 1)
  <2>1. f = 0 /\ g = 0 /\ k.cy + 1 = (l + 1) - g
    BY <1>1, <1>2 DEF First
  <2>2. j.cy = (l + 1) - g /\ j.text = k.text /\ j.pix = k.pix
    BY <1>2, <2>1 DEF MovedAs
  <2> HIDE DEF f, g
  <2>3. OnScreen(j, P, r, g)
    BY <1>s, <2>1, <2>2 DEF OnScreen
  <2> QED
    BY <1>1, <1>b, <2>2, <2>3 DEF Shows, g
<1>3. ASSUME NEW i \in Screens(r), k.cy = r - 1, ScrolledAs(k, i, r), MovedAs(i, j, r, 0, r - 1)
      PROVE  Shows(j, P, l + 1)
  <2>1. g = f + 1 /\ r - 1 = (l + 1) - g /\ g + (r - 1) = l + 1 /\ l + 1 >= r
    BY <1>1, <1>3 DEF First
  <2>2. j.cy = (l + 1) - g /\ j.text = i.text /\ j.pix = i.pix
    BY <1>3, <2>1 DEF MovedAs
  <2> HIDE DEF f, g
  <2>3. ASSUME NEW y \in 0 .. r - 1, NEW x \in 0 .. Cols - 1
        PROVE  /\ j.text # NoText => j.text[y][x] = P[g + y][x]
               /\ j.pix[y][x].ch = P[g + y][x] \/ (j.text = NoText /\ j.pix[y][x].ch = Space)
    <3>1. /\ k.text = NoText => i.text = NoText
          /\ k.text # NoText => i.text[y][x] = IF y = r - 1 THEN Space ELSE k.text[y + 1][x]
          /\ i.pix[y][x].ch = IF y = r - 1 THEN Space ELSE k.pix[y + 1][x].ch
      BY <1>3 DEF ScrolledAs
    <3>2. CASE y = r - 1
      <4>1. P[g + y][x] = Space
        <5>1. l + 1 \in 0 .. MaxLine /\ l + 1 > l /\ g + y = l + 1
          BY <1>0, <1>1, <2>1, <3>2
        <5> QED
          BY <5>1, <2>1, <1>s DEF BlankBelow
      <4> QED
        BY <3>1, <3>2, <4>1, <2>2
    <3>3. CASE y # r - 1
      <4>1. y + 1 \in 0 .. r - 1 /\ f + (y + 1) = g + y
        BY <3>3, <1>1, <2>1
      <4>2. /\ k.text # NoText => k.text[y + 1][x] = P[f + (y + 1)][x]
            /\ k.pix[y + 1][x].ch = P[f + (y + 1)][x] \/ (k.text = NoText /\ k.pix[y + 1][x].ch = Space)
        BY <4>1, <1>s DEF OnScreen
      <4> QED
        BY <3>1, <3>3, <4>1, <4>2, <2>2
    <3> QED
      BY <3>2, <3>3
  <2>4. OnScreen(j, P, r, g)
    BY <2>3 DEF OnScreen
  <2> QED
    BY <1>1, <1>b, <2>2, <2>4 DEF Shows, g
<1> QED
  BY <1>2, <1>3 DEF NextLineAs

\* What characters leave alone: the blinking, and that nothing is inverted.
Steady(k, j) == j.phase = k.phase /\ j.enabled = k.enabled /\ (Plain(k) => Plain(j))

LEMMA SteadyTwice == ASSUME NEW h, NEW k, NEW j, Steady(h, k), Steady(k, j) PROVE Steady(h, j)
BY DEF Steady

\* The cursor moves within its line.
LEMMA MovedShows ==
  ASSUME NEW r, NEW k \in Screens(r), NEW j, NEW x, MovedAs(k, j, r, x, k.cy)
  PROVE  /\ j \in Screens(r) /\ j.cx = x /\ Steady(k, j)
         /\ \A P, l : Shows(k, P, l) => Shows(j, P, l)
<1>1. j \in Screens(r) /\ j.cx = x /\ j.rows = k.rows /\ j.cy = k.cy /\ j.text = k.text /\ j.pix = k.pix
      /\ j.phase = k.phase /\ j.enabled = k.enabled
  BY DEF MovedAs
<1>2. Plain(k) => Plain(j)
  BY <1>1 DEF Plain
<1>3. ASSUME NEW P, NEW l, Shows(k, P, l) PROVE Shows(j, P, l)
  BY <1>1, <1>3 DEF Shows, OnScreen
<1> QED
  BY <1>1, <1>2, <1>3 DEF Steady

\* A glyph moves the cursor one column on, or to the next line.
LEMMA GlyphType ==
  ASSUME NEW r \in Nat \ {0}, NEW k \in Screens(r), NEW ch \in Ch
  PROVE  /\ con_putglyph(k, ch) \in Screens(r) /\ Steady(k, con_putglyph(k, ch))
         /\ con_putglyph(k, ch).cx = IF k.cx + 1 >= Cols THEN 0 ELSE k.cx + 1
<1> DEFINE d == Drawn(k, k.cx, k.cy, ch)
           j == con_putglyph(k, ch)
<1>1. k.cx \in 0 .. Cols - 1 /\ k.cy \in 0 .. r - 1 /\ Cols \in Nat
  BY ScreenFields, ConsoleAssumption
<1>2. DrawnAs(k, d, r, k.cx, k.cy, ch)
  BY <1>1, DrawEffect
<1>3. Plain(k) => Plain(d)
  BY <1>1, DrawPlain
<1>4. j = IF k.cx + 1 >= Cols THEN con_newline_locked(d) ELSE [d EXCEPT !.cx = @ + 1]
  BY DEF con_putglyph, Drawn
<1> HIDE DEF d, j
<1>5. d \in Screens(r) /\ d.cx = k.cx /\ Steady(k, d)
  BY <1>2, <1>3 DEF DrawnAs, SameCursor, Steady
<1>6. CASE k.cx + 1 >= Cols
  <2>1. NextLineAs(d, j, r)
    BY <1>4, <1>5, <1>6, NewlineEffect
  <2>2. j \in Screens(r) /\ j.cx = 0 /\ Steady(d, j)
    BY <2>1, <1>5, NextLineType DEF Steady
  <2>3. Steady(k, j)
    BY <2>2, <1>5, SteadyTwice
  <2> QED
    BY <1>6, <2>2, <2>3 DEF j
<1>7. CASE ~(k.cx + 1 >= Cols)
  <2>1. d.cx + 1 \in 0 .. Cols - 1 /\ j = [d EXCEPT !.cx = d.cx + 1]
    BY <1>1, <1>4, <1>5, <1>7
  <2>2. d.cy \in 0 .. r - 1
    BY <1>5, ScreenFields
  <2>3. MovedAs(d, j, r, d.cx + 1, d.cy)
    BY <1>5, <2>1, <2>2, MoveEffect
  <2>4. j \in Screens(r) /\ j.cx = d.cx + 1 /\ Steady(d, j)
    BY <2>3, <1>5, MovedShows, ZenonT(60)
  <2>5. Steady(k, j)
    BY <2>4, <1>5, SteadyTwice
  <2> QED
    BY <1>5, <1>7, <2>4, <2>5 DEF j
<1> QED
  BY <1>6, <1>7

LEMMA GlyphShows ==
  ASSUME NEW r \in Nat \ {0}, r - 1 <= MaxLine, NEW k \in Screens(r), NEW ch \in Ch, NEW l \in 0 .. MaxLine - 1,
         NEW P, NEW Q, Shows(k, P, l), Filled(P, Q, l, k.cx, k.cx + 1, ch)
  PROVE  Shows(con_putglyph(k, ch), Q, IF k.cx + 1 >= Cols THEN l + 1 ELSE l)
<1> DEFINE d == Drawn(k, k.cx, k.cy, ch)
           j == con_putglyph(k, ch)
<1>1. k.cx \in 0 .. Cols - 1 /\ k.cy \in 0 .. r - 1 /\ Cols \in Nat /\ l \in 0 .. MaxLine
  BY ScreenFields, ConsoleAssumption
<1>2. DrawnAs(k, d, r, k.cx, k.cy, ch)
  BY <1>1, DrawEffect
<1>3. Shows(d, Q, l)
  BY <1>1, DrawShows
<1>4. j = IF k.cx + 1 >= Cols THEN con_newline_locked(d) ELSE [d EXCEPT !.cx = @ + 1]
  BY DEF con_putglyph, Drawn
<1> HIDE DEF d, j
<1>5. d \in Screens(r) /\ d.cx = k.cx
  BY <1>2 DEF DrawnAs, SameCursor
<1>6. CASE k.cx + 1 >= Cols
  <2>1. NextLineAs(d, j, r)
    BY <1>4, <1>5, <1>6, NewlineEffect
  <2>2. Shows(j, Q, l + 1)
    BY <1>3, <1>5, <2>1, NextLineShows
  <2> QED
    BY <1>6, <2>2 DEF j
<1>7. CASE ~(k.cx + 1 >= Cols)
  <2>1. d.cx + 1 \in 0 .. Cols - 1 /\ j = [d EXCEPT !.cx = d.cx + 1]
    BY <1>1, <1>4, <1>5, <1>7
  <2>2. d.cy \in 0 .. r - 1
    BY <1>5, ScreenFields
  <2>3. MovedAs(d, j, r, d.cx + 1, d.cy)
    BY <1>5, <2>1, <2>2, MoveEffect
  <2>4. Shows(j, Q, l)
    BY <2>3, <1>3, <1>5, MovedShows
  <2> QED
    BY <1>7, <2>4 DEF j
<1> QED
  BY <1>6, <1>7

-----------------------------------------------------------------------------
(* The loop of a tab.                                                      *)

\* A round of it.
LEMMA TabStepType ==
  ASSUME NEW r \in Nat \ {0}, NEW k \in Screens(r)
  PROVE  tab_step(k) \in Screens(r) /\ Steady(k, tab_step(k))
BY GlyphType DEF tab_step, Steady, Ch

\* The rounds of a tab.
LEMMA TabRounds ==
  ASSUME NEW r \in Nat \ {0}, NEW k \in Screens(r)
  PROVE  /\ tab_loop(k)[0] = con_putglyph(k, Space)
         /\ \A i \in 0 .. TabStop - 1 : tab_loop(k)[i] \in Screens(r)
         /\ \A i \in 1 .. TabStop - 1 : tab_loop(k)[i] = tab_step(tab_loop(k)[i - 1])
<1> DEFINE A == Screens(r)
           n == TabStop - 1
           b == con_putglyph(k, Space)
           F == [i \in 1 .. n |-> [a \in A |-> tab_step(a)]]
           Loop(f) == [i \in 0 .. n |-> IF i = 0 THEN b ELSE tab_step(f[i - 1])]
           L == tab_loop(k)
<1>1. n \in Nat /\ b \in A
  BY ConsoleAssumption, GlyphType DEF Ch
<1>2. \A a \in A, i \in 1 .. n : tab_step(a) \in A
  BY TabStepType
<1>3. F \in Rounds(A, n)
  BY <1>2 DEF Rounds
<1>4. \A a \in A, i \in 1 .. n : F[i][a] = tab_step(a)
  OBVIOUS
<1>5. L = CHOOSE f : f = Loop(f)
  BY DEF tab_loop
<1> HIDE DEF A, F, b, n, L
<1>6. PICK f \in [0 .. n -> A] : f[0] = b /\ \A i \in 1 .. n : f[i] = F[i][f[i - 1]]
  <2>1. Runs(A, n, F, b)
    BY <1>1, <1>3, LoopRuns
  <2> QED
    BY <2>1 DEF Runs
<1>7. \A i \in 1 .. n : f[i] = tab_step(f[i - 1])
  <2> SUFFICES ASSUME NEW i \in 1 .. n PROVE f[i] = tab_step(f[i - 1])
    OBVIOUS
  <2>1. f[i - 1] \in A
    BY <1>1
  <2> QED
    BY <1>4, <1>6, <2>1
<1>8. f = Loop(f)
  <2>1. ASSUME NEW i \in 0 .. n PROVE f[i] = Loop(f)[i]
    <3>1. CASE i = 0
      BY <1>6, <3>1
    <3>2. CASE i # 0
      <4>1. i \in 1 .. n
        BY <1>1, <3>2
      <4> QED
        BY <1>7, <3>2, <4>1
    <3> QED
      BY <3>1, <3>2
  <2> QED
    BY <2>1
<1>9. L = Loop(L)
  BY <1>5, <1>8
<1>10. L[0] = b /\ \A i \in 1 .. n : L[i] = tab_step(L[i - 1])
  <2>1. 0 \in 0 .. n /\ \A i \in 1 .. n : i \in 0 .. n /\ i # 0
    BY <1>1
  <2>2. \A i \in 0 .. n : L[i] = IF i = 0 THEN b ELSE tab_step(L[i - 1])
    BY <1>9
  <2> QED
    BY <2>1, <2>2
<1>11. \A i \in 0 .. n : L[i] \in A
  <2> DEFINE G == {i \in Nat : L[i] \in A}
  <2>1. 0 \in G
    BY <1>1, <1>10
  <2>2. \A i \in 1 .. n : i - 1 \in G => i \in G
    <3> SUFFICES ASSUME NEW i \in 1 .. n, L[i - 1] \in A PROVE L[i] \in A
      BY <1>1
    <3>1. L[i] = tab_step(L[i - 1])
      BY <1>10
    <3> QED
      BY <1>2, <3>1
  <2> HIDE DEF G
  <2>3. n \in Nat
    BY <1>1
  <2>4. \A i \in 0 .. n : i \in G
    BY <2>1, <2>2, <2>3, UpTo, Zenon
  <2> QED
    BY <1>1, <2>4 DEF G
<1> QED
  BY <1>10, <1>11 DEF A, n, b, L

\* Where the next stop after column x is.
Stop(x) == (x \div TabStop + 1) * TabStop

\* Between x and the next stop, at most TabStop columns on, there is none.
LEMMA StopIsNext ==
  ASSUME NEW x \in Nat
  PROVE  /\ Stop(x) \in Nat /\ x < Stop(x) /\ Stop(x) <= x + TabStop /\ Stop(x) % TabStop = 0
         /\ \A m \in x + 1 .. Stop(x) - 1 : m % TabStop # 0
<1> DEFINE D == TabStop
           q == x \div D
           s == x % D
<1>1. D \in Nat \ {0}
  BY ConsoleAssumption
<1>2. q \in Nat /\ s \in 0 .. D - 1 /\ x = q * D + s
  BY <1>1, DivMod, Zenon
<1>3. Stop(x) = (q + 1) * D
  BY DEF Stop
<1> HIDE DEF D, q, s
<1>4. q * D \in Nat /\ (q + 1) * D = q * D + D
  BY <1>1, <1>2
<1>5. Stop(x) \in Nat /\ x < Stop(x) /\ Stop(x) <= x + D
  BY <1>1, <1>2, <1>3, <1>4
<1>6. Stop(x) % D = 0
  <2>1. Stop(x) = (q + 1) * D + 0 /\ q + 1 \in Int /\ 0 \in 0 .. D - 1
    BY <1>1, <1>2, <1>3, <1>4
  <2> QED
    BY <1>1, <1>5, <2>1, DivUnique, Zenon
<1>7. ASSUME NEW m \in x + 1 .. Stop(x) - 1 PROVE m % D # 0
  <2> DEFINE t == m - q * D
  <2>1. m \in Nat /\ t \in 0 .. D - 1 /\ t # 0 /\ m = q * D + t /\ q \in Int
    BY <1>1, <1>2, <1>3, <1>4, <1>5
  <2> HIDE DEF t
  <2>2. t = m % D
    BY <1>1, <2>1, DivUnique, Zenon
  <2> QED
    BY <2>1, <2>2
<1> QED
  BY <1>5, <1>6, <1>7 DEF D

\* To fill columns up to e and then column e is to fill them up to e + 1.
LEMMA FillSplit ==
  ASSUME NEW P, NEW Q, NEW l, NEW x \in Nat, NEW e \in Nat, x <= e, NEW ch, Filled(P, Q, l, x, e + 1, ch)
  PROVE  \E O : Filled(P, O, l, x, e, ch) /\ Filled(O, Q, l, e, e + 1, ch)
<1> DEFINE O == [m \in 0 .. MaxLine |-> [a \in 0 .. Cols - 1 |-> IF m = l /\ x <= a /\ a < e THEN ch ELSE P[m][a]]]
<1>0. Cols \in Nat
  BY ConsoleAssumption
<1>1. \A m \in 0 .. MaxLine, a \in 0 .. Cols - 1 : O[m][a] = IF m = l /\ x <= a /\ a < e THEN ch ELSE P[m][a]
  OBVIOUS
<1> HIDE DEF O
<1>2. Filled(P, O, l, x, e, ch)
  BY <1>1 DEF Filled
<1>3. Filled(O, Q, l, e, e + 1, ch)
  BY <1>0, <1>1 DEF Filled
<1> QED
  BY <1>2, <1>3

\* Columns x .. e - 1 filled, and the cursor after them.
UpToColumn(j, P, l, x, e) ==
  /\ j.cx = IF e = Cols THEN 0 ELSE e
  /\ \A Q : Filled(P, Q, l, x, e, Space) => Shows(j, Q, IF e = Cols THEN l + 1 ELSE l)

\* One more glyph.
LEMMA OneMoreColumn ==
  ASSUME NEW r \in Nat \ {0}, r - 1 <= MaxLine, NEW j \in Screens(r), NEW l \in 0 .. MaxLine - 1,
         NEW P, NEW x \in Nat, NEW e \in Nat, x <= e, e < Cols, UpToColumn(j, P, l, x, e)
  PROVE  UpToColumn(con_putglyph(j, Space), P, l, x, e + 1)
<1> DEFINE i == con_putglyph(j, Space)
<1>0. Cols \in Nat /\ Space \in Ch /\ e # Cols
  BY ConsoleAssumption DEF Ch
<1>1. j.cx = e
  BY <1>0 DEF UpToColumn
<1>2. i.cx = IF e + 1 = Cols THEN 0 ELSE e + 1
  BY <1>0, <1>1, GlyphType
<1>3. ASSUME NEW Q, Filled(P, Q, l, x, e + 1, Space)
      PROVE  Shows(i, Q, IF e + 1 = Cols THEN l + 1 ELSE l)
  <2>1. PICK O : Filled(P, O, l, x, e, Space) /\ Filled(O, Q, l, e, e + 1, Space)
    BY <1>3, FillSplit
  <2>2. Shows(j, O, l)
    BY <1>0, <2>1 DEF UpToColumn
  <2>3. Shows(i, Q, IF j.cx + 1 >= Cols THEN l + 1 ELSE l)
    BY <1>0, <1>1, <2>1, <2>2, GlyphShows
  <2>4. (IF j.cx + 1 >= Cols THEN l + 1 ELSE l) = (IF e + 1 = Cols THEN l + 1 ELSE l)
    BY <1>0, <1>1
  <2> QED
    BY <2>3, <2>4
<1> HIDE DEF i
<1>4. UpToColumn(i, P, l, x, e + 1)
  BY <1>2, <1>3 DEF UpToColumn
<1> QED
  BY <1>4 DEF i

\* The column a tab at x goes to.
TabTo(x) == IF Stop(x) < Cols THEN Stop(x) ELSE Cols

\* The column after i + 1 rounds of a tab at x.
TabColumn(x, i) == IF x + 1 + i < TabTo(x) THEN x + 1 + i ELSE TabTo(x)

\* A tab goes on while it is not at a stop, and rests there.
LEMMA TabShows ==
  ASSUME NEW r \in Nat \ {0}, r - 1 <= MaxLine, NEW k \in Screens(r), NEW l \in 0 .. MaxLine - 1,
         NEW P, Shows(k, P, l)
  PROVE  /\ con_tab(k) \in Screens(r) /\ Steady(k, con_tab(k))
         /\ UpToColumn(con_tab(k), P, l, k.cx, TabTo(k.cx))
<1> DEFINE x == k.cx
           to == TabTo(x)
           L == tab_loop(k)
           n == TabStop - 1
           c(i) == TabColumn(x, i)
           G == {i \in Nat : Steady(k, L[i]) /\ UpToColumn(L[i], P, l, x, c(i))}
<1>0. Cols \in Nat /\ x \in 0 .. Cols - 1 /\ x \in Nat /\ n \in Nat /\ Space \in Ch /\ TabStop \in Nat \ {0}
  BY SMTT(20), ScreenFields, ConsoleAssumption DEF Ch
<1>1. /\ L[0] = con_putglyph(k, Space)
      /\ \A i \in 0 .. n : L[i] \in Screens(r)
      /\ \A i \in 1 .. n : L[i] = tab_step(L[i - 1])
  BY TabRounds
<1>2. /\ Stop(x) \in Nat /\ x < Stop(x) /\ Stop(x) <= x + TabStop /\ Stop(x) % TabStop = 0
      /\ \A m \in x + 1 .. Stop(x) - 1 : m % TabStop # 0
  BY <1>0, StopIsNext
<1>3. /\ to \in Nat /\ x < to /\ to <= Cols /\ to <= x + TabStop /\ (to # Cols => to % TabStop = 0)
      /\ \A m \in x + 1 .. to - 1 : m % TabStop # 0
  BY <1>0, <1>2 DEF TabTo
<1>4. \A i \in Nat : c(i) = IF x + 1 + i < to THEN x + 1 + i ELSE to
  BY DEF TabColumn
<1> HIDE DEF x, to, L, n, c
<1>5. 0 \in G
  <2>1. UpToColumn(k, P, l, x, x)
    <3>1. k.cx = x /\ x # Cols
      BY <1>0 DEF x
    <3>2. ASSUME NEW Q, Filled(P, Q, l, x, x, Space) PROVE Shows(k, Q, l)
      <4>1. \A m \in 0 .. MaxLine, a \in 0 .. Cols - 1 : Q[m][a] = P[m][a]
        BY <1>0, <3>2 DEF Filled
      <4>2. l \in 0 .. MaxLine
        BY ConsoleAssumption
      <4> QED
        BY <4>1, <4>2, ShowsSame
    <3> QED
      BY <3>1, <3>2 DEF UpToColumn
  <2>2. UpToColumn(L[0], P, l, x, x + 1)
    <3>1. x <= x /\ x < Cols
      BY <1>0
    <3> QED
      BY <1>0, <1>1, <2>1, <3>1, OneMoreColumn
  <2>3. c(0) = x + 1
    BY <1>0, <1>3, <1>4
  <2>4. Steady(k, L[0])
    BY <1>0, <1>1, GlyphType
  <2> QED
    BY <2>2, <2>3, <2>4
<1>6. ASSUME NEW i \in 1 .. n, i - 1 \in G PROVE i \in G
  <2> DEFINE j == L[i - 1]
             e == c(i - 1)
  <2>1. j \in Screens(r) /\ L[i] = tab_step(j) /\ i \in Nat /\ i - 1 \in Nat
    <3>1. i - 1 \in 0 .. n
      BY <1>0
    <3> QED
      BY <1>1, <3>1
  <2>2. Steady(k, j) /\ UpToColumn(j, P, l, x, e)
    BY <1>6
  <2>3. /\ e \in Nat /\ x < e /\ e <= to
        /\ e < to => e \in x + 1 .. to - 1 /\ c(i) = e + 1
        /\ e = to => c(i) = to
    <3>1. e = IF x + 1 + (i - 1) < to THEN x + 1 + (i - 1) ELSE to
      BY <1>4, <2>1
    <3>2. c(i) = IF x + 1 + i < to THEN x + 1 + i ELSE to
      BY <1>4, <2>1
    <3> HIDE DEF e
    <3> QED
      BY <1>0, <1>3, <2>1, <3>1, <3>2
  <2>4. j.cx = IF e = Cols THEN 0 ELSE e
    BY <2>2 DEF UpToColumn
  <2> HIDE DEF j, e
  <2>5. CASE e < to
    <3>1. e # Cols /\ e < Cols /\ x <= e /\ e % TabStop # 0
      BY <1>0, <1>3, <2>3, <2>5
    <3>2. L[i] = con_putglyph(j, Space)
      BY <2>1, <2>4, <3>1 DEF tab_step
    <3>3. UpToColumn(L[i], P, l, x, e + 1)
      BY <1>0, <2>1, <2>2, <2>3, <3>1, <3>2, OneMoreColumn
    <3>4. Steady(j, L[i])
      BY <1>0, <2>1, <3>2, GlyphType
    <3>5. Steady(k, L[i])
      BY <2>2, <3>4, SteadyTwice
    <3> QED
      BY <2>1, <2>3, <2>5, <3>3, <3>5
  <2>6. CASE e = to
    <3>1. j.cx % TabStop = 0
      <4>1. 0 % TabStop = 0
        BY <1>0
      <4> QED
        BY <1>3, <2>4, <2>6, <4>1
    <3>2. L[i] = j
      BY <2>1, <3>1 DEF tab_step
    <3> QED
      BY <2>1, <2>2, <2>3, <2>6, <3>2
  <2> QED
    BY <1>3, <2>3, <2>5, <2>6
<1>7. n \in G
  <2> HIDE DEF G
  <2>1. n \in Nat /\ \A i \in 1 .. n : i - 1 \in G => i \in G
    BY <1>0, <1>6
  <2>2. \A i \in 0 .. n : i \in G
    BY <1>5, <2>1, UpTo, Zenon
  <2> QED
    BY <1>0, <2>2
<1>8. c(n) = to
  <2>1. x + 1 + n = x + TabStop
    BY <1>0 DEF n
  <2> QED
    BY <1>0, <1>3, <1>4, <2>1
<1>9. con_tab(k) = L[n]
  BY DEF con_tab, L, n
<1>10. L[n] \in Screens(r)
  BY <1>0, <1>1
<1> QED
  BY <1>7, <1>8, <1>9, <1>10 DEF to, x

-----------------------------------------------------------------------------
(* A character, on the screen and on the paper.                            *)

ConChar == Letter \cup {Space} \cup Control

FillRow(row, from, to, c) == [i \in DOMAIN row |-> IF from <= i /\ i < to THEN c ELSE row[i]]

\* What Typed says of each kind of character.
LEMMA TypedAs ==
  ASSUME NEW row, NEW x, NEW ch
  PROVE  /\ Typed(row, x, "nl") = [row |-> row, x |-> 0, ends |-> TRUE]
         /\ Typed(row, x, "cr") = [row |-> row, x |-> 0, ends |-> FALSE]
         /\ Typed(row, x, "bs") = [row |-> FillRow(row, x - 1, x, Space), x |-> IF x = 0 THEN 0 ELSE x - 1, ends |-> FALSE]
         /\ Typed(row, x, "tab") = [row |-> FillRow(row, x, TabTo(x), Space), x |-> TabTo(x) % Cols, ends |-> TabTo(x) = Cols]
         /\ ch \notin Control =>
              Typed(row, x, ch) = [row |-> FillRow(row, x, x + 1, ch), x |-> (x + 1) % Cols, ends |-> x + 1 = Cols]
<1>1. Typed(row, x, "nl") = [row |-> row, x |-> 0, ends |-> TRUE]
  BY DEF Typed
<1>2. Typed(row, x, "cr") = [row |-> row, x |-> 0, ends |-> FALSE]
  BY DEF Typed
<1>3. Typed(row, x, "bs") = [row |-> FillRow(row, x - 1, x, Space), x |-> IF x = 0 THEN 0 ELSE x - 1, ends |-> FALSE]
  BY DEF Typed, FillRow
<1>4. Typed(row, x, "tab") = [row |-> FillRow(row, x, TabTo(x), Space), x |-> TabTo(x) % Cols, ends |-> TabTo(x) = Cols]
  BY DEF Typed, FillRow, TabTo, Stop
<1>5. ASSUME ch \notin Control
      PROVE  Typed(row, x, ch) = [row |-> FillRow(row, x, x + 1, ch), x |-> (x + 1) % Cols, ends |-> x + 1 = Cols]
  BY <1>5 DEF Typed, FillRow, Control
<1> QED
  BY <1>1, <1>2, <1>3, <1>4, <1>5

\* Sheet q is p with c in some columns of its line, and the next character at column x of this
\* line or of the next.
SheetAs(p, q, from, to, c, x, ends) ==
  /\ q \in Sheets /\ q.col = x /\ q.line = IF ends THEN p.line + 1 ELSE p.line
  /\ p.line <= MaxLine => Filled(p.paper, q.paper, p.line, from, to, c)

LEMMA SheetFields ==
  ASSUME NEW p \in Sheets
  PROVE  /\ p.paper \in [0 .. MaxLine -> Row] /\ p.line \in Nat /\ p.col \in 0 .. Cols - 1
         /\ p = [paper |-> p.paper, line |-> p.line, col |-> p.col]
BY DEF Sheets

LEMMA SheetFilled ==
  ASSUME NEW p \in Sheets, NEW from, NEW to, NEW c \in Ch, NEW x \in 0 .. Cols - 1, NEW ends \in BOOLEAN
  PROVE  SheetAs(p, [paper |-> [p.paper EXCEPT ![p.line] = FillRow(p.paper[p.line], from, to, c)],
                     line |-> IF ends THEN p.line + 1 ELSE p.line, col |-> x], from, to, c, x, ends)
<1> DEFINE P == p.paper
           l == p.line
           Q == [P EXCEPT ![l] = FillRow(P[l], from, to, c)]
           n == IF ends THEN l + 1 ELSE l
           q == [paper |-> Q, line |-> n, col |-> x]
<1>1. P \in [0 .. MaxLine -> Row] /\ l \in Nat /\ n \in Nat /\ MaxLine \in Nat
  BY SheetFields, ConsoleAssumption
<1> HIDE DEF P, l, n
<1>2. ASSUME l <= MaxLine
      PROVE  Q \in [0 .. MaxLine -> Row] /\ Filled(P, Q, l, from, to, c)
  <2>1. l \in 0 .. MaxLine
    BY <1>1, <1>2
  <2>2. P[l] \in Row
    BY <1>1, <2>1
  <2>3. FillRow(P[l], from, to, c) \in Row
    BY <2>2 DEF FillRow, Row
  <2>4. \A a \in 0 .. Cols - 1 : FillRow(P[l], from, to, c)[a] = IF from <= a /\ a < to THEN c ELSE P[l][a]
    BY <2>2 DEF FillRow, Row
  <2>5. \A m \in 0 .. MaxLine : Q[m] = IF m = l THEN FillRow(P[l], from, to, c) ELSE P[m]
    BY <1>1
  <2>6. Q \in [0 .. MaxLine -> Row]
    BY <1>1, <2>3
  <2> HIDE DEF Q
  <2>7. Filled(P, Q, l, from, to, c)
    BY <2>4, <2>5 DEF Filled
  <2> QED
    BY <2>6, <2>7
<1>3. ASSUME ~(l <= MaxLine) PROVE Q \in [0 .. MaxLine -> Row]
  <2>1. l \notin 0 .. MaxLine
    BY <1>1, <1>3
  <2>2. Q = P
    BY <1>1, <2>1
  <2> QED
    BY <1>1, <2>2
<1>4. Q \in [0 .. MaxLine -> Row]
  BY <1>2, <1>3
<1> HIDE DEF Q
<1>5. q \in Sheets /\ q.col = x /\ q.line = n /\ q.paper = Q
  BY <1>1, <1>4 DEF Sheets
<1> HIDE DEF q
<1>6. SheetAs(p, q, from, to, c, x, ends)
  BY <1>2, <1>5 DEF SheetAs, P, l, n
<1> QED
  BY <1>6 DEF q, Q, P, l, n

LEMMA SheetKept ==
  ASSUME NEW p \in Sheets, NEW x \in 0 .. Cols - 1, NEW ends \in BOOLEAN
  PROVE  SheetAs(p, [paper |-> [p.paper EXCEPT ![p.line] = p.paper[p.line]],
                     line |-> IF ends THEN p.line + 1 ELSE p.line, col |-> x], 0, 0, Space, x, ends)
<1> DEFINE P == p.paper
           l == p.line
           n == IF ends THEN l + 1 ELSE l
           q == [paper |-> P, line |-> n, col |-> x]
<1>1. P \in [0 .. MaxLine -> Row] /\ l \in Nat /\ n \in Nat
  BY SheetFields
<1>2. [P EXCEPT ![l] = P[l]] = P
  BY <1>1
<1> HIDE DEF P, l, n
<1>3. q \in Sheets /\ q.col = x /\ q.line = n /\ q.paper = P
  BY <1>1 DEF Sheets
<1>4. Filled(P, P, l, 0, 0, Space)
  BY ConsoleAssumption DEF Filled
<1> HIDE DEF q
<1>5. SheetAs(p, q, 0, 0, Space, x, ends)
  BY <1>3, <1>4 DEF SheetAs, P, l, n
<1> QED
  BY <1>2, <1>5 DEF q, P, l, n

\* Where the next character goes after the column m.
After(m) == IF m = Cols THEN 0 ELSE m

LEMMA AfterIs ==
  ASSUME NEW m \in 1 .. Cols PROVE m % Cols = After(m) /\ After(m) \in 0 .. Cols - 1
<1>1. Cols \in Nat \ {0}
  BY ConsoleAssumption
<1>2. CASE m = Cols
  BY <1>1, <1>2 DEF After
<1>3. CASE m < Cols
  BY <1>1, <1>3 DEF After
<1> QED
  BY <1>1, <1>2, <1>3

LEMMA TabToIs == ASSUME NEW x \in 0 .. Cols - 1 PROVE TabTo(x) \in 1 .. Cols /\ x < TabTo(x)
<1>1. Cols \in Nat \ {0} /\ x \in Nat
  BY ConsoleAssumption
<1>2. Stop(x) \in Nat /\ x < Stop(x)
  BY <1>1, StopIsNext
<1> QED
  BY <1>1, <1>2 DEF TabTo

\* What each kind of character does to the paper.
LEMMA OnPaperAs ==
  ASSUME NEW p \in Sheets, NEW ch \in ConChar
  PROVE  /\ ch = "nl" => SheetAs(p, OnPaper(p, ch), 0, 0, Space, 0, TRUE)
         /\ ch = "cr" => SheetAs(p, OnPaper(p, ch), 0, 0, Space, 0, FALSE)
         /\ ch = "bs" => SheetAs(p, OnPaper(p, ch), p.col - 1, p.col, Space, IF p.col = 0 THEN 0 ELSE p.col - 1, FALSE)
         /\ ch = "tab" => SheetAs(p, OnPaper(p, ch), p.col, TabTo(p.col), Space, After(TabTo(p.col)), TabTo(p.col) = Cols)
         /\ ch \notin Control => SheetAs(p, OnPaper(p, ch), p.col, p.col + 1, ch, After(p.col + 1), p.col + 1 = Cols)
<1> DEFINE x == p.col
           row == p.paper[p.line]
           t == Typed(row, x, ch)
<1>0. Cols \in Nat \ {0} /\ x \in 0 .. Cols - 1 /\ 0 \in 0 .. Cols - 1 /\ Space \in Ch /\ TRUE \in BOOLEAN /\ FALSE \in BOOLEAN
  BY SheetFields, ConsoleAssumption DEF Ch
<1>1. OnPaper(p, ch) = [paper |-> [p.paper EXCEPT ![p.line] = t.row],
                        line |-> IF t.ends THEN p.line + 1 ELSE p.line, col |-> t.x]
  BY DEF OnPaper
<1> HIDE DEF x, row, t
<1>2. CASE ch = "nl"
  <2>1. t.row = row /\ t.x = 0 /\ t.ends = TRUE
    BY <1>2, TypedAs DEF t
  <2>2. OnPaper(p, ch) = [paper |-> [p.paper EXCEPT ![p.line] = p.paper[p.line]],
                          line |-> IF TRUE THEN p.line + 1 ELSE p.line, col |-> 0]
    BY <1>1, <2>1 DEF row
  <2>3. SheetAs(p, OnPaper(p, ch), 0, 0, Space, 0, TRUE)
    BY <1>0, <2>2, SheetKept
  <2> QED
    BY <1>2, <2>3 DEF Control
<1>3. CASE ch = "cr"
  <2>1. t.row = row /\ t.x = 0 /\ t.ends = FALSE
    BY <1>3, TypedAs DEF t
  <2>2. OnPaper(p, ch) = [paper |-> [p.paper EXCEPT ![p.line] = p.paper[p.line]],
                          line |-> IF FALSE THEN p.line + 1 ELSE p.line, col |-> 0]
    BY <1>1, <2>1 DEF row
  <2>3. SheetAs(p, OnPaper(p, ch), 0, 0, Space, 0, FALSE)
    BY <1>0, <2>2, SheetKept
  <2> QED
    BY <1>3, <2>3 DEF Control
<1>4. ASSUME NEW from, NEW to, NEW c \in Ch, NEW n \in 0 .. Cols - 1, NEW ends \in BOOLEAN,
             t.row = FillRow(row, from, to, c), t.x = n, t.ends = ends
      PROVE  SheetAs(p, OnPaper(p, ch), from, to, c, n, ends)
  <2>1. OnPaper(p, ch) = [paper |-> [p.paper EXCEPT ![p.line] = FillRow(p.paper[p.line], from, to, c)],
                          line |-> IF ends THEN p.line + 1 ELSE p.line, col |-> n]
    BY <1>1, <1>4 DEF row
  <2> QED
    BY <2>1, SheetFilled
<1>5. CASE ch = "bs"
  <2> DEFINE n == IF x = 0 THEN 0 ELSE x - 1
  <2>1. t.row = FillRow(row, x - 1, x, Space) /\ t.x = n /\ t.ends = FALSE
    BY <1>5, TypedAs DEF t
  <2>2. n \in 0 .. Cols - 1
    BY <1>0
  <2> HIDE DEF n
  <2>3. SheetAs(p, OnPaper(p, ch), x - 1, x, Space, n, FALSE)
    BY <1>0, <1>4, <2>1, <2>2
  <2> QED
    BY <1>5, <2>3 DEF Control, x, n
<1>6. CASE ch = "tab"
  <2> DEFINE to == TabTo(x)
             ends == to = Cols
  <2>1. t.row = FillRow(row, x, to, Space) /\ t.x = to % Cols /\ t.ends = ends
    BY <1>6, TypedAs DEF t
  <2>2. to % Cols = After(to) /\ After(to) \in 0 .. Cols - 1
    BY <1>0, TabToIs, AfterIs
  <2>3. ends \in BOOLEAN
    OBVIOUS
  <2> HIDE DEF to, ends
  <2>4. SheetAs(p, OnPaper(p, ch), x, to, Space, After(to), ends)
    BY <1>0, <1>4, <2>1, <2>2, <2>3
  <2> QED
    BY <1>6, <2>4 DEF Control, x, to, ends
<1>7. CASE ch \notin Control
  <2> DEFINE to == x + 1
             ends == to = Cols
  <2>1. t.row = FillRow(row, x, to, ch) /\ t.x = to % Cols /\ t.ends = ends
    BY <1>7, TypedAs DEF t
  <2>2. to % Cols = After(to) /\ After(to) \in 0 .. Cols - 1
    BY <1>0, AfterIs
  <2>3. ends \in BOOLEAN /\ ch \in Ch
    BY <1>7 DEF ConChar, Ch
  <2> HIDE DEF to, ends
  <2>4. SheetAs(p, OnPaper(p, ch), x, to, ch, After(to), ends)
    BY <1>4, <2>1, <2>2, <2>3
  <2> QED
    BY <1>7, <2>4 DEF Control, x, to, ends
<1> QED
  BY <1>2, <1>3, <1>5, <1>6, <1>7 DEF Control

\* A character fits the paper, and ends at most one line.
LEMMA OnPaperType ==
  ASSUME NEW p \in Sheets, NEW ch \in ConChar
  PROVE  OnPaper(p, ch) \in Sheets /\ OnPaper(p, ch).line <= p.line + 1
<1>1. \E from, to, c, x, ends : SheetAs(p, OnPaper(p, ch), from, to, c, x, ends)
  BY OnPaperAs, Zenon DEF Control
<1> QED
  BY <1>1, SheetFields DEF SheetAs

\* Every character keeps the type of the console.
LEMMA PutType ==
  ASSUME NEW r \in Nat \ {0}, NEW k \in Screens(r), NEW ch \in ConChar
  PROVE  con_putchar_locked(k, ch) \in Screens(r)
<1> DEFINE j == con_putchar_locked(k, ch)
<1>0. k.cx \in 0 .. Cols - 1 /\ k.cy \in 0 .. r - 1 /\ Cols \in Nat \ {0} /\ 0 \in 0 .. Cols - 1 /\ Space \in Ch
  BY ScreenFields, ConsoleAssumption DEF Ch
<1>1. CASE ch = "nl"
  <2>1. j = con_newline_locked(k)
    BY <1>1 DEF con_putchar_locked
  <2> QED
    BY <2>1, NewlineEffect, NextLineType
<1>2. CASE ch = "cr"
  <2>1. j = [k EXCEPT !.cx = 0]
    BY <1>2 DEF con_putchar_locked
  <2>2. 0 \in 0 .. Cols - 1 /\ k.cy \in 0 .. r - 1
    BY <1>0
  <2>3. MovedAs(k, [k EXCEPT !.cx = 0], r, 0, k.cy)
    BY <2>2, MoveEffect, Zenon
  <2>4. MovedAs(k, j, r, 0, k.cy)
    BY <2>1, <2>3, Zenon
  <2> HIDE DEF j
  <2> QED
    BY <2>4 DEF MovedAs, j
<1>3. CASE ch = "bs" /\ k.cx = 0
  BY <1>3 DEF con_putchar_locked
<1>4. CASE ch = "bs" /\ k.cx # 0
  <2> DEFINE y == k.cx - 1
             i == [k EXCEPT !.cx = y]
  <2>1. j = Drawn(i, y, k.cy, Space)
    BY <1>4 DEF con_putchar_locked, Drawn
  <2>2. y \in 0 .. Cols - 1
    BY <1>0, <1>4
  <2> HIDE DEF y
  <2>3. MovedAs(k, i, r, y, k.cy)
    BY <1>0, <2>2, MoveEffect
  <2> HIDE DEF i, j
  <2>4. i \in Screens(r)
    BY <2>3 DEF MovedAs
  <2> QED
    BY <1>0, <2>1, <2>2, <2>4, DrawEffect DEF DrawnAs, j
<1>5. CASE ch = "tab"
  <2>1. j = con_tab(k)
    BY <1>5 DEF con_putchar_locked
  <2>2. TabStop - 1 \in 0 .. TabStop - 1
    BY ConsoleAssumption
  <2> QED
    BY <2>1, <2>2, TabRounds DEF con_tab
<1>6. CASE ch \notin Control
  <2>1. j = con_putglyph(k, ch) /\ ch \in Ch
    BY <1>6 DEF con_putchar_locked, Control, ConChar, Ch
  <2> QED
    BY <2>1, GlyphType
<1> QED
  BY <1>1, <1>2, <1>3, <1>4, <1>5, <1>6 DEF Control

\* Console k shows the sheet p, and the next character goes to the same place of both.
Agrees(k, p) == k.cx = p.col /\ Shows(k, p.paper, p.line)

\* And so it is after every character.
LEMMA PutAgrees ==
  ASSUME NEW r \in Nat \ {0}, r - 1 <= MaxLine, NEW k \in Screens(r), NEW p \in Sheets, NEW ch \in ConChar,
         p.line <= MaxLine - 1, Agrees(k, p)
  PROVE  Agrees(con_putchar_locked(k, ch), OnPaper(p, ch)) /\ Steady(k, con_putchar_locked(k, ch))
<1> DEFINE j == con_putchar_locked(k, ch)
           q == OnPaper(p, ch)
           x == k.cx
           l == p.line
           P == p.paper
           Q == q.paper
<1>0. /\ k.cx \in 0 .. Cols - 1 /\ k.cy \in 0 .. r - 1 /\ Cols \in Nat \ {0} /\ 0 \in 0 .. Cols - 1
      /\ Space \in Ch /\ MaxLine \in Nat /\ l \in Nat
  BY ScreenFields, SheetFields, ConsoleAssumption DEF Ch
<1>l. l \in 0 .. MaxLine /\ l \in 0 .. MaxLine - 1 /\ l <= MaxLine
  BY <1>0
<1>a. p.col = x /\ Shows(k, P, l)
  BY DEF Agrees
<1>s. ASSUME Filled(P, Q, l, 0, 0, Space)
      PROVE  \A i \in Screens(r), m \in 0 .. MaxLine : Shows(i, P, m) => Shows(i, Q, m)
  <2>1. \A m \in 0 .. MaxLine, a \in 0 .. Cols - 1 : Q[m][a] = P[m][a]
    BY <1>0, <1>s DEF Filled
  <2> HIDE DEF P, Q
  <2> QED
    BY <2>1, ShowsSame
<1>1. CASE ch = "nl"
  <2>1. j = con_newline_locked(k)
    BY <1>1 DEF con_putchar_locked
  <2>2. SheetAs(p, q, 0, 0, Space, 0, TRUE)
    BY <1>1, OnPaperAs
  <2>3. q.col = 0 /\ q.line = l + 1 /\ Filled(P, Q, l, 0, 0, Space)
    BY <1>l, <2>2 DEF SheetAs
  <2>4. NextLineAs(k, j, r)
    BY <2>1, NewlineEffect
  <2> HIDE DEF j, q, P, Q
  <2>5. j \in Screens(r) /\ j.cx = 0 /\ Steady(k, j)
    BY <2>4, NextLineType DEF Steady
  <2>6. Shows(j, P, l + 1)
    BY <1>a, <1>l, <2>4, NextLineShows
  <2>7. Shows(j, Q, l + 1)
    BY <1>0, <1>l, <1>s, <2>3, <2>5, <2>6
  <2> QED
    BY <2>3, <2>5, <2>7 DEF Agrees, j, q, Q
<1>2. CASE ch = "cr"
  <2>1. j = [k EXCEPT !.cx = 0]
    BY <1>2 DEF con_putchar_locked
  <2>2. SheetAs(p, q, 0, 0, Space, 0, FALSE)
    BY <1>2, OnPaperAs
  <2>3. q.col = 0 /\ q.line = l /\ Filled(P, Q, l, 0, 0, Space)
    BY <1>l, <2>2 DEF SheetAs
  <2>4. MovedAs(k, j, r, 0, k.cy)
    <3>1. 0 \in 0 .. Cols - 1 /\ k.cy \in 0 .. r - 1
      BY <1>0
    <3>2. MovedAs(k, [k EXCEPT !.cx = 0], r, 0, k.cy)
      BY <3>1, MoveEffect, Zenon
    <3> QED
      BY <2>1, <3>2, Zenon
  <2> HIDE DEF j, q, P, Q
  <2>5. j \in Screens(r) /\ j.cx = 0 /\ Steady(k, j) /\ Shows(j, P, l)
    BY <1>a, <2>4, MovedShows
  <2>6. Shows(j, Q, l)
    BY <1>l, <1>s, <2>3, <2>5
  <2> QED
    BY <2>3, <2>5, <2>6 DEF Agrees, j, q, Q
<1>3. CASE ch = "bs" /\ x = 0
  <2>1. j = k
    BY <1>3 DEF con_putchar_locked
  <2>2. SheetAs(p, q, p.col - 1, p.col, Space, IF p.col = 0 THEN 0 ELSE p.col - 1, FALSE)
    BY <1>3, OnPaperAs
  <2>3. q.col = 0 /\ q.line = l /\ Filled(P, Q, l, -1, 0, Space)
    <3>1. p.col = 0 /\ p.col - 1 = -1
      BY <1>3, <1>a
    <3> QED
      BY <1>l, <2>2, <3>1 DEF SheetAs
  <2>4. Filled(P, Q, l, 0, 0, Space)
    BY <1>0, <2>3 DEF Filled
  <2> HIDE DEF j, q, P, Q
  <2>5. Shows(k, Q, l)
    BY <1>a, <1>l, <1>s, <2>4
  <2> QED
    BY <1>3, <2>1, <2>3, <2>5 DEF Agrees, Steady, j, q, Q
<1>4. CASE ch = "bs" /\ x # 0
  <2> DEFINE y == x - 1
             i == [k EXCEPT !.cx = y]
  <2>1. j = Drawn(i, y, k.cy, Space)
    BY <1>4 DEF con_putchar_locked, Drawn
  <2>2. SheetAs(p, q, p.col - 1, p.col, Space, IF p.col = 0 THEN 0 ELSE p.col - 1, FALSE)
    BY <1>4, OnPaperAs
  <2>3. y \in 0 .. Cols - 1 /\ y + 1 = x
    BY <1>0, <1>4
  <2>4. q.col = y /\ q.line = l /\ Filled(P, Q, l, y, y + 1, Space)
    <3>1. p.col = x /\ p.col # 0 /\ p.col - 1 = y
      BY <1>4, <1>a
    <3> HIDE DEF y
    <3> QED
      BY <1>l, <2>2, <2>3, <3>1 DEF SheetAs
  <2> HIDE DEF y
  <2>5. MovedAs(k, i, r, y, k.cy)
    BY <1>0, <2>3, MoveEffect
  <2> HIDE DEF i, j, q, P, Q
  <2>6. i \in Screens(r) /\ i.cx = y /\ Steady(k, i) /\ Shows(i, P, l) /\ i.cy = k.cy
    BY <1>a, <2>5, MovedShows DEF MovedAs
  <2>7. j = Drawn(i, y, i.cy, Space)
    BY <2>1, <2>6
  <2>8. Shows(j, Q, l)
    BY <1>0, <1>l, <2>3, <2>4, <2>6, <2>7, DrawShows
  <2>9. DrawnAs(i, j, r, y, i.cy, Space)
    BY <1>0, <2>3, <2>6, <2>7, DrawEffect
  <2>10. Plain(i) => Plain(j)
    BY <1>0, <2>3, <2>6, <2>7, DrawPlain
  <2>11. Steady(i, j) /\ j.cx = y
    BY <2>6, <2>9, <2>10 DEF DrawnAs, SameCursor, Steady
  <2>12. Steady(k, j)
    BY <2>6, <2>11, SteadyTwice
  <2> QED
    BY <2>4, <2>8, <2>11, <2>12 DEF Agrees, j, q, Q
<1>5. CASE ch = "tab"
  <2>1. j = con_tab(k)
    BY <1>5 DEF con_putchar_locked
  <2>2. SheetAs(p, q, p.col, TabTo(p.col), Space, After(TabTo(p.col)), TabTo(p.col) = Cols)
    BY <1>5, OnPaperAs
  <2>3. q.col = After(TabTo(x)) /\ q.line = (IF TabTo(x) = Cols THEN l + 1 ELSE l) /\ Filled(P, Q, l, x, TabTo(x), Space)
    BY <1>a, <1>l, <2>2 DEF SheetAs
  <2>4. Steady(k, j) /\ UpToColumn(j, P, l, x, TabTo(x))
    BY <1>a, <1>l, <2>1, TabShows
  <2> HIDE DEF j, q, P, Q
  <2>5. j.cx = After(TabTo(x)) /\ Shows(j, Q, IF TabTo(x) = Cols THEN l + 1 ELSE l)
    BY <2>3, <2>4 DEF UpToColumn, After
  <2> QED
    BY <2>3, <2>4, <2>5 DEF Agrees, j, q, Q
<1>6. CASE ch \notin Control
  <2>1. j = con_putglyph(k, ch) /\ ch \in Ch
    BY <1>6 DEF con_putchar_locked, Control, ConChar, Ch
  <2>2. SheetAs(p, q, p.col, p.col + 1, ch, After(p.col + 1), p.col + 1 = Cols)
    BY <1>6, OnPaperAs
  <2>3. q.col = After(x + 1) /\ q.line = (IF x + 1 = Cols THEN l + 1 ELSE l) /\ Filled(P, Q, l, x, x + 1, ch)
    BY <1>a, <1>l, <2>2 DEF SheetAs
  <2>4. (x + 1 >= Cols) <=> (x + 1 = Cols)
    BY <1>0
  <2>5. Steady(k, j) /\ j.cx = After(x + 1)
    BY <2>1, <2>4, GlyphType DEF After
  <2>6. Shows(j, Q, IF x + 1 >= Cols THEN l + 1 ELSE l)
    BY <1>a, <1>l, <2>1, <2>3, GlyphShows
  <2> HIDE DEF j, q, P, Q
  <2>7. Shows(j, Q, q.line)
    BY <2>3, <2>4, <2>6
  <2> QED
    BY <2>3, <2>5, <2>7 DEF Agrees, j, q, Q
<1> QED
  BY <1>1, <1>2, <1>3, <1>4, <1>5, <1>6 DEF Control

-----------------------------------------------------------------------------
(* The loops of fb_console_write.                                          *)

\* The console after each character.
LEMMA WriteRounds ==
  ASSUME NEW r \in Nat \ {0}, NEW k \in Screens(r), NEW s \in Seq(ConChar)
  PROVE  /\ write_loop(k, s)[0] = k
         /\ \A i \in 0 .. Len(s) : write_loop(k, s)[i] \in Screens(r)
         /\ \A i \in 1 .. Len(s) : write_loop(k, s)[i] = con_putchar_locked(write_loop(k, s)[i - 1], s[i])
<1> DEFINE A == Screens(r)
           n == Len(s)
           b == k
           F == [i \in 1 .. n |-> [a \in A |-> con_putchar_locked(a, s[i])]]
           Loop(f) == [i \in 0 .. n |-> IF i = 0 THEN b ELSE con_putchar_locked(f[i - 1], s[i])]
           L == write_loop(k, s)
<1>1. n \in Nat /\ b \in A
  OBVIOUS
<1>2. \A a \in A, i \in 1 .. n : con_putchar_locked(a, s[i]) \in A
  BY ElementOfSeq, PutType
<1>3. F \in Rounds(A, n)
  BY <1>2 DEF Rounds
<1>4. \A a \in A, i \in 1 .. n : F[i][a] = con_putchar_locked(a, s[i])
  OBVIOUS
<1>5. L = CHOOSE f : f = Loop(f)
  BY DEF write_loop
<1> HIDE DEF A, F, b, n, L
<1>6. PICK f \in [0 .. n -> A] : f[0] = b /\ \A i \in 1 .. n : f[i] = F[i][f[i - 1]]
  <2>1. Runs(A, n, F, b)
    BY <1>1, <1>3, LoopRuns
  <2> QED
    BY <2>1 DEF Runs
<1>7. \A i \in 1 .. n : f[i] = con_putchar_locked(f[i - 1], s[i])
  <2> SUFFICES ASSUME NEW i \in 1 .. n PROVE f[i] = con_putchar_locked(f[i - 1], s[i])
    OBVIOUS
  <2>1. f[i - 1] \in A
    BY <1>1
  <2> QED
    BY <1>4, <1>6, <2>1
<1>8. f = Loop(f)
  <2>1. ASSUME NEW i \in 0 .. n PROVE f[i] = Loop(f)[i]
    <3>1. CASE i = 0
      BY <1>6, <3>1
    <3>2. CASE i # 0
      <4>1. i \in 1 .. n
        BY <1>1, <3>2
      <4> QED
        BY <1>7, <3>2, <4>1
    <3> QED
      BY <3>1, <3>2
  <2> QED
    BY <2>1
<1>9. L = Loop(L)
  BY <1>5, <1>8
<1>10. L[0] = b /\ \A i \in 1 .. n : L[i] = con_putchar_locked(L[i - 1], s[i])
  <2>1. 0 \in 0 .. n /\ \A i \in 1 .. n : i \in 0 .. n /\ i # 0
    BY <1>1
  <2>2. \A i \in 0 .. n : L[i] = IF i = 0 THEN b ELSE con_putchar_locked(L[i - 1], s[i])
    BY <1>9
  <2> QED
    BY <2>1, <2>2
<1>11. \A i \in 0 .. n : L[i] \in A
  <2> DEFINE G == {i \in Nat : L[i] \in A}
  <2>1. 0 \in G
    BY <1>1, <1>10
  <2>2. \A i \in 1 .. n : i - 1 \in G => i \in G
    <3> SUFFICES ASSUME NEW i \in 1 .. n, L[i - 1] \in A PROVE L[i] \in A
      BY <1>1
    <3>1. L[i] = con_putchar_locked(L[i - 1], s[i])
      BY <1>10
    <3> QED
      BY <1>2, <3>1
  <2> HIDE DEF G
  <2>3. n \in Nat
    BY <1>1
  <2>4. \A i \in 0 .. n : i \in G
    BY <2>1, <2>2, <2>3, UpTo, Zenon
  <2> QED
    BY <1>1, <2>4 DEF G
<1> QED
  BY <1>10, <1>11 DEF A, n, b, L

\* The paper after each character.
LEMMA PaperRounds ==
  ASSUME NEW p \in Sheets, NEW s \in Seq(ConChar)
  PROVE  /\ paper_loop(p, s)[0] = p
         /\ \A i \in 0 .. Len(s) : paper_loop(p, s)[i] \in Sheets
         /\ \A i \in 1 .. Len(s) : paper_loop(p, s)[i] = OnPaper(paper_loop(p, s)[i - 1], s[i])
<1> DEFINE A == Sheets
           n == Len(s)
           b == p
           F == [i \in 1 .. n |-> [a \in A |-> OnPaper(a, s[i])]]
           Loop(f) == [i \in 0 .. n |-> IF i = 0 THEN b ELSE OnPaper(f[i - 1], s[i])]
           L == paper_loop(p, s)
<1>1. n \in Nat /\ b \in A
  OBVIOUS
<1>2. \A a \in A, i \in 1 .. n : OnPaper(a, s[i]) \in A
  BY ElementOfSeq, OnPaperType
<1>3. F \in Rounds(A, n)
  BY <1>2 DEF Rounds
<1>4. \A a \in A, i \in 1 .. n : F[i][a] = OnPaper(a, s[i])
  OBVIOUS
<1>5. L = CHOOSE f : f = Loop(f)
  BY DEF paper_loop
<1> HIDE DEF A, F, b, n, L
<1>6. PICK f \in [0 .. n -> A] : f[0] = b /\ \A i \in 1 .. n : f[i] = F[i][f[i - 1]]
  <2>1. Runs(A, n, F, b)
    BY <1>1, <1>3, LoopRuns
  <2> QED
    BY <2>1 DEF Runs
<1>7. \A i \in 1 .. n : f[i] = OnPaper(f[i - 1], s[i])
  <2> SUFFICES ASSUME NEW i \in 1 .. n PROVE f[i] = OnPaper(f[i - 1], s[i])
    OBVIOUS
  <2>1. f[i - 1] \in A
    BY <1>1
  <2> QED
    BY <1>4, <1>6, <2>1
<1>8. f = Loop(f)
  <2>1. ASSUME NEW i \in 0 .. n PROVE f[i] = Loop(f)[i]
    <3>1. CASE i = 0
      BY <1>6, <3>1
    <3>2. CASE i # 0
      <4>1. i \in 1 .. n
        BY <1>1, <3>2
      <4> QED
        BY <1>7, <3>2, <4>1
    <3> QED
      BY <3>1, <3>2
  <2> QED
    BY <2>1
<1>9. L = Loop(L)
  BY <1>5, <1>8
<1>10. L[0] = b /\ \A i \in 1 .. n : L[i] = OnPaper(L[i - 1], s[i])
  <2>1. 0 \in 0 .. n /\ \A i \in 1 .. n : i \in 0 .. n /\ i # 0
    BY <1>1
  <2>2. \A i \in 0 .. n : L[i] = IF i = 0 THEN b ELSE OnPaper(L[i - 1], s[i])
    BY <1>9
  <2> QED
    BY <2>1, <2>2
<1>11. \A i \in 0 .. n : L[i] \in A
  <2> DEFINE G == {i \in Nat : L[i] \in A}
  <2>1. 0 \in G
    BY <1>1, <1>10
  <2>2. \A i \in 1 .. n : i - 1 \in G => i \in G
    <3> SUFFICES ASSUME NEW i \in 1 .. n, L[i - 1] \in A PROVE L[i] \in A
      BY <1>1
    <3>1. L[i] = OnPaper(L[i - 1], s[i])
      BY <1>10
    <3> QED
      BY <1>2, <3>1
  <2> HIDE DEF G
  <2>3. n \in Nat
    BY <1>1
  <2>4. \A i \in 0 .. n : i \in G
    BY <2>1, <2>2, <2>3, UpTo, Zenon
  <2> QED
    BY <1>1, <2>4 DEF G
<1> QED
  BY <1>10, <1>11 DEF A, n, b, L

\* They agree after each one, as long as there is paper.
LEMMA WriteAgrees ==
  ASSUME NEW r \in Nat \ {0}, r - 1 <= MaxLine, NEW k \in Screens(r), NEW p \in Sheets, NEW s \in Seq(ConChar),
         p.line + Len(s) <= MaxLine, Agrees(k, p)
  PROVE  /\ write_loop(k, s)[Len(s)] \in Screens(r) /\ paper_loop(p, s)[Len(s)] \in Sheets
         /\ Agrees(write_loop(k, s)[Len(s)], paper_loop(p, s)[Len(s)])
         /\ Steady(k, write_loop(k, s)[Len(s)])
         /\ paper_loop(p, s)[Len(s)].line <= p.line + Len(s)
<1> DEFINE n == Len(s)
           K == write_loop(k, s)
           S == paper_loop(p, s)
           G == {i \in Nat : Agrees(K[i], S[i]) /\ Steady(k, K[i]) /\ S[i].line <= p.line + i}
<1>0. n \in Nat /\ p.line \in Nat /\ MaxLine \in Nat
  BY SheetFields, ConsoleAssumption
<1>1. /\ K[0] = k /\ \A i \in 0 .. n : K[i] \in Screens(r)
      /\ \A i \in 1 .. n : K[i] = con_putchar_locked(K[i - 1], s[i])
  BY WriteRounds
<1>2. /\ S[0] = p /\ \A i \in 0 .. n : S[i] \in Sheets
      /\ \A i \in 1 .. n : S[i] = OnPaper(S[i - 1], s[i])
  BY PaperRounds
<1>3. p.line + n <= MaxLine /\ \A i \in 1 .. n : s[i] \in ConChar
  BY ElementOfSeq
<1> HIDE DEF K, S, n
<1>4. 0 \in G
  BY <1>0, <1>1, <1>2 DEF Steady
<1>5. ASSUME NEW i \in 1 .. n, i - 1 \in G PROVE i \in G
  <2> DEFINE a == K[i - 1]
             b == S[i - 1]
  <2>1. /\ i \in Nat /\ a \in Screens(r) /\ b \in Sheets /\ s[i] \in ConChar
        /\ K[i] = con_putchar_locked(a, s[i]) /\ S[i] = OnPaper(b, s[i])
    <3>1. i \in Nat /\ i - 1 \in 0 .. n
      BY <1>0
    <3> QED
      BY <1>1, <1>2, <1>3, <3>1
  <2>2. Agrees(a, b) /\ Steady(k, a) /\ b.line <= p.line + (i - 1)
    BY <1>5
  <2> HIDE DEF a, b
  <2>3. b.line \in Nat
    BY <2>1, SheetFields
  <2>4. b.line <= MaxLine - 1
    BY <1>0, <1>3, <2>2, <2>3
  <2>5. Agrees(K[i], S[i]) /\ Steady(a, K[i])
    BY <2>1, <2>2, <2>4, PutAgrees
  <2>6. S[i].line <= b.line + 1 /\ S[i] \in Sheets
    BY <2>1, OnPaperType
  <2>7. S[i].line \in Nat
    BY <2>6, SheetFields
  <2>8. S[i].line <= p.line + i
    BY SMTT(20), <1>0, <2>1, <2>2, <2>3, <2>6, <2>7
  <2>9. Steady(k, K[i])
    BY <2>2, <2>5, SteadyTwice
  <2> QED
    BY <2>1, <2>5, <2>8, <2>9
<1>6. n \in G
  <2> HIDE DEF G
  <2>1. n \in Nat /\ \A i \in 1 .. n : i - 1 \in G => i \in G
    BY <1>0, <1>5
  <2>2. \A i \in 0 .. n : i \in G
    BY <1>4, <2>1, UpTo, Zenon
  <2> QED
    BY <1>0, <2>2
<1>7. K[n] \in Screens(r) /\ S[n] \in Sheets
  BY <1>0, <1>1, <1>2
<1> QED
  BY <1>6, <1>7 DEF K, S, n

-----------------------------------------------------------------------------
(* The cursor.                                                             *)

\* Console j is k with the cell of an enabled cursor drawn as the grid has it.
PaintedAs(k, j, r, show) ==
  /\ j \in Screens(r) /\ SameCursor(k, j) /\ j.text = k.text
  /\ \A b \in 0 .. r - 1, a \in 0 .. Cols - 1 :
       LET here == k.enabled /\ b = k.cy /\ a = k.cx
       IN  /\ ~here => j.pix[b][a] = k.pix[b][a]
           /\ here => /\ j.pix[b][a].inv <=> show
                      /\ j.pix[b][a].ch = IF k.text = NoText THEN Space ELSE k.text[b][a]

LEMMA PaintEffect ==
  ASSUME NEW r, NEW k \in Screens(r), NEW show \in BOOLEAN
  PROVE  PaintedAs(k, con_cursor_paint_locked(k, show), r, show)
<1> DEFINE ch == con_cell_char_locked(k, k.cx, k.cy)
           c == Cell(ch, show)
           P == Put(k.pix, k.cx, k.cy, c)
           R == [rows |-> r, text |-> k.text, pix |-> P, cx |-> k.cx, cy |-> k.cy,
                 phase |-> k.phase, enabled |-> k.enabled]
<1>0. /\ k.rows = r /\ k.text \in {NoText} \cup Grid(r) /\ k.pix \in Pixels(r)
      /\ k.cx \in 0 .. Cols - 1 /\ k.cy \in 0 .. r - 1
      /\ k.phase \in BOOLEAN /\ k.enabled \in BOOLEAN
  BY ScreenFields
<1>1. CASE ~k.enabled
  <2>1. con_cursor_paint_locked(k, show) = k
    BY <1>1 DEF con_cursor_paint_locked
  <2>2. PaintedAs(k, k, r, show)
    BY <1>1 DEF PaintedAs, SameCursor
  <2> QED
    BY <2>1, <2>2
<1>2. CASE k.enabled
  <2>1. ch = (IF k.text = NoText THEN Space ELSE k.text[k.cy][k.cx]) /\ ch \in Ch
    BY <1>0 DEF con_cell_char_locked, Grid, Cells, Ch
  <2>2. c.ch = ch /\ c.inv = show /\ c \in Pixel
    BY <2>1 DEF Cell, Pixel
  <2> HIDE DEF ch, c
  <2>3. /\ P \in Pixels(r)
        /\ \A b \in 0 .. r - 1, a \in 0 .. Cols - 1 : P[b][a] = IF b = k.cy /\ a = k.cx THEN c ELSE k.pix[b][a]
    BY <1>0, <2>2, OneCell DEF Pixels
  <2>4. con_cursor_paint_locked(k, show) = R
    <3>1. con_cursor_paint_locked(k, show) = [k EXCEPT !.pix[k.cy][k.cx] = c]
      BY <1>2 DEF con_cursor_paint_locked, c, ch
    <3>2. [k EXCEPT !.pix[k.cy][k.cx] = c] = [k EXCEPT !.pix = P]
      BY DEF Put
    <3> HIDE DEF P
    <3>3. [k EXCEPT !.pix = P] = R
      BY ScreenFields
    <3> QED
      BY <3>1, <3>2, <3>3, Zenon
  <2> HIDE DEF P
  <2>5. R \in Screens(r)
    BY <1>0, <2>3, ScreenOf
  <2>6. R.text = k.text /\ R.pix = P /\ SameCursor(k, R)
    BY DEF SameCursor
  <2> HIDE DEF R
  <2>7. PaintedAs(k, R, r, show)
    BY <1>2, <2>1, <2>2, <2>3, <2>5, <2>6 DEF PaintedAs
  <2> QED
    BY <2>4, <2>7
<1> QED
  BY <1>0, <1>1, <1>2

\* Console j is k in another phase of the blinking.
PhaseAs(k, j, r, phase) ==
  /\ j \in Screens(r) /\ j.text = k.text /\ j.pix = k.pix /\ j.cx = k.cx /\ j.cy = k.cy
  /\ j.phase = phase /\ j.enabled = k.enabled

LEMMA PhaseEffect ==
  ASSUME NEW r, NEW k \in Screens(r), NEW phase \in BOOLEAN
  PROVE  PhaseAs(k, [k EXCEPT !.phase = phase], r, phase)
<1> DEFINE R == [rows |-> r, text |-> k.text, pix |-> k.pix, cx |-> k.cx, cy |-> k.cy,
                 phase |-> phase, enabled |-> k.enabled]
<1>1. [k EXCEPT !.phase = phase] = R
  BY ScreenFields
<1>2. R \in Screens(r)
  BY ScreenFields, ScreenOf
<1>3. PhaseAs(k, R, r, phase)
  BY <1>2 DEF PhaseAs
<1> QED
  BY <1>1, <1>3, Zenon

\* What is shown, and where the next character goes, stays.
Lasting(k, j, r) ==
  /\ j \in Screens(r) /\ j.cx = k.cx /\ j.cy = k.cy /\ j.enabled = k.enabled
  /\ \A P, l : Shows(k, P, l) => Shows(j, P, l)

LEMMA LastingTwice ==
  ASSUME NEW r, NEW h, NEW k, NEW j, Lasting(h, k, r), Lasting(k, j, r) PROVE Lasting(h, j, r)
BY DEF Lasting

LEMMA PhaseLasts ==
  ASSUME NEW r, NEW k \in Screens(r), NEW j, NEW phase, PhaseAs(k, j, r, phase) PROVE Lasting(k, j, r)
<1>1. k.rows = r /\ j.rows = r
  BY ScreenFields DEF PhaseAs
<1>2. ASSUME NEW P, NEW l, Shows(k, P, l) PROVE Shows(j, P, l)
  BY <1>1, <1>2 DEF Shows, OnScreen, PhaseAs
<1> QED
  BY <1>2 DEF Lasting, PhaseAs

LEMMA PaintLasts ==
  ASSUME NEW r \in Nat \ {0}, NEW k \in Screens(r), NEW j, NEW show, PaintedAs(k, j, r, show)
  PROVE  Lasting(k, j, r)
<1>1. k.rows = r /\ j.rows = r /\ j.text = k.text /\ j.cy = k.cy
  BY ScreenFields DEF PaintedAs, SameCursor
<1>2. ASSUME NEW P, NEW l, Shows(k, P, l) PROVE Shows(j, P, l)
  <2> DEFINE f == First(r, l)
  <2>1. OnScreen(k, P, r, f)
    BY <1>1, <1>2 DEF Shows
  <2> HIDE DEF f
  <2>2. ASSUME NEW y \in 0 .. r - 1, NEW x \in 0 .. Cols - 1
        PROVE  j.pix[y][x].ch = P[f + y][x] \/ (j.text = NoText /\ j.pix[y][x].ch = Space)
    <3>1. /\ k.text # NoText => k.text[y][x] = P[f + y][x]
          /\ k.pix[y][x].ch = P[f + y][x] \/ (k.text = NoText /\ k.pix[y][x].ch = Space)
      BY <2>1 DEF OnScreen
    <3>2. CASE k.enabled /\ y = k.cy /\ x = k.cx
      <4>1. j.pix[y][x].ch = IF k.text = NoText THEN Space ELSE k.text[y][x]
        BY <3>2 DEF PaintedAs
      <4> QED
        BY <1>1, <3>1, <4>1
    <3>3. CASE ~(k.enabled /\ y = k.cy /\ x = k.cx)
      <4>1. j.pix[y][x] = k.pix[y][x]
        BY <3>3 DEF PaintedAs
      <4> QED
        BY <1>1, <3>1, <4>1
    <3> QED
      BY <3>2, <3>3
  <2>3. OnScreen(j, P, r, f)
    BY <1>1, <2>1, <2>2 DEF OnScreen
  <2> QED
    BY <1>1, <1>2, <2>3 DEF Shows, f
<1> QED
  BY <1>2 DEF Lasting, PaintedAs, SameCursor

\* The cursor is taken away.
LEMMA HideEffect ==
  ASSUME NEW r \in Nat \ {0}, NEW k \in Screens(r), CursorOnly(k)
  PROVE  /\ Lasting(k, con_cursor_hide_locked(k), r)
         /\ Plain(con_cursor_hide_locked(k)) /\ con_cursor_hide_locked(k).phase = FALSE
<1> DEFINE i == con_cursor_paint_locked(k, FALSE)
           j == [i EXCEPT !.phase = FALSE]
<1>0. k.rows = r /\ k.phase \in BOOLEAN /\ k.enabled \in BOOLEAN
  BY ScreenFields
<1>1. CASE ~k.phase
  <2>1. con_cursor_hide_locked(k) = k
    BY <1>1 DEF con_cursor_hide_locked
  <2>2. Plain(k) /\ k.phase = FALSE
    BY <1>0, <1>1 DEF Plain, CursorOnly
  <2>3. Lasting(k, k, r)
    BY DEF Lasting
  <2> QED
    BY <2>1, <2>2, <2>3
<1>2. CASE k.phase
  <2>1. con_cursor_hide_locked(k) = j
    BY <1>2 DEF con_cursor_hide_locked
  <2>2. PaintedAs(k, i, r, FALSE)
    BY PaintEffect
  <2> HIDE DEF i
  <2>3. i \in Screens(r) /\ Lasting(k, i, r)
    BY <2>2, PaintLasts DEF PaintedAs
  <2>4. PhaseAs(i, j, r, FALSE)
    BY <2>3, PhaseEffect
  <2> HIDE DEF j
  <2>5. Lasting(i, j, r)
    BY <2>3, <2>4, PhaseLasts
  <2>6. Lasting(k, j, r)
    BY <2>3, <2>5, LastingTwice
  <2>7. j.rows = r /\ j.phase = FALSE /\ j.pix = i.pix
    BY <2>4, ScreenFields DEF PhaseAs
  <2>8. ASSUME NEW y \in 0 .. r - 1, NEW x \in 0 .. Cols - 1 PROVE ~i.pix[y][x].inv
    <3>1. CASE k.enabled /\ y = k.cy /\ x = k.cx
      BY <2>2, <3>1 DEF PaintedAs
    <3>2. CASE ~(k.enabled /\ y = k.cy /\ x = k.cx)
      <4>1. i.pix[y][x] = k.pix[y][x]
        BY <2>2, <3>2 DEF PaintedAs
      <4>2. ~k.pix[y][x].inv
        BY <1>0, <3>2 DEF CursorOnly
      <4> QED
        BY <4>1, <4>2
    <3> QED
      BY <3>1, <3>2
  <2>9. Plain(j)
    BY <2>7, <2>8 DEF Plain
  <2> QED
    BY <2>1, <2>6, <2>7, <2>9
<1> QED
  BY <1>0, <1>1, <1>2

\* A plain console with the cursor painted as its phase says.
LEMMA PaintCursor ==
  ASSUME NEW r \in Nat \ {0}, NEW k \in Screens(r), NEW j, NEW show \in BOOLEAN,
         \A y \in 0 .. r - 1, x \in 0 .. Cols - 1 :
           ~(k.enabled /\ y = k.cy /\ x = k.cx) => ~k.pix[y][x].inv,
         PaintedAs(k, j, r, show), NEW i \in Screens(r), i.pix = j.pix, i.phase = show,
         i.enabled = k.enabled, i.cx = k.cx, i.cy = k.cy
  PROVE  CursorOnly(i)
<1>0. i.rows = r /\ k.enabled \in BOOLEAN
  BY ScreenFields
<1>1. ASSUME NEW y \in 0 .. r - 1, NEW x \in 0 .. Cols - 1
      PROVE  i.pix[y][x].inv <=> (show /\ k.enabled /\ x = k.cx /\ y = k.cy)
  <2>1. CASE k.enabled /\ y = k.cy /\ x = k.cx
    BY <2>1 DEF PaintedAs
  <2>2. CASE ~(k.enabled /\ y = k.cy /\ x = k.cx)
    <3>1. j.pix[y][x] = k.pix[y][x]
      BY <2>2 DEF PaintedAs
    <3> QED
      BY <2>2, <3>1
  <2> QED
    BY <2>1, <2>2
<1> QED
  BY <1>0, <1>1 DEF CursorOnly

\* The cursor is shown again.
LEMMA RestartEffect ==
  ASSUME NEW r \in Nat \ {0}, NEW k \in Screens(r), CursorOnly(k)
  PROVE  Lasting(k, con_cursor_restart_locked(k), r) /\ CursorOnly(con_cursor_restart_locked(k))
<1> DEFINE h == con_cursor_hide_locked(k)
           i == con_cursor_paint_locked(h, TRUE)
           j == [i EXCEPT !.phase = TRUE]
<1>1. con_cursor_restart_locked(k) = j
  BY DEF con_cursor_restart_locked
<1>2. Lasting(k, h, r) /\ Plain(h)
  BY HideEffect
<1> HIDE DEF h
<1>3. h \in Screens(r)
  BY <1>2 DEF Lasting
<1>4. h.rows = r
  BY <1>3, ScreenFields
<1>5. PaintedAs(h, i, r, TRUE)
  BY <1>3, PaintEffect
<1> HIDE DEF i
<1>6. i \in Screens(r) /\ Lasting(h, i, r)
  BY <1>3, <1>5, PaintLasts DEF PaintedAs
<1>7. PhaseAs(i, j, r, TRUE)
  BY <1>6, PhaseEffect
<1> HIDE DEF j
<1>8. Lasting(i, j, r)
  BY <1>6, <1>7, PhaseLasts
<1>9. Lasting(k, j, r)
  BY <1>2, <1>6, <1>8, LastingTwice
<1>10. /\ j \in Screens(r) /\ j.pix = i.pix /\ j.phase = TRUE /\ j.enabled = h.enabled
       /\ j.cx = h.cx /\ j.cy = h.cy
  BY <1>5, <1>7 DEF PhaseAs, PaintedAs, SameCursor
<1>11. CursorOnly(j)
  <2>1. \A y \in 0 .. r - 1, x \in 0 .. Cols - 1 : ~h.pix[y][x].inv
    BY <1>2, <1>4 DEF Plain
  <2> QED
    BY <1>3, <1>5, <1>10, <2>1, PaintCursor
<1> QED
  BY <1>1, <1>9, <1>11

\* The cursor blinks.
LEMMA TickEffect ==
  ASSUME NEW r \in Nat \ {0}, NEW k \in Screens(r), CursorOnly(k), k.enabled
  PROVE  /\ Lasting(k, con_cursor_paint_locked([k EXCEPT !.phase = ~@], ~k.phase), r)
         /\ CursorOnly(con_cursor_paint_locked([k EXCEPT !.phase = ~@], ~k.phase))
<1> DEFINE show == ~k.phase
           i == [k EXCEPT !.phase = show]
           j == con_cursor_paint_locked(i, show)
<1>0. k.rows = r /\ show \in BOOLEAN
  BY ScreenFields
<1>1. [k EXCEPT !.phase = ~@] = i
  OBVIOUS
<1>2. PhaseAs(k, i, r, show)
  BY <1>0, PhaseEffect
<1>3. \A y \in 0 .. r - 1, x \in 0 .. Cols - 1 :
        ~(k.enabled /\ y = k.cy /\ x = k.cx) => ~k.pix[y][x].inv
  BY <1>0 DEF CursorOnly
<1> HIDE DEF show, i
<1>4. i \in Screens(r) /\ Lasting(k, i, r)
  BY <1>2, PhaseLasts DEF PhaseAs
<1>5. PaintedAs(i, j, r, show)
  BY <1>0, <1>4, PaintEffect
<1> HIDE DEF j
<1>6. j \in Screens(r) /\ Lasting(i, j, r)
  BY <1>4, <1>5, PaintLasts DEF PaintedAs
<1>7. Lasting(k, j, r)
  BY <1>4, <1>6, LastingTwice
<1>8. CursorOnly(j)
  <2>1. \A y \in 0 .. r - 1, x \in 0 .. Cols - 1 :
          ~(i.enabled /\ y = i.cy /\ x = i.cx) => ~i.pix[y][x].inv
    BY <1>2, <1>3 DEF PhaseAs
  <2>2. j.phase = show /\ j.enabled = i.enabled /\ j.cx = i.cx /\ j.cy = i.cy
    BY <1>2, <1>5 DEF PhaseAs, PaintedAs, SameCursor
  <2> QED
    BY <1>0, <1>4, <1>5, <1>6, <2>1, <2>2, PaintCursor
<1> QED
  BY <1>1, <1>7, <1>8 DEF j, show

-----------------------------------------------------------------------------
(* The empty screen and the panic page.                                    *)

\* Console j has nothing on it, and its cursor is in the corner, not shown.
BlankScreen(j, r) ==
  /\ j \in Screens(r) /\ j.cx = 0 /\ j.cy = 0 /\ j.phase = FALSE
  /\ \A y \in 0 .. r - 1, x \in 0 .. Cols - 1 :
       /\ j.text # NoText => j.text[y][x] = Space
       /\ j.pix[y][x].ch = Space /\ ~j.pix[y][x].inv

LEMMA ResetEffect ==
  ASSUME NEW r \in Nat \ {0}, NEW k, k.enabled \in BOOLEAN, NEW memory
  PROVE  BlankScreen(con_reset_full_locked(k, r, memory), r) /\ con_reset_full_locked(k, r, memory).enabled = k.enabled
<1> DEFINE T == con_text_alloc_locked(k, r, memory)
           P == [y \in 0 .. r - 1 |-> [c \in 0 .. Cols - 1 |-> Cell(Space, FALSE)]]
           R == [rows |-> r, text |-> T, pix |-> P, cx |-> 0, cy |-> 0, phase |-> FALSE, enabled |-> k.enabled]
<1>0. 0 \in 0 .. Cols - 1 /\ 0 \in 0 .. r - 1 /\ Space \in Ch /\ FALSE \in BOOLEAN
  BY ConsoleAssumption DEF Ch
<1>1. con_reset_full_locked(k, r, memory) = R
  BY DEF con_reset_full_locked
<1>2. Cell(Space, FALSE) \in Pixel /\ Cell(Space, FALSE).ch = Space /\ ~Cell(Space, FALSE).inv
  BY <1>0 DEF Cell, Pixel
<1>3. /\ P \in Pixels(r)
      /\ \A y \in 0 .. r - 1, x \in 0 .. Cols - 1 : P[y][x] = Cell(Space, FALSE)
  BY <1>2 DEF Pixels, Cells
<1>4. /\ T \in {NoText} \cup Grid(r)
      /\ T # NoText => \A y \in 0 .. r - 1, x \in 0 .. Cols - 1 : T[y][x] = Space
  BY <1>0 DEF con_text_alloc_locked, Blank, Grid, Cells
<1> HIDE DEF T, P
<1>5. R \in Screens(r)
  BY <1>0, <1>3, <1>4, ScreenOf
<1>6. R.text = T /\ R.pix = P /\ R.cx = 0 /\ R.cy = 0 /\ R.phase = FALSE /\ R.enabled = k.enabled
  OBVIOUS
<1> HIDE DEF R
<1>7. BlankScreen(R, r)
  BY <1>2, <1>3, <1>4, <1>5, <1>6 DEF BlankScreen
<1> QED
  BY <1>1, <1>6, <1>7

\* Console j is k with the cursor switched on or off.
EnabledAs(k, j, r, enabled) ==
  /\ j \in Screens(r) /\ j.text = k.text /\ j.pix = k.pix /\ j.cx = k.cx /\ j.cy = k.cy
  /\ j.phase = k.phase /\ j.enabled = enabled

LEMMA EnabledEffect ==
  ASSUME NEW r, NEW k \in Screens(r), NEW enabled \in BOOLEAN
  PROVE  EnabledAs(k, [k EXCEPT !.enabled = enabled], r, enabled)
<1> DEFINE R == [rows |-> r, text |-> k.text, pix |-> k.pix, cx |-> k.cx, cy |-> k.cy,
                 phase |-> k.phase, enabled |-> enabled]
<1>1. [k EXCEPT !.enabled = enabled] = R
  BY ScreenFields
<1>2. R \in Screens(r)
  BY ScreenFields, ScreenOf
<1>3. EnabledAs(k, R, r, enabled)
  BY <1>2 DEF EnabledAs
<1> QED
  BY <1>1, <1>3, Zenon

\* An empty screen shows an empty paper.
LEMMA BlankShows ==
  ASSUME NEW r \in Nat \ {0}, r - 1 <= MaxLine, NEW j, BlankScreen(j, r)
  PROVE  Shows(j, NoPaper, 0) /\ CursorOnly(j)
<1>0. j.rows = r /\ First(r, 0) = 0 /\ MaxLine \in Nat
  BY ScreenFields, ConsoleAssumption DEF BlankScreen, First
<1>1. \A m \in 0 .. MaxLine, x \in 0 .. Cols - 1 : NoPaper[m][x] = Space
  BY DEF NoPaper, Blank
<1>2. \A y \in 0 .. r - 1 : 0 + y \in 0 .. MaxLine
  BY <1>0
<1>3. OnScreen(j, NoPaper, r, 0)
  BY <1>1, <1>2 DEF OnScreen, BlankScreen
<1>4. BlankBelow(NoPaper, r, 0)
  BY <1>1 DEF BlankBelow
<1>5. Shows(j, NoPaper, 0)
  BY <1>0, <1>3, <1>4 DEF Shows, BlankScreen
<1>6. CursorOnly(j)
  BY <1>0 DEF CursorOnly, BlankScreen
<1> QED
  BY <1>5, <1>6

\* Console j is k with ch all over row z.
RowAs(k, j, r, z, ch) ==
  /\ j \in Screens(r) /\ SameCursor(k, j)
  /\ k.text = NoText => j.text = NoText
  /\ \A y \in 0 .. r - 1, x \in 0 .. Cols - 1 :
       /\ k.text # NoText => j.text[y][x] = IF y = z THEN ch ELSE k.text[y][x]
       /\ j.pix[y][x].ch = IF y = z THEN ch ELSE k.pix[y][x].ch
       /\ j.pix[y][x].inv => k.pix[y][x].inv

\* A row of a grid.
PutRow(G, y, row) == [G EXCEPT ![y] = row]

LEMMA OneRow ==
  ASSUME NEW r, NEW V, NEW G \in Cells(r, V), NEW y \in 0 .. r - 1, NEW row \in [0 .. Cols - 1 -> V]
  PROVE  PutRow(G, y, row) \in Cells(r, V) /\ \A b \in 0 .. r - 1 : PutRow(G, y, row)[b] = IF b = y THEN row ELSE G[b]
BY DEF PutRow, Cells

LEMMA RowEffect ==
  ASSUME NEW r \in Nat \ {0}, NEW k \in Screens(r), NEW z \in Nat, NEW ch \in Ch
  PROVE  RowAs(k, con_draw_centered_locked(k, z, ch), r, z, ch)
<1> DEFINE tr == [c \in 0 .. Cols - 1 |-> ch]
           pr == [c \in 0 .. Cols - 1 |-> Cell(ch, FALSE)]
           T == IF k.text = NoText THEN NoText ELSE PutRow(k.text, z, tr)
           P == PutRow(k.pix, z, pr)
           R == [rows |-> r, text |-> T, pix |-> P, cx |-> k.cx, cy |-> k.cy,
                 phase |-> k.phase, enabled |-> k.enabled]
           j == con_draw_centered_locked(k, z, ch)
<1>0. k.rows = r
  BY ScreenFields
<1>1. CASE z >= r
  <2>1. j = k /\ \A y \in 0 .. r - 1 : y # z
    BY <1>0, <1>1 DEF con_draw_centered_locked
  <2>2. RowAs(k, k, r, z, ch)
    BY <2>1 DEF RowAs, SameCursor
  <2> QED
    BY <2>1, <2>2
<1>2. CASE ~(z >= r)
  <2>0. z \in 0 .. r - 1
    BY <1>2
  <2>1. /\ tr \in [0 .. Cols - 1 -> Ch] /\ pr \in [0 .. Cols - 1 -> Pixel]
        /\ \A x \in 0 .. Cols - 1 : tr[x] = ch /\ pr[x].ch = ch /\ pr[x].inv = FALSE
    BY DEF Cell, Pixel
  <2>2. j = [k EXCEPT !.text = T, !.pix = P]
    <3>1. j = [k EXCEPT !.text = T, !.pix[z] = pr]
      BY <1>0, <1>2 DEF con_draw_centered_locked, PutRow
    <3>2. k.pix = [k EXCEPT !.text = T].pix
      <4> HIDE DEF T
      <4> QED
        BY ScreenFields
    <3> QED
      BY <3>1, <3>2 DEF PutRow
  <2> HIDE DEF tr, pr
  <2>3. P \in Pixels(r) /\ \A y \in 0 .. r - 1 : P[y] = IF y = z THEN pr ELSE k.pix[y]
    <3>1. k.pix \in Cells(r, Pixel)
      BY ScreenFields DEF Pixels
    <3> QED
      BY <2>0, <2>1, <3>1, OneRow DEF Pixels
  <2>4. /\ T \in {NoText} \cup Grid(r)
        /\ k.text = NoText => T = NoText
        /\ k.text # NoText => \A y \in 0 .. r - 1 : T[y] = IF y = z THEN tr ELSE k.text[y]
    <3>1. k.text # NoText => k.text \in Cells(r, Ch)
      BY ScreenFields DEF Grid
    <3> QED
      BY <2>0, <2>1, <3>1, OneRow DEF Grid
  <2> HIDE DEF T, P
  <2>5. [k EXCEPT !.text = T, !.pix = P] = R
    <3> DEFINE i == [k EXCEPT !.text = T]
    <3>1. i = [rows |-> r, text |-> T, pix |-> k.pix, cx |-> k.cx, cy |-> k.cy,
               phase |-> k.phase, enabled |-> k.enabled]
      BY ScreenFields
    <3>2. [k EXCEPT !.text = T, !.pix = P] = [i EXCEPT !.pix = P]
      OBVIOUS
    <3> HIDE DEF i
    <3>3. [i EXCEPT !.pix = P] = R
      BY <3>1
    <3> QED
      BY <3>2, <3>3, Zenon
  <2>6. R \in Screens(r)
    BY <2>3, <2>4, ScreenFields, ScreenOf
  <2>7. R.text = T /\ R.pix = P /\ SameCursor(k, R)
    BY DEF SameCursor
  <2> HIDE DEF R, j
  <2>8. \A y \in 0 .. r - 1, x \in 0 .. Cols - 1 :
          /\ k.text # NoText => R.text[y][x] = IF y = z THEN ch ELSE k.text[y][x]
          /\ R.pix[y][x].ch = IF y = z THEN ch ELSE k.pix[y][x].ch
          /\ R.pix[y][x].inv => k.pix[y][x].inv
    BY <2>1, <2>3, <2>4, <2>7
  <2>9. RowAs(k, R, r, z, ch)
    BY <2>4, <2>6, <2>7, <2>8 DEF RowAs
  <2> QED
    BY <2>2, <2>5, <2>9 DEF j
<1> QED
  BY <1>1, <1>2

\* The rows of a page, none of them twice.
PageRows == {s \in Seq(Nat \X Ch) : \A a, b \in DOMAIN s : s[a][1] = s[b][1] => a = b}

LEMMA RowsOf ==
  ASSUME NEW s \in PageRows
  PROVE  /\ s \in Seq(Nat \X Ch) /\ Len(s) \in Nat /\ DOMAIN s = 1 .. Len(s)
         /\ \A i \in 1 .. Len(s) : s[i] \in Nat \X Ch /\ s[i][1] \in Nat /\ s[i][2] \in Ch
         /\ \A a, b \in 1 .. Len(s) : s[a][1] = s[b][1] => a = b
<1>1. s \in Seq(Nat \X Ch) /\ \A a, b \in DOMAIN s : s[a][1] = s[b][1] => a = b
  BY DEF PageRows
<1>2. Len(s) \in Nat /\ DOMAIN s = 1 .. Len(s)
  BY <1>1
<1>3. \A i \in 1 .. Len(s) : s[i] \in Nat \X Ch
  BY <1>1, ElementOfSeq
<1>4. \A e \in Nat \X Ch : e[1] \in Nat /\ e[2] \in Ch
  OBVIOUS
<1>5. \A i \in 1 .. Len(s) : s[i][1] \in Nat /\ s[i][2] \in Ch
  BY <1>3, <1>4
<1> QED
  BY <1>1, <1>2, <1>3, <1>5

\* The console after each row.
LEMMA PageRounds ==
  ASSUME NEW r \in Nat \ {0}, NEW k \in Screens(r), NEW s \in PageRows
  PROVE  /\ page_loop(k, s)[0] = k
         /\ \A i \in 0 .. Len(s) : page_loop(k, s)[i] \in Screens(r)
         /\ \A i \in 1 .. Len(s) : page_loop(k, s)[i] = con_draw_centered_locked(page_loop(k, s)[i - 1], s[i][1], s[i][2])
<1> DEFINE A == Screens(r)
           n == Len(s)
           b == k
           F == [i \in 1 .. n |-> [a \in A |-> con_draw_centered_locked(a, s[i][1], s[i][2])]]
           Loop(f) == [i \in 0 .. n |-> IF i = 0 THEN b ELSE con_draw_centered_locked(f[i - 1], s[i][1], s[i][2])]
           L == page_loop(k, s)
<1>1. n \in Nat /\ b \in A
  BY RowsOf
<1>2. \A a \in A, i \in 1 .. n : con_draw_centered_locked(a, s[i][1], s[i][2]) \in A
  BY RowsOf, RowEffect DEF RowAs
<1>3. F \in Rounds(A, n)
  BY <1>2 DEF Rounds
<1>4. \A a \in A, i \in 1 .. n : F[i][a] = con_draw_centered_locked(a, s[i][1], s[i][2])
  OBVIOUS
<1>5. L = CHOOSE f : f = Loop(f)
  BY DEF page_loop
<1> HIDE DEF A, F, b, n, L
<1>6. PICK f \in [0 .. n -> A] : f[0] = b /\ \A i \in 1 .. n : f[i] = F[i][f[i - 1]]
  <2>1. Runs(A, n, F, b)
    BY <1>1, <1>3, LoopRuns
  <2> QED
    BY <2>1 DEF Runs
<1>7. \A i \in 1 .. n : f[i] = con_draw_centered_locked(f[i - 1], s[i][1], s[i][2])
  <2> SUFFICES ASSUME NEW i \in 1 .. n PROVE f[i] = con_draw_centered_locked(f[i - 1], s[i][1], s[i][2])
    OBVIOUS
  <2>1. f[i - 1] \in A
    BY <1>1
  <2> QED
    BY <1>4, <1>6, <2>1
<1>8. f = Loop(f)
  <2>1. ASSUME NEW i \in 0 .. n PROVE f[i] = Loop(f)[i]
    <3>1. CASE i = 0
      BY <1>6, <3>1
    <3>2. CASE i # 0
      <4>1. i \in 1 .. n
        BY <1>1, <3>2
      <4> QED
        BY <1>7, <3>2, <4>1
    <3> QED
      BY <3>1, <3>2
  <2> QED
    BY <2>1
<1>9. L = Loop(L)
  BY <1>5, <1>8
<1>10. L[0] = b /\ \A i \in 1 .. n : L[i] = con_draw_centered_locked(L[i - 1], s[i][1], s[i][2])
  <2>1. 0 \in 0 .. n /\ \A i \in 1 .. n : i \in 0 .. n /\ i # 0
    BY <1>1
  <2>2. \A i \in 0 .. n : L[i] = IF i = 0 THEN b ELSE con_draw_centered_locked(L[i - 1], s[i][1], s[i][2])
    BY <1>9
  <2> QED
    BY <2>1, <2>2
<1>11. \A i \in 0 .. n : L[i] \in A
  <2> DEFINE G == {i \in Nat : L[i] \in A}
  <2>1. 0 \in G
    BY <1>1, <1>10
  <2>2. \A i \in 1 .. n : i - 1 \in G => i \in G
    <3> SUFFICES ASSUME NEW i \in 1 .. n, L[i - 1] \in A PROVE L[i] \in A
      BY <1>1
    <3>1. L[i] = con_draw_centered_locked(L[i - 1], s[i][1], s[i][2])
      BY <1>10
    <3> QED
      BY <1>2, <3>1
  <2> HIDE DEF G
  <2>3. n \in Nat
    BY <1>1
  <2>4. \A i \in 0 .. n : i \in G
    BY <2>1, <2>2, <2>3, UpTo, Zenon
  <2> QED
    BY <1>1, <2>4 DEF G
<1> QED
  BY <1>10, <1>11 DEF A, n, b, L

\* Console j has the first i rows of s on it, and else nothing.
PageAs(j, r, s, i) ==
  /\ j \in Screens(r) /\ j.cx = 0 /\ j.cy = 0 /\ j.phase = FALSE
  /\ \A y \in 0 .. r - 1, x \in 0 .. Cols - 1 : ~j.pix[y][x].inv
  /\ \A m \in 1 .. i, x \in 0 .. Cols - 1 :
       s[m][1] < r =>
         /\ j.text # NoText => j.text[s[m][1]][x] = s[m][2]
         /\ j.pix[s[m][1]][x].ch = s[m][2]
  /\ \A y \in 0 .. r - 1, x \in 0 .. Cols - 1 :
       (\A m \in 1 .. i : s[m][1] # y) =>
         /\ j.text # NoText => j.text[y][x] = Space
         /\ j.pix[y][x].ch = Space

LEMMA PageStep ==
  ASSUME NEW r \in Nat \ {0}, NEW s \in PageRows, NEW i \in 1 .. Len(s), NEW k, NEW j,
         PageAs(k, r, s, i - 1), RowAs(k, j, r, s[i][1], s[i][2])
  PROVE  PageAs(j, r, s, i)
<1> DEFINE z == s[i][1]
           ch == s[i][2]
<1>0. /\ k \in Screens(r) /\ j \in Screens(r) /\ z \in Nat /\ i \in Nat /\ Len(s) \in Nat
      /\ \A m \in 1 .. Len(s) : s[m][1] \in Nat
  BY RowsOf DEF PageAs, RowAs
<1>1. j.cx = 0 /\ j.cy = 0 /\ j.phase = FALSE
  BY DEF PageAs, RowAs, SameCursor
<1>2. j.text # NoText => k.text # NoText
  BY DEF RowAs
<1>3. \A y \in 0 .. r - 1, x \in 0 .. Cols - 1 :
        /\ k.text # NoText => j.text[y][x] = IF y = z THEN ch ELSE k.text[y][x]
        /\ j.pix[y][x].ch = IF y = z THEN ch ELSE k.pix[y][x].ch
        /\ ~j.pix[y][x].inv
  BY SMTT(40) DEF PageAs, RowAs
<1>4. ASSUME NEW m \in 1 .. i, NEW x \in 0 .. Cols - 1, s[m][1] < r
      PROVE  /\ j.text # NoText => j.text[s[m][1]][x] = s[m][2]
             /\ j.pix[s[m][1]][x].ch = s[m][2]
  <2>0. m \in 1 .. Len(s) /\ s[m][1] \in 0 .. r - 1
    <3>1. m \in 1 .. Len(s)
      BY <1>0
    <3> QED
      BY <1>0, <1>4, <3>1
  <2>1. CASE m = i
    BY <1>2, <1>3, <2>0, <2>1
  <2>2. CASE m # i
    <3>1. m \in 1 .. i - 1 /\ s[m][1] # z
      <4>1. s[m][1] # z
        BY <2>0, <2>2, RowsOf
      <4> QED
        BY <1>0, <2>2, <4>1
    <3>2. /\ k.text # NoText => k.text[s[m][1]][x] = s[m][2]
          /\ k.pix[s[m][1]][x].ch = s[m][2]
      BY <1>4, <3>1 DEF PageAs
    <3> QED
      BY <1>2, <1>3, <2>0, <3>1, <3>2
  <2> QED
    BY <2>1, <2>2
<1>5. ASSUME NEW y \in 0 .. r - 1, NEW x \in 0 .. Cols - 1, \A m \in 1 .. i : s[m][1] # y
      PROVE  /\ j.text # NoText => j.text[y][x] = Space
             /\ j.pix[y][x].ch = Space
  <2>1. y # z /\ \A m \in 1 .. i - 1 : s[m][1] # y
    <3>1. i \in 1 .. i /\ \A m \in 1 .. i - 1 : m \in 1 .. i
      BY <1>0
    <3> QED
      BY <1>5, <3>1
  <2>2. /\ k.text # NoText => k.text[y][x] = Space
        /\ k.pix[y][x].ch = Space
    BY <2>1 DEF PageAs
  <2> QED
    BY <1>2, <1>3, <2>1, <2>2
<1> HIDE DEF z, ch
<1> QED
  BY <1>0, <1>1, <1>3, <1>4, <1>5 DEF PageAs

\* After all rows.
LEMMA PageEffect ==
  ASSUME NEW r \in Nat \ {0}, NEW k, BlankScreen(k, r), NEW s \in PageRows
  PROVE  PageAs(page_loop(k, s)[Len(s)], r, s, Len(s))
<1> DEFINE n == Len(s)
           K == page_loop(k, s)
           G == {i \in Nat : PageAs(K[i], r, s, i)}
<1>0. n \in Nat /\ k \in Screens(r)
  BY RowsOf DEF BlankScreen
<1>1. /\ K[0] = k /\ \A i \in 0 .. n : K[i] \in Screens(r)
      /\ \A i \in 1 .. n : K[i] = con_draw_centered_locked(K[i - 1], s[i][1], s[i][2])
  BY <1>0, PageRounds
<1> HIDE DEF K
<1>2. 0 \in G
  <2>1. PageAs(k, r, s, 0)
    BY DEF PageAs, BlankScreen
  <2> QED
    BY <1>1, <2>1
<1>3. ASSUME NEW i \in 1 .. n, i - 1 \in G PROVE i \in G
  <2>1. i \in Nat /\ i - 1 \in 0 .. n
    BY <1>0
  <2>2. K[i - 1] \in Screens(r) /\ s[i][1] \in Nat /\ s[i][2] \in Ch
    BY <1>1, <2>1, RowsOf
  <2>3. RowAs(K[i - 1], K[i], r, s[i][1], s[i][2])
    BY <1>1, <2>2, RowEffect
  <2>4. PageAs(K[i - 1], r, s, i - 1)
    BY <1>3
  <2>5. PageAs(K[i], r, s, i)
    BY <2>3, <2>4, PageStep
  <2> QED
    BY <2>1, <2>5
<1>4. n \in G
  <2> HIDE DEF G, n
  <2>1. n \in Nat /\ \A i \in 1 .. n : i - 1 \in G => i \in G
    BY <1>0, <1>3
  <2>2. \A i \in 0 .. n : i \in G
    BY <1>2, <2>1, UpTo, Zenon
  <2> QED
    BY <1>0, <2>2
<1> QED
  BY <1>4 DEF K

\* The rows of the panic page are below each other.
LEMMA PanicRowsOf ==
  ASSUME NEW r \in Nat \ {0}, NEW n \in Nat
  PROVE  PanicRows(r, n) \in PageRows
<1> DEFINE lines == PanicLines(r, n)
           row == IF lines + 4 < r THEN (r - (lines + 4)) \div 2 ELSE 0
           head == <<<<row, "T">>>>
           mid == [i \in 1 .. lines |-> <<row + 1 + i, "M">>]
           foot == <<<<row + lines + 3, "H">>>>
           s == PanicRows(r, n)
<1>1. lines \in Nat
  BY DEF PanicLines
<1> HIDE DEF lines
<1>2. row \in Nat
  BY <1>1
<1>3. s = head \o mid \o foot
  BY DEF PanicRows, lines
<1> HIDE DEF row
<1>4. "T" \in Ch /\ "M" \in Ch /\ "H" \in Ch
  BY DEF Ch
<1>5. /\ head \in Seq(Nat \X Ch) /\ Len(head) = 1 /\ head[1] = <<row, "T">>
      /\ foot \in Seq(Nat \X Ch) /\ Len(foot) = 1 /\ foot[1] = <<row + lines + 3, "H">>
  BY <1>1, <1>2, <1>4
<1>6. mid \in Seq(Nat \X Ch) /\ Len(mid) = lines /\ \A i \in 1 .. lines : mid[i] = <<row + 1 + i, "M">>
  BY <1>1, <1>2, <1>4
<1> HIDE DEF head, mid, foot, s
<1> DEFINE both == head \o mid
           at(i) == IF i = 1 THEN row ELSE IF i = lines + 2 THEN row + lines + 3 ELSE row + i
<1>7. both \in Seq(Nat \X Ch) /\ Len(both) = 1 + lines
      /\ \A i \in 1 .. 1 + lines : both[i] = IF i <= 1 THEN head[i] ELSE mid[i - 1]
  <2>1. /\ both \in Seq(Nat \X Ch) /\ Len(both) = Len(head) + Len(mid)
        /\ \A i \in 1 .. Len(head) + Len(mid) : both[i] = IF i <= Len(head) THEN head[i] ELSE mid[i - Len(head)]
    BY <1>5, <1>6, ConcatProperties, ZenonT(30)
  <2> HIDE DEF both
  <2> QED
    BY <1>5, <1>6, <2>1
<1> HIDE DEF both
<1>8. s \in Seq(Nat \X Ch) /\ Len(s) = lines + 2
      /\ \A i \in 1 .. lines + 2 : s[i] = IF i <= lines + 1 THEN both[i] ELSE foot[i - (lines + 1)]
  <2>1. s = both \o foot
    BY <1>3 DEF both
  <2>2. Len(both) + Len(foot) = lines + 2 /\ Len(both) = lines + 1
    BY <1>1, <1>5, <1>7
  <2>3. /\ s \in Seq(Nat \X Ch) /\ Len(s) = Len(both) + Len(foot)
        /\ \A i \in 1 .. Len(both) + Len(foot) : s[i] = IF i <= Len(both) THEN both[i] ELSE foot[i - Len(both)]
    BY <1>5, <1>7, <2>1, ConcatProperties
  <2> QED
    BY <2>2, <2>3
<1>9. ASSUME NEW i \in 1 .. lines + 2 PROVE s[i][1] = at(i)
  <2>1. CASE i = 1
    <3>1. s[1] = head[1]
      BY <1>1, <1>7, <1>8, <2>1
    <3> QED
      BY <1>5, <2>1, <3>1
  <2>2. CASE i = lines + 2
    <3>1. s[i] = foot[1]
      <4>1. ~(i <= lines + 1) /\ i - (lines + 1) = 1
        BY <1>1, <2>2
      <4> QED
        BY <1>8, <4>1
    <3> QED
      BY <1>1, <1>5, <2>2, <3>1
  <2>3. CASE i # 1 /\ i # lines + 2
    <3>0. i \in Nat /\ i <= lines + 1 /\ ~(i <= 1) /\ i \in 1 .. 1 + lines /\ i - 1 \in 1 .. lines
      BY <1>1, <2>3
    <3>1. s[i] = mid[i - 1]
      BY <1>7, <1>8, <3>0
    <3>2. mid[i - 1][1] = row + 1 + (i - 1)
      BY <1>6, <3>0
    <3> QED
      BY <1>2, <2>3, <3>0, <3>1, <3>2
  <2> QED
    BY <2>1, <2>2, <2>3
<1>10. \A a, b \in 1 .. lines + 2 : s[a][1] = s[b][1] => a = b
  BY <1>1, <1>2, <1>9
<1> QED
  BY <1>1, <1>8, <1>10 DEF PageRows, s

\* What is on a line of the paper of a page.
LEMMA PageLine ==
  ASSUME NEW s \in PageRows, NEW l \in 0 .. MaxLine
  PROVE  /\ PagePaper(s)[l] \in Row
         /\ \A i \in 1 .. Len(s), x \in 0 .. Cols - 1 :
              s[i][1] = l /\ l < FullRows => PagePaper(s)[l][x] = s[i][2]
         /\ (l >= FullRows \/ \A i \in 1 .. Len(s) : s[i][1] # l) =>
              \A x \in 0 .. Cols - 1 : PagePaper(s)[l][x] = Space
<1> DEFINE P == PagePaper(s)
           at == {i \in DOMAIN s : s[i][1] = l}
           m == CHOOSE i \in at : TRUE
<1>0. /\ DOMAIN s = 1 .. Len(s) /\ MaxLine \in Nat /\ FullRows \in Nat
      /\ \A i \in 1 .. Len(s) : s[i][2] \in Ch
      /\ \A a, b \in 1 .. Len(s) : s[a][1] = s[b][1] => a = b
  BY RowsOf, ConsoleAssumption
<1>1. /\ Blank \in Row /\ DOMAIN Blank = 0 .. Cols - 1
      /\ \A x \in 0 .. Cols - 1 : Blank[x] = Space
  BY DEF Blank, Row, Ch
<1>2. P[l] = IF l < FullRows /\ at # {}
             THEN [c \in DOMAIN Blank |-> s[m][2]] ELSE Blank
  BY DEF PagePaper
<1> HIDE DEF P
<1>3. CASE l < FullRows /\ at # {}
  <2>1. m \in 1 .. Len(s) /\ s[m][1] = l
    BY <1>0, <1>3
  <2> HIDE DEF m, at
  <2>2. P[l] = [c \in 0 .. Cols - 1 |-> s[m][2]]
    BY <1>1, <1>2, <1>3
  <2>3. P[l] \in Row /\ \A x \in 0 .. Cols - 1 : P[l][x] = s[m][2]
    BY <1>0, <2>1, <2>2 DEF Row
  <2>4. \A i \in 1 .. Len(s) : s[i][1] = l => i = m
    BY <1>0, <2>1
  <2>5. l < FullRows
    BY <1>3
  <2>6. ~(l >= FullRows \/ \A i \in 1 .. Len(s) : s[i][1] # l)
    BY <1>0, <2>1, <2>5
  <2> QED
    BY <2>3, <2>4, <2>6 DEF P
<1>4. CASE ~(l < FullRows /\ at # {})
  <2>1. P[l] = Blank
    BY <1>2, <1>4
  <2>2. \A i \in 1 .. Len(s) : ~(s[i][1] = l /\ l < FullRows)
    BY <1>0, <1>4
  <2> QED
    BY <1>1, <2>1, <2>2 DEF P
<1> QED
  BY <1>3, <1>4

\* The console with the page on it shows that paper.
LEMMA PageShows ==
  ASSUME NEW s \in PageRows, NEW j, PageAs(j, FullRows, s, Len(s))
  PROVE  PagePaper(s) \in Papers /\ Shows(j, PagePaper(s), 0) /\ Plain(j)
<1> DEFINE P == PagePaper(s)
           r == FullRows
<1>0. j.rows = r /\ First(r, 0) = 0 /\ MaxLine \in Nat /\ r \in Nat \ {0} /\ r - 1 <= MaxLine
  BY ScreenFields, ConsoleAssumption DEF PageAs, First
<1>1. P \in Papers
  <2>1. \A l \in 0 .. MaxLine : P[l] \in Row
    BY PageLine
  <2> QED
    BY <2>1 DEF PagePaper, Papers
<1>2. \A l \in 0 .. MaxLine, i \in 1 .. Len(s), x \in 0 .. Cols - 1 :
        s[i][1] = l /\ l < r => P[l][x] = s[i][2]
  BY PageLine
<1>3. \A l \in 0 .. MaxLine, x \in 0 .. Cols - 1 :
        (l >= r \/ \A i \in 1 .. Len(s) : s[i][1] # l) => P[l][x] = Space
  BY PageLine
<1> HIDE DEF P
<1>4. ASSUME NEW y \in 0 .. r - 1, NEW x \in 0 .. Cols - 1
      PROVE  /\ j.text # NoText => j.text[y][x] = P[y][x]
             /\ j.pix[y][x].ch = P[y][x]
  <2>0. y \in 0 .. MaxLine /\ y < r
    BY <1>0
  <2>1. CASE \E i \in 1 .. Len(s) : s[i][1] = y
    <3>1. PICK i \in 1 .. Len(s) : s[i][1] = y
      BY <2>1
    <3>2. P[y][x] = s[i][2]
      BY <1>2, <2>0, <3>1
    <3>3. /\ j.text # NoText => j.text[y][x] = s[i][2]
          /\ j.pix[y][x].ch = s[i][2]
      BY <2>0, <3>1 DEF PageAs
    <3> QED
      BY <3>2, <3>3
  <2>2. CASE \A i \in 1 .. Len(s) : s[i][1] # y
    <3>1. P[y][x] = Space
      BY <1>3, <2>0, <2>2
    <3>2. /\ j.text # NoText => j.text[y][x] = Space
          /\ j.pix[y][x].ch = Space
      BY <2>2 DEF PageAs
    <3> QED
      BY <3>1, <3>2
  <2> QED
    BY <2>1, <2>2
<1>5. \A y \in 0 .. r - 1 : 0 + y = y
  BY <1>0
<1>6. OnScreen(j, P, r, 0)
  BY <1>4, <1>5 DEF OnScreen
<1>7. BlankBelow(P, r, 0)
  BY <1>3 DEF BlankBelow
<1>8. Shows(j, P, 0)
  BY <1>0, <1>6, <1>7 DEF Shows, PageAs
<1>9. Plain(j)
  BY <1>0 DEF Plain, PageAs
<1> QED
  BY <1>1, <1>8, <1>9 DEF P

-----------------------------------------------------------------------------
(* The invariant.                                                          *)

\* Console k of r rows shows the sheet p, and its cursor where p ends.
Good(r, k, p) ==
  /\ k \in Screens(r) /\ p \in Sheets /\ p.line \in 0 .. MaxLine
  /\ Agrees(k, p) /\ CursorOnly(k)

Sheet(P, l, c) == [paper |-> P, line |-> l, col |-> c]

\* Before the first entry the cursor is off; after it the screen shows the history.
ConInv ==
  /\ s_ready \in BOOLEAN
  /\ ~s_ready => con.enabled = FALSE
  /\ s_ready => \E r \in {BootRows, FullRows} : Good(r, con, Sheet(paper, line, col))

\* The two layouts.
LEMMA Layouts ==
  ASSUME NEW r \in {BootRows, FullRows} PROVE r \in Nat \ {0} /\ r - 1 <= MaxLine
BY ConsoleAssumption

LEMMA KeepsGood ==
  ASSUME NEW r, NEW k, NEW j, NEW p, Good(r, k, p), Lasting(k, j, r), CursorOnly(j)
  PROVE  Good(r, j, p)
BY DEF Good, Lasting, Agrees

\* An empty console with an empty sheet.
LEMMA FreshGood ==
  ASSUME NEW r \in {BootRows, FullRows}, NEW j, BlankScreen(j, r)
  PROVE  Good(r, j, Sheet(NoPaper, 0, 0))
<1>1. Shows(j, NoPaper, 0) /\ CursorOnly(j)
  BY Layouts, BlankShows
<1>2. NoPaper \in [0 .. MaxLine -> Row] /\ 0 \in 0 .. Cols - 1 /\ 0 \in 0 .. MaxLine
  BY ConsoleAssumption DEF NoPaper, Blank, Row, Ch
<1>3. Sheet(NoPaper, 0, 0) \in Sheets
  BY <1>2 DEF Sheet, Sheets
<1>4. Sheet(NoPaper, 0, 0).paper = NoPaper /\ Sheet(NoPaper, 0, 0).line = 0 /\ Sheet(NoPaper, 0, 0).col = 0
  BY DEF Sheet
<1> QED
  BY <1>1, <1>2, <1>3, <1>4 DEF Good, Agrees, BlankScreen

\* The cursor is shown on a console that shows its sheet.
LEMMA RestartGood ==
  ASSUME NEW r \in {BootRows, FullRows}, NEW k, NEW p, Good(r, k, p)
  PROVE  Good(r, con_cursor_restart_locked(k), p)
<1>1. k \in Screens(r) /\ CursorOnly(k) /\ r \in Nat \ {0}
  BY Layouts DEF Good
<1>2. Lasting(k, con_cursor_restart_locked(k), r) /\ CursorOnly(con_cursor_restart_locked(k))
  BY <1>1, RestartEffect
<1> QED
  BY <1>2, KeepsGood

\* fb_console_write on a console that shows its sheet.
LEMMA WriteGood ==
  ASSUME NEW r \in {BootRows, FullRows}, NEW k, NEW p, Good(r, k, p), NEW s \in Seq(ConChar),
         p.line + Len(s) <= MaxLine
  PROVE  Good(r, write_loop(con_cursor_hide_locked(k), s)[Len(s)], paper_loop(p, s)[Len(s)])
<1> DEFINE h == con_cursor_hide_locked(k)
           j == write_loop(h, s)[Len(s)]
           q == paper_loop(p, s)[Len(s)]
<1>1. /\ k \in Screens(r) /\ CursorOnly(k) /\ r \in Nat \ {0} /\ r - 1 <= MaxLine
      /\ p \in Sheets /\ Agrees(k, p)
  BY Layouts DEF Good
<1>2. Lasting(k, h, r) /\ Plain(h) /\ h.phase = FALSE
  BY <1>1, HideEffect
<1> HIDE DEF h
<1>3. h \in Screens(r) /\ Agrees(h, p)
  BY <1>1, <1>2 DEF Lasting, Agrees
<1>4. j \in Screens(r) /\ q \in Sheets /\ Agrees(j, q) /\ Steady(h, j) /\ q.line <= p.line + Len(s)
  BY <1>1, <1>3, WriteAgrees
<1> HIDE DEF j, q
<1>5. q.line \in Nat /\ p.line \in Nat /\ Len(s) \in Nat /\ MaxLine \in Nat
  BY <1>1, <1>4, SheetFields, ConsoleAssumption
<1>6. q.line \in 0 .. MaxLine
  BY <1>4, <1>5
<1>7. Plain(j) /\ j.phase = FALSE
  BY <1>2, <1>4 DEF Steady
<1>8. CursorOnly(j)
  BY <1>7 DEF CursorOnly, Plain
<1> QED
  BY <1>4, <1>6, <1>8 DEF Good, j, q, h

\* The panic page.
LEMMA PanicGood ==
  ASSUME NEW k, k.enabled \in BOOLEAN, NEW memory, NEW n \in Nat
  PROVE  LET s == PanicRows(FullRows, n)
             page == page_loop(con_reset_full_locked(k, FullRows, memory), s)[Len(s)]
         IN  Good(FullRows, [page EXCEPT !.enabled = FALSE], Sheet(PagePaper(s), 0, 0))
<1> DEFINE s == PanicRows(FullRows, n)
           h == con_reset_full_locked(k, FullRows, memory)
           page == page_loop(h, s)[Len(s)]
           j == [page EXCEPT !.enabled = FALSE]
           p == Sheet(PagePaper(s), 0, 0)
<1>0. FullRows \in Nat \ {0} /\ 0 \in 0 .. Cols - 1 /\ 0 \in 0 .. MaxLine
  BY ConsoleAssumption
<1>1. s \in PageRows
  BY <1>0, PanicRowsOf
<1> HIDE DEF s
<1>2. BlankScreen(h, FullRows)
  BY <1>0, ResetEffect
<1> HIDE DEF h
<1>3. PageAs(page, FullRows, s, Len(s))
  BY <1>0, <1>1, <1>2, PageEffect
<1> HIDE DEF page
<1>4. PagePaper(s) \in Papers /\ Shows(page, PagePaper(s), 0) /\ Plain(page)
  BY <1>1, <1>3, PageShows
<1>5. page \in Screens(FullRows) /\ page.cx = 0 /\ page.phase = FALSE
  BY <1>3 DEF PageAs
<1>6. EnabledAs(page, j, FullRows, FALSE)
  BY <1>5, EnabledEffect
<1> HIDE DEF j
<1>7. /\ j \in Screens(FullRows) /\ j.cx = 0 /\ j.phase = FALSE /\ j.rows = FullRows /\ page.rows = FullRows
      /\ j.pix = page.pix /\ j.text = page.text /\ j.cy = page.cy
  BY <1>5, <1>6, ScreenFields DEF EnabledAs
<1>8. Shows(j, PagePaper(s), 0)
  BY <1>4, <1>7 DEF Shows, OnScreen
<1>9. CursorOnly(j)
  BY <1>4, <1>7 DEF Plain, CursorOnly
<1>10. p \in Sheets /\ p.paper = PagePaper(s) /\ p.line = 0 /\ p.col = 0
  BY <1>0, <1>4 DEF Sheet, Sheets, Papers
<1> HIDE DEF p
<1>11. Good(FullRows, j, p)
  BY <1>0, <1>7, <1>8, <1>9, <1>10 DEF Good, Agrees
<1> QED
  BY <1>11 DEF j, p, page, h, s

ConsoleSpec == ConsoleInit /\ [][ConsoleNext]_consoleVars

\* One step per entry of the console.
LEMMA ConStep == ConInv /\ [ConsoleNext]_consoleVars => ConInv'
<1> DEFINE p == Sheet(paper, line, col)
<1> SUFFICES ASSUME ConInv, [ConsoleNext]_consoleVars PROVE ConInv'
  OBVIOUS
<1>0. con.enabled \in BOOLEAN
  <2>1. CASE s_ready
    <3>1. PICK r \in {BootRows, FullRows} : Good(r, con, p)
      BY <2>1 DEF ConInv
    <3> QED
      BY <3>1, ScreenFields DEF Good
  <2>2. CASE ~s_ready
    BY <2>2 DEF ConInv
  <2> QED
    BY <2>1, <2>2
<1>1. ASSUME NEW memory \in BOOLEAN, fb_console_init_boot(memory) PROVE ConInv'
  <2> DEFINE h == con_reset_full_locked(con, BootRows, memory)
             k == [h EXCEPT !.enabled = TRUE]
  <2>0. BootRows \in Nat \ {0} /\ BootRows \in {BootRows, FullRows}
    BY Layouts
  <2>1. s_ready' = TRUE /\ con' = con_cursor_restart_locked(k) /\ paper' = NoPaper /\ line' = 0 /\ col' = 0
    BY <1>1 DEF fb_console_init_boot, FreshPaper
  <2>2. BlankScreen(h, BootRows)
    BY <1>0, <2>0, ResetEffect
  <2> HIDE DEF h
  <2>3. EnabledAs(h, k, BootRows, TRUE)
    BY <2>2, EnabledEffect DEF BlankScreen
  <2> HIDE DEF k
  <2>4. BlankScreen(k, BootRows)
    BY <2>2, <2>3 DEF EnabledAs, BlankScreen
  <2>5. Good(BootRows, con_cursor_restart_locked(k), Sheet(NoPaper, 0, 0))
    BY <2>0, <2>4, FreshGood, RestartGood
  <2> QED
    BY <2>0, <2>1, <2>5 DEF ConInv
<1>2. ASSUME NEW memory \in BOOLEAN, fb_console_clear_full(memory) PROVE ConInv'
  <2> DEFINE h == con_reset_full_locked(con, FullRows, memory)
  <2>0. FullRows \in Nat \ {0} /\ FullRows \in {BootRows, FullRows}
    BY Layouts
  <2>1. s_ready' = s_ready /\ s_ready /\ con' = con_cursor_restart_locked(h) /\ paper' = NoPaper /\ line' = 0 /\ col' = 0
    BY <1>2 DEF fb_console_clear_full, FreshPaper
  <2>2. BlankScreen(h, FullRows)
    BY <1>0, <2>0, ResetEffect
  <2> HIDE DEF h
  <2>3. Good(FullRows, con_cursor_restart_locked(h), Sheet(NoPaper, 0, 0))
    BY <2>0, <2>2, FreshGood, RestartGood
  <2> QED
    BY <2>0, <2>1, <2>3 DEF ConInv
<1>3. ASSUME NEW memory \in BOOLEAN, NEW n \in 0 .. MaxMsg, fb_console_panic_page(n, memory) PROVE ConInv'
  <2> DEFINE s == PanicRows(FullRows, n)
             page == page_loop(con_reset_full_locked(con, FullRows, memory), s)[Len(s)]
             j == [page EXCEPT !.enabled = FALSE]
  <2>1. s_ready' = s_ready /\ s_ready /\ con' = j /\ paper' = PagePaper(s) /\ line' = 0 /\ col' = 0
    BY <1>3 DEF fb_console_panic_page
  <2>2. n \in Nat
    BY ConsoleAssumption
  <2>3. Good(FullRows, j, Sheet(PagePaper(s), 0, 0))
    BY <1>0, <2>2, PanicGood
  <2> HIDE DEF s, page, j
  <2> QED
    BY <2>1, <2>3 DEF ConInv
<1>4. ASSUME NEW s \in Writes, fb_console_write(s) PROVE ConInv'
  <2> DEFINE q == paper_loop(p, s)[Len(s)]
             w == write_loop(con_cursor_hide_locked(con), s)[Len(s)]
  <2>1. /\ s_ready' = s_ready /\ s_ready /\ con' = con_cursor_restart_locked(w) /\ line + Len(s) <= MaxLine
        /\ paper' = q.paper /\ line' = q.line /\ col' = q.col
    BY <1>4 DEF fb_console_write, Sheet
  <2>2. s \in Seq(ConChar)
    BY ConsoleAssumption DEF ConChar
  <2>3. PICK r \in {BootRows, FullRows} : Good(r, con, p)
    BY <2>1 DEF ConInv
  <2>4. p.line + Len(s) <= MaxLine
    BY <2>1 DEF Sheet
  <2>5. Good(r, w, q)
    BY <2>2, <2>3, <2>4, WriteGood
  <2> HIDE DEF p, q, w
  <2>6. Good(r, con_cursor_restart_locked(w), q)
    BY <2>5, RestartGood
  <2>7. q = Sheet(q.paper, q.line, q.col)
    BY <2>5 DEF Good, Sheets, Sheet
  <2>8. Good(r, con', Sheet(paper', line', col'))
    BY <2>1, <2>6, <2>7
  <2> QED
    BY <2>1, <2>8 DEF ConInv
<1>5. ASSUME fb_console_tick PROVE ConInv'
  <2> DEFINE j == con_cursor_paint_locked([con EXCEPT !.phase = ~@], ~con.phase)
  <2>1. s_ready' = s_ready /\ s_ready /\ con.enabled /\ con' = j /\ paper' = paper /\ line' = line /\ col' = col
    BY <1>5 DEF fb_console_tick
  <2>2. PICK r \in {BootRows, FullRows} : Good(r, con, p)
    BY <2>1 DEF ConInv
  <2>3. con \in Screens(r) /\ CursorOnly(con) /\ r \in Nat \ {0}
    BY <2>2, Layouts DEF Good
  <2>4. Lasting(con, j, r) /\ CursorOnly(j)
    BY <2>1, <2>3, TickEffect
  <2> HIDE DEF j
  <2>5. Good(r, j, p)
    BY <2>2, <2>4, KeepsGood
  <2> QED
    BY <2>1, <2>5 DEF ConInv
<1>6. CASE UNCHANGED consoleVars
  BY <1>6 DEF consoleVars, ConInv
<1> QED
  BY <1>1, <1>2, <1>3, <1>4, <1>5, <1>6 DEF ConsoleNext

LEMMA SameRow ==
  ASSUME NEW a \in Row, NEW b \in Row, \A x \in 0 .. Cols - 1 : a[x] = b[x] PROVE a = b
<1>1. DOMAIN a = 0 .. Cols - 1 /\ DOMAIN b = 0 .. Cols - 1
  BY DEF Row
<1>2. a = [x \in DOMAIN a |-> a[x]] /\ b = [x \in DOMAIN b |-> b[x]]
  BY DEF Row
<1> QED
  BY <1>1, <1>2

\* What the invariant says of the rows and the pixels.
LEMMA ConShows == ConInv => ScreenExact
<1> DEFINE p == Sheet(paper, line, col)
<1> SUFFICES ASSUME ConInv, s_ready PROVE ScreenExact
  BY DEF ScreenExact, PaperExact, PixelsExact
<1>1. PICK r \in {BootRows, FullRows} : Good(r, con, p)
  BY DEF ConInv
<1>2. /\ con \in Screens(r) /\ p \in Sheets /\ line \in 0 .. MaxLine /\ paper \in Papers
      /\ con.cx = col /\ Shows(con, paper, line) /\ CursorOnly(con)
      /\ r \in Nat \ {0} /\ r - 1 <= MaxLine
  BY <1>1, Layouts DEF Good, Sheet, Sheets, Agrees, Papers
<1>3. con.rows = r /\ (con.text # NoText => con.text \in Grid(r))
  BY <1>2, ScreenFields
<1>4. Top = First(r, line) /\ con.cy = line - Top /\ OnScreen(con, paper, r, Top)
  <2>1. Top = First(r, line)
    BY <1>3 DEF Top, First
  <2> QED
    BY <1>2, <1>3, <2>1 DEF Shows
<1>5. \A y \in 0 .. r - 1 : Top + y \in 0 .. MaxLine
  BY <1>2, <1>4, Window
<1> DEFINE f == Top
<1>6. OnScreen(con, paper, r, f) /\ \A y \in 0 .. r - 1 : f + y \in 0 .. MaxLine
  BY <1>4, <1>5
<1>7. PaperExact
  <2> HIDE DEF f
  <2>1. ASSUME con.text # NoText, NEW y \in 0 .. r - 1 PROVE con.text[y] = paper[f + y]
    <3>1. con.text[y] \in Row /\ paper[f + y] \in Row
      BY <1>2, <1>3, <1>6, <2>1 DEF Grid, Cells, Row, Papers
    <3>2. \A x \in 0 .. Cols - 1 : con.text[y][x] = paper[f + y][x]
      BY <1>6, <2>1 DEF OnScreen
    <3> QED
      BY <3>1, <3>2, SameRow
  <2>2. /\ con.cx = col /\ con.cy = line - Top
        /\ con.text # NoText => \A y \in 0 .. con.rows - 1 : con.text[y] = paper[Top + y]
    BY <1>2, <1>3, <1>4, <2>1 DEF f
  <2> QED
    BY <2>2 DEF PaperExact
<1>8. PixelsExact
  <2>1. \A y \in 0 .. con.rows - 1, x \in 0 .. Cols - 1 :
          con.pix[y][x].inv <=> (con.phase /\ con.enabled /\ x = con.cx /\ y = con.cy)
    BY <1>2 DEF CursorOnly
  <2>2. \A y \in 0 .. con.rows - 1, x \in 0 .. Cols - 1 :
          con.pix[y][x].ch = paper[Top + y][x] \/ (con.text = NoText /\ con.pix[y][x].ch = Space)
    BY <1>3, <1>4 DEF OnScreen
  <2> QED
    BY <2>1, <2>2 DEF PixelsExact
<1> QED
  BY <1>7, <1>8 DEF ScreenExact

\* Whatever is written, and however the cursor's blinking, the switch to the full
\* screen and a panic page come between the writes, the grid of characters and the
\* pixels show the end of what was printed, with the cursor where the next character
\* goes: for every size of screen, every tab stop and all texts.
THEOREM ScreenCorrect == ConsoleSpec => []ScreenExact
<1>1. ConsoleInit => ConInv
  <2> SUFFICES ASSUME ConsoleInit PROVE ConInv
    OBVIOUS
  <2>1. s_ready = FALSE /\ con.enabled = FALSE
    BY DEF ConsoleInit
  <2> QED
    BY <2>1, Zenon DEF ConInv
<1> QED
  BY <1>1, ConStep, ConShows, PTL DEF ConsoleSpec

-----------------------------------------------------------------------------
(* ext4: where records begin.                                              *)

\* A set of positions that has 0 and with a record the one after it.
Chained(R, S) ==
  /\ S \subseteq DOMAIN R /\ 0 \in S
  /\ \A q \in S : q + R[q].rec \in DOMAIN R => q + R[q].rec \in S

\* Starts is the least of them.
LEMMA StartsLeast ==
  ASSUME NEW R, NEW S, Chained(R, S), NEW p \in Starts(R)
  PROVE  p \in S
BY DEF Chained, Starts

\* And it is one.
LEMMA StartsChained ==
  ASSUME NEW R, RecordsSound(R)
  PROVE  Chained(R, Starts(R))
<1>1. Starts(R) \subseteq DOMAIN R
  BY DEF Starts
<1>2. 0 \in Starts(R)
  BY DEF Starts, RecordsSound
<1>3. ASSUME NEW q \in Starts(R), q + R[q].rec \in DOMAIN R PROVE q + R[q].rec \in Starts(R)
  <2> DEFINE n == q + R[q].rec
  <2>1. ASSUME NEW S \in SUBSET DOMAIN R, 0 \in S,
               \A x \in S : x + R[x].rec \in DOMAIN R => x + R[x].rec \in S
        PROVE  n \in S
    <3>1. q \in S
      BY <2>1, StartsLeast DEF Chained
    <3> QED
      BY <1>3, <2>1, <3>1
  <2> QED
    BY <1>3, <2>1 DEF Starts
<1> QED
  BY <1>1, <1>2, <1>3 DEF Chained

\* No record begins inside another.
LEMMA StartsApart ==
  ASSUME NEW R, RecordsSound(R), NEW p \in Starts(R), NEW q \in Starts(R), p < q
  PROVE  p + R[p].rec <= q
<1> DEFINE St == Starts(R)
           End(x) == x + R[x].rec
           Before(x) == \A y \in St : y < x => End(y) <= x
           Ahead(x) == \A y \in St : x < y => End(x) <= y
           S == {x \in St : Before(x)}
<1>1. /\ St \subseteq DOMAIN R /\ 0 \in St
      /\ \A x \in St : End(x) \in DOMAIN R => End(x) \in St
  BY StartsChained DEF Chained
<1>2. \A x \in DOMAIN R : x \in Nat /\ R[x].rec \in Nat
  BY DEF RecordsSound
<1>3. \A x \in St : x \in Nat /\ R[x].rec \in Nat /\ x <= End(x)
  BY <1>1, <1>2
<1> HIDE DEF St
<1>4. ASSUME NEW x \in S PROVE Ahead(x)
  <2> DEFINE T == {y \in St : y <= x \/ End(x) <= y}
  <2>1. x \in St /\ x \in Nat
    BY <1>3, <1>4
  <2>2. ASSUME NEW y \in T, End(y) \in DOMAIN R PROVE End(y) \in T
    <3>1. y \in St /\ End(y) \in St
      BY <1>1, <2>2
    <3>a. /\ y \in Nat /\ R[y].rec \in Nat /\ y <= End(y)
          /\ x \in Nat /\ R[x].rec \in Nat /\ x <= End(x)
      BY <1>3, <2>1, <3>1
    <3>2. y \in Nat /\ y <= End(y) /\ End(y) \in Nat /\ End(x) \in Nat
      BY <3>a
    <3>3. CASE y < x
      <4>1. End(y) <= x
        BY <1>4, <3>1, <3>3
      <4> QED
        BY <3>1, <4>1
    <3>4. CASE y = x
      BY <3>1, <3>2, <3>4
    <3>5. CASE x < y
      <4>1. End(x) <= y
        BY <2>1, <2>2, <3>2, <3>5
      <4>2. End(x) <= End(y)
        BY <3>2, <4>1
      <4> QED
        BY <3>1, <4>2
    <3> QED
      BY <2>1, <3>2, <3>3, <3>4, <3>5
  <2>3. Chained(R, T)
    BY <1>1, <2>1, <2>2 DEF Chained
  <2> HIDE DEF T
  <2>4. \A y \in St : y \in T
    BY <2>3, StartsLeast DEF St
  <2>5. ASSUME NEW y \in St, x < y PROVE End(x) <= y
    <3>1. y <= x \/ End(x) <= y
      BY <2>4 DEF T
    <3> QED
      BY <1>3, <2>1, <2>5, <3>1
  <2> QED
    BY <2>5
<1>5. 0 \in S
  BY <1>1, <1>3
<1>6. ASSUME NEW x \in S, End(x) \in DOMAIN R PROVE End(x) \in S
  <2>1. x \in St /\ End(x) \in St /\ x \in Nat /\ End(x) \in Nat /\ x <= End(x)
    BY <1>1, <1>3, <1>6
  <2>2. ASSUME NEW y \in St, y < End(x) PROVE End(y) <= End(x)
    <3>1. y \in Nat /\ End(y) \in Nat
      BY <1>3
    <3>2. CASE y < x
      <4>1. End(y) <= x
        BY <1>6, <3>2
      <4> QED
        BY <2>1, <3>1, <4>1
    <3>3. CASE y = x
      BY <2>1, <3>3
    <3>4. CASE x < y
      <4>1. End(x) <= y
        BY <1>4, <1>6, <3>4
      <4> QED
        BY <2>1, <2>2, <3>1, <4>1
    <3> QED
      BY <2>1, <3>1, <3>2, <3>3, <3>4
  <2> QED
    BY <2>1, <2>2
<1>7. Chained(R, S)
  BY <1>1, <1>5, <1>6 DEF Chained
<1> HIDE DEF S
<1>8. p \in S
  BY <1>7, StartsLeast
<1>9. Ahead(p)
  BY <1>4, <1>8
<1> QED
  BY <1>9 DEF St

-----------------------------------------------------------------------------
(* ext4: the walk through a tree finds the extent that holds a block.      *)

MapResult == [rc : {"ok", "noent", "inval", "io", "notsup"}, phys : Nat, uninit : BOOLEAN]

\* m is a true answer to where block lb is, if the extents are E.
TrueAnswer(m, E, lb) ==
  /\ m \in MapResult
  /\ m.rc # "notsup"
  /\ m.rc = "ok" => \E e \in E : Holds(e, lb) /\ m.phys = e.start + (lb - e.b) /\ m.uninit = e.uninit
  /\ m.rc = "noent" => \A e \in E : ~Holds(e, lb)

LEMMA ResultTyped ==
  ASSUME NEW rc \in {"noent", "inval", "io", "notsup"}
  PROVE  Result(rc) \in MapResult /\ Result(rc).rc = rc
BY DEF Result, MapResult

\* The entry of an index that is taken.
LEMMA IndexFound ==
  ASSUME NEW S, NEW node, node.entries \in Seq(S), \A e \in S : e.b \in Nat, NEW lb \in Nat,
         node.entries # <<>>, node.entries[1].b <= lb
  PROVE  /\ IndexFor(node, lb) \in 1 .. Len(node.entries)
         /\ \A j \in 1 .. IndexFor(node, lb) : node.entries[j].b <= lb
         /\ IndexFor(node, lb) < Len(node.entries) => node.entries[IndexFor(node, lb) + 1].b > lb
<1> DEFINE s == node.entries
           n == Len(s)
           Ends == {i \in Nat : i \in 1 .. n /\ (i < n => s[i + 1].b > lb)}
<1>1. n \in Nat /\ n >= 1 /\ \A i \in 1 .. n : s[i].b \in Nat
  <2>1. n \in Nat /\ n # 0
    BY EmptySeq, LenProperties
  <2>2. \A i \in 1 .. n : s[i] \in S
    BY ElementOfSeq
  <2> QED
    BY <2>1, <2>2
<1>2. n \in Ends
  BY <1>1
<1>3. PICK i \in Ends : \A k \in Ends : i <= k
  BY <1>2, LeastNatural
<1>4. i \in 1 .. n /\ (i < n => s[i + 1].b > lb)
  BY <1>3
<1>5. ASSUME NEW j \in 1 .. i PROVE s[j].b <= lb
  <2>1. CASE j = 1
    BY <2>1
  <2>2. CASE j # 1
    <3>1. j - 1 \in 1 .. n /\ j - 1 < n /\ j - 1 < i /\ j - 1 \in Nat
      BY <1>1, <1>4, <2>2
    <3>2. j - 1 \notin Ends
      BY <1>3, <1>4, <3>1
    <3>3. ~(s[(j - 1) + 1].b > lb)
      BY <3>1, <3>2
    <3>4. (j - 1) + 1 = j /\ s[j].b \in Nat
      BY <1>1, <1>4
    <3> QED
      BY <3>3, <3>4
  <2> QED
    BY <2>1, <2>2
<1> QED
  BY <1>4, <1>5 DEF IndexFor

\* A leaf.
LEMMA LeafAnswer ==
  ASSUME NEW sb, NEW node, NodeTyped(sb, node), node.ok, node.depth = 0, NEW lb \in Nat,
         NEW left, NEW below, NEW deeper
  PROVE  TrueAnswer(map_node(sb, node, lb, left, deeper), ExtentsOf(node, left, below), lb)
<1> DEFINE s == node.entries
           hits == {i \in 1 .. Len(s) : Holds(s[i], lb)}
           m == map_node(sb, node, lb, left, deeper)
           E == {s[i] : i \in 1 .. Len(s)}
<1>1. s \in Seq(ExtentRec)
  BY DEF NodeTyped
<1>2. Len(s) \in Nat /\ \A i \in 1 .. Len(s) : s[i] \in ExtentRec
  BY <1>1, ElementOfSeq, LenProperties
<1>3. ExtentsOf(node, left, below) = E
  BY DEF ExtentsOf
<1>4. CASE hits = {}
  <2>1. m = Result("noent")
    BY <1>4 DEF map_node
  <2>2. \A e \in E : ~Holds(e, lb)
    BY <1>4
  <2> QED
    BY <1>3, <2>1, <2>2, ResultTyped DEF TrueAnswer
<1>5. CASE hits # {}
  <2> DEFINE i0 == CHOOSE i \in hits : \A j \in hits : i <= j
             e == s[i0]
  <2>1. \E i \in hits : \A j \in hits : i <= j
    <3>1. hits \subseteq Nat
      BY <1>2
    <3> HIDE DEF hits
    <3> QED
      BY <1>5, <3>1, LeastNatural
  <2>2. i0 \in hits
    BY <2>1
  <2>3. m = [rc |-> "ok", phys |-> e.start + (lb - e.b), uninit |-> e.uninit]
    BY <1>5 DEF map_node
  <2> HIDE DEF i0
  <2>4. e \in ExtentRec /\ Holds(e, lb) /\ e \in E
    BY <1>2, <2>2
  <2> HIDE DEF e, E
  <2>5. e.start + (lb - e.b) \in Nat /\ e.uninit \in BOOLEAN
    BY <2>4 DEF ExtentRec, Holds
  <2>6. m \in MapResult /\ m.rc = "ok" /\ m.phys = e.start + (lb - e.b) /\ m.uninit = e.uninit
    BY <2>3, <2>5 DEF MapResult
  <2> QED
    BY <1>3, <2>4, <2>6 DEF TrueAnswer
<1> QED
  BY <1>4, <1>5

\* The order of an index, the extents below its entries being below[child].
Leads(node, below) ==
  \A i \in 1 .. Len(node.entries) :
    /\ \A j \in i .. Len(node.entries) : node.entries[i].b <= node.entries[j].b
    /\ \A e \in below[node.entries[i].child] :
         node.entries[i].b <= e.b /\ (i < Len(node.entries) => e.b + e.span <= node.entries[i + 1].b)

\* An index: the entry that is taken is the only one that can lead to the block.
LEMMA IndexAnswer ==
  ASSUME NEW sb, NEW node, NodeTyped(sb, node), node.ok, node.depth > 0, NEW lb \in Nat,
         NEW left \in Nat \ {0}, NEW below \in [DOMAIN sb.nodes -> SUBSET ExtentRec], NEW deeper,
         Leads(node, below), \A c \in DOMAIN sb.nodes : TrueAnswer(deeper[c], below[c], lb)
  PROVE  TrueAnswer(map_node(sb, node, lb, left, deeper), ExtentsOf(node, left, below), lb)
<1> DEFINE s == node.entries
           n == Len(s)
           m == map_node(sb, node, lb, left, deeper)
           E == UNION {below[s[i].child] : i \in 1 .. n}
           N == [b : Nat, child : DOMAIN sb.nodes]
<1>0. node.depth \in Nat /\ node.depth # 0
  BY DEF NodeTyped
<1>1. s \in Seq(N)
  BY <1>0 DEF NodeTyped
<1>2. n \in Nat /\ \A i \in 1 .. n : s[i].b \in Nat /\ s[i].child \in DOMAIN sb.nodes
  <2>1. n \in Nat /\ \A i \in 1 .. n : s[i] \in N
    BY <1>1, ElementOfSeq, LenProperties
  <2> QED
    BY <2>1
<1>3. ExtentsOf(node, left, below) = E
  BY <1>0 DEF ExtentsOf
<1>4. \A i \in 1 .. n : \A e \in below[s[i].child] : e.b \in Nat /\ e.span \in Nat
  BY <1>2 DEF ExtentRec
<1>l. /\ \A i \in 1 .. n : \A j \in i .. n : s[i].b <= s[j].b
      /\ \A i \in 1 .. n : \A e \in below[s[i].child] : s[i].b <= e.b /\ (i < n => e.b + e.span <= s[i + 1].b)
  BY DEF Leads
<1>5. CASE node.depth > MaxDepth
  <2>1. m = Result("inval")
    BY <1>0, <1>5, Ext4Assumption DEF map_node
  <2> QED
    BY <2>1, ResultTyped DEF TrueAnswer
<1>6. CASE node.depth <= MaxDepth /\ (s = <<>> \/ s[1].b > lb)
  <2>1. m = Result("noent")
    BY <1>0, <1>6, Ext4Assumption DEF map_node
  <2>2. ASSUME NEW e \in E PROVE ~Holds(e, lb)
    <3>1. PICK i \in 1 .. n : e \in below[s[i].child]
      OBVIOUS
    <3>2. s # <<>> /\ 1 \in 1 .. n /\ i \in 1 .. n
      BY <1>2, <3>1
    <3>3. s[1].b <= s[i].b /\ s[i].b <= e.b
      BY <1>l, <3>1, <3>2
    <3> QED
      BY SMTT(20), <1>2, <1>4, <1>6, <3>1, <3>2, <3>3 DEF Holds
  <2> QED
    BY <1>3, <2>1, <2>2, ResultTyped DEF TrueAnswer
<1>7. CASE node.depth <= MaxDepth /\ s # <<>> /\ ~(s[1].b > lb)
  <2> DEFINE i == IndexFor(node, lb)
             c == s[i].child
  <2>1. n >= 1 /\ s[1].b <= lb
    <3>1. n # 0
      BY <1>1, <1>7, EmptySeq
    <3> QED
      BY <1>2, <1>7, <3>1
  <2>2. /\ i \in 1 .. n
        /\ \A j \in 1 .. i : s[j].b <= lb
        /\ i < n => s[i + 1].b > lb
    <3>1. \A e \in N : e.b \in Nat
      OBVIOUS
    <3> HIDE DEF N
    <3> QED
      BY <1>1, <1>7, <2>1, <3>1, IndexFound
  <2>3. m = IF c \in sb.unreadable THEN Result("io") ELSE deeper[c]
    BY <1>0, <1>7, Ext4Assumption DEF map_node
  <2> HIDE DEF i
  <2>4. c \in DOMAIN sb.nodes /\ below[c] \subseteq E
    BY <1>2, <2>2
  <2>5. TrueAnswer(deeper[c], below[c], lb)
    BY <2>4
  <2>6. ASSUME NEW e \in E, Holds(e, lb) PROVE e \in below[c]
    <3>1. PICK j \in 1 .. n : e \in below[s[j].child]
      OBVIOUS
    <3>2. s[j].b \in Nat /\ e.b \in Nat /\ e.span \in Nat /\ s[j].b <= e.b /\ e.b <= lb /\ lb < e.b + e.span
      BY <1>2, <1>4, <1>l, <2>6, <3>1 DEF Holds
    <3>3. CASE j < i
      <4>1. j < n /\ j + 1 \in 1 .. i /\ j + 1 \in 1 .. n
        BY <1>2, <2>2, <3>1, <3>3
      <4>2. e.b + e.span <= s[j + 1].b /\ s[j + 1].b <= lb /\ s[j + 1].b \in Nat
        BY <1>2, <1>l, <2>2, <3>1, <4>1
      <4> QED
        BY SMTT(20), <3>2, <4>2
    <3>4. CASE j > i
      <4>1. i < n /\ i + 1 \in 1 .. n /\ j \in i + 1 .. n
        BY <1>2, <2>2, <3>1, <3>4
      <4>2. s[i + 1].b > lb /\ s[i + 1].b <= s[j].b /\ s[i + 1].b \in Nat
        BY <1>2, <1>l, <2>2, <4>1
      <4> QED
        BY SMTT(20), <3>2, <4>2
    <3>5. CASE j = i
      BY <3>1, <3>5
    <3> QED
      BY <2>2, <3>1, <3>3, <3>4, <3>5
  <2> HIDE DEF c, E
  <2>7. CASE c \in sb.unreadable
    BY <2>3, <2>7, ResultTyped DEF TrueAnswer
  <2>8. CASE c \notin sb.unreadable
    <3>1. m = deeper[c]
      BY <2>3, <2>8
    <3> HIDE DEF m
    <3>2. TrueAnswer(m, E, lb)
      BY <2>4, <2>5, <2>6, <3>1 DEF TrueAnswer
    <3> QED
      BY <1>3, <3>2 DEF m, E
  <2> QED
    BY <2>7, <2>8
<1>8. MaxDepth \in Nat
  BY Ext4Assumption
<1> QED
  BY <1>0, <1>5, <1>6, <1>7, <1>8

\* A node.
LEMMA NodeAnswer ==
  ASSUME NEW sb, NEW node, NodeTyped(sb, node), NEW lb \in Nat, NEW left \in Nat,
         NEW below, NEW deeper,
         left # 0 => /\ below \in [DOMAIN sb.nodes -> SUBSET ExtentRec]
                     /\ node.ok /\ node.depth > 0 => Leads(node, below)
                     /\ \A c \in DOMAIN sb.nodes : TrueAnswer(deeper[c], below[c], lb)
  PROVE  TrueAnswer(map_node(sb, node, lb, left, deeper), ExtentsOf(node, left, below), lb)
<1>0. node.ok \in BOOLEAN /\ node.depth \in Nat
  BY DEF NodeTyped
<1>1. CASE ~node.ok
  <2>1. map_node(sb, node, lb, left, deeper) = Result("inval")
    BY <1>1 DEF map_node
  <2> QED
    BY <2>1, ResultTyped DEF TrueAnswer
<1>2. CASE node.ok /\ node.depth = 0
  BY <1>2, LeafAnswer
<1>3. CASE node.ok /\ node.depth > 0 /\ left = 0
  <2>1. map_node(sb, node, lb, left, deeper) = Result("inval")
    BY <1>3 DEF map_node
  <2> QED
    BY <2>1, ResultTyped DEF TrueAnswer
<1>4. CASE node.ok /\ node.depth > 0 /\ left # 0
  BY <1>4, IndexAnswer
<1> QED
  BY <1>0, <1>1, <1>2, <1>3, <1>4

-----------------------------------------------------------------------------
(* ext4: level by level.                                                   *)

BelowSet(sb) == [DOMAIN sb.nodes -> SUBSET ExtentRec]
AnswerSet(sb) == [DOMAIN sb.nodes -> MapResult]

\* The parts of what is assumed of a volume.
LEMMA VolumeParts ==
  ASSUME NEW sb \in Volume
  PROVE  /\ \A c \in DOMAIN sb.nodes : NodeTyped(sb, sb.nodes[c]) /\ NodeOrdered(sb, sb.nodes[c])
         /\ \A ino \in DOMAIN sb.inodes : InodeSound(sb, sb.inodes[ino])
         /\ \A b \in DOMAIN sb.data : sb.data[b] \in Seq(Nat) /\ Len(sb.data[b]) = FsBlock
         /\ \A b \in DOMAIN sb.dirs : RecordsSound(sb.dirs[b])
BY VolumeAssumption

LEMMA ExtentsTyped ==
  ASSUME NEW sb, NEW node, NodeTyped(sb, node), NEW left \in Nat, NEW below,
         left # 0 => below \in BelowSet(sb)
  PROVE  ExtentsOf(node, left, below) \subseteq ExtentRec
<1> DEFINE s == node.entries
           N == [b : Nat, child : DOMAIN sb.nodes]
<1>0. node.ok \in BOOLEAN /\ node.depth \in Nat
  BY DEF NodeTyped
<1>1. CASE ~node.ok
  BY <1>1 DEF ExtentsOf
<1>2. CASE node.ok /\ node.depth = 0
  <2>1. s \in Seq(ExtentRec)
    BY <1>2 DEF NodeTyped
  <2>2. \A i \in 1 .. Len(s) : s[i] \in ExtentRec
    BY <2>1, ElementOfSeq
  <2>3. ExtentsOf(node, left, below) = {s[i] : i \in 1 .. Len(s)}
    BY <1>2 DEF ExtentsOf
  <2> QED
    BY <2>2, <2>3
<1>3. CASE node.ok /\ node.depth > 0 /\ left = 0
  BY <1>3 DEF ExtentsOf
<1>4. CASE node.ok /\ node.depth > 0 /\ left # 0
  <2>1. s \in Seq(N)
    BY <1>4 DEF NodeTyped
  <2>2. \A i \in 1 .. Len(s) : s[i] \in N
    BY <2>1, ElementOfSeq
  <2>3. \A i \in 1 .. Len(s) : below[s[i].child] \subseteq ExtentRec
    BY <1>4, <2>2 DEF BelowSet
  <2>4. ExtentsOf(node, left, below) = UNION {below[s[i].child] : i \in 1 .. Len(s)}
    BY <1>4 DEF ExtentsOf
  <2> QED
    BY <2>3, <2>4
<1> QED
  BY <1>0, <1>1, <1>2, <1>3, <1>4

LEMMA AnswerTyped ==
  ASSUME NEW sb, NEW node, NodeTyped(sb, node), NEW lb \in Nat, NEW left \in Nat, NEW deeper,
         left # 0 => deeper \in AnswerSet(sb)
  PROVE  map_node(sb, node, lb, left, deeper) \in MapResult
<1> DEFINE s == node.entries
           N == [b : Nat, child : DOMAIN sb.nodes]
           m == map_node(sb, node, lb, left, deeper)
<1>0. node.ok \in BOOLEAN /\ node.depth \in Nat /\ MaxDepth \in Nat
  BY Ext4Assumption DEF NodeTyped
<1>1. CASE ~node.ok
  <2>1. m = Result("inval")
    BY <1>1 DEF map_node
  <2> QED
    BY <2>1, ResultTyped
<1>2. CASE node.ok /\ node.depth = 0
  <2>1. TrueAnswer(m, ExtentsOf(node, left, {}), lb)
    BY <1>2, LeafAnswer
  <2> QED
    BY <2>1 DEF TrueAnswer
<1>3. CASE node.ok /\ node.depth > 0 /\ (left = 0 \/ node.depth > MaxDepth)
  <2>1. m = Result("inval")
    BY <1>0, <1>3 DEF map_node
  <2> QED
    BY <2>1, ResultTyped
<1>4. CASE node.ok /\ node.depth > 0 /\ left # 0 /\ node.depth <= MaxDepth
  <2>1. s \in Seq(N)
    BY <1>4 DEF NodeTyped
  <2>2. Len(s) \in Nat /\ \A i \in 1 .. Len(s) : s[i] \in N
    BY <2>1, ElementOfSeq, LenProperties
  <2>3. CASE s = <<>> \/ s[1].b > lb
    <3>1. m = Result("noent")
      BY <1>0, <1>4, <2>3 DEF map_node
    <3> QED
      BY <3>1, ResultTyped
  <2>4. CASE s # <<>> /\ ~(s[1].b > lb)
    <3> DEFINE c == s[IndexFor(node, lb)].child
    <3>1. Len(s) # 0
      BY <2>1, <2>4, EmptySeq
    <3>2. s[1].b <= lb
      BY <2>2, <2>4, <3>1
    <3>3. IndexFor(node, lb) \in 1 .. Len(s)
      <4>1. \A e \in N : e.b \in Nat
        OBVIOUS
      <4> HIDE DEF N
      <4> QED
        BY <2>1, <2>4, <3>2, <4>1, IndexFound
    <3>4. c \in DOMAIN sb.nodes
      BY <2>2, <3>3
    <3>5. m = IF c \in sb.unreadable THEN Result("io") ELSE deeper[c]
      BY <1>0, <1>4, <2>4 DEF map_node
    <3>6. deeper[c] \in MapResult
      BY <1>4, <3>4 DEF AnswerSet
    <3> HIDE DEF c, m
    <3>7. m \in MapResult
      BY <3>5, <3>6, ResultTyped
    <3> QED
      BY <3>7 DEF m
  <2> QED
    BY <2>3, <2>4
<1> QED
  BY <1>0, <1>1, <1>2, <1>3, <1>4

\* The extents below each block, by the levels that are searched.
LEMMA BelowRounds ==
  ASSUME NEW sb \in Volume
  PROVE  /\ Below(sb)[0] = ExtentsAt(sb, 0, <<>>)
         /\ \A i \in 0 .. MaxDepth - 1 : Below(sb)[i] \in BelowSet(sb)
         /\ \A i \in 1 .. MaxDepth - 1 : Below(sb)[i] = ExtentsAt(sb, i, Below(sb)[i - 1])
<1> DEFINE A == BelowSet(sb)
           n == MaxDepth - 1
           b == ExtentsAt(sb, 0, <<>>)
           F == [i \in 1 .. n |-> [a \in A |-> ExtentsAt(sb, i, a)]]
           Loop(f) == [i \in 0 .. n |-> IF i = 0 THEN b ELSE ExtentsAt(sb, i, f[i - 1])]
           L == Below(sb)
<1>1. n \in Nat /\ b \in A
  <2>1. \A c \in DOMAIN sb.nodes : ExtentsOf(sb.nodes[c], 0, <<>>) \subseteq ExtentRec
    BY ExtentsTyped, VolumeParts
  <2>2. b \in A
    BY <2>1 DEF ExtentsAt, BelowSet
  <2> QED
    BY <2>2, Ext4Assumption
<1>2. \A a \in A, i \in 1 .. n : ExtentsAt(sb, i, a) \in A
  <2> SUFFICES ASSUME NEW a \in A, NEW i \in 1 .. n PROVE ExtentsAt(sb, i, a) \in A
    OBVIOUS
  <2>1. i \in Nat
    BY <1>1
  <2>2. \A c \in DOMAIN sb.nodes : ExtentsOf(sb.nodes[c], i, a) \subseteq ExtentRec
    BY <2>1, ExtentsTyped, VolumeParts
  <2> QED
    BY <2>2 DEF ExtentsAt, BelowSet
<1>3. F \in Rounds(A, n)
  BY <1>2 DEF Rounds
<1>4. \A a \in A, i \in 1 .. n : F[i][a] = ExtentsAt(sb, i, a)
  OBVIOUS
<1>5. L = CHOOSE f : f = Loop(f)
  BY DEF Below
<1> HIDE DEF A, F, b, n, L
<1>6. PICK f \in [0 .. n -> A] : f[0] = b /\ \A i \in 1 .. n : f[i] = F[i][f[i - 1]]
  <2>1. Runs(A, n, F, b)
    BY <1>1, <1>3, LoopRuns
  <2> QED
    BY <2>1 DEF Runs
<1>7. \A i \in 1 .. n : f[i] = ExtentsAt(sb, i, f[i - 1])
  <2> SUFFICES ASSUME NEW i \in 1 .. n PROVE f[i] = ExtentsAt(sb, i, f[i - 1])
    OBVIOUS
  <2>1. f[i - 1] \in A
    BY <1>1
  <2> QED
    BY <1>4, <1>6, <2>1
<1>8. f = Loop(f)
  <2>1. ASSUME NEW i \in 0 .. n PROVE f[i] = Loop(f)[i]
    <3>1. CASE i = 0
      BY <1>6, <3>1
    <3>2. CASE i # 0
      <4>1. i \in 1 .. n
        BY <1>1, <3>2
      <4> QED
        BY <1>7, <3>2, <4>1
    <3> QED
      BY <3>1, <3>2
  <2> QED
    BY <2>1
<1>9. L = Loop(L)
  BY <1>5, <1>8
<1>10. L[0] = b /\ \A i \in 1 .. n : L[i] = ExtentsAt(sb, i, L[i - 1])
  <2>1. 0 \in 0 .. n /\ \A i \in 1 .. n : i \in 0 .. n /\ i # 0
    BY <1>1
  <2>2. \A i \in 0 .. n : L[i] = IF i = 0 THEN b ELSE ExtentsAt(sb, i, L[i - 1])
    BY <1>9
  <2> QED
    BY <2>1, <2>2
<1>11. \A i \in 0 .. n : L[i] \in A
  <2> DEFINE G == {i \in Nat : L[i] \in A}
  <2>1. 0 \in G
    BY <1>1, <1>10
  <2>2. \A i \in 1 .. n : i - 1 \in G => i \in G
    <3> SUFFICES ASSUME NEW i \in 1 .. n, L[i - 1] \in A PROVE L[i] \in A
      BY <1>1
    <3>1. L[i] = ExtentsAt(sb, i, L[i - 1])
      BY <1>10
    <3> QED
      BY <1>2, <3>1
  <2> HIDE DEF G
  <2>3. n \in Nat
    BY <1>1
  <2>4. \A i \in 0 .. n : i \in G
    BY <2>1, <2>2, <2>3, UpTo, Zenon
  <2> QED
    BY <1>1, <2>4 DEF G
<1> QED
  BY <1>10, <1>11 DEF A, b, n, L

\* The answers of the walk for each block, by the levels that are left.
LEMMA WalkRounds ==
  ASSUME NEW sb \in Volume, NEW lb \in Nat
  PROVE  /\ ext4_map_walk(sb, lb)[0] = map_nodes(sb, lb, 0, <<>>)
         /\ \A i \in 0 .. MaxDepth - 1 : ext4_map_walk(sb, lb)[i] \in AnswerSet(sb)
         /\ \A i \in 1 .. MaxDepth - 1 : ext4_map_walk(sb, lb)[i] = map_nodes(sb, lb, i, ext4_map_walk(sb, lb)[i - 1])
<1> DEFINE A == AnswerSet(sb)
           n == MaxDepth - 1
           b == map_nodes(sb, lb, 0, <<>>)
           F == [i \in 1 .. n |-> [a \in A |-> map_nodes(sb, lb, i, a)]]
           Loop(f) == [i \in 0 .. n |-> IF i = 0 THEN b ELSE map_nodes(sb, lb, i, f[i - 1])]
           L == ext4_map_walk(sb, lb)
<1>1. n \in Nat /\ b \in A
  <2>1. \A c \in DOMAIN sb.nodes : map_node(sb, sb.nodes[c], lb, 0, <<>>) \in MapResult
    BY AnswerTyped, VolumeParts
  <2>2. b \in A
    BY <2>1 DEF map_nodes, AnswerSet
  <2> QED
    BY <2>2, Ext4Assumption
<1>2. \A a \in A, i \in 1 .. n : map_nodes(sb, lb, i, a) \in A
  <2> SUFFICES ASSUME NEW a \in A, NEW i \in 1 .. n PROVE map_nodes(sb, lb, i, a) \in A
    OBVIOUS
  <2>1. i \in Nat
    BY <1>1
  <2>2. \A c \in DOMAIN sb.nodes : map_node(sb, sb.nodes[c], lb, i, a) \in MapResult
    BY <2>1, AnswerTyped, VolumeParts
  <2> QED
    BY <2>2 DEF map_nodes, AnswerSet
<1>3. F \in Rounds(A, n)
  BY <1>2 DEF Rounds
<1>4. \A a \in A, i \in 1 .. n : F[i][a] = map_nodes(sb, lb, i, a)
  OBVIOUS
<1>5. L = CHOOSE f : f = Loop(f)
  BY DEF ext4_map_walk
<1> HIDE DEF A, F, b, n, L
<1>6. PICK f \in [0 .. n -> A] : f[0] = b /\ \A i \in 1 .. n : f[i] = F[i][f[i - 1]]
  <2>1. Runs(A, n, F, b)
    BY <1>1, <1>3, LoopRuns
  <2> QED
    BY <2>1 DEF Runs
<1>7. \A i \in 1 .. n : f[i] = map_nodes(sb, lb, i, f[i - 1])
  <2> SUFFICES ASSUME NEW i \in 1 .. n PROVE f[i] = map_nodes(sb, lb, i, f[i - 1])
    OBVIOUS
  <2>1. f[i - 1] \in A
    BY <1>1
  <2> QED
    BY <1>4, <1>6, <2>1
<1>8. f = Loop(f)
  <2>1. ASSUME NEW i \in 0 .. n PROVE f[i] = Loop(f)[i]
    <3>1. CASE i = 0
      BY <1>6, <3>1
    <3>2. CASE i # 0
      <4>1. i \in 1 .. n
        BY <1>1, <3>2
      <4> QED
        BY <1>7, <3>2, <4>1
    <3> QED
      BY <3>1, <3>2
  <2> QED
    BY <2>1
<1>9. L = Loop(L)
  BY <1>5, <1>8
<1>10. L[0] = b /\ \A i \in 1 .. n : L[i] = map_nodes(sb, lb, i, L[i - 1])
  <2>1. 0 \in 0 .. n /\ \A i \in 1 .. n : i \in 0 .. n /\ i # 0
    BY <1>1
  <2>2. \A i \in 0 .. n : L[i] = IF i = 0 THEN b ELSE map_nodes(sb, lb, i, L[i - 1])
    BY <1>9
  <2> QED
    BY <2>1, <2>2
<1>11. \A i \in 0 .. n : L[i] \in A
  <2> DEFINE G == {i \in Nat : L[i] \in A}
  <2>1. 0 \in G
    BY <1>1, <1>10
  <2>2. \A i \in 1 .. n : i - 1 \in G => i \in G
    <3> SUFFICES ASSUME NEW i \in 1 .. n, L[i - 1] \in A PROVE L[i] \in A
      BY <1>1
    <3>1. L[i] = map_nodes(sb, lb, i, L[i - 1])
      BY <1>10
    <3> QED
      BY <1>2, <3>1
  <2> HIDE DEF G
  <2>3. n \in Nat
    BY <1>1
  <2>4. \A i \in 0 .. n : i \in G
    BY <2>1, <2>2, <2>3, UpTo, Zenon
  <2> QED
    BY <1>1, <2>4 DEF G
<1> QED
  BY <1>10, <1>11 DEF A, b, n, L

\* Each answer is true.
LEMMA WalkTrue ==
  ASSUME NEW sb \in Volume, NEW lb \in Nat
  PROVE  \A left \in 0 .. MaxDepth - 1 : \A c \in DOMAIN sb.nodes :
           TrueAnswer(ext4_map_walk(sb, lb)[left][c], Below(sb)[left][c], lb)
<1> DEFINE W == ext4_map_walk(sb, lb)
           B == Below(sb)
           n == MaxDepth - 1
           G == {left \in Nat : \A c \in DOMAIN sb.nodes : TrueAnswer(W[left][c], B[left][c], lb)}
<1>1. /\ W[0] = map_nodes(sb, lb, 0, <<>>)
      /\ \A i \in 1 .. n : W[i] = map_nodes(sb, lb, i, W[i - 1])
  BY WalkRounds
<1>2. /\ B[0] = ExtentsAt(sb, 0, <<>>)
      /\ \A i \in 0 .. n : B[i] \in BelowSet(sb)
      /\ \A i \in 1 .. n : B[i] = ExtentsAt(sb, i, B[i - 1])
  BY BelowRounds
<1>3. \A c \in DOMAIN sb.nodes : NodeTyped(sb, sb.nodes[c]) /\ NodeOrdered(sb, sb.nodes[c])
  BY VolumeParts
<1>4. n \in Nat
  BY Ext4Assumption
<1>n. ASSUME NEW c \in DOMAIN sb.nodes, NEW i \in 0 .. n, sb.nodes[c].ok, sb.nodes[c].depth > 0
      PROVE  Leads(sb.nodes[c], B[i])
  BY <1>3, <1>n DEF NodeOrdered, Leads
<1> HIDE DEF W, B, n
<1>5. 0 \in G
  <2> SUFFICES ASSUME NEW c \in DOMAIN sb.nodes PROVE TrueAnswer(W[0][c], B[0][c], lb)
    OBVIOUS
  <2>1. /\ W[0][c] = map_node(sb, sb.nodes[c], lb, 0, <<>>)
        /\ B[0][c] = ExtentsOf(sb.nodes[c], 0, <<>>)
    BY <1>1, <1>2 DEF map_nodes, ExtentsAt
  <2>2. TrueAnswer(map_node(sb, sb.nodes[c], lb, 0, <<>>), ExtentsOf(sb.nodes[c], 0, <<>>), lb)
    BY <1>3, NodeAnswer
  <2> QED
    BY <2>1, <2>2
<1>6. ASSUME NEW i \in 1 .. n, i - 1 \in G PROVE i \in G
  <2> SUFFICES ASSUME NEW c \in DOMAIN sb.nodes PROVE TrueAnswer(W[i][c], B[i][c], lb)
    BY <1>4
  <2>0. i \in Nat \ {0} /\ i - 1 \in 0 .. n
    BY <1>4
  <2>1. /\ W[i][c] = map_node(sb, sb.nodes[c], lb, i, W[i - 1])
        /\ B[i][c] = ExtentsOf(sb.nodes[c], i, B[i - 1])
    <3>1. W[i] = map_nodes(sb, lb, i, W[i - 1])
      BY <1>1
    <3>2. B[i] = ExtentsAt(sb, i, B[i - 1])
      BY <1>2
    <3>3. W[i][c] = map_node(sb, sb.nodes[c], lb, i, W[i - 1])
      BY <3>1, Zenon DEF map_nodes
    <3>4. B[i][c] = ExtentsOf(sb.nodes[c], i, B[i - 1])
      BY <3>2, Zenon DEF ExtentsAt
    <3> QED
      BY <3>3, <3>4
  <2>2. B[i - 1] \in [DOMAIN sb.nodes -> SUBSET ExtentRec]
    BY <1>2, <2>0 DEF BelowSet
  <2>3. sb.nodes[c].ok /\ sb.nodes[c].depth > 0 => Leads(sb.nodes[c], B[i - 1])
    BY <1>n, <2>0
  <2>4. \A d \in DOMAIN sb.nodes : TrueAnswer(W[i - 1][d], B[i - 1][d], lb)
    BY <1>6
  <2>5. TrueAnswer(map_node(sb, sb.nodes[c], lb, i, W[i - 1]), ExtentsOf(sb.nodes[c], i, B[i - 1]), lb)
    BY <1>3, <2>0, <2>2, <2>3, <2>4, NodeAnswer
  <2> QED
    BY <2>1, <2>5
<1> HIDE DEF G
<1>7. \A i \in 0 .. n : i \in G
  BY <1>4, <1>5, <1>6, UpTo, Zenon
<1> QED
  BY <1>4, <1>7 DEF G, W, B, n

\* ext4_map finds the block of the disk, and a hole where there is none.
LEMMA MapTrue ==
  ASSUME NEW sb \in Volume, NEW ino \in DOMAIN sb.inodes, NEW lb \in Nat
  PROVE  LET ip == Inode(sb, ino)
             m  == ext4_map(sb, ip, lb)
             C  == Covering(sb, ip, lb)
         IN  /\ m \in MapResult
             /\ m.rc = "notsup" <=> ~ip.extents
             /\ m.rc = "noent" \/ (m.rc = "ok" /\ m.uninit) => C = {}
             /\ m.rc = "ok" /\ ~m.uninit => /\ C # {} /\ Phys(sb, ip, lb) = m.phys
                                            /\ ip.type = "file" => m.phys \in DOMAIN sb.data
                                            /\ ip.type = "dir" => m.phys \in DOMAIN sb.dirs
<1> DEFINE ip == Inode(sb, ino)
           m  == ext4_map(sb, ip, lb)
           C  == Covering(sb, ip, lb)
           E  == Extents(sb, ip)
           n  == MaxDepth - 1
<1>1. InodeSound(sb, ip) /\ ip.extents \in BOOLEAN
  BY VolumeParts DEF Inode, InodeSound
<1>2. CASE ~ip.extents
  <2>1. m = Result("notsup")
    BY <1>2 DEF ext4_map
  <2>2. Result("notsup") \in MapResult /\ Result("notsup").rc = "notsup"
    BY ResultTyped
  <2> HIDE DEF m, C, ip
  <2>3. m \in MapResult /\ m.rc = "notsup"
    BY <2>1, <2>2
  <2> QED
    BY <1>2, <2>3 DEF m, C, ip
<1>3. CASE ip.extents
  <2>0. n \in 0 .. MaxDepth - 1 /\ MaxDepth \in Nat \ {0} /\ MaxDepth - 1 = n
    BY Ext4Assumption
  <2>1. m = map_node(sb, ip.root, lb, MaxDepth, ext4_map_walk(sb, lb)[n])
    BY <1>3 DEF ext4_map
  <2>2. E = ExtentsOf(ip.root, MaxDepth, Below(sb)[n])
    BY DEF Extents
  <2>3. Below(sb)[n] \in [DOMAIN sb.nodes -> SUBSET ExtentRec]
    BY <2>0, BelowRounds DEF BelowSet
  <2>4. \A c \in DOMAIN sb.nodes : TrueAnswer(ext4_map_walk(sb, lb)[n][c], Below(sb)[n][c], lb)
    BY <2>0, WalkTrue
  <2>5. NodeTyped(sb, ip.root) /\ NodeOrdered(sb, ip.root)
    BY <1>1 DEF InodeSound
  <2>6. ip.root.ok /\ ip.root.depth > 0 => Leads(ip.root, Below(sb)[n])
    BY <2>0, <2>5 DEF NodeOrdered, Leads
  <2>7. TrueAnswer(m, E, lb)
    <3> HIDE DEF m, E, ip, n
    <3>1. TrueAnswer(map_node(sb, ip.root, lb, MaxDepth, ext4_map_walk(sb, lb)[n]),
                     ExtentsOf(ip.root, MaxDepth, Below(sb)[n]), lb)
      BY <2>0, <2>3, <2>4, <2>5, <2>6, NodeAnswer
    <3> QED
      BY <2>1, <2>2, <3>1
  <2>8. E \subseteq ExtentRec
    <3>1. Below(sb)[n] \in BelowSet(sb)
      BY <2>3 DEF BelowSet
    <3> QED
      BY <2>0, <2>2, <2>5, <3>1, ExtentsTyped
  <2>9. /\ \A e, g \in E : e # g => e.b + e.span <= g.b \/ g.b + g.span <= e.b
        /\ \A e \in E : ~e.uninit => \A k \in e.start .. e.start + e.span - 1 :
             /\ ip.type = "file" => k \in DOMAIN sb.data
             /\ ip.type = "dir" => k \in DOMAIN sb.dirs
    BY <1>1 DEF InodeSound
  <2>10. C = {e \in E : Holds(e, lb) /\ ~e.uninit}
    BY DEF Covering
  <2>p. Phys(sb, ip, lb) = (CHOOSE e \in C : TRUE).start + (lb - (CHOOSE e \in C : TRUE).b)
    BY DEF Phys
  <2> HIDE DEF m, E, C, ip
  <2>11. ASSUME NEW e \in E, NEW g \in E, Holds(e, lb), Holds(g, lb) PROVE e = g
    <3>1. e.b \in Nat /\ e.span \in Nat /\ g.b \in Nat /\ g.span \in Nat
      BY <2>8 DEF ExtentRec
    <3>2. e # g => e.b + e.span <= g.b \/ g.b + g.span <= e.b
      BY <2>9
    <3> QED
      BY <2>11, <3>1, <3>2 DEF Holds
  <2>12. m \in MapResult /\ m.rc # "notsup" /\ m.uninit \in BOOLEAN
    BY <2>7 DEF TrueAnswer, MapResult
  <2>13. ASSUME m.rc = "noent" PROVE C = {}
    BY <2>7, <2>10, <2>13 DEF TrueAnswer
  <2>14. ASSUME m.rc = "ok"
         PROVE  \E e \in E : Holds(e, lb) /\ m.phys = e.start + (lb - e.b) /\ m.uninit = e.uninit
    BY <2>7, <2>14 DEF TrueAnswer
  <2>15. ASSUME m.rc = "ok", m.uninit PROVE C = {}
    <3>1. PICK e \in E : Holds(e, lb) /\ m.uninit = e.uninit
      BY <2>14, <2>15
    <3>2. \A g \in C : g \in E /\ Holds(g, lb) /\ ~g.uninit
      BY <2>10
    <3>3. \A g \in C : g = e
      BY <2>11, <3>1, <3>2
    <3> QED
      BY <2>15, <3>1, <3>2, <3>3
  <2>16. ASSUME m.rc = "ok", ~m.uninit
         PROVE  /\ C # {} /\ Phys(sb, ip, lb) = m.phys
                /\ ip.type = "file" => m.phys \in DOMAIN sb.data
                /\ ip.type = "dir" => m.phys \in DOMAIN sb.dirs
    <3>1. PICK e \in E : Holds(e, lb) /\ m.phys = e.start + (lb - e.b) /\ m.uninit = e.uninit
      BY <2>14, <2>16
    <3>2. e \in C
      BY <2>10, <2>16, <3>1
    <3>3. \A g \in C : g = e
      BY <2>10, <2>11, <3>1
    <3>4. (CHOOSE g \in C : TRUE) = e
      BY <3>2, <3>3
    <3>5. e.b \in Nat /\ e.span \in Nat /\ e.start \in Nat
      BY <2>8 DEF ExtentRec
    <3>6. m.phys \in e.start .. e.start + e.span - 1
      BY <3>1, <3>5 DEF Holds
    <3>7. ~e.uninit
      BY <2>16, <3>1
    <3> QED
      BY <2>9, <2>p, <3>1, <3>2, <3>4, <3>6, <3>7
  <2>17. /\ m \in MapResult
         /\ m.rc = "notsup" <=> ~ip.extents
         /\ m.rc = "noent" \/ (m.rc = "ok" /\ m.uninit) => C = {}
         /\ m.rc = "ok" /\ ~m.uninit => /\ C # {} /\ Phys(sb, ip, lb) = m.phys
                                        /\ ip.type = "file" => m.phys \in DOMAIN sb.data
                                        /\ ip.type = "dir" => m.phys \in DOMAIN sb.dirs
    BY <1>3, <2>12, <2>13, <2>15, <2>16
  <2> QED
    BY <2>17 DEF m, C, ip
<1> QED
  BY <1>1, <1>2, <1>3

-----------------------------------------------------------------------------
(* ext4: reading.                                                          *)

\* Cells of one block.
LEMMA SameBlock ==
  ASSUME NEW d \in Nat \ {0}, NEW p \in Nat, NEW k \in Nat, (p % d) + k < d
  PROVE  (p + k) \div d = p \div d /\ (p + k) % d = (p % d) + k
<1> DEFINE q == p \div d
           r == p % d
<1>1. q \in Nat /\ r \in 0 .. d - 1 /\ p = q * d + r
  BY DivMod
<1>2. r + k < d
  OBVIOUS
<1> HIDE DEF q, r
<1>3. r + k \in 0 .. d - 1 /\ p + k = q * d + (r + k) /\ p + k \in Nat /\ q \in Int
  BY <1>1, <1>2
<1>4. q = (p + k) \div d /\ r + k = (p + k) % d
  BY <1>3, DivUnique
<1> QED
  BY <1>4 DEF q, r

\* What a read from p0 has got so far, none of it beyond offset end.
ReadSet(sb, ip, p0, end) ==
  {s \in [pos : Nat, len : Nat, data : Seq(Nat)] :
     /\ s.pos = p0 + Len(s.data)
     /\ s.pos + s.len <= end
     /\ \A i \in 1 .. Len(s.data) : s.data[i] = CellAt(sb, ip, p0 + i - 1)}

\* Cells that continue what was read.
LEMMA ReadMore ==
  ASSUME NEW sb, NEW ip, NEW p0 \in Nat, NEW end \in Nat, NEW s \in ReadSet(sb, ip, p0, end),
         NEW chunk \in 0 .. s.len, NEW cells \in Seq(Nat), Len(cells) = chunk,
         \A k \in 1 .. chunk : cells[k] = CellAt(sb, ip, s.pos + (k - 1))
  PROVE  [pos |-> s.pos + chunk, len |-> s.len - chunk, data |-> s.data \o cells] \in ReadSet(sb, ip, p0, end)
<1> DEFINE D == s.data
           E == D \o cells
           t == [pos |-> s.pos + chunk, len |-> s.len - chunk, data |-> E]
<1>1. /\ s.pos \in Nat /\ s.len \in Nat /\ D \in Seq(Nat) /\ s.pos = p0 + Len(D) /\ s.pos + s.len <= end
      /\ \A i \in 1 .. Len(D) : D[i] = CellAt(sb, ip, p0 + i - 1)
  BY DEF ReadSet
<1>2. Len(D) \in Nat /\ chunk \in Nat
  BY <1>1, LenProperties
<1>3. /\ E \in Seq(Nat) /\ Len(E) = Len(D) + chunk
      /\ \A i \in 1 .. Len(D) + chunk : E[i] = IF i <= Len(D) THEN D[i] ELSE cells[i - Len(D)]
  <2>1. D \in Seq(Nat)
    BY <1>1
  <2> HIDE DEF D
  <2> QED
    BY <2>1, ConcatProperties
<1> HIDE DEF E
<1>4. ASSUME NEW i \in 1 .. Len(E) PROVE E[i] = CellAt(sb, ip, p0 + i - 1)
  <2>1. CASE i <= Len(D)
    <3>1. i \in 1 .. Len(D) /\ i \in 1 .. Len(D) + chunk
      BY <1>2, <1>3, <2>1
    <3>2. E[i] = D[i]
      BY <1>3, <2>1, <3>1
    <3> QED
      BY <1>1, <3>1, <3>2
  <2>2. CASE ~(i <= Len(D))
    <3>1. i - Len(D) \in 1 .. chunk
      <4>1. Len(E) = Len(D) + chunk /\ Len(D) \in Nat
        BY <1>2, <1>3
      <4> HIDE DEF D
      <4> QED
        BY <2>2, <4>1
    <3>2. E[i] = CellAt(sb, ip, s.pos + ((i - Len(D)) - 1))
      <4>1. i \in 1 .. Len(D) + chunk
        BY <1>3
      <4>2. E[i] = cells[i - Len(D)]
        BY <1>3, <2>2, <4>1
      <4> QED
        BY <3>1, <4>2
    <3> HIDE DEF D
    <3>3. s.pos + ((i - Len(D)) - 1) = p0 + i - 1
      <4>1. s.pos = p0 + Len(D) /\ Len(D) \in Nat /\ i \in Int
        BY <1>1, <1>2
      <4> QED
        BY <4>1
    <3> QED
      BY <3>2, <3>3
  <2> QED
    BY <2>1, <2>2
<1>5. /\ s.pos + chunk \in Nat /\ s.len - chunk \in Nat
      /\ s.pos + chunk = p0 + Len(E) /\ (s.pos + chunk) + (s.len - chunk) <= end
  BY <1>1, <1>2, <1>3
<1>6. t \in ReadSet(sb, ip, p0, end)
  BY <1>3, <1>4, <1>5 DEF ReadSet
<1> QED
  BY <1>6 DEF E

\* A block that cannot be read ends it.
LEMMA ReadStops ==
  ASSUME NEW sb, NEW ip, NEW p0 \in Nat, NEW end \in Nat, NEW s \in ReadSet(sb, ip, p0, end)
  PROVE  [s EXCEPT !.len = 0] \in ReadSet(sb, ip, p0, end)
<1> DEFINE t == [s EXCEPT !.len = 0]
<1>1. /\ s \in [pos : Nat, len : Nat, data : Seq(Nat)] /\ s.pos = p0 + Len(s.data) /\ s.pos + s.len <= end
      /\ \A i \in 1 .. Len(s.data) : s.data[i] = CellAt(sb, ip, p0 + i - 1)
  BY DEF ReadSet
<1>2. t \in [pos : Nat, len : Nat, data : Seq(Nat)] /\ t.pos = s.pos /\ t.len = 0 /\ t.data = s.data
  BY <1>1
<1> HIDE DEF t
<1>3. t.pos + t.len <= end
  BY <1>1, <1>2
<1>4. t \in ReadSet(sb, ip, p0, end)
  BY <1>1, <1>2, <1>3 DEF ReadSet
<1> QED
  BY <1>4 DEF t

LEMMA ReadRoundKeeps ==
  ASSUME NEW sb \in Volume, NEW ino \in DOMAIN sb.inodes, Inode(sb, ino).type = "file",
         NEW p0 \in Nat, NEW end \in Nat, NEW s \in ReadSet(sb, Inode(sb, ino), p0, end)
  PROVE  read_round(sb, Inode(sb, ino), s) \in ReadSet(sb, Inode(sb, ino), p0, end)
<1> DEFINE ip    == Inode(sb, ino)
           lb    == s.pos \div FsBlock
           m     == ext4_map(sb, ip, lb)
           inner == s.pos % FsBlock
           chunk == IF s.len < FsBlock - inner THEN s.len ELSE FsBlock - inner
           C     == Covering(sb, ip, lb)
           P     == ReadSet(sb, ip, p0, end)
           Got(cells) == [pos |-> s.pos + chunk, len |-> s.len - chunk, data |-> s.data \o cells]
           zeros == [i \in 1 .. chunk |-> 0]
           block == SubSeq(sb.data[m.phys], inner + 1, inner + chunk)
           t     == read_round(sb, ip, s)
<1>1. s.pos \in Nat /\ s.len \in Nat /\ FsBlock \in Nat \ {0}
  BY Ext4Assumption DEF ReadSet
<1>2. lb \in Nat /\ inner \in 0 .. FsBlock - 1
  BY <1>1, DivMod
<1>3. /\ m \in MapResult
      /\ m.rc = "noent" \/ (m.rc = "ok" /\ m.uninit) => C = {}
      /\ m.rc = "ok" /\ ~m.uninit => C # {} /\ Phys(sb, ip, lb) = m.phys /\ m.phys \in DOMAIN sb.data
  <2> HIDE DEF lb
  <2> QED
    BY <1>2, MapTrue
<1>4. m.rc \in {"ok", "noent", "inval", "io", "notsup"} /\ m.uninit \in BOOLEAN
  BY <1>3 DEF MapResult
<1>5. t = CASE s.len = 0 -> s
            [] s.len > 0 /\ (m.rc = "noent" \/ (m.rc = "ok" /\ m.uninit)) -> Got(zeros)
            [] s.len > 0 /\ m.rc = "ok" /\ ~m.uninit ->
                 IF m.phys \in sb.unreadable THEN [s EXCEPT !.len = 0] ELSE Got(block)
            [] s.len > 0 /\ m.rc \notin {"ok", "noent"} -> [s EXCEPT !.len = 0]
  BY DEF read_round
<1>6. /\ chunk \in 0 .. s.len /\ chunk \in Nat
      /\ inner + chunk <= FsBlock
  BY <1>1, <1>2
<1>7. ASSUME NEW k \in 1 .. chunk
      PROVE  CellAt(sb, ip, s.pos + (k - 1)) =
               IF C = {} THEN 0 ELSE sb.data[Phys(sb, ip, lb)][(inner + (k - 1)) + 1]
  <2>1. k - 1 \in Nat /\ inner + (k - 1) < FsBlock
    <3> HIDE DEF inner, chunk
    <3> QED
      BY <1>1, <1>2, <1>6
  <2>2. (s.pos + (k - 1)) \div FsBlock = lb /\ (s.pos + (k - 1)) % FsBlock = inner + (k - 1)
    BY <1>1, <2>1, SameBlock
  <2> QED
    BY <2>2 DEF CellAt
<1>8. /\ zeros \in Seq(Nat) /\ Len(zeros) = chunk /\ \A k \in 1 .. chunk : zeros[k] = 0
  <2> HIDE DEF chunk
  <2> QED
    BY <1>6, SeqDef
<1> HIDE DEF lb, m, inner, chunk, C, zeros, block, t
<1>9. CASE s.len = 0
  BY <1>5, <1>9 DEF t
<1>10. CASE s.len > 0 /\ (m.rc = "noent" \/ (m.rc = "ok" /\ m.uninit))
  <2>1. t = Got(zeros)
    BY <1>1, <1>5, <1>10
  <2>2. \A k \in 1 .. chunk : zeros[k] = CellAt(sb, ip, s.pos + (k - 1))
    BY <1>3, <1>7, <1>8, <1>10
  <2>3. Got(zeros) \in P
    BY <1>6, <1>8, <2>2, ReadMore
  <2> QED
    BY <2>1, <2>3 DEF t
<1>11. CASE s.len > 0 /\ m.rc = "ok" /\ ~m.uninit /\ m.phys \notin sb.unreadable
  <2>1. t = Got(block)
    BY <1>1, <1>5, <1>11
  <2>2. /\ sb.data[m.phys] \in Seq(Nat) /\ Len(sb.data[m.phys]) = FsBlock
    BY <1>3, <1>11, VolumeParts
  <2>3. /\ block \in Seq(Nat) /\ Len(block) = chunk
        /\ \A k \in 1 .. chunk : block[k] = sb.data[m.phys][(inner + (k - 1)) + 1]
    <3> DEFINE d == sb.data[m.phys]
    <3>1. d \in Seq(Nat) /\ Len(d) = FsBlock /\ block = SubSeq(d, inner + 1, inner + chunk)
      BY <2>2 DEF block
    <3> HIDE DEF d
    <3>2. \A k \in inner + 1 .. inner + chunk : d[k] \in Nat
      <4>1. \A k \in inner + 1 .. inner + chunk : k \in 1 .. Len(d)
        BY <1>1, <1>2, <1>6, <3>1
      <4> QED
        BY <3>1, <4>1, ElementOfSeq
    <3>a. inner + 1 \in Int /\ inner + chunk \in Int
      BY <1>2, <1>6
    <3>3. /\ block \in Seq(Nat)
          /\ Len(block) = IF inner + 1 <= inner + chunk THEN (inner + chunk) - (inner + 1) + 1 ELSE 0
          /\ \A k \in 1 .. (inner + chunk) - (inner + 1) + 1 : block[k] = d[(inner + 1) + k - 1]
      <4> DEFINE lo == inner + 1
                 hi == inner + chunk
      <4>1. lo \in Int /\ hi \in Int /\ (\A k \in lo .. hi : d[k] \in Nat) /\ block = SubSeq(d, lo, hi)
        BY <3>1, <3>2, <3>a
      <4> HIDE DEF lo, hi
      <4>2. /\ block \in Seq(Nat)
            /\ Len(block) = IF lo <= hi THEN hi - lo + 1 ELSE 0
            /\ \A k \in 1 .. hi - lo + 1 : block[k] = d[lo + k - 1]
        BY <4>1, SubSeqProperties
      <4> QED
        BY <4>2 DEF lo, hi
    <3>4. (inner + chunk) - (inner + 1) + 1 = chunk /\ (inner + 1 <= inner + chunk <=> chunk # 0)
      BY <1>2, <1>6
    <3>5. \A k \in 1 .. chunk : (inner + 1) + k - 1 = (inner + (k - 1)) + 1
      BY <1>2, <1>6
    <3> QED
      BY <3>3, <3>4, <3>5 DEF d
  <2>4. \A k \in 1 .. chunk : block[k] = CellAt(sb, ip, s.pos + (k - 1))
    BY <1>3, <1>7, <1>11, <2>3
  <2>5. Got(block) \in P
    BY <1>6, <2>3, <2>4, ReadMore
  <2> QED
    BY <2>1, <2>5 DEF t
<1>12. CASE s.len > 0 /\ (m.rc \notin {"ok", "noent"} \/ (m.rc = "ok" /\ ~m.uninit /\ m.phys \in sb.unreadable))
  <2>1. t = [s EXCEPT !.len = 0]
    BY <1>1, <1>5, <1>12
  <2> QED
    BY <2>1, ReadStops DEF t
<1> QED
  BY <1>1, <1>4, <1>9, <1>10, <1>11, <1>12

\* What a read has got after each round.
LEMMA ReadRounds ==
  ASSUME NEW sb \in Volume, NEW ino \in DOMAIN sb.inodes, Inode(sb, ino).type = "file",
         NEW p0 \in Nat, NEW n0 \in Nat
  PROVE  /\ read_loop(sb, Inode(sb, ino), p0, n0)[0] = [pos |-> p0, len |-> n0, data |-> <<>>]
         /\ \A i \in 0 .. n0 : read_loop(sb, Inode(sb, ino), p0, n0)[i] \in ReadSet(sb, Inode(sb, ino), p0, p0 + n0)
         /\ \A i \in 1 .. n0 : read_loop(sb, Inode(sb, ino), p0, n0)[i] = read_round(sb, Inode(sb, ino), read_loop(sb, Inode(sb, ino), p0, n0)[i - 1])
<1> DEFINE A == ReadSet(sb, Inode(sb, ino), p0, p0 + n0)
           n == n0
           b == [pos |-> p0, len |-> n0, data |-> <<>>]
           F == [i \in 1 .. n |-> [a \in A |-> read_round(sb, Inode(sb, ino), a)]]
           Loop(f) == [i \in 0 .. n |-> IF i = 0 THEN b ELSE read_round(sb, Inode(sb, ino), f[i - 1])]
           L == read_loop(sb, Inode(sb, ino), p0, n0)
<1>1. n \in Nat /\ b \in A
  <2>1. <<>> \in Seq(Nat) /\ Len(<<>>) = 0
    BY EmptySeq
  <2>2. b \in [pos : Nat, len : Nat, data : Seq(Nat)] /\ b.pos = p0 /\ b.len = n0 /\ b.data = <<>>
    BY <2>1
  <2> HIDE DEF b
  <2>3. b.pos = p0 + Len(b.data) /\ b.pos + b.len <= p0 + n0
    BY <2>1, <2>2
  <2>4. \A i \in 1 .. Len(b.data) : b.data[i] = CellAt(sb, Inode(sb, ino), p0 + i - 1)
    BY <2>1, <2>2
  <2>5. b \in A
    BY <2>2, <2>3, <2>4 DEF ReadSet
  <2> QED
    BY <2>5
<1>2. \A a \in A, i \in 1 .. n : read_round(sb, Inode(sb, ino), a) \in A
  BY ReadRoundKeeps
<1>3. F \in Rounds(A, n)
  BY <1>2 DEF Rounds
<1>4. \A a \in A, i \in 1 .. n : F[i][a] = read_round(sb, Inode(sb, ino), a)
  OBVIOUS
<1>5. L = CHOOSE f : f = Loop(f)
  BY DEF read_loop
<1> HIDE DEF A, F, b, n, L
<1>6. PICK f \in [0 .. n -> A] : f[0] = b /\ \A i \in 1 .. n : f[i] = F[i][f[i - 1]]
  <2>1. Runs(A, n, F, b)
    BY <1>1, <1>3, LoopRuns
  <2> QED
    BY <2>1 DEF Runs
<1>7. \A i \in 1 .. n : f[i] = read_round(sb, Inode(sb, ino), f[i - 1])
  <2> SUFFICES ASSUME NEW i \in 1 .. n PROVE f[i] = read_round(sb, Inode(sb, ino), f[i - 1])
    OBVIOUS
  <2>1. f[i - 1] \in A
    BY <1>1
  <2> QED
    BY <1>4, <1>6, <2>1
<1>8. f = Loop(f)
  <2>1. ASSUME NEW i \in 0 .. n PROVE f[i] = Loop(f)[i]
    <3>1. CASE i = 0
      BY <1>6, <3>1
    <3>2. CASE i # 0
      <4>1. i \in 1 .. n
        BY <1>1, <3>2
      <4> QED
        BY <1>7, <3>2, <4>1
    <3> QED
      BY <3>1, <3>2
  <2> QED
    BY <2>1
<1>9. L = Loop(L)
  BY <1>5, <1>8
<1>10. L[0] = b /\ \A i \in 1 .. n : L[i] = read_round(sb, Inode(sb, ino), L[i - 1])
  <2>1. 0 \in 0 .. n /\ \A i \in 1 .. n : i \in 0 .. n /\ i # 0
    BY <1>1
  <2>2. \A i \in 0 .. n : L[i] = IF i = 0 THEN b ELSE read_round(sb, Inode(sb, ino), L[i - 1])
    BY <1>9
  <2> QED
    BY <2>1, <2>2
<1>11. \A i \in 0 .. n : L[i] \in A
  <2> DEFINE G == {i \in Nat : L[i] \in A}
  <2>1. 0 \in G
    BY <1>1, <1>10
  <2>2. \A i \in 1 .. n : i - 1 \in G => i \in G
    <3> SUFFICES ASSUME NEW i \in 1 .. n, L[i - 1] \in A PROVE L[i] \in A
      BY <1>1
    <3>1. L[i] = read_round(sb, Inode(sb, ino), L[i - 1])
      BY <1>10
    <3> QED
      BY <1>2, <3>1
  <2> HIDE DEF G
  <2>3. n \in Nat
    BY <1>1
  <2>4. \A i \in 0 .. n : i \in G
    BY <2>1, <2>2, <2>3, UpTo, Zenon
  <2> QED
    BY <1>1, <2>4 DEF G
<1> QED
  BY <1>10, <1>11 DEF A, b, n, L

-----------------------------------------------------------------------------
(* ext4: directories.                                                      *)

\* An offset where a record begins, if the block is there.
AtRecord(sb, ip, off) ==
  Covering(sb, ip, off \div FsBlock) # {} =>
    off % FsBlock \in Starts(sb.dirs[Phys(sb, ip, off \div FsBlock)])

\* The offsets of a block.
LEMMA BlockOffsets ==
  ASSUME NEW d \in Nat \ {0}, NEW lb \in Nat
  PROVE  /\ lb * d \in Nat /\ (lb + 1) * d = lb * d + d
         /\ \A w \in Nat : lb * d <= w /\ w < lb * d + d => w \div d = lb /\ w % d = w - lb * d
         /\ ((lb + 1) * d) \div d = lb + 1 /\ ((lb + 1) * d) % d = 0
<1>1. lb * d \in Nat /\ (lb + 1) * d = lb * d + d /\ (lb + 1) * d \in Nat
  OBVIOUS
<1> DEFINE b == lb * d
<1>2. ASSUME NEW w \in Nat, b <= w, w < b + d PROVE w \div d = lb /\ w % d = w - b
  <2>1. w - b \in 0 .. d - 1 /\ w = lb * d + (w - b)
    <3>1. b \in Nat
      BY <1>1
    <3>2. b = lb * d
      OBVIOUS
    <3> HIDE DEF b
    <3> QED
      BY <1>2, <3>1, <3>2
  <2> DEFINE r == w - b
  <2>2. r \in 0 .. d - 1 /\ w = lb * d + r
    BY <2>1
  <2> HIDE DEF r, b
  <2>3. lb = w \div d /\ r = w % d
    BY <2>2, DivUnique
  <2> QED
    BY <2>3 DEF r
<1>3. ((lb + 1) * d) \div d = lb + 1 /\ ((lb + 1) * d) % d = 0
  <2> DEFINE x == (lb + 1) * d
             q == lb + 1
  <2>1. x \in Nat /\ q \in Int /\ 0 \in 0 .. d - 1 /\ x = q * d + 0
    BY <1>1
  <2> HIDE DEF x, q
  <2>2. q = x \div d /\ 0 = x % d
    BY <2>1, DivUnique
  <2> QED
    BY <2>2 DEF x, q
<1> QED
  BY <1>1, <1>2, <1>3

\* The blocks of a directory hold records.
LEMMA DirBlock ==
  ASSUME NEW sb \in Volume, NEW ino \in DOMAIN sb.inodes, Inode(sb, ino).type = "dir", NEW lb \in Nat,
         Covering(sb, Inode(sb, ino), lb) # {}
  PROVE  RecordsSound(sb.dirs[Phys(sb, Inode(sb, ino), lb)])
<1> DEFINE ip == Inode(sb, ino)
           C == Covering(sb, ip, lb)
           e == CHOOSE g \in C : TRUE
           n == MaxDepth - 1
<1>1. InodeSound(sb, ip)
  BY VolumeParts DEF Inode
<1>2. Extents(sb, ip) \subseteq ExtentRec
  <2>1. n \in 0 .. MaxDepth - 1 /\ MaxDepth \in Nat
    BY Ext4Assumption
  <2>2. Below(sb)[n] \in BelowSet(sb)
    BY <2>1, BelowRounds
  <2>3. NodeTyped(sb, ip.root)
    BY <1>1 DEF InodeSound
  <2> QED
    BY <2>1, <2>2, <2>3, ExtentsTyped DEF Extents
<1>3. e \in C
  OBVIOUS
<1>4. Phys(sb, ip, lb) = e.start + (lb - e.b)
  BY DEF Phys
<1> HIDE DEF e
<1>5. e \in Extents(sb, ip) /\ Holds(e, lb) /\ ~e.uninit
  BY <1>3 DEF Covering
<1>6. e.b \in Nat /\ e.span \in Nat /\ e.start \in Nat
  BY <1>2, <1>5 DEF ExtentRec
<1>7. e.start + (lb - e.b) \in e.start .. e.start + e.span - 1
  BY <1>5, <1>6 DEF Holds
<1>8. Phys(sb, ip, lb) \in DOMAIN sb.dirs
  BY <1>1, <1>4, <1>5, <1>7 DEF InodeSound
<1> QED
  BY <1>8, VolumeParts

\* A block begins with a record.
LEMMA BlockBegins ==
  ASSUME NEW sb \in Volume, NEW ino \in DOMAIN sb.inodes, Inode(sb, ino).type = "dir",
         NEW off \in Nat, off % FsBlock = 0
  PROVE  AtRecord(sb, Inode(sb, ino), off)
<1> DEFINE ip == Inode(sb, ino)
           lb == off \div FsBlock
<1>1. lb \in Nat
  BY DivMod, Ext4Assumption
<1> HIDE DEF lb
<1>2. ASSUME Covering(sb, ip, lb) # {} PROVE 0 \in Starts(sb.dirs[Phys(sb, ip, lb)])
  <2>1. RecordsSound(sb.dirs[Phys(sb, ip, lb)])
    BY <1>1, <1>2, DirBlock
  <2> QED
    BY <2>1, StartsChained DEF Chained
<1> QED
  BY <1>2 DEF AtRecord, lb

\* A record of a block: it ends where another begins, and no other begins in it.
LEMMA RecordEnds ==
  ASSUME NEW sb \in Volume, NEW ino \in DOMAIN sb.inodes, Inode(sb, ino).type = "dir",
         NEW off \in Nat, AtRecord(sb, Inode(sb, ino), off),
         Covering(sb, Inode(sb, ino), off \div FsBlock) # {},
         NEW rec \in Nat, rec = RecordAt(sb, Inode(sb, ino), off).rec,
         rec # 0, (off % FsBlock) + rec <= FsBlock
  PROVE  /\ AtRecord(sb, Inode(sb, ino), off + rec)
         /\ \A w \in InUse(sb, Inode(sb, ino)) : off <= w /\ w < off + rec => w = off
<1> DEFINE ip == Inode(sb, ino)
           lb == off \div FsBlock
           p == off % FsBlock
           b == lb * FsBlock
           R == sb.dirs[Phys(sb, ip, lb)]
<1>0. FsBlock \in Nat \ {0}
  BY Ext4Assumption
<1>1. lb \in Nat /\ p \in 0 .. FsBlock - 1 /\ off = b + p
  BY <1>0, DivMod
<1>2. /\ b \in Nat /\ (lb + 1) * FsBlock = b + FsBlock
      /\ \A w \in Nat : b <= w /\ w < b + FsBlock => w \div FsBlock = lb /\ w % FsBlock = w - b
      /\ ((lb + 1) * FsBlock) % FsBlock = 0
  BY <1>0, <1>1, BlockOffsets
<1>3. RecordsSound(R)
  BY <1>1, DirBlock
<1>4. p \in Starts(R) /\ rec = R[p].rec
  BY DEF AtRecord, RecordAt
<1>5. p + rec <= FsBlock
  OBVIOUS
<1>i. \A w \in InUse(sb, ip) :
        /\ w \in Nat
        /\ w % FsBlock \in Starts(sb.dirs[Phys(sb, ip, w \div FsBlock)])
  BY DEF InUse
<1> HIDE DEF lb, p, b, R, ip
<1>6. ASSUME NEW w \in InUse(sb, ip), off <= w, w < off + rec PROVE w = off
  <2>1. w \in Nat /\ b <= w /\ w < b + FsBlock
    BY <1>0, <1>1, <1>2, <1>5, <1>6, <1>i
  <2>2. w \div FsBlock = lb /\ w % FsBlock = w - b
    BY <1>2, <2>1
  <2>3. w - b \in Starts(R)
    BY <1>i, <2>2 DEF R
  <2>4. ~(p < w - b)
    <3>1. p < w - b => p + R[p].rec <= w - b
      BY <1>3, <1>4, <2>3, StartsApart
    <3> QED
      BY <1>1, <1>2, <1>4, <1>6, <2>1, <3>1
  <2> QED
    BY <1>1, <1>2, <1>6, <2>1, <2>4
<1>7. CASE p + rec < FsBlock
  <2>1. off + rec \in Nat /\ b <= off + rec /\ off + rec < b + FsBlock /\ (off + rec) - b = p + rec
    <3>1. b \in Nat /\ p \in Nat /\ off = b + p
      BY <1>1, <1>2
    <3> QED
      BY <1>0, <1>7, <3>1
  <2>2. (off + rec) \div FsBlock = lb /\ (off + rec) % FsBlock = p + rec
    BY <1>2, <2>1
  <2>3. p + rec \in DOMAIN R
    <3>1. p \in DOMAIN R
      BY <1>3, <1>4, StartsChained DEF Chained
    <3> QED
      BY <1>3, <1>4, <1>7, <3>1 DEF RecordsSound
  <2>4. p + rec \in Starts(R)
    BY <1>3, <1>4, <2>3, StartsChained DEF Chained
  <2>5. AtRecord(sb, ip, off + rec)
    BY <2>2, <2>4 DEF AtRecord, R
  <2> QED
    BY <1>6, <2>5 DEF ip
<1>8. CASE p + rec = FsBlock
  <2>1. off + rec = (lb + 1) * FsBlock /\ off + rec \in Nat
    <3>1. off + rec = b + FsBlock /\ off + rec \in Nat
      BY <1>0, <1>1, <1>2, <1>8
    <3>2. b + FsBlock = (lb + 1) * FsBlock
      BY <1>2
    <3> QED
      BY <3>1, <3>2
  <2>2. (off + rec) % FsBlock = 0
    BY <1>2, <2>1
  <2>3. AtRecord(sb, ip, off + rec)
    BY <2>1, <2>2, BlockBegins DEF ip
  <2> QED
    BY <1>6, <2>3 DEF ip
<1> QED
  BY <1>0, <1>1, <1>5, <1>7, <1>8

\* The states of a search from offset o0 on: what it has passed over is not in use, and
\* what it answers is the one record in use that it has passed.
DirSet(sb, ip, o0) ==
  {d \in [rc : {"go", "ok", "noent", "inval", "io"}, off : Nat,
          ino : {0} \cup {RecordAt(sb, ip, u).ino : u \in InUse(sb, ip)},
          name : {""} \cup {RecordAt(sb, ip, u).name : u \in InUse(sb, ip)}] :
     /\ d.rc = "go" => /\ o0 <= d.off /\ AtRecord(sb, ip, d.off)
                       /\ ip.extents => \A w \in InUse(sb, ip) : ~(o0 <= w /\ w < d.off)
     /\ d.rc = "ok" => /\ AtRecord(sb, ip, d.off)
                       /\ \E u \in InUse(sb, ip) :
                            /\ o0 <= u /\ u < d.off /\ d.name = RecordAt(sb, ip, u).name
                            /\ \A w \in InUse(sb, ip) : o0 <= w /\ w < d.off => w = u}

\* A state that has ended without an answer.
LEMMA DirEnds ==
  ASSUME NEW sb, NEW ip, NEW o0, NEW d \in DirSet(sb, ip, o0), NEW rc \in {"noent", "inval", "io"}
  PROVE  [d EXCEPT !.rc = rc] \in DirSet(sb, ip, o0)
<1> DEFINE N == {0} \cup {RecordAt(sb, ip, u).ino : u \in InUse(sb, ip)}
           M == {""} \cup {RecordAt(sb, ip, u).name : u \in InUse(sb, ip)}
           T == [rc : {"go", "ok", "noent", "inval", "io"}, off : Nat, ino : N, name : M]
           t == [d EXCEPT !.rc = rc]
<1>1. d \in T
  BY DEF DirSet
<1> HIDE DEF N, M
<1>2. t \in T /\ t.rc = rc /\ rc # "go" /\ rc # "ok"
  BY <1>1
<1> HIDE DEF t
<1>3. t \in DirSet(sb, ip, o0)
  BY <1>2 DEF DirSet, N, M
<1> QED
  BY <1>3 DEF t

\* The search goes on at a later offset.
LEMMA DirGoesOn ==
  ASSUME NEW sb, NEW ip, NEW o0 \in Nat, NEW d \in DirSet(sb, ip, o0), d.rc = "go", NEW off \in Nat,
         d.off <= off, AtRecord(sb, ip, off),
         ip.extents => \A w \in InUse(sb, ip) : ~(d.off <= w /\ w < off)
  PROVE  [d EXCEPT !.off = off] \in DirSet(sb, ip, o0)
<1> DEFINE N == {0} \cup {RecordAt(sb, ip, u).ino : u \in InUse(sb, ip)}
           M == {""} \cup {RecordAt(sb, ip, u).name : u \in InUse(sb, ip)}
           T == [rc : {"go", "ok", "noent", "inval", "io"}, off : Nat, ino : N, name : M]
           t == [d EXCEPT !.off = off]
<1>1. d \in T /\ o0 <= d.off /\ (ip.extents => \A w \in InUse(sb, ip) : ~(o0 <= w /\ w < d.off))
  BY DEF DirSet
<1>i. \A w \in InUse(sb, ip) : w \in Nat
  BY DEF InUse
<1> HIDE DEF N, M
<1>2. t \in T /\ t.rc = "go" /\ t.off = off /\ d.off \in Nat
  BY <1>1
<1> HIDE DEF t
<1>3. ip.extents => \A w \in InUse(sb, ip) : ~(o0 <= w /\ w < off)
  <2> SUFFICES ASSUME ip.extents, NEW w \in InUse(sb, ip), o0 <= w, w < off PROVE FALSE
    OBVIOUS
  <2>1. ~(w < d.off) /\ ~(d.off <= w)
    BY <1>1
  <2> QED
    BY <1>2, <1>i, <2>1
<1>4. o0 <= off
  BY <1>1, <1>2
<1>5. t \in DirSet(sb, ip, o0)
  BY <1>2, <1>3, <1>4 DEF DirSet, N, M
<1> QED
  BY <1>5 DEF t

\* The search finds a record.
LEMMA DirFinds ==
  ASSUME NEW sb, NEW ip, NEW o0 \in Nat, NEW d \in DirSet(sb, ip, o0), d.rc = "go", ip.extents,
         d.off \in InUse(sb, ip), NEW off \in Nat, d.off < off, AtRecord(sb, ip, off),
         \A w \in InUse(sb, ip) : d.off <= w /\ w < off => w = d.off
  PROVE  [rc |-> "ok", off |-> off, ino |-> RecordAt(sb, ip, d.off).ino, name |-> RecordAt(sb, ip, d.off).name]
           \in DirSet(sb, ip, o0)
<1> DEFINE N == {0} \cup {RecordAt(sb, ip, u).ino : u \in InUse(sb, ip)}
           M == {""} \cup {RecordAt(sb, ip, u).name : u \in InUse(sb, ip)}
           T == [rc : {"go", "ok", "noent", "inval", "io"}, off : Nat, ino : N, name : M]
           u == d.off
           x == RecordAt(sb, ip, u).ino
           y == RecordAt(sb, ip, u).name
           t == [rc |-> "ok", off |-> off, ino |-> x, name |-> y]
<1>1. u \in Nat /\ o0 <= u /\ \A w \in InUse(sb, ip) : ~(o0 <= w /\ w < u)
  BY DEF DirSet
<1>i. \A w \in InUse(sb, ip) : w \in Nat
  BY DEF InUse
<1>2. x \in N /\ y \in M
  OBVIOUS
<1> HIDE DEF N, M, u, x, y
<1>3. t \in T /\ t.rc = "ok" /\ t.off = off /\ t.name = y
  BY <1>2
<1> HIDE DEF t
<1>4. ASSUME NEW w \in InUse(sb, ip), o0 <= w, w < off PROVE w = u
  <2>1. ~(w < u)
    BY <1>1, <1>4
  <2>2. u <= w
    BY <1>1, <1>i, <2>1
  <2> QED
    BY <1>4, <2>2 DEF u
<1>5. /\ u \in InUse(sb, ip) /\ o0 <= u /\ u < off /\ t.name = RecordAt(sb, ip, u).name
      /\ \A w \in InUse(sb, ip) : o0 <= w /\ w < off => w = u
  BY <1>1, <1>3, <1>4 DEF u, y
<1>6. t \in DirSet(sb, ip, o0)
  <2>1. \E v \in InUse(sb, ip) : /\ o0 <= v /\ v < t.off /\ t.name = RecordAt(sb, ip, v).name
                                 /\ \A w \in InUse(sb, ip) : o0 <= w /\ w < t.off => w = v
    BY <1>3, <1>5
  <2> QED
    BY <1>3, <2>1 DEF DirSet, N, M
<1> QED
  BY <1>6 DEF t, x, y, u

LEMMA DirStep ==
  ASSUME NEW sb \in Volume, NEW ino \in DOMAIN sb.inodes, Inode(sb, ino).type = "dir",
         NEW o0 \in Nat, NEW d \in DirSet(sb, Inode(sb, ino), o0)
  PROVE  dir_round(sb, Inode(sb, ino), d) \in DirSet(sb, Inode(sb, ino), o0)
<1> DEFINE ip  == Inode(sb, ino)
           lb  == d.off \div FsBlock
           at == d.off % FsBlock
           m   == ext4_map(sb, ip, lb)
           r   == sb.dirs[m.phys][at]
           C   == Covering(sb, ip, lb)
           P   == DirSet(sb, ip, o0)
           t   == dir_round(sb, ip, d)
           end(rc) == [d EXCEPT !.rc = rc]
<1>0. FsBlock \in Nat \ {0} /\ RecHeader \in Nat \ {0} /\ ip.size \in Nat
  BY VolumeParts, Ext4Assumption DEF Inode, InodeSound
<1>1. d.off \in Nat /\ (d.rc = "go" => AtRecord(sb, ip, d.off))
  BY DEF DirSet
<1>2. lb \in Nat /\ at \in 0 .. FsBlock - 1 /\ d.off = lb * FsBlock + at
  BY <1>0, <1>1, DivMod
<1>3. /\ m \in MapResult
      /\ m.rc = "notsup" <=> ~ip.extents
      /\ m.rc = "noent" => C = {}
      /\ m.rc = "ok" /\ ~m.uninit => C # {} /\ Phys(sb, ip, lb) = m.phys
  <2> HIDE DEF lb
  <2> QED
    BY <1>2, MapTrue
<1>4. m.rc \in {"ok", "noent", "inval", "io", "notsup"} /\ m.uninit \in BOOLEAN
  BY <1>3 DEF MapResult
<1>5. t = CASE d.rc # "go" -> d
            [] d.rc = "go" /\ d.off >= ip.size -> end("noent")
            [] d.rc = "go" /\ d.off < ip.size /\ m.rc \in {"noent", "notsup"} ->
                 [d EXCEPT !.off = (lb + 1) * FsBlock]
            [] d.rc = "go" /\ d.off < ip.size /\ m.rc \in {"inval", "io"} -> end(m.rc)
            [] d.rc = "go" /\ d.off < ip.size /\ m.rc = "ok" ->
                 IF ~m.uninit /\ m.phys \in sb.unreadable THEN end("io")
                 ELSE IF m.uninit \/ r.rec < RecHeader \/ at + r.rec > FsBlock THEN end("inval")
                 ELSE IF r.ino = 0 THEN [d EXCEPT !.off = d.off + r.rec]
                 ELSE [rc |-> "ok", off |-> d.off + r.rec, ino |-> r.ino, name |-> r.name]
  BY DEF dir_round
<1>6. /\ lb * FsBlock \in Nat /\ (lb + 1) * FsBlock = lb * FsBlock + FsBlock
      /\ \A w \in Nat : lb * FsBlock <= w /\ w < lb * FsBlock + FsBlock => w \div FsBlock = lb
      /\ ((lb + 1) * FsBlock) % FsBlock = 0
  <2> HIDE DEF lb
  <2> QED
    <3>1. /\ lb * FsBlock \in Nat /\ (lb + 1) * FsBlock = lb * FsBlock + FsBlock
          /\ \A w \in Nat : lb * FsBlock <= w /\ w < lb * FsBlock + FsBlock =>
               w \div FsBlock = lb /\ w % FsBlock = w - lb * FsBlock
          /\ ((lb + 1) * FsBlock) \div FsBlock = lb + 1 /\ ((lb + 1) * FsBlock) % FsBlock = 0
      BY <1>0, <1>2, BlockOffsets
    <3> QED
      BY <3>1, Zenon
<1>7. \A w \in InUse(sb, ip) : w \in Nat /\ Covering(sb, ip, w \div FsBlock) # {}
  BY DEF InUse
<1>8. d.rc = "go" /\ d.off < ip.size /\ m.rc = "ok" /\ ~m.uninit =>
        r = RecordAt(sb, ip, d.off) /\ RecordsSound(sb.dirs[m.phys]) /\ at \in Starts(sb.dirs[m.phys])
  <2> SUFFICES ASSUME d.rc = "go", m.rc = "ok", ~m.uninit
               PROVE  r = RecordAt(sb, ip, d.off) /\ RecordsSound(sb.dirs[m.phys]) /\ at \in Starts(sb.dirs[m.phys])
    OBVIOUS
  <2>1. C # {} /\ Phys(sb, ip, lb) = m.phys
    BY <1>3
  <2>2. RecordsSound(sb.dirs[m.phys])
    <3> HIDE DEF lb, m
    <3> QED
      BY <1>2, <2>1, DirBlock
  <2>3. at \in Starts(sb.dirs[m.phys])
    BY <1>1, <2>1 DEF AtRecord
  <2>4. r = RecordAt(sb, ip, d.off)
    BY <2>1 DEF RecordAt
  <2> QED
    BY <2>2, <2>3, <2>4
<1> HIDE DEF m, r, t
<1>9. CASE d.rc # "go"
  BY <1>5, <1>9 DEF t
<1>10. CASE d.rc = "go" /\ d.off >= ip.size
  <2>1. t = end("noent")
    BY <1>0, <1>1, <1>5, <1>10
  <2>2. end("noent") \in P
    BY DirEnds
  <2> QED
    BY <2>1, <2>2 DEF t
<1>11. CASE d.rc = "go" /\ d.off < ip.size /\ m.rc \in {"noent", "notsup"}
  <2> DEFINE o == (lb + 1) * FsBlock
  <2>1. t = [d EXCEPT !.off = o]
    BY <1>0, <1>1, <1>5, <1>11
  <2>2. o \in Nat /\ d.off <= o /\ o = lb * FsBlock + FsBlock
    <3> DEFINE b == lb * FsBlock
    <3>1. b \in Nat /\ o = b + FsBlock /\ d.off = b + at
      BY <1>2, <1>6
    <3> HIDE DEF b, o, at
    <3>2. o \in Nat /\ d.off <= o
      BY <1>0, <1>2, <3>1
    <3> QED
      BY <3>1, <3>2 DEF b
  <2>3. AtRecord(sb, ip, o)
    <3>1. o % FsBlock = 0
      BY <1>6
    <3> HIDE DEF o
    <3> QED
      BY <2>2, <3>1, BlockBegins
  <2>4. ip.extents => \A w \in InUse(sb, ip) : ~(d.off <= w /\ w < o)
    <3> SUFFICES ASSUME ip.extents, NEW w \in InUse(sb, ip), d.off <= w, w < o PROVE FALSE
      OBVIOUS
    <3>1. C = {}
      BY <1>3, <1>11
    <3>2. w \in Nat /\ lb * FsBlock <= w /\ w < lb * FsBlock + FsBlock
      <4> DEFINE b == lb * FsBlock
      <4>1. b \in Nat /\ d.off = b + at /\ o = b + FsBlock
        BY <1>2, <1>6
      <4> HIDE DEF b, o, at
      <4>2. w \in Nat /\ b <= w /\ w < b + FsBlock
        BY <1>2, <1>7, <4>1
      <4> QED
        BY <4>2 DEF b
    <3>3. w \div FsBlock = lb
      BY <1>6, <3>2
    <3> QED
      BY <1>7, <3>1, <3>3
  <2> HIDE DEF o
  <2>5. [d EXCEPT !.off = o] \in P
    BY <1>11, <2>2, <2>3, <2>4, DirGoesOn
  <2> QED
    BY <2>1, <2>5 DEF t
<1>12. CASE d.rc = "go" /\ d.off < ip.size /\ m.rc \in {"inval", "io"}
  <2>1. t = end(m.rc)
    BY <1>0, <1>1, <1>5, <1>12
  <2>2. end(m.rc) \in P
    BY <1>12, DirEnds
  <2> QED
    BY <2>1, <2>2 DEF t
<1>13. CASE /\ d.rc = "go" /\ d.off < ip.size /\ m.rc = "ok"
            /\ (~m.uninit /\ m.phys \in sb.unreadable) \/ m.uninit \/ r.rec < RecHeader \/ at + r.rec > FsBlock
  <2>1. t = end("io") \/ t = end("inval")
    BY <1>0, <1>1, <1>5, <1>13
  <2>2. end("io") \in P /\ end("inval") \in P
    BY DirEnds
  <2> QED
    BY <2>1, <2>2 DEF t
<1>14. CASE /\ d.rc = "go" /\ d.off < ip.size /\ m.rc = "ok"
            /\ ~m.uninit /\ m.phys \notin sb.unreadable /\ ~(r.rec < RecHeader) /\ ~(at + r.rec > FsBlock)
  <2> DEFINE o == d.off + r.rec
  <2>1. r = RecordAt(sb, ip, d.off) /\ RecordsSound(sb.dirs[m.phys]) /\ at \in Starts(sb.dirs[m.phys])
    BY <1>8, <1>14
  <2>2. r.rec \in Nat
    <3>1. at \in DOMAIN sb.dirs[m.phys]
      BY <2>1, StartsChained DEF Chained
    <3> QED
      BY <2>1, <3>1 DEF RecordsSound, r
  <2>3. r.rec # 0 /\ at + r.rec <= FsBlock /\ o \in Nat /\ d.off < o
    <3> HIDE DEF at
    <3> QED
      BY <1>0, <1>1, <1>2, <1>14, <2>2
  <2>4. C # {} /\ ip.extents
    <3>1. C # {} /\ m.rc # "notsup"
      BY <1>3, <1>14
    <3>2. ip.extents \in BOOLEAN
      BY VolumeParts DEF Inode, InodeSound
    <3> QED
      BY <1>3, <3>1, <3>2
  <2>5. /\ AtRecord(sb, ip, o)
        /\ \A w \in InUse(sb, ip) : d.off <= w /\ w < o => w = d.off
    BY <1>1, <1>14, <2>1, <2>2, <2>3, <2>4, RecordEnds
  <2>6. CASE r.ino = 0
    <3>1. t = [d EXCEPT !.off = o]
      BY <1>0, <1>1, <1>5, <1>14, <2>6
    <3>2. d.off \notin InUse(sb, ip)
      BY <2>1, <2>6 DEF InUse
    <3>3. ip.extents => \A w \in InUse(sb, ip) : ~(d.off <= w /\ w < o)
      BY <2>5, <3>2
    <3>a. d.rc = "go" /\ o \in Nat /\ d.off <= o /\ AtRecord(sb, ip, o)
      BY <1>1, <1>14, <2>3, <2>5
    <3> HIDE DEF o
    <3>4. [d EXCEPT !.off = o] \in P
      BY <3>3, <3>a, DirGoesOn
    <3> QED
      BY <3>1, <3>4 DEF t
  <2>7. CASE r.ino # 0
    <3>1. t = [rc |-> "ok", off |-> o, ino |-> r.ino, name |-> r.name]
      BY <1>0, <1>1, <1>5, <1>14, <2>7
    <3>2. d.off \in InUse(sb, ip)
      <4>1. d.off \in 0 .. ip.size - 1
        BY <1>0, <1>1, <1>14
      <4>2. at \in Starts(sb.dirs[Phys(sb, ip, lb)])
        BY <1>3, <1>14, <2>1
      <4> QED
        BY <2>1, <2>4, <2>7, <4>1, <4>2 DEF InUse
    <3> HIDE DEF o
    <3>3. [rc |-> "ok", off |-> o, ino |-> r.ino, name |-> r.name] \in P
      BY <1>14, <2>1, <2>3, <2>4, <2>5, <3>2, DirFinds
    <3> QED
      BY <3>1, <3>3 DEF t
  <2> QED
    BY <2>6, <2>7
<1>15. \/ d.rc # "go" \/ d.off >= ip.size \/ d.off < ip.size
  BY <1>0, <1>1
<1> QED
  BY <1>4, <1>9, <1>10, <1>11, <1>12, <1>13, <1>14, <1>15

\* A search begins.
LEMMA DirStarts ==
  ASSUME NEW sb, NEW ip, NEW off \in Nat, AtRecord(sb, ip, off)
  PROVE  [rc |-> "go", off |-> off, ino |-> 0, name |-> ""] \in DirSet(sb, ip, off)
<1> DEFINE N == {0} \cup {RecordAt(sb, ip, u).ino : u \in InUse(sb, ip)}
           M == {""} \cup {RecordAt(sb, ip, u).name : u \in InUse(sb, ip)}
           T == [rc : {"go", "ok", "noent", "inval", "io"}, off : Nat, ino : N, name : M]
           t == [rc |-> "go", off |-> off, ino |-> 0, name |-> ""]
<1>1. 0 \in N /\ "" \in M
  OBVIOUS
<1>2. \A w \in InUse(sb, ip) : ~(off <= w /\ w < off)
  BY DEF InUse
<1> HIDE DEF N, M
<1>3. t \in T /\ t.rc = "go" /\ t.off = off
  BY <1>1
<1>4. off <= off
  OBVIOUS
<1> HIDE DEF t
<1>5. t \in DirSet(sb, ip, off)
  BY <1>2, <1>3, <1>4 DEF DirSet, N, M
<1> QED
  BY <1>5 DEF t

\* The search after each round.
LEMMA DirRounds ==
  ASSUME NEW sb \in Volume, NEW ino \in DOMAIN sb.inodes, Inode(sb, ino).type = "dir",
         NEW off \in Nat, AtRecord(sb, Inode(sb, ino), off)
  PROVE  /\ dir_loop(sb, Inode(sb, ino), off)[0] = [rc |-> "go", off |-> off, ino |-> 0, name |-> ""]
         /\ \A i \in 0 .. Inode(sb, ino).size + 1 : dir_loop(sb, Inode(sb, ino), off)[i] \in DirSet(sb, Inode(sb, ino), off)
         /\ \A i \in 1 .. Inode(sb, ino).size + 1 : dir_loop(sb, Inode(sb, ino), off)[i] = dir_round(sb, Inode(sb, ino), dir_loop(sb, Inode(sb, ino), off)[i - 1])
<1> DEFINE A == DirSet(sb, Inode(sb, ino), off)
           n == Inode(sb, ino).size + 1
           b == [rc |-> "go", off |-> off, ino |-> 0, name |-> ""]
           F == [i \in 1 .. n |-> [a \in A |-> dir_round(sb, Inode(sb, ino), a)]]
           Loop(f) == [i \in 0 .. n |-> IF i = 0 THEN b ELSE dir_round(sb, Inode(sb, ino), f[i - 1])]
           L == dir_loop(sb, Inode(sb, ino), off)
<1>1. n \in Nat /\ b \in A
  <2>1. Inode(sb, ino).size \in Nat
    BY VolumeParts DEF Inode, InodeSound
  <2>2. b \in A
    BY DirStarts, Zenon
  <2>3. n \in Nat
    BY <2>1
  <2> HIDE DEF b, A, n
  <2> QED
    BY <2>2, <2>3
<1>2. \A a \in A, i \in 1 .. n : dir_round(sb, Inode(sb, ino), a) \in A
  BY DirStep
<1>3. F \in Rounds(A, n)
  BY <1>2 DEF Rounds
<1>4. \A a \in A, i \in 1 .. n : F[i][a] = dir_round(sb, Inode(sb, ino), a)
  OBVIOUS
<1>5. L = CHOOSE f : f = Loop(f)
  BY DEF dir_loop
<1> HIDE DEF A, F, b, n, L
<1>6. PICK f \in [0 .. n -> A] : f[0] = b /\ \A i \in 1 .. n : f[i] = F[i][f[i - 1]]
  <2>1. Runs(A, n, F, b)
    BY <1>1, <1>3, LoopRuns
  <2> QED
    BY <2>1 DEF Runs
<1>7. \A i \in 1 .. n : f[i] = dir_round(sb, Inode(sb, ino), f[i - 1])
  <2> SUFFICES ASSUME NEW i \in 1 .. n PROVE f[i] = dir_round(sb, Inode(sb, ino), f[i - 1])
    OBVIOUS
  <2>1. f[i - 1] \in A
    BY <1>1
  <2> QED
    BY <1>4, <1>6, <2>1
<1>8. f = Loop(f)
  <2>1. ASSUME NEW i \in 0 .. n PROVE f[i] = Loop(f)[i]
    <3>1. CASE i = 0
      BY <1>6, <3>1
    <3>2. CASE i # 0
      <4>1. i \in 1 .. n
        BY <1>1, <3>2
      <4> QED
        BY <1>7, <3>2, <4>1
    <3> QED
      BY <3>1, <3>2
  <2> QED
    BY <2>1
<1>9. L = Loop(L)
  BY <1>5, <1>8
<1>10. L[0] = b /\ \A i \in 1 .. n : L[i] = dir_round(sb, Inode(sb, ino), L[i - 1])
  <2>1. 0 \in 0 .. n /\ \A i \in 1 .. n : i \in 0 .. n /\ i # 0
    BY <1>1
  <2>2. \A i \in 0 .. n : L[i] = IF i = 0 THEN b ELSE dir_round(sb, Inode(sb, ino), L[i - 1])
    BY <1>9
  <2> QED
    BY <2>1, <2>2
<1>11. \A i \in 0 .. n : L[i] \in A
  <2> DEFINE G == {i \in Nat : L[i] \in A}
  <2>1. 0 \in G
    BY <1>1, <1>10
  <2>2. \A i \in 1 .. n : i - 1 \in G => i \in G
    <3> SUFFICES ASSUME NEW i \in 1 .. n, L[i - 1] \in A PROVE L[i] \in A
      BY <1>1
    <3>1. L[i] = dir_round(sb, Inode(sb, ino), L[i - 1])
      BY <1>10
    <3> QED
      BY <1>2, <3>1
  <2> HIDE DEF G
  <2>3. n \in Nat
    BY <1>1
  <2>4. \A i \in 0 .. n : i \in G
    BY <2>1, <2>2, <2>3, UpTo, Zenon
  <2> QED
    BY <1>1, <2>4 DEF G
<1> QED
  BY <1>10, <1>11 DEF A, b, n, L

-----------------------------------------------------------------------------
(* ext4: the invariant.                                                    *)

\* The records in use before offset off, and the place of a record among them.
UsedBefore(sb, ip, off) == {u \in InUse(sb, ip) : u < off}
PlaceOf(sb, ip, off) == Cardinality({u \in InUse(sb, ip) : u <= off})

\* L has the names of the records in use before off, each at its place.
ListedTo(sb, ip, off, L) ==
  /\ L \in Seq({""} \cup {RecordAt(sb, ip, u).name : u \in InUse(sb, ip)})
  /\ Len(L) = Cardinality(UsedBefore(sb, ip, off))
  /\ \A u \in UsedBefore(sb, ip, off) : L[PlaceOf(sb, ip, u)] = RecordAt(sb, ip, u).name

ReadTrue ==
  /\ readout.data \in Seq(Nat)
  /\ \A i \in 1 .. Len(readout.data) :
       /\ readout.pos + i <= Inode(volume, readout.ino).size
       /\ readout.data[i] = CellAt(volume, Inode(volume, readout.ino), readout.pos + i - 1)

FileRight ==
  file # Closed => /\ mounted /\ file \in [ino : DOMAIN volume.inodes, pos : Nat]
                   /\ Inode(volume, file.ino).type = "file"

CursorRight ==
  /\ cursor # Closed => /\ mounted /\ cursor \in [ino : DOMAIN volume.inodes \ {0}, pos : Nat]
                        /\ Inode(volume, cursor.ino).type = "dir"
                        /\ AtRecord(volume, Inode(volume, cursor.ino), cursor.pos)
                        /\ ListedTo(volume, Inode(volume, cursor.ino), cursor.pos, listed)
  /\ cursor = Closed => listed = <<>>

Ext4Inv == volume \in Volume /\ ReadTrue /\ FileRight /\ CursorRight

Ext4Spec == Ext4Init /\ [][Ext4Next]_extVars

LEMMA UsedFinite ==
  ASSUME NEW sb, NEW ip, ip.size \in Nat, NEW S, S \subseteq InUse(sb, ip)
  PROVE  IsFiniteSet(S) /\ Cardinality(S) \in Nat
<1>1. IsFiniteSet(0 .. ip.size - 1)
  BY FS_Interval
<1>2. S \subseteq 0 .. ip.size - 1
  BY DEF InUse
<1> QED
  BY <1>1, <1>2, FS_Subset, FS_CardinalityType

\* Nothing is listed before the first record.
LEMMA ListedNone ==
  ASSUME NEW sb, NEW ip
  PROVE  ListedTo(sb, ip, 0, <<>>)
<1> DEFINE Names == {""} \cup {RecordAt(sb, ip, u).name : u \in InUse(sb, ip)}
<1>1. UsedBefore(sb, ip, 0) = {}
  BY DEF UsedBefore, InUse
<1>2. Cardinality({}) = 0
  BY FS_EmptySet
<1> HIDE DEF Names
<1>3. <<>> \in Seq(Names) /\ Len(<<>>) = 0
  BY EmptySeq
<1> QED
  BY <1>1, <1>2, <1>3 DEF ListedTo, Names

\* Where the next record has been found, its name comes next.
LEMMA ListedNext ==
  ASSUME NEW sb, NEW ip, ip.size \in Nat, NEW off \in Nat, NEW L, ListedTo(sb, ip, off, L),
         NEW o \in Nat, NEW u \in InUse(sb, ip), off <= u, u < o,
         \A w \in InUse(sb, ip) : off <= w /\ w < o => w = u
  PROVE  ListedTo(sb, ip, o, Append(L, RecordAt(sb, ip, u).name))
<1> DEFINE U == InUse(sb, ip)
           A == UsedBefore(sb, ip, off)
           B == UsedBefore(sb, ip, o)
           Names == {""} \cup {RecordAt(sb, ip, w).name : w \in U}
           name == RecordAt(sb, ip, u).name
           M == Append(L, name)
           P(w) == {x \in U : x <= w}
<1>i. \A w \in U : w \in Nat
  BY DEF InUse
<1>1. /\ \A w : w \in A <=> w \in U /\ w < off
      /\ \A w : w \in B <=> w \in U /\ w < o
  BY DEF UsedBefore
<1>2. IsFiniteSet(A) /\ Cardinality(A) \in Nat
  BY <1>1, UsedFinite
<1>3. /\ L \in Seq(Names) /\ Len(L) = Cardinality(A) /\ name \in Names
      /\ \A w \in A : L[Cardinality(P(w))] = RecordAt(sb, ip, w).name
  BY DEF ListedTo, PlaceOf
<1>p. \A w : PlaceOf(sb, ip, w) = Cardinality(P(w))
  BY DEF PlaceOf
<1>u. u \in U
  OBVIOUS
<1>w. \A w \in U : off <= w /\ w < o => w = u
  OBVIOUS
<1>f. \A S : S \subseteq U => IsFiniteSet(S) /\ Cardinality(S) \in Nat
  BY UsedFinite
<1> HIDE DEF U, A, B, Names, name
<1>4. B = A \cup {u} /\ u \notin A
  <2>1. u \notin A
    BY <1>1, <1>i, <1>u
  <2>2. \A w : w \in B <=> w \in A \cup {u}
    <3> SUFFICES ASSUME NEW w PROVE w \in B <=> w \in A \/ w = u
      OBVIOUS
    <3>1. ASSUME w \in B PROVE w \in A \/ w = u
      BY <1>1, <1>i, <1>w, <3>1
    <3>2. ASSUME w \in A PROVE w \in B
      BY <1>1, <1>i, <1>u, <3>2
    <3>3. u \in B
      BY <1>1, <1>u
    <3> QED
      BY <3>1, <3>2, <3>3
  <2> QED
    BY <2>1, <2>2
<1>5. Cardinality(B) = Cardinality(A) + 1
  BY <1>2, <1>4, FS_AddElement
<1>6. /\ M \in Seq(Names) /\ Len(M) = Len(L) + 1
      /\ \A i \in 1 .. Len(L) : M[i] = L[i]
      /\ M[Len(L) + 1] = name
  BY <1>3, AppendProperties
<1>7. P(u) = B
  <2> SUFFICES ASSUME NEW w PROVE w \in U /\ w <= u <=> w \in B
    OBVIOUS
  <2>1. ASSUME w \in U, w <= u PROVE w \in B
    BY <1>1, <1>i, <1>u, <2>1
  <2>2. ASSUME w \in B PROVE w \in U /\ w <= u
    BY <1>1, <1>4, <1>i, <1>u, <2>2
  <2> QED
    BY <2>1, <2>2
<1>8. ASSUME NEW w \in A PROVE Cardinality(P(w)) \in 1 .. Len(L)
  <2>1. w \in U /\ w \in Nat /\ w < off
    BY <1>1, <1>i
  <2>2. P(w) \subseteq A
    <3> SUFFICES ASSUME NEW x \in U, x <= w PROVE x \in A
      OBVIOUS
    <3>1. x \in Nat /\ x < off
      BY <1>i, <2>1
    <3> QED
      BY <1>1, <3>1
  <2>3. w \in P(w) /\ P(w) \subseteq U
    BY <2>1
  <2> DEFINE Q == P(w)
  <2> HIDE DEF Q
  <2>4. Q \subseteq A /\ w \in Q /\ Q \subseteq U
    BY <2>2, <2>3 DEF Q
  <2>5. Cardinality(Q) <= Cardinality(A) /\ Cardinality(Q) \in Nat
    BY <1>2, <1>f, <2>4, FS_Subset
  <2>6. Cardinality(Q) # 0
    BY <1>f, <2>4, FS_EmptySet
  <2> QED
    BY <1>2, <1>3, <2>5, <2>6 DEF Q
<1>9. ASSUME NEW w \in B PROVE M[Cardinality(P(w))] = RecordAt(sb, ip, w).name
  <2>1. CASE w \in A
    BY <1>3, <1>6, <1>8, <2>1
  <2>2. CASE w = u
    <3>1. Cardinality(P(w)) = Len(L) + 1
      BY <1>3, <1>5, <1>7, <2>2
    <3> QED
      BY <1>6, <2>2, <3>1 DEF name
  <2> QED
    BY <1>4, <2>1, <2>2
<1>10. Len(M) = Cardinality(B)
  BY <1>3, <1>5, <1>6
<1> HIDE DEF M
<1>11. ListedTo(sb, ip, o, M)
  BY <1>6, <1>9, <1>10, <1>p DEF ListedTo, B, Names, U
<1> QED
  BY <1>11 DEF M, name

\* What is listed up to a cursor is in order and complete.
LEMMA ListedOrder ==
  ASSUME NEW sb, NEW ip, ip.size \in Nat, NEW off \in Nat, NEW L, ListedTo(sb, ip, off, L)
  PROVE  /\ Len(L) <= Cardinality(InUse(sb, ip))
         /\ \A u \in InUse(sb, ip) : PlaceOf(sb, ip, u) <= Len(L) => L[PlaceOf(sb, ip, u)] = RecordAt(sb, ip, u).name
<1> DEFINE U == InUse(sb, ip)
           A == UsedBefore(sb, ip, off)
<1>1. /\ Len(L) = Cardinality(A)
      /\ \A u \in A : L[PlaceOf(sb, ip, u)] = RecordAt(sb, ip, u).name
  BY DEF ListedTo
<1>2. \A u : u \in A <=> u \in U /\ u < off
  BY DEF UsedBefore
<1>3. \A u \in U : u \in Nat
  BY DEF InUse
<1>4. \A S : S \subseteq U => IsFiniteSet(S) /\ Cardinality(S) \in Nat
  BY UsedFinite
<1>5. \A u : PlaceOf(sb, ip, u) = Cardinality({w \in U : w <= u})
  BY DEF PlaceOf
<1> HIDE DEF U, A
<1>6. A \subseteq U
  BY <1>2
<1>7. Cardinality(A) <= Cardinality(U)
  BY <1>4, <1>6, FS_Subset
<1>8. ASSUME NEW u \in U, PlaceOf(sb, ip, u) <= Len(L) PROVE u \in A
  <2> SUFFICES ASSUME u \notin A PROVE FALSE
    OBVIOUS
  <2> DEFINE P == {w \in U : w <= u}
             B == A \cup {u}
  <2>1. off <= u
    BY <1>2, <1>3
  <2>2. B \subseteq P
    <3>1. u \in P
      BY <1>3
    <3>2. ASSUME NEW w \in A PROVE w \in P
      BY <1>2, <1>3, <2>1
    <3> QED
      BY <3>1, <3>2
  <2>3. IsFiniteSet(P) /\ Cardinality(P) \in Nat /\ P \subseteq U
    BY <1>4
  <2> HIDE DEF P
  <2>4. IsFiniteSet(A) /\ Cardinality(A) \in Nat /\ Cardinality(B) = Cardinality(A) + 1
    BY <1>4, <1>6, FS_AddElement
  <2> HIDE DEF B
  <2>5. Cardinality(B) <= Cardinality(P)
    BY <2>2, <2>3, FS_Subset
  <2>6. B \subseteq U
    BY <2>2, <2>3
  <2>7. Cardinality(B) \in Nat /\ PlaceOf(sb, ip, u) = Cardinality(P)
    BY <1>4, <1>5, <2>6 DEF P
  <2> QED
    BY <1>1, <1>8, <2>3, <2>4, <2>5, <2>7
<1> QED
  BY <1>1, <1>7, <1>8 DEF U

LEMMA Ext4Start ==
  ASSUME Ext4Init
  PROVE  Ext4Inv
<1>1. readout.data = <<>> /\ <<>> \in Seq(Nat) /\ Len(<<>>) = 0
  BY EmptySeq DEF Ext4Init, NothingRead
<1>2. ReadTrue
  BY <1>1 DEF ReadTrue
<1> QED
  BY <1>2 DEF Ext4Init, Ext4Inv, FileRight, CursorRight

\* What the driver reads of a volume does not change.
LEMMA Ext4Kept ==
  ASSUME Ext4Inv, volume' = volume
  PROVE  /\ volume' \in Volume
         /\ readout' = readout => ReadTrue'
         /\ readout' = NothingRead => ReadTrue'
         /\ file' = file /\ (mounted => mounted') => FileRight'
         /\ file' = Closed => FileRight'
         /\ cursor' = cursor /\ listed' = listed /\ (mounted => mounted') => CursorRight'
         /\ cursor' = Closed /\ listed' = <<>> => CursorRight'
<1>0. Closed' = Closed /\ NothingRead' = NothingRead
  BY DEF Closed, NothingRead
<1>1. volume' \in Volume
  BY DEF Ext4Inv
<1>2. ASSUME readout' = readout PROVE ReadTrue'
  BY <1>2 DEF Ext4Inv, ReadTrue
<1>3. ASSUME readout' = NothingRead PROVE ReadTrue'
  <2>1. readout'.data = <<>> /\ <<>> \in Seq(Nat) /\ Len(<<>>) = 0
    BY <1>3, EmptySeq DEF NothingRead
  <2> QED
    BY <2>1 DEF ReadTrue
<1>4. ASSUME file' = file, mounted => mounted' PROVE FileRight'
  BY <1>0, <1>4 DEF Ext4Inv, FileRight
<1>5. ASSUME file' = Closed PROVE FileRight'
  BY <1>0, <1>5 DEF FileRight
<1>6. ASSUME cursor' = cursor, listed' = listed, mounted => mounted' PROVE CursorRight'
  BY <1>0, <1>6 DEF Ext4Inv, CursorRight
<1>7. ASSUME cursor' = Closed, listed' = <<>> PROVE CursorRight'
  BY <1>0, <1>7 DEF CursorRight
<1> QED
  BY <1>1, <1>2, <1>3, <1>4, <1>5, <1>6, <1>7

\* A read.
LEMMA ReadKeeps ==
  ASSUME Ext4Inv, NEW want \in Nat, ext4_read(want)
  PROVE  ReadTrue' /\ FileRight'
<1> DEFINE ino  == file.ino
           p0   == file.pos
           ip   == Inode(volume, ino)
           left == Left(ip, p0, want)
           s    == read_loop(volume, ip, p0, left)[left]
<1>0. volume' = volume /\ mounted' = mounted
  BY DEF ext4_read
<1>1. /\ volume \in Volume /\ mounted /\ ino \in DOMAIN volume.inodes /\ p0 \in Nat /\ ip.type = "file"
      /\ file \in [ino : DOMAIN volume.inodes, pos : Nat]
  BY DEF Ext4Inv, FileRight, ext4_read
<1>2. ip.size \in Nat
  BY <1>1, VolumeParts DEF Inode, InodeSound
<1>3. /\ readout' = [ino |-> ino, pos |-> p0, data |-> s.data]
      /\ file' = [file EXCEPT !.pos = s.pos]
  BY DEF ext4_read
<1>4. left \in Nat /\ (left # 0 => p0 + left <= ip.size)
  <2> HIDE DEF ip, p0
  <2> QED
    BY <1>1, <1>2 DEF Left
<1> HIDE DEF left
<1>5. s \in ReadSet(volume, ip, p0, p0 + left)
  <2>1. left \in 0 .. left
    BY <1>4
  <2> HIDE DEF p0
  <2> QED
    BY <1>1, <1>4, <2>1, ReadRounds
<1> HIDE DEF s
<1>6. /\ s.pos \in Nat /\ s.len \in Nat /\ s.data \in Seq(Nat) /\ s.pos = p0 + Len(s.data)
      /\ s.pos + s.len <= p0 + left
      /\ \A i \in 1 .. Len(s.data) : s.data[i] = CellAt(volume, ip, p0 + i - 1)
  BY <1>5 DEF ReadSet
<1>7. ASSUME NEW i \in 1 .. Len(s.data) PROVE p0 + i <= ip.size
  <2>1. Len(s.data) \in Nat
    BY <1>6, LenProperties
  <2> HIDE DEF p0, ip
  <2>2. Len(s.data) <= left
    BY SMTT(20), <1>1, <1>4, <1>6, <2>1
  <2> QED
    BY <1>1, <1>2, <1>4, <2>1, <2>2
<1>8. ReadTrue'
  <2>1. readout'.data = s.data /\ readout'.pos = p0 /\ readout'.ino = ino
    BY <1>3
  <2> QED
    BY <1>0, <1>6, <1>7, <2>1 DEF ReadTrue
<1>9. FileRight'
  <2>1. file' \in [ino : DOMAIN volume.inodes, pos : Nat] /\ file'.ino = ino
    BY <1>1, <1>3, <1>6
  <2> QED
    BY <1>0, <1>1, <2>1 DEF FileRight
<1> QED
  BY <1>8, <1>9

\* A step of a cursor.
LEMMA ReaddirKeeps ==
  ASSUME Ext4Inv, ext4_readdir
  PROVE  CursorRight'
<1> DEFINE ino == cursor.ino
           off == cursor.pos
           ip  == Inode(volume, ino)
           n   == ip.size + 1
           e   == dir_loop(volume, ip, off)[n]
<1>0. volume' = volume /\ mounted' = mounted /\ Closed' = Closed
  BY DEF ext4_readdir, Closed
<1>1. /\ volume \in Volume /\ mounted /\ ino \in DOMAIN volume.inodes \ {0} /\ off \in Nat /\ ip.type = "dir"
      /\ cursor \in [ino : DOMAIN volume.inodes \ {0}, pos : Nat]
      /\ AtRecord(volume, ip, off) /\ ListedTo(volume, ip, off, listed)
  BY DEF Ext4Inv, CursorRight, ext4_readdir
<1>2. ip.size \in Nat
  BY <1>1, VolumeParts DEF Inode, InodeSound
<1>3. /\ e.rc = "ok" /\ cursor' = [cursor EXCEPT !.pos = e.off] /\ listed' = Append(listed, e.name)
  BY DEF ext4_readdir, ext4_dir_next
<1>4. e \in DirSet(volume, ip, off)
  <2>1. n \in 0 .. n /\ n = ip.size + 1
    BY <1>2
  <2> HIDE DEF off, n
  <2>2. \A i \in 0 .. ip.size + 1 : dir_loop(volume, ip, off)[i] \in DirSet(volume, ip, off)
    BY <1>1, DirRounds
  <2> QED
    BY <2>1, <2>2
<1> HIDE DEF e
<1>5. e.off \in Nat /\ AtRecord(volume, ip, e.off)
  BY <1>3, <1>4 DEF DirSet
<1>6. PICK u \in InUse(volume, ip) :
        /\ off <= u /\ u < e.off /\ e.name = RecordAt(volume, ip, u).name
        /\ \A w \in InUse(volume, ip) : off <= w /\ w < e.off => w = u
  BY <1>3, <1>4 DEF DirSet
<1>7. ListedTo(volume, ip, e.off, listed')
  <2>1. listed' = Append(listed, RecordAt(volume, ip, u).name)
    BY <1>3, <1>6
  <2> HIDE DEF off, ip
  <2>2. ListedTo(volume, ip, e.off, Append(listed, RecordAt(volume, ip, u).name))
    BY <1>1, <1>2, <1>5, <1>6, ListedNext
  <2> QED
    BY <2>1, <2>2
<1>8. /\ cursor' \in [ino : DOMAIN volume.inodes \ {0}, pos : Nat]
      /\ cursor'.ino = ino /\ cursor'.pos = e.off /\ cursor' # Closed
  BY <1>1, <1>3, <1>5 DEF Closed
<1> QED
  BY <1>0, <1>1, <1>5, <1>7, <1>8 DEF CursorRight

LEMMA Ext4Step ==
  ASSUME Ext4Inv, [Ext4Next]_extVars
  PROVE  Ext4Inv'
<1>0. Closed' = Closed
  BY DEF Closed
<1>1. CASE ext4_mount
  BY <1>1, Ext4Kept DEF ext4_mount, Ext4Inv
<1>2. CASE ext4_unmount
  <2>1. /\ volume' = volume /\ readout' = readout
        /\ file' = Closed /\ cursor' = Closed /\ listed' = <<>>
    BY <1>2 DEF ext4_unmount, Ext4Inv, CursorRight
  <2> QED
    BY <2>1, Ext4Kept DEF Ext4Inv
<1>3. ASSUME NEW path, ext4_open(path) PROVE Ext4Inv'
  <2> DEFINE ino == ext4_lookup(volume, path)
  <2>1. /\ volume' = volume /\ readout' = readout /\ cursor' = cursor /\ listed' = listed
        /\ mounted' = mounted /\ mounted
        /\ ino \in DOMAIN volume.inodes /\ Inode(volume, ino).type = "file"
        /\ file' = [ino |-> ino, pos |-> 0]
    BY <1>3 DEF ext4_open, ext4_read_inode
  <2> HIDE DEF ino
  <2>2. FileRight'
    BY <2>1 DEF FileRight
  <2> QED
    BY <2>1, <2>2, Ext4Kept DEF Ext4Inv
<1>4. ASSUME NEW path, ext4_opendir(path) PROVE Ext4Inv'
  <2> DEFINE ino == ext4_lookup(volume, path)
             ip == Inode(volume, ino)
  <2>1. /\ volume' = volume /\ readout' = readout /\ file' = file /\ listed' = listed
        /\ mounted' = mounted /\ mounted /\ volume \in Volume /\ listed = <<>>
        /\ ino \in DOMAIN volume.inodes \ {0} /\ ip.type = "dir"
        /\ cursor' = [ino |-> ino, pos |-> 0]
    BY <1>4 DEF ext4_opendir, ext4_read_inode, Ext4Inv, CursorRight
  <2> HIDE DEF ino
  <2>2. ListedTo(volume, ip, 0, <<>>)
    BY ListedNone
  <2>3. AtRecord(volume, ip, 0)
    <3>1. 0 % FsBlock = 0
      BY Ext4Assumption
    <3> QED
      BY <2>1, <3>1, BlockBegins
  <2>4. CursorRight'
    BY <2>1, <2>2, <2>3 DEF CursorRight
  <2> QED
    BY <2>1, <2>4, Ext4Kept DEF Ext4Inv
<1>5. CASE ext4_close
  BY <1>5, Ext4Kept DEF ext4_close, Ext4Inv
<1>6. CASE ext4_closedir
  BY <1>6, Ext4Kept DEF ext4_closedir, Ext4Inv
<1>7. CASE ext4_readdir
  <2>1. CursorRight'
    BY <1>7, ReaddirKeeps
  <2>2. volume' = volume /\ readout' = readout /\ file' = file /\ mounted' = mounted
    BY <1>7 DEF ext4_readdir
  <2> QED
    BY <2>1, <2>2, Ext4Kept DEF Ext4Inv
<1>8. ASSUME NEW k \in 1 .. MaxSeek, ext4_read(k) PROVE Ext4Inv'
  <2>1. ReadTrue' /\ FileRight'
    BY <1>8, ReadKeeps, Ext4Assumption
  <2>2. volume' = volume /\ cursor' = cursor /\ listed' = listed /\ mounted' = mounted
    BY <1>8 DEF ext4_read
  <2> QED
    BY <2>1, <2>2, Ext4Kept DEF Ext4Inv
<1>9. ASSUME NEW k \in 1 .. MaxSeek, ext4_seek(k - 1) PROVE Ext4Inv'
  <2>1. /\ volume' = volume /\ readout' = NothingRead /\ cursor' = cursor /\ listed' = listed
        /\ mounted' = mounted /\ file # Closed /\ file' = [file EXCEPT !.pos = k - 1]
    BY <1>9 DEF ext4_seek
  <2>2. /\ file \in [ino : DOMAIN volume.inodes, pos : Nat] /\ mounted
        /\ Inode(volume, file.ino).type = "file" /\ k - 1 \in Nat
    BY <2>1, Ext4Assumption DEF Ext4Inv, FileRight
  <2>3. file' \in [ino : DOMAIN volume.inodes, pos : Nat] /\ file'.ino = file.ino
    BY <2>1, <2>2
  <2>4. FileRight'
    BY <2>1, <2>2, <2>3 DEF FileRight
  <2> QED
    BY <2>1, <2>4, Ext4Kept DEF Ext4Inv
<1>10. CASE UNCHANGED extVars
  BY <1>10, Ext4Kept DEF extVars, Ext4Inv
<1> QED
  BY <1>1, <1>2, <1>3, <1>4, <1>5, <1>6, <1>7, <1>8, <1>9, <1>10 DEF Ext4Next

\* A read answers the cells of the file, a cursor the names of its directory in order and
\* none left out, on every volume that obeys the format, wherever blocks cannot be read.
THEOREM Ext4Correct == Ext4Spec => []Ext4Exact
<1>1. ASSUME Ext4Inv PROVE Ext4Exact
  <2>1. ASSUME cursor # Closed PROVE ListedInOrder
    <3> DEFINE ip == Inode(volume, cursor.ino)
    <3>1. /\ volume \in Volume /\ cursor.ino \in DOMAIN volume.inodes /\ cursor.pos \in Nat
          /\ ListedTo(volume, ip, cursor.pos, listed)
      BY <1>1, <2>1 DEF Ext4Inv, CursorRight
    <3>2. ip.size \in Nat
      BY <3>1, VolumeParts DEF Inode, InodeSound
    <3>3. /\ Len(listed) <= Cardinality(InUse(volume, ip))
          /\ \A u \in InUse(volume, ip) :
               PlaceOf(volume, ip, u) <= Len(listed) => listed[PlaceOf(volume, ip, u)] = RecordAt(volume, ip, u).name
      <4> HIDE DEF ip
      <4> QED
        BY <3>1, <3>2, ListedOrder
    <3> QED
      BY <3>3 DEF ListedInOrder, PlaceOf
  <2> QED
    BY <1>1, <2>1 DEF Ext4Inv, ReadTrue, FileRight, CursorRight, Ext4Exact
<1> QED
  BY <1>1, Ext4Start, Ext4Step, PTL DEF Ext4Spec

=============================================================================
