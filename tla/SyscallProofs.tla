---------------------------- MODULE SyscallProofs ----------------------------
(***************************************************************************)
(* For every delay, frequency and first value of tick_count: timer_sleep,  *)
(* called by the kernel or by SYS_SLEEP, returns on time (OnTime).         *)
(*                                                                         *)
(* OnTime compares the ticks of the PIT with the ticks the loop computed.  *)
(* The loop only knows tick_count, which misses a tick the PIT gave before *)
(* start was read (early) and one that the PIC still keeps (late).  Tally  *)
(* says by how much the two differ, and SleepInv how far either can run    *)
(* ahead of the loop at each of its steps.                                 *)
(*                                                                         *)
(* The code's words have 32 bits; the proof needs more than 5 values, so   *)
(* that a sleep for one tick does not miss its end by a turn of the        *)
(* counter.  MaxElapsed, a bound of the history, must not end it early.    *)
(***************************************************************************)
EXTENDS Syscall, TLAPS

Wide == Word > 5 /\ \A m \in Delays : TicksOf(m) <= MaxElapsed

\* Ticks timer_sleep has seen, the one that is kept, and the one that blocks more.
Seen == (tick_count - start) % Word
Kept == IF late THEN 1 ELSE 0
Hits == IF hit THEN 1 ELSE 0
Capped(n) == IF n < MaxElapsed THEN n ELSE MaxElapsed

\* All ticks since the call, early of which came before start was read.  With
\* interrupts off there was at most one, and it is the one that is kept.
Tally(early) ==
  /\ elapsed = Capped(early + Seen + Kept) /\ early + Kept <= 1
  /\ ~enabled => early = 0 /\ Seen = 0 /\ (late <=> hit)
Ahead(early) ==
  /\ pc = "test" => early + Seen + Kept <= ticks + 2 + Hits
  /\ pc = "hlt" => early + Seen + Kept <= ticks + Hits
  /\ pc = "halted" => early + Seen + Kept <= ticks + 1 /\ ~hit

\* Types of what timer_sleep computes with.
TimerTypes ==
  /\ tick_count \in Words /\ start \in Words /\ elapsed \in 0 .. MaxElapsed
  /\ pc \in Sleeping => \E m \in Delays : ms = m /\ ticks = TicksOf(m)

\* When interrupts are on.
Flags == /\ call = "none" => enabled
         /\ pc = "halted" => enabled
         /\ pc \notin {"start", "test", "hlt"} => ~hit

SleepInv ==
  /\ TimerTypes /\ Flags
  /\ pc = "start" => elapsed = Capped(Hits) /\ (IF enabled THEN ~late ELSE (late <=> hit))
  /\ pc \in {"test", "hlt", "halted"} => \E early \in {0, 1} : Tally(early) /\ Ahead(early)

-----------------------------------------------------------------------------
(* Arithmetic *)

\* One tick more is one tick more seen, also when tick_count wraps around.
LEMMA OneMoreSeen ==
  ASSUME NEW w \in Nat, w > 5, NEW c \in 0 .. w - 1, NEW s \in 0 .. w - 1,
         ((c - s) % w) + 1 < w
  PROVE  /\ (c + 1) % w \in 0 .. w - 1 /\ (((c + 1) % w) - s) % w = ((c - s) % w) + 1
<1>1. (c - s) % w = IF c >= s THEN c - s ELSE c - s + w
  OBVIOUS
<1>2. (c + 1) % w = IF c + 1 = w THEN 0 ELSE c + 1
  OBVIOUS
<1>3. CASE c + 1 = w
  <2>1. s > 0 /\ (c + 1) % w = 0
    BY <1>1, <1>2, <1>3
  <2>2. (0 - s) % w = w - s
    BY <2>1
  <2> QED
    BY <1>1, <1>3, <2>1, <2>2
<1>4. CASE c + 1 # w
  <2>1. (c + 1) % w = c + 1 /\ c + 1 < w
    BY <1>2, <1>4
  <2>2. (c + 1 - s) % w = IF c + 1 >= s THEN c + 1 - s ELSE c + 1 - s + w
    BY <2>1
  <2> QED
    BY <1>1, <2>1, <2>2
<1> QED
  BY <1>3, <1>4

\* The ticks timer_sleep computes: at least one, few enough for the counter, and
\* the time asked for short of one tick unless the product overflows.
LEMMA TicksFacts ==
  ASSUME Wide, NEW m \in Delays
  PROVE  /\ m \in Nat /\ TicksOf(m) \in Nat /\ 1 <= TicksOf(m) /\ TicksOf(m) + 3 < Word
         /\ TicksOf(m) <= MaxElapsed
         /\ m * Frequency < Word => (TicksOf(m) + 1) * Second >= m * Frequency
<1>0. /\ Word \in Nat /\ Word > 5 /\ Frequency \in Nat /\ Second \in Nat /\ Second > 1
      /\ m \in Nat
  BY TimerAssumption DEF Wide
<1> DEFINE p == m * Frequency
           x == p % Word
           t == x \div Second
<1>1. p \in Nat
  BY <1>0
<1> HIDE DEF p
<1>2. x \in Nat /\ x < Word /\ (p < Word => x = p)
  BY <1>0, <1>1
<1> HIDE DEF x
<1>3. t \in Nat /\ Second * t <= x /\ x < Second * t + Second
  BY <1>0, <1>2
<1> HIDE DEF t
<1>4. t + t <= Second * t
  BY <1>0, <1>3
<1>5. TicksOf(m) = IF t = 0 THEN 1 ELSE t
  BY DEF TicksOf, t, x, p
<1>6. TicksOf(m) \in Nat /\ 1 <= TicksOf(m) /\ TicksOf(m) + 3 < Word
  BY <1>0, <1>2, <1>3, <1>4, <1>5
<1>7. ASSUME p < Word PROVE (TicksOf(m) + 1) * Second >= p
  <2>1. Second * t + Second >= p
    BY <1>0, <1>2, <1>3, <1>7
  <2>2. (t + 1) * Second = Second * t + Second
    BY <1>0, <1>3
  <2>3. CASE t = 0
    <3>1. Second * t = 0 /\ 2 * Second = Second + Second
      BY <1>0, <2>3
    <3>2. TicksOf(m) + 1 = 2
      BY <1>5, <2>3
    <3>3. (TicksOf(m) + 1) * Second = Second + Second
      BY <3>1, <3>2
    <3> QED
      BY <1>0, <1>1, <2>1, <3>1, <3>3
  <2>4. CASE t # 0
    BY <1>5, <2>1, <2>2, <2>4
  <2> QED
    BY <2>3, <2>4
<1> QED
  BY <1>0, <1>6, <1>7 DEF Wide, p

\* What the invariant says of numbers.
LEMMA Numbers ==
  ASSUME Wide, TimerTypes
  PROVE  /\ Word \in Nat /\ Word > 5 /\ MaxElapsed \in Nat /\ elapsed \in Nat
         /\ tick_count \in 0 .. Word - 1 /\ start \in 0 .. Word - 1
         /\ Seen \in 0 .. Word - 1 /\ Kept \in {0, 1} /\ Hits \in {0, 1}
         /\ pc \in Sleeping => ticks \in Nat /\ 1 <= ticks /\ ticks + 3 < Word
<1>1. /\ Word \in Nat /\ Word > 5 /\ MaxElapsed \in Nat
      /\ tick_count \in 0 .. Word - 1 /\ start \in 0 .. Word - 1
  BY TimerAssumption DEF Wide, TimerTypes, Words
<1>2. Seen \in 0 .. Word - 1
  BY <1>1 DEF Seen
<1>3. pc \in Sleeping => ticks \in Nat /\ 1 <= ticks /\ ticks + 3 < Word
  BY TicksFacts DEF TimerTypes
<1>4. elapsed \in Nat
  BY <1>1 DEF TimerTypes
<1> QED
  BY <1>1, <1>2, <1>3, <1>4 DEF Kept, Hits

-----------------------------------------------------------------------------
(* The actions *)

\* A tick of the PIT.
LEMMA TickInv ==
  ASSUME Wide, SleepInv, Tick, UNCHANGED call PROVE SleepInv'
<1>0. /\ Word \in Nat /\ Word > 5 /\ MaxElapsed \in Nat /\ elapsed \in Nat
      /\ tick_count \in 0 .. Word - 1 /\ start \in 0 .. Word - 1
      /\ Seen \in 0 .. Word - 1 /\ Kept \in {0, 1}
      /\ pc \in Sleeping => ticks \in Nat /\ 1 <= ticks /\ ticks + 3 < Word
  BY Numbers DEF SleepInv
<1>1. /\ ~hit /\ Hits = 0 /\ UNCHANGED <<enabled, ms, ticks, start>>
      /\ Hits' = IF pc \in {"start", "test", "hlt"} THEN 1 ELSE 0
      /\ (pc \in {"start", "test", "hlt"}) <=> hit'
      /\ elapsed' = IF pc \in Sleeping /\ elapsed < MaxElapsed THEN elapsed + 1 ELSE elapsed
  BY DEF Tick, locals, Hits
<1>2. elapsed' \in 0 .. MaxElapsed
  <2>1. elapsed <= MaxElapsed
    BY <1>0 DEF SleepInv, TimerTypes
  <2> QED
    BY <1>0, <1>1, <2>1
<1>3. CASE enabled
  <2>1. /\ tick_count' = (tick_count + 1) % Word /\ pc' = Woken(pc) /\ UNCHANGED late
        /\ ~late
    BY <1>3 DEF Tick, timer_irq_handler
  <2>2. Kept = 0 /\ Kept' = 0
    BY <2>1 DEF Kept
  <2>3. TimerTypes'
    <3>1. tick_count' \in Words
      BY <1>0, <2>1 DEF Words
    <3>2. pc' \in Sleeping => pc \in Sleeping
      BY <2>1 DEF Woken, Sleeping
    <3> QED
      BY <1>1, <1>2, <3>1, <3>2 DEF SleepInv, TimerTypes
  <2>4. Flags'
    BY <1>1, <1>3, <2>1 DEF SleepInv, Flags, Woken
  <2>5. CASE pc = "start"
    <3>1. pc' = "start" /\ 1 <= MaxElapsed
      BY <2>1, <2>5, TicksFacts, <1>0 DEF Woken, SleepInv, TimerTypes, Sleeping
    <3>2. elapsed = 0 /\ elapsed' = 1
      BY <1>0, <1>1, <2>5, <3>1 DEF SleepInv, Capped, Sleeping
    <3>3. elapsed' = Capped(Hits')
      BY <1>0, <1>1, <2>5, <3>1, <3>2 DEF Capped
    <3> QED
      BY <1>1, <1>3, <2>1, <2>3, <2>4, <3>1, <3>3 DEF SleepInv, Capped
  <2>6. CASE pc \in {"test", "hlt", "halted"}
    <3>1. PICK early \in {0, 1} : Tally(early) /\ Ahead(early)
      BY <2>6 DEF SleepInv
    <3>2. early + Seen + Kept <= ticks + 2 /\ pc \in Sleeping
      BY <1>0, <1>1, <2>6, <3>1 DEF Ahead, Sleeping
    <3>3. Seen' = Seen + 1
      <4>1. ((tick_count - start) % Word) + 1 < Word
        BY <1>0, <2>2, <3>1, <3>2 DEF Seen
      <4> QED
        BY <1>0, <1>1, <2>1, <4>1, OneMoreSeen DEF Seen
    <3>4. elapsed' = Capped(early + Seen' + Kept')
      BY <1>0, <1>1, <2>2, <3>1, <3>2, <3>3 DEF Tally, Capped
    <3>5. Tally(early)'
      BY <1>1, <1>3, <2>2, <3>1, <3>4 DEF Tally, Capped
    <3>7. pc' = (IF pc = "hlt" THEN "hlt" ELSE "test")
      BY <2>1, <2>6 DEF Woken
    <3>6. Ahead(early)'
      <4>1. CASE pc = "test"
        <5>1. early + Seen' + Kept' <= ticks' + 2 + Hits'
          BY <1>0, <1>1, <2>2, <4>1, <3>1, <3>2, <3>3 DEF Ahead
        <5> QED
          BY <3>7, <4>1, <5>1 DEF Ahead
      <4>2. CASE pc = "hlt"
        <5>1. early + Seen' + Kept' <= ticks' + Hits'
          BY <1>0, <1>1, <2>2, <4>2, <3>1, <3>2, <3>3 DEF Ahead
        <5> QED
          BY <3>7, <4>2, <5>1 DEF Ahead
      <4>3. CASE pc = "halted"
        <5>1. early + Seen' + Kept' <= ticks' + 2 + Hits'
          BY <1>0, <1>1, <2>2, <4>3, <3>1, <3>2, <3>3 DEF Ahead
        <5> QED
          BY <3>7, <4>3, <5>1 DEF Ahead
      <4> QED
        BY <2>6, <4>1, <4>2, <4>3
    <3> QED
      BY <2>3, <2>4, <3>1, <3>5, <3>6, <3>7 DEF SleepInv
  <2>7. CASE pc \notin Sleeping
    <3>1. pc' \notin Sleeping
      BY <2>1, <2>7 DEF Woken, Sleeping
    <3> QED
      BY <2>3, <2>4, <3>1 DEF SleepInv, Sleeping
  <2> QED
    BY <2>5, <2>6, <2>7 DEF Sleeping
<1>4. CASE ~enabled
  <2>1. UNCHANGED <<tick_count, pc>> /\ late' /\ pc # "halted"
    BY <1>4 DEF Tick, SleepInv, Flags
  <2>2. Kept' = 1 /\ Seen' = Seen
    BY <1>1, <2>1 DEF Kept, Seen
  <2>3. TimerTypes'
    BY <1>1, <1>2, <2>1 DEF SleepInv, TimerTypes
  <2>4. Flags'
    BY <1>1, <1>4, <2>1 DEF SleepInv, Flags
  <2>5. CASE pc = "start"
    <3>1. 1 <= MaxElapsed
      BY <2>5, TicksFacts, <1>0 DEF SleepInv, TimerTypes, Sleeping
    <3>2. elapsed = 0 /\ elapsed' = 1
      BY <1>0, <1>1, <2>5, <3>1 DEF SleepInv, Capped, Sleeping
    <3>3. elapsed' = Capped(Hits')
      BY <1>0, <1>1, <2>5, <3>1, <3>2 DEF Capped
    <3>4. ~enabled' /\ late' /\ hit'
      BY <1>1, <1>4, <2>1, <2>5
    <3> QED
      BY <2>1, <2>3, <2>4, <2>5, <3>3, <3>4 DEF SleepInv, Capped
  <2>6. CASE pc \in {"test", "hlt"}
    <3>1. PICK early \in {0, 1} : Tally(early) /\ Ahead(early)
      BY <2>6 DEF SleepInv
    <3>2. early = 0 /\ Seen = 0 /\ ~late /\ Kept = 0
      BY <1>1, <1>4, <3>1 DEF Tally, Kept
    <3>3. elapsed' = Capped(early + Seen' + Kept')
      BY <1>0, <1>1, <2>2, <2>6, <3>1, <3>2 DEF Tally, Capped, Sleeping
    <3>4. late' /\ hit'
      BY <1>1, <2>1, <2>6
    <3>5. Tally(early)'
      BY <2>2, <3>2, <3>3, <3>4 DEF Tally, Capped
    <3>6. Ahead(early)'
      <4>1. early + Seen' + Kept' <= ticks' + Hits' /\ Hits' = 1
        BY <1>0, <1>1, <2>2, <2>6, <3>2 DEF Sleeping
      <4>2. early + Seen' + Kept' <= ticks' + 2 + Hits'
        BY <1>0, <1>1, <2>2, <2>6, <3>2 DEF Sleeping
      <4> QED
        BY <2>1, <2>6, <4>1, <4>2 DEF Ahead
    <3> QED
      BY <2>1, <2>3, <2>4, <2>6, <3>1, <3>5, <3>6 DEF SleepInv
  <2>7. CASE pc \notin Sleeping
    BY <2>1, <2>3, <2>4, <2>7 DEF SleepInv, Sleeping
  <2> QED
    BY <2>1, <2>5, <2>6, <2>7 DEF Sleeping
<1> QED
  BY <1>3, <1>4

\* A tick the PIC has kept is delivered.
LEMMA LateTickInv ==
  ASSUME Wide, SleepInv, LateTick, UNCHANGED call PROVE SleepInv'
<1>0. /\ Word \in Nat /\ Word > 5 /\ MaxElapsed \in Nat /\ elapsed \in Nat
      /\ tick_count \in 0 .. Word - 1 /\ start \in 0 .. Word - 1
      /\ Seen \in 0 .. Word - 1 /\ Hits \in {0, 1}
      /\ pc \in Sleeping => ticks \in Nat /\ 1 <= ticks /\ ticks + 3 < Word
  BY Numbers DEF SleepInv
<1>1. /\ UNCHANGED <<enabled, ms, ticks, start, hit, elapsed>>
      /\ late /\ enabled /\ ~late'
      /\ tick_count' = (tick_count + 1) % Word /\ pc' = Woken(pc)
  BY DEF LateTick, timer_irq_handler, locals
<1>2. Kept = 1 /\ Kept' = 0 /\ Hits' = Hits
  BY <1>1 DEF Kept, Hits
<1>3. TimerTypes'
  <2>1. tick_count' \in Words
    BY <1>0, <1>1 DEF Words
  <2>2. pc' \in Sleeping => pc \in Sleeping
    BY <1>1 DEF Woken, Sleeping
  <2> QED
    BY <1>1, <2>1, <2>2 DEF SleepInv, TimerTypes
<1>4. Flags'
  BY <1>1 DEF SleepInv, Flags, Woken
<1>5. pc # "start"
  BY <1>1 DEF SleepInv
<1>6. CASE pc \in {"test", "hlt", "halted"}
  <2>1. PICK early \in {0, 1} : Tally(early) /\ Ahead(early)
    BY <1>6 DEF SleepInv
  <2>2. early = 0 /\ pc \in Sleeping /\ early + Seen + Kept <= ticks + 3
    BY <1>0, <1>2, <1>6, <2>1 DEF Tally, Ahead, Sleeping
  <2>3. Seen' = Seen + 1
    <3>1. ((tick_count - start) % Word) + 1 < Word
      BY <1>0, <1>2, <2>2 DEF Seen
    <3> QED
      BY <1>0, <1>1, <3>1, OneMoreSeen DEF Seen
  <2>4. early + Seen' + Kept' = early + Seen + Kept
    BY <1>0, <1>2, <2>3
  <2>5. elapsed' = Capped(early + Seen' + Kept')
    BY <1>1, <2>1, <2>4 DEF Tally
  <2>6. Tally(early)'
    BY <1>1, <1>2, <2>2, <2>5 DEF Tally, Capped
  <2>7. pc' = (IF pc = "hlt" THEN "hlt" ELSE "test")
    BY <1>1, <1>6 DEF Woken
  <2>8. Ahead(early)'
    <3>1. CASE pc = "hlt"
      BY <1>1, <1>2, <2>1, <2>4, <2>7, <3>1 DEF Ahead
    <3>2. CASE pc # "hlt"
      <4>1. early + Seen + Kept <= ticks + 2 + Hits
        BY <1>0, <1>2, <1>6, <2>1, <2>2, <3>2 DEF Ahead
      <4> QED
        BY <1>1, <1>2, <2>4, <2>7, <3>2, <4>1 DEF Ahead
    <3> QED
      BY <3>1, <3>2
  <2> QED
    BY <1>3, <1>4, <2>1, <2>6, <2>7, <2>8 DEF SleepInv
<1>7. CASE pc \notin Sleeping
  <2>1. pc' \notin Sleeping
    BY <1>1, <1>7 DEF Woken, Sleeping
  <2> QED
    BY <1>3, <1>4, <2>1 DEF SleepInv, Sleeping
<1> QED
  BY <1>5, <1>6, <1>7 DEF Sleeping

\* Another interrupt at most wakes the sleeper.
LEMMA WokenInv ==
  ASSUME Wide, SleepInv, pc' = Woken(pc),
         UNCHANGED <<tick_count, enabled, late, ms, ticks, start, hit, elapsed, call>>
  PROVE  SleepInv'
<1>0. pc \in Sleeping => ticks \in Nat /\ 1 <= ticks /\ ticks + 3 < Word
  BY Numbers DEF SleepInv
<1>1. Seen' = Seen /\ Kept' = Kept /\ Hits' = Hits
  BY DEF Seen, Kept, Hits
<1>2. TimerTypes' /\ (pc' \in Sleeping => pc \in Sleeping)
  BY DEF SleepInv, TimerTypes, Woken, Sleeping
<1>3. Flags'
  BY DEF SleepInv, Flags, Woken
<1>4. CASE pc = "halted"
  <2>0. pc' = "test"
    BY <1>4 DEF Woken
  <2>1. PICK early \in {0, 1} : Tally(early) /\ Ahead(early)
    BY <1>4 DEF SleepInv
  <2>2. Tally(early)'
    BY <1>1, <2>1 DEF Tally, Capped
  <2>3. early + Seen + Kept <= ticks + 1 /\ ticks \in Nat /\ Hits \in {0, 1}
        /\ Seen \in Nat /\ Kept \in Nat
    BY <1>0, <1>4, <2>1, Numbers DEF Ahead, Sleeping, SleepInv
  <2>4. early + Seen' + Kept' <= ticks' + 2 + Hits'
    BY <1>1, <2>1, <2>3
  <2>5. Ahead(early)'
    BY <2>0, <2>4 DEF Ahead
  <2> QED
    BY <1>2, <1>3, <2>0, <2>1, <2>2, <2>5 DEF SleepInv
<1>5. CASE pc # "halted" /\ pc \in Sleeping
  <2>1. pc' = pc
    BY <1>5 DEF Woken, Sleeping
  <2>2. \A early \in {0, 1} : Tally(early) /\ Ahead(early) => Tally(early)' /\ Ahead(early)'
    BY <1>1, <2>1 DEF Tally, Ahead, Capped
  <2> QED
    BY <1>1, <1>2, <1>3, <2>1, <2>2 DEF SleepInv, Capped
<1>6. CASE pc \notin Sleeping
  <2>1. pc' \notin Sleeping
    BY <1>2, <1>6
  <2> QED
    BY <1>2, <1>3, <2>1 DEF SleepInv, Sleeping
<1> QED
  BY <1>4, <1>5, <1>6

\* The steps of timer_sleep.
LEMMA SleeperInv ==
  ASSUME Wide, SleepInv, Sleeper, UNCHANGED call PROVE SleepInv'
<1>0. /\ Word \in Nat /\ Word > 5 /\ MaxElapsed \in Nat /\ elapsed \in Nat
      /\ tick_count \in 0 .. Word - 1 /\ start \in 0 .. Word - 1
      /\ Seen \in 0 .. Word - 1 /\ Hits \in {0, 1} /\ Kept \in {0, 1}
      /\ pc \in Sleeping => ticks \in Nat /\ 1 <= ticks /\ ticks + 3 < Word
  BY Numbers DEF SleepInv
<1>1. CASE SleepStart
  <2>1. /\ pc = "start" /\ pc' = "test" /\ start' = tick_count
        /\ UNCHANGED <<tick_count, enabled, late, ms, ticks, hit, elapsed>>
    BY <1>1 DEF SleepStart
  <2>2. Seen' = 0 /\ Kept' = Kept /\ Hits' = Hits
    BY <1>0, <2>1 DEF Seen, Kept, Hits
  <2>3. TimerTypes' /\ Flags'
    <3>1. TimerTypes'
      BY <2>1 DEF SleepInv, TimerTypes, Sleeping
    <3>2. Flags'
      BY <2>1 DEF SleepInv, Flags
    <3> QED
      BY <3>1, <3>2
  <2>4. PICK early \in {0, 1} : early = IF enabled THEN Hits ELSE 0
    BY <1>0
  <2>5. early + Kept = Hits
    BY <1>0, <2>1, <2>4 DEF SleepInv, Kept, Hits
  <2>6. elapsed' = Capped(early + Seen' + Kept')
    BY <1>0, <2>1, <2>2, <2>5 DEF SleepInv, Capped
  <2>7. Tally(early)'
    <3>1. ~enabled => early = 0 /\ (late <=> hit)
      BY <2>1, <2>4 DEF SleepInv
    <3> QED
      BY <1>0, <2>1, <2>2, <2>5, <2>6, <3>1 DEF Tally, Capped
  <2>8. Ahead(early)'
    BY <1>0, <2>1, <2>2, <2>5 DEF Ahead, Sleeping
  <2> QED
    BY <2>1, <2>3, <2>4, <2>7, <2>8 DEF SleepInv
<1>2. CASE SleepTest /\ ~Over /\ pc' = "hlt"
  <2>1. /\ pc = "test" /\ pc' = "hlt"
        /\ UNCHANGED <<tick_count, enabled, late, ms, ticks, start, hit, elapsed>>
    BY <1>2 DEF SleepTest, locals
  <2>2. Seen' = Seen /\ Kept' = Kept /\ Hits' = Hits /\ Seen < ticks
    BY <1>0, <1>2, <2>1 DEF Seen, Kept, Hits, Over, Sleeping
  <2>3. TimerTypes'
    BY <2>1 DEF SleepInv, TimerTypes, Sleeping
  <2>4. Flags'
    BY <2>1 DEF SleepInv, Flags
  <2>5. PICK early \in {0, 1} : Tally(early) /\ Ahead(early)
    BY <2>1 DEF SleepInv
  <2>6. Tally(early)'
    BY <2>1, <2>2, <2>5 DEF Tally, Capped
  <2>7. early + Seen' + Kept' <= ticks' + Hits'
    BY <1>0, <2>1, <2>2, <2>5 DEF Tally, Sleeping
  <2>8. Ahead(early)'
    BY <2>1, <2>7 DEF Ahead
  <2> QED
    BY <2>1, <2>3, <2>4, <2>5, <2>6, <2>8 DEF SleepInv
<1>3. CASE SleepTest /\ Over /\ pc' = "idle"
  <2>1. /\ pc' = "idle" /\ ~hit' /\ elapsed' = 0 /\ start' = 0
        /\ UNCHANGED <<tick_count, enabled>>
    BY <1>3 DEF SleepTest, locals
  <2>2. TimerTypes'
    BY <1>0, <2>1 DEF SleepInv, TimerTypes, Sleeping, Words
  <2>3. Flags'
    BY <2>1 DEF SleepInv, Flags
  <2> QED
    BY <2>1, <2>2, <2>3 DEF SleepInv
<1>4. CASE SleepHalt
  <2>1. /\ pc = "hlt" /\ pc' = "halted" /\ enabled' /\ ~hit'
        /\ UNCHANGED <<tick_count, late, ms, ticks, start, elapsed>>
    BY <1>4 DEF SleepHalt, locals
  <2>2. Seen' = Seen /\ Kept' = Kept
    BY <2>1 DEF Seen, Kept
  <2>3. TimerTypes'
    BY <2>1 DEF SleepInv, TimerTypes, Sleeping
  <2>4. Flags'
    BY <2>1 DEF SleepInv, Flags
  <2>5. PICK early \in {0, 1} : Tally(early) /\ Ahead(early)
    BY <2>1 DEF SleepInv
  <2>6. Tally(early)'
    BY <2>1, <2>2, <2>5 DEF Tally, Capped
  <2>7. early + Seen' + Kept' <= ticks' + 1
    BY <1>0, <2>1, <2>2, <2>5 DEF Ahead, Sleeping
  <2>8. Ahead(early)'
    BY <2>1, <2>7 DEF Ahead
  <2> QED
    BY <2>1, <2>3, <2>4, <2>5, <2>6, <2>8 DEF SleepInv
<1> QED
  BY <1>1, <1>2, <1>3, <1>4 DEF Sleeper, SleepTest

\* A call of timer_sleep, by SYS_SLEEP with interrupts off.
LEMMA SleepCallInv ==
  ASSUME Wide, SleepInv, SleepCall, ~late, call = "none",
         UNCHANGED <<enabled, call>> \/ (~enabled' /\ call' # "none")
  PROVE  SleepInv'
<1>1. /\ pc = "idle" /\ pc' = "start" /\ elapsed' = 0
      /\ UNCHANGED <<tick_count, late, start, hit>>
      /\ \E m \in Delays : ms' = m /\ ticks' = TicksOf(m)
  BY DEF SleepCall
<1>2. ~hit /\ Hits' = 0
  BY <1>1 DEF SleepInv, Flags, Hits
<1>3. TimerTypes'
  BY <1>1, TimerAssumption DEF SleepInv, TimerTypes
<1>4. Flags'
  BY <1>1 DEF SleepInv, Flags
<1>5. elapsed' = Capped(Hits')
  BY <1>1, <1>2, TimerAssumption DEF Capped
<1> QED
  BY <1>1, <1>2, <1>3, <1>4, <1>5 DEF SleepInv, Capped

\* Every other step of a system call is taken outside of timer_sleep.
LEMMA OtherInv ==
  ASSUME SleepInv, pc \notin Sleeping, pc' \notin Sleeping, ~hit',
         UNCHANGED <<tick_count, start, elapsed>>,
         call' = "none" => enabled'
  PROVE  SleepInv'
BY DEF SleepInv, TimerTypes, Flags, Sleeping

\* Every step keeps the invariant.
LEMMA NextInv == Wide /\ SleepInv /\ [Next]_vars => SleepInv'
<1> SUFFICES ASSUME Wide, SleepInv, [Next]_vars PROVE SleepInv'
  OBVIOUS
<1>1. CASE Ticks
  <2>1. UNCHANGED call
    BY <1>1 DEF Ticks, sysVars
  <2>2. CASE OtherIRQ
    BY <2>1, <2>2, WokenInv DEF OtherIRQ, locals
  <2> QED
    BY <1>1, <2>1, <2>2, TickInv, LateTickInv DEF Ticks
<1>2. CASE Key
  BY <1>2, WokenInv DEF Key, locals
<1>3. CASE Sleeper /\ UNCHANGED sysVars
  BY <1>3, SleeperInv DEF sysVars
<1>4. CASE IdleReturn \/ ReadChar \/ ReadHalt \/ ReadReturn \/ CallShort \/ CallRead \/ CallExit
  <2>1. pc \in {"idle", "read"} /\ pc' \in {"idle", "read", "read_halted", "stopped"}
    BY <1>4 DEF IdleReturn, ReadChar, ReadHalt, ReadReturn, CallShort, CallRead, CallExit,
                timerVars
  <2>2. ~hit /\ hit' = hit /\ UNCHANGED <<tick_count, start, elapsed>>
    <3>1. ~hit
      BY <2>1 DEF SleepInv, Flags
    <3> QED
      BY <1>4, <3>1
      DEF IdleReturn, ReadChar, ReadHalt, ReadReturn, CallShort, CallRead, CallExit,
          timerVars, locals
  <2>3. call' = "none" => enabled'
    <3>1. call = "none" => enabled
      BY DEF SleepInv, Flags
    <3> QED
      BY <1>4, <3>1
      DEF IdleReturn, ReadChar, ReadHalt, ReadReturn, Return, CallShort, CallRead, CallExit,
          timerVars, sysVars
  <2>4. pc \notin Sleeping /\ pc' \notin Sleeping
    BY <2>1 DEF Sleeping
  <2> QED
    BY <2>2, <2>3, <2>4, OtherInv
<1>5. CASE ~late /\ (KernelSleep \/ CallSleep)
  BY <1>5, SleepCallInv DEF KernelSleep, CallSleep, sysVars
<1>6. CASE UNCHANGED vars
  <2>1. UNCHANGED <<tick_count, enabled, late, pc, ms, ticks, start, hit, elapsed, call>>
    BY <1>6 DEF vars, timerVars, locals, sysVars
  <2> QED
    BY <2>1 DEF SleepInv, TimerTypes, Flags, Tally, Ahead, Seen, Kept, Hits, Capped
<1> QED
  BY <1>1, <1>2, <1>3, <1>4, <1>5, <1>6 DEF Next, Thread, Calls

\* timer_sleep returns on time, whoever calls it, wherever the counter wraps and
\* whenever a tick falls.
THEOREM SleepsOnTime == ASSUME Wide PROVE Spec => OnTime
<1>1. Init => SleepInv
  <2> SUFFICES ASSUME Init PROVE SleepInv
    OBVIOUS
  <2>1. TimerTypes
    BY TimerAssumption DEF Init, TimerInit, TimerTypes, Words, Sleeping
  <2> QED
    BY <2>1 DEF Init, TimerInit, SleepInv, Flags
<1>2. SleepInv /\ [Next]_vars =>
        [pc = "test" /\ pc' = "idle" =>
           /\ elapsed >= ticks
           /\ elapsed <= ticks + 3 \/ elapsed = MaxElapsed
           /\ ms * Frequency < Word =>
                (elapsed + 1) * Second >= ms * Frequency]_timerVars
  <2> SUFFICES ASSUME SleepInv, [Next]_vars, pc = "test", pc' = "idle"
               PROVE  /\ elapsed >= ticks
                      /\ elapsed <= ticks + 3 \/ elapsed = MaxElapsed
                      /\ ms * Frequency < Word =>
                           (elapsed + 1) * Second >= ms * Frequency
    OBVIOUS
  <2>1. Over
    BY DEF Next, Ticks, Tick, LateTick, OtherIRQ, timer_irq_handler, Woken, Key, Thread,
           Sleeper, SleepStart, SleepTest, SleepHalt, IdleReturn, ReadChar, ReadHalt,
           ReadReturn, Calls, KernelSleep, SleepCall, CallShort, CallSleep, CallRead,
           CallExit, vars, timerVars
  <2>2. /\ MaxElapsed \in Nat /\ elapsed \in Nat /\ Seen \in Nat /\ Kept \in {0, 1}
        /\ Hits \in {0, 1} /\ ticks \in Nat
    BY Numbers DEF SleepInv, Sleeping
  <2>3. PICK m \in Delays : ms = m /\ ticks = TicksOf(m)
    BY DEF SleepInv, TimerTypes, Sleeping
  <2>4. /\ ticks <= MaxElapsed /\ ms \in Nat
        /\ ms * Frequency < Word => (ticks + 1) * Second >= ms * Frequency
    BY <2>3, TicksFacts
  <2>5. PICK early \in {0, 1} : Tally(early) /\ Ahead(early)
    BY DEF SleepInv
  <2>6. Seen >= ticks
    BY <2>1 DEF Over, Seen
  <2>7. elapsed >= ticks
    BY <2>2, <2>4, <2>5, <2>6 DEF Tally, Capped
  <2>8. elapsed <= ticks + 3 \/ elapsed = MaxElapsed
    BY <2>2, <2>5 DEF Tally, Ahead, Capped
  <2>9. (elapsed + 1) * Second >= (ticks + 1) * Second
    BY <2>2, <2>7, TimerAssumption
  <2>10. ms * Frequency \in Nat /\ (elapsed + 1) * Second \in Nat /\ (ticks + 1) * Second \in Nat
    BY <2>2, <2>4, TimerAssumption
  <2> QED
    BY <2>4, <2>7, <2>8, <2>9, <2>10
<1> QED
  BY <1>1, <1>2, NextInv, PTL DEF Spec, OnTime
=============================================================================
