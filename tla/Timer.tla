-------------------------------- MODULE Timer --------------------------------
(***************************************************************************)
(* The tick counter of kernel/timer.c and timer_sleep, which the timer     *)
(* interrupt can hit between any two of its steps: between the test of its *)
(* loop and the hlt too, where the tick does not wake it.  uint32_t        *)
(* arithmetic is done modulo Word.                                         *)
(***************************************************************************)
EXTENDS Integers

CONSTANTS Word,        \* 2^32 in the code
          Frequency,   \* tick_frequency: ticks in a second
          Second,      \* 1000 in the code: milliseconds in a second
          Delays,      \* the arguments of timer_sleep
          MaxElapsed   \* bound: the history counter stays there

ASSUME TimerAssumption ==
  /\ Word \in Nat \ {0} /\ Frequency \in Nat \ {0} /\ Second \in Nat \ {0, 1}
  /\ MaxElapsed \in Nat
  /\ Delays \subseteq 0 .. Word - 1

VARIABLES tick_count,
          enabled,       \* the interrupt flag of the processor
          late,          \* a tick the PIC keeps while that is off
          pc,            \* where timer_sleep is
          ms, ticks, start,
          hit,           \* whether a tick has come since the call or the hlt
          elapsed        \* history: ticks of the PIT since the call

locals == <<ms, ticks, start>>
timerVars == <<tick_count, enabled, late, pc, locals, hit, elapsed>>

Sleeping == {"start", "test", "hlt", "halted"}
Words == 0 .. Word - 1

TimerInit == /\ tick_count \in Words /\ enabled = TRUE /\ late = FALSE
             /\ pc = "idle" /\ hit = FALSE
             /\ ms = 0 /\ ticks = 0 /\ start = 0 /\ elapsed = 0

\* An interrupt ends a hlt, here or in keyboard_getchar (see Syscall).
Woken(at) == CASE at = "halted" -> "test" [] at = "read_halted" -> "read"
               [] OTHER -> at

\* timer_irq_handler: the tick is counted, and a hlt ends.
timer_irq_handler ==
  /\ tick_count' = (tick_count + 1) % Word
  /\ pc' = Woken(pc)

\* The PIT: a tick is some million instructions long, so that at most one falls
\* between the call or a wake-up and the next hlt.  The PIC keeps one tick while
\* interrupts are off.
Tick ==
  /\ ~hit /\ ~(late /\ enabled)
  /\ hit' = (pc \in {"start", "test", "hlt"})
  /\ elapsed' = IF pc \in Sleeping /\ elapsed < MaxElapsed THEN elapsed + 1
                ELSE elapsed
  /\ \/ enabled /\ timer_irq_handler /\ UNCHANGED late
     \/ ~enabled /\ late' = TRUE /\ UNCHANGED <<tick_count, pc>>
  /\ UNCHANGED <<enabled, locals>>

LateTick == /\ late /\ enabled /\ late' = FALSE /\ timer_irq_handler
            /\ UNCHANGED <<enabled, locals, hit, elapsed>>

\* Another interrupt, the keyboard's say, also ends the hlt.
OtherIRQ == /\ enabled /\ pc' = Woken(pc)
            /\ UNCHANGED <<tick_count, enabled, late, locals, hit, elapsed>>

\* ms in ticks, at least one.
TicksOf(m) == LET t == ((m * Frequency) % Word) \div Second
              IN IF t = 0 THEN 1 ELSE t

SleepCall ==
  /\ pc = "idle" /\ \E m \in Delays : ms' = m /\ ticks' = TicksOf(m)
  /\ pc' = "start" /\ elapsed' = 0
  /\ UNCHANGED <<tick_count, late, start, hit>>

SleepStart == /\ pc = "start" /\ start' = tick_count /\ pc' = "test"
              /\ UNCHANGED <<tick_count, enabled, late, ms, ticks, hit, elapsed>>

\* Mutant: the end of the delay is computed in advance.
Over_Deadline == tick_count >= (start + ticks) % Word

\* The condition of the loop, negated.
Over == (tick_count - start) % Word >= ticks

\* When the loop ends, the locals are gone.
SleepTest ==
  /\ pc = "test"
  /\ \/ ~Over /\ pc' = "hlt" /\ UNCHANGED <<locals, hit, elapsed>>
     \/ /\ Over /\ pc' = "idle" /\ hit' = FALSE
        /\ ms' = 0 /\ ticks' = 0 /\ start' = 0 /\ elapsed' = 0
  /\ UNCHANGED <<tick_count, enabled, late>>

\* Mutant: hlt without the sti before it.
SleepHalt_NoSti == /\ pc = "hlt" /\ pc' = "halted" /\ hit' = FALSE
                   /\ UNCHANGED <<tick_count, enabled, late, locals, elapsed>>

\* sti; hlt: the flag counts from the hlt on.
SleepHalt == /\ pc = "hlt" /\ pc' = "halted" /\ enabled' = TRUE /\ hit' = FALSE
             /\ UNCHANGED <<tick_count, late, locals, elapsed>>

Sleeper == SleepStart \/ SleepTest \/ SleepHalt

-----------------------------------------------------------------------------
(* Properties *)

\* timer_sleep returns when the ticks it computed have passed and at most three
\* later, also when tick_count wraps around in between, when a tick falls between
\* the test and the hlt, and when one was kept while a system call had interrupts
\* off.  Unless ms * tick_frequency overflows, these are the time asked for,
\* short of one tick.
OnTime == [][pc = "test" /\ pc' = "idle" =>
               /\ elapsed >= ticks
               /\ elapsed <= ticks + 3 \/ elapsed = MaxElapsed
               /\ ms * Frequency < Word =>
                    (elapsed + 1) * Second >= ms * Frequency]_timerVars

\* timer_sleep returns, whether the kernel or SYS_SLEEP called it: neither the
\* wrap-around, nor a tick the hlt has missed, nor the interrupt gate, which has
\* turned interrupts off, makes it sleep for ever.
Wakes == [](pc \in Sleeping => <>(pc = "idle"))

\* Sleep for approximately ms milliseconds (timer.c): when it returns, the time
\* asked for has passed, short of one tick.
SleepsLongEnough ==
  [][pc = "test" /\ pc' = "idle" =>
       (elapsed + 1) * Second >= ms * Frequency]_timerVars
=============================================================================
