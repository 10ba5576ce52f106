------------------------------- MODULE Syscall -------------------------------
(***************************************************************************)
(* The system calls of kernel/syscall.c over Timer.  int 0x80 goes through *)
(* an interrupt gate: syscall_handler starts with interrupts off, and only *)
(* the sti of timer_sleep and keyboard_getchar turns them on again before  *)
(* the iret does.  SYS_YIELD is in Process.  The keyboard's ring is        *)
(* reduced to the characters it holds; Keyboard is about the ring.  What a *)
(* call leaves in eax is left out: nothing looks at it.                    *)
(***************************************************************************)
EXTENDS Timer, Sequences

CONSTANTS Counts,     \* the third argument of SYS_READ
          KBD_SIZE    \* characters the ring holds

ASSUME SyscallAssumption == Counts \subseteq Nat /\ KBD_SIZE \in Nat \ {0}

VARIABLES call,    \* the call the user program is in, or "none"
          count,   \* characters SYS_READ is still to read
          buf,     \* history: what it has read so far
          ring     \* characters typed and not yet read

sysVars == <<call, count, buf, ring>>
vars == <<timerVars, sysVars>>

Init == /\ TimerInit
        /\ call = "none" /\ count = 0 /\ buf = <<>> /\ ring = <<>>

-----------------------------------------------------------------------------

\* keyboard_irq_handler; a hlt ends.
Key == /\ enabled /\ Len(ring) < KBD_SIZE
       /\ \E c \in {"x", "newline"} : ring' = Append(ring, c)
       /\ pc' = Woken(pc)
       /\ UNCHANGED <<tick_count, enabled, late, locals, hit, elapsed, call,
                      count, buf>>

\* The iret at the end of a call restores the caller's flags.
Return == call' = "none" /\ enabled' = TRUE

\* timer_sleep called by the kernel's own thread.
KernelSleep == /\ call = "none" /\ SleepCall /\ UNCHANGED <<enabled, sysVars>>

\* Calls that wait for nothing: SYS_WRITE, SYS_READ from another descriptor,
\* SYS_GETPID and unknown numbers.
CallShort == /\ call = "none" /\ pc = "idle" /\ call' = "short" /\ enabled' = FALSE
             /\ UNCHANGED <<tick_count, late, pc, locals, hit, elapsed, count,
                            buf, ring>>

CallSleep == /\ call = "none" /\ SleepCall /\ enabled' = FALSE
             /\ call' = "sleep" /\ UNCHANGED <<count, buf, ring>>

\* The end of a short call, and of SYS_SLEEP.
IdleReturn == /\ call \in {"sleep", "short"} /\ pc = "idle" /\ Return
               /\ UNCHANGED <<tick_count, late, pc, locals, hit, elapsed, count,
                             buf, ring>>

CallRead == /\ call = "none" /\ pc = "idle"
            /\ call' = "read" /\ pc' = "read" /\ enabled' = FALSE
            /\ count' \in Counts /\ buf' = <<>>
            /\ UNCHANGED <<tick_count, late, locals, hit, elapsed, ring>>

ReadDone == IF buf = <<>> THEN count = 0
            ELSE count = 0 \/ buf[Len(buf)] = "newline"

\* The loop of sys_read: a character if there is one.
ReadChar ==
  /\ pc = "read" /\ ~ReadDone
  /\ ring # <<>>
  /\ buf' = Append(buf, Head(ring)) /\ ring' = Tail(ring) /\ count' = count - 1
  /\ UNCHANGED <<timerVars, call>>

\* Mutant: keyboard_getchar halts without the sti.
ReadHalt_NoSti ==
  /\ pc = "read" /\ ~ReadDone
  /\ ring = <<>> /\ pc' = "read_halted"
  /\ UNCHANGED <<tick_count, enabled, late, locals, hit, elapsed, sysVars>>

\* keyboard_getchar with nothing in the ring: sti; hlt.
ReadHalt ==
  /\ pc = "read" /\ ~ReadDone
  /\ ring = <<>> /\ pc' = "read_halted" /\ enabled' = TRUE
  /\ UNCHANGED <<tick_count, late, locals, hit, elapsed, sysVars>>

ReadReturn ==
  /\ pc = "read" /\ ReadDone
  /\ Return /\ pc' = "idle" /\ count' = 0 /\ buf' = <<>>
  /\ UNCHANGED <<tick_count, late, locals, hit, elapsed, ring>>

\* sys_exit: hlt for ever, with interrupts off.
CallExit == /\ call = "none" /\ pc = "idle"
            /\ call' = "exit" /\ pc' = "stopped" /\ enabled' = FALSE
            /\ UNCHANGED <<tick_count, late, locals, hit, elapsed, count, buf,
                           ring>>

Ticks == (Tick \/ LateTick \/ OtherIRQ) /\ UNCHANGED sysVars
Thread == \/ Sleeper /\ UNCHANGED sysVars
          \/ IdleReturn \/ ReadChar \/ ReadHalt \/ ReadReturn
\* A tick that was kept is taken before the caller's next instruction.
Calls == ~late /\ (KernelSleep \/ CallShort \/ CallSleep \/ CallRead \/ CallExit)

Next == Ticks \/ Key \/ Thread \/ Calls

Spec == Init /\ [][Next]_vars
\* The PIT goes on ticking, ticks and keys that wait are delivered when
\* interrupts are on, and the thread runs when it is not halted.
FairSpec == /\ Spec /\ WF_vars(Thread)
            /\ WF_vars(Tick /\ UNCHANGED sysVars)
            /\ WF_vars(LateTick /\ UNCHANGED sysVars)
            /\ WF_vars(Key)

-----------------------------------------------------------------------------
(* Properties *)

\* SYS_READ returns: keys can still be typed, although the call starts with
\* interrupts off, and a typed key wakes the reader.
ReadReturns == [](call = "read" => <>(call # "read"))

\* "just halt this context" (syscall.c): the rest of the machine goes on, and
\* with it the timer.
TicksGoOn == []<><<tick_count' # tick_count>>_vars
=============================================================================
