------------------------------- MODULE Process -------------------------------
(***************************************************************************)
(* The process table and the scheduler of kernel/process.c, with the two   *)
(* interrupt paths that call it: IRQ0 (timer.c, idt.c) and int 0x80        *)
(* (syscall.c).                                                            *)
(*                                                                         *)
(* There is one CPU.  `cpu` is the flow of control it executes: which stack*)
(* it is on, where in process.c it is, and the locals of that function.    *)
(* Code called from a thread runs with interrupts enabled, so process_     *)
(* create and schedule are split where the timer can interrupt them; code  *)
(* called from an interrupt gate runs to its end.                          *)
(***************************************************************************)
EXTENDS Integers, FiniteSets, ContextSwitch

CONSTANTS MAX_PROCESSES,   \* slots of the process table
          SLICE,           \* ticks of a time slice (10 in the code)
          MaxPid           \* bound: pids handed out in a behaviour

ASSUME ProcessAssumption ==
  /\ MAX_PROCESSES \in Nat \ {0}
  /\ SLICE \in Nat \ {0}
  /\ MaxPid \in Nat

Slots == 0 .. MAX_PROCESSES - 1
NULL == -1                  \* a null process_t*; also the boot thread's "slot"
States == {"UNUSED", "READY", "RUNNING", "ZOMBIE"}

\* Where a flow of control can be: in its own code, in process_create before
\* the slot is claimed or before its stack is built, in schedule, halted at
\* the end of process_exit, or at an address that is no code.
Pcs == {"run", "claim", "stack", "sched", "mark", "dispatch", "switch",
        "halt", "wild"}
Conts == [owner : Slots \cup {NULL}, pc : Pcs, ret : {"run", "halt"},
          old : Slots \cup {NULL}, next : Slots, irq : BOOLEAN]

VARIABLES state, pid, time_slice,   \* process_table[], by slot
          stack_ptr,                \* the suspended flow stack_ptr points to
          current_process, next_pid, scheduler_enabled,
          cpu,                      \* the flow of control on the CPU
          inService,                \* IRQ0 not yet acknowledged (no EOI)
          frame,                    \* the first frame of a new process, see Init
          waited,                   \* history: dispatches a READY slot saw go by
          raced                     \* history: see Critical

table == <<state, pid, time_slice, stack_ptr, next_pid>>
history == <<waited, raced>>
vars == <<table, current_process, scheduler_enabled, cpu, inService, frame,
          history>>

TypeOK ==
  /\ state \in [Slots -> States]
  /\ pid \in [Slots -> Nat]
  /\ time_slice \in [Slots -> 0 .. SLICE]
  /\ stack_ptr \in [Slots -> Conts]
  /\ current_process \in Slots \cup {NULL}
  /\ next_pid \in Nat \ {0}
  /\ scheduler_enabled \in BOOLEAN
  /\ cpu \in Conts
  /\ inService \in BOOLEAN
  /\ frame \in {CreatedFrame, DocumentedFrame}
  /\ waited \in [Slots -> 0 .. MAX_PROCESSES]
  /\ raced \in BOOLEAN

\* A flow on slot s's stack that starts at its own code, and one whose stack
\* pointer is 0 or whose first frame does not lead to process_wrapper.
Flow(s, pc) == [owner |-> s, pc |-> pc, ret |-> "run", old |-> NULL,
                next |-> 0, irq |-> FALSE]
Fresh(s) == Flow(s, IF EntersWrapper(frame) THEN "run" ELSE "wild")

\* process_init, and the boot thread that goes on to run the shell.  The frame
\* process_create stores is CreatedFrame; DocumentedFrame is the one the comment
\* of context.asm describes, with which a process gets past its first dispatch.
Init ==
  /\ state = [s \in Slots |-> "UNUSED"]
  /\ pid = [s \in Slots |-> 0]
  /\ time_slice = [s \in Slots |-> 0]
  /\ stack_ptr = [s \in Slots |-> Flow(s, "wild")]
  /\ current_process = NULL
  /\ next_pid = 1
  /\ scheduler_enabled = FALSE
  /\ cpu = Flow(NULL, "run")
  /\ inService = FALSE
  /\ frame \in {CreatedFrame, DocumentedFrame}
  /\ waited = [s \in Slots |-> 0]
  /\ raced = FALSE

-----------------------------------------------------------------------------
(* Helpers *)

\* Mutant: a zombie's slot counts as free before it is cleaned up.
FreeSlots_Zombies == {s \in Slots : state[s] \in {"UNUSED", "ZOMBIE"}}

FreeSlots == {s \in Slots : state[s] = "UNUSED"}
\* The slot find_free_slot returns (a singleton, or empty when none is free).
find_free_slot == {s \in FreeSlots : \A t \in FreeSlots : s <= t}

\* The slot find_process(p) returns: the first in use with that pid.
HasPid(p) == {s \in Slots : pid[s] = p /\ state[s] # "UNUSED"}
find_process(p) == {s \in HasPid(p) : \A t \in HasPid(p) : s <= t}

\* Mutant: cleanup_zombies forgets to reset the pid.
CleanPid_Kept == pid

\* cleanup_zombies, as the new values of the two fields it changes.
CleanState == [s \in Slots |-> IF state[s] = "ZOMBIE" THEN "UNUSED" ELSE state[s]]
CleanPid == [s \in Slots |-> IF state[s] = "ZOMBIE" THEN 0 ELSE pid[s]]

\* Mutant: schedule always searches from slot 0.
SearchStart_Zero == 0

\* How many slots the circular search of schedule visits before slot s.
SearchStart == IF current_process = NULL THEN 0 ELSE current_process + 1
Distance(s) == IF s >= SearchStart THEN s - SearchStart
               ELSE s + MAX_PROCESSES - SearchStart
Ready == {s \in Slots : state[s] = "READY"}
NextReady == {s \in Ready : \A t \in Ready : Distance(s) <= Distance(t)}

\* Mutant: the arguments of context_switch are swapped.
Switch_Swapped(old, next, saved) ==
  /\ stack_ptr' = [stack_ptr EXCEPT ![next] = saved]
  /\ cpu' = [stack_ptr[IF old = NULL THEN next ELSE old] EXCEPT !.irq = FALSE]

\* context_switch: the flow `saved` is what old's stack_ptr will point to (the
\* boot thread's stack pointer goes to a local that nobody reads again), and
\* next's flow gets the CPU.  A flow suspended inside the timer interrupt
\* sends the EOI on its way out of isr_handler_c; any other one does not.
Switch(old, next, saved) ==
  /\ stack_ptr' = IF old = NULL THEN stack_ptr
                  ELSE [stack_ptr EXCEPT ![old] = saved]
  /\ cpu' = [stack_ptr[next] EXCEPT !.irq = FALSE]

EOIAfter(next, unacknowledged) == unacknowledged /\ ~stack_ptr[next].irq

\* Where IRQ0 can find the CPU: nothing in process.c disables interrupts.
Interruptible == Pcs \ {"wild"}

\* The places at which process_create or schedule has looked at the table and
\* not yet finished what it does about it.  `raced` says that the timer once
\* took the CPU away at such a place, or between two stores of one step there.
Critical == {"claim", "stack", "mark", "dispatch", "switch"}

\* Slot n is dispatched: every other READY slot has seen one more go by
\* (counted up to MAX_PROCESSES).
Dispatched(n) ==
  waited' = [s \in Slots |->
               IF s = n \/ state[s] # "READY" THEN 0
               ELSE IF waited[s] < MAX_PROCESSES THEN waited[s] + 1 ELSE waited[s]]

At(pc) == cpu.pc = pc
Goto(pc) == cpu' = [cpu EXCEPT !.pc = pc]

-----------------------------------------------------------------------------
(* process_create *)

\* find_free_slot; with no free slot the call returns -1 and changes nothing.
CreateFind ==
  /\ At("run")
  /\ next_pid <= MaxPid
  /\ \E s \in find_free_slot : cpu' = [cpu EXCEPT !.pc = "claim", !.next = s]
  /\ UNCHANGED <<table, current_process, scheduler_enabled, inService, frame, history>>

\* Mutant: next_pid is not advanced.
CreateClaim_SamePid ==
  LET s == cpu.next IN
  /\ At("claim")
  /\ state' = [state EXCEPT ![s] = "READY"]
  /\ pid' = [pid EXCEPT ![s] = next_pid]
  /\ time_slice' = [time_slice EXCEPT ![s] = SLICE]
  /\ stack_ptr' = [stack_ptr EXCEPT ![s] = Flow(s, "wild")]
  /\ Goto(IF cpu.owner = s THEN "wild" ELSE "stack")
  /\ waited' = [waited EXCEPT ![s] = 0]
  /\ UNCHANGED <<next_pid, current_process, scheduler_enabled, inService, frame, raced>>

\* memset of the whole slot, its stack included, then pid, state and slice.
\* A flow that zeroes the stack it runs on returns to address 0.
CreateClaim ==
  LET s == cpu.next IN
  /\ At("claim")
  /\ state' = [state EXCEPT ![s] = "READY"]
  /\ pid' = [pid EXCEPT ![s] = next_pid]
  /\ next_pid' = next_pid + 1
  /\ time_slice' = [time_slice EXCEPT ![s] = SLICE]
  /\ stack_ptr' = [stack_ptr EXCEPT ![s] = Flow(s, "wild")]
  /\ Goto(IF cpu.owner = s THEN "wild" ELSE "stack")
  /\ waited' = [waited EXCEPT ![s] = 0]
  /\ UNCHANGED <<current_process, scheduler_enabled, inService, frame, raced>>

\* The initial stack is built after the state is already READY.
CreateStack ==
  /\ At("stack")
  /\ stack_ptr' = [stack_ptr EXCEPT ![cpu.next] = Fresh(cpu.next)]
  /\ Goto("run")
  /\ UNCHANGED <<state, pid, time_slice, next_pid, current_process,
                 scheduler_enabled, inService, frame, history>>

scheduler_init ==
  /\ At("run")
  /\ ~scheduler_enabled
  /\ scheduler_enabled' = TRUE
  /\ UNCHANGED <<table, current_process, cpu, inService, frame, history>>

-----------------------------------------------------------------------------
(* The calls that reach schedule from a thread *)

process_yield ==
  /\ At("run")
  /\ cpu' = [cpu EXCEPT !.pc = "sched", !.ret = "run"]
  /\ UNCHANGED <<table, current_process, scheduler_enabled, inService, frame, history>>

\* Called by process_wrapper when the entry function returns.
process_exit ==
  /\ At("run")
  /\ cpu.owner # NULL
  /\ current_process # NULL
  /\ state' = [state EXCEPT ![current_process] = "ZOMBIE"]
  /\ cpu' = [cpu EXCEPT !.pc = "sched", !.ret = "halt"]
  /\ UNCHANGED <<pid, time_slice, stack_ptr, next_pid, current_process,
                 scheduler_enabled, inService, frame, history>>

\* A pid that names no process makes the call return -1 with no effect.
process_kill(p) ==
  /\ At("run")
  /\ \E s \in find_process(p) :
       /\ state' = [state EXCEPT ![s] = "ZOMBIE"]
       /\ cpu' = IF s = current_process
                 THEN [cpu EXCEPT !.pc = "sched", !.ret = "run"] ELSE cpu
  /\ UNCHANGED <<pid, time_slice, stack_ptr, next_pid, current_process,
                 scheduler_enabled, inService, frame, history>>

\* schedule() up to the point where it has chosen `next`: return at once when
\* it is disabled, else clean up zombies and search.
SchedulePick ==
  /\ At("sched")
  /\ IF ~scheduler_enabled
     THEN Goto(cpu.ret) /\ UNCHANGED <<state, pid>>
     ELSE /\ state' = CleanState
          /\ pid' = CleanPid
          /\ IF Ready = {}
             THEN Goto(cpu.ret)
             ELSE \E n \in NextReady :
                    cpu' = [cpu EXCEPT !.pc = "mark", !.old = current_process,
                                       !.next = n]
  /\ UNCHANGED <<time_slice, stack_ptr, next_pid, current_process,
                 scheduler_enabled, inService, frame, history>>

\* Mutant: the process that loses the CPU stays RUNNING.
ScheduleMark_Skipped ==
  /\ At("mark")
  /\ Goto("dispatch")
  /\ UNCHANGED <<table, current_process, scheduler_enabled, inService, frame, history>>

\* old->state = PROCESS_READY
ScheduleMark ==
  /\ At("mark")
  /\ state' = IF cpu.old # NULL /\ state[cpu.old] = "RUNNING"
              THEN [state EXCEPT ![cpu.old] = "READY"] ELSE state
  /\ Goto("dispatch")
  /\ UNCHANGED <<pid, time_slice, stack_ptr, next_pid, current_process,
                 scheduler_enabled, inService, frame, history>>

\* next->state = PROCESS_RUNNING; current_process = next
ScheduleDispatch ==
  /\ At("dispatch")
  /\ state' = [state EXCEPT ![cpu.next] = "RUNNING"]
  /\ current_process' = cpu.next
  /\ Goto(IF cpu.old = cpu.next THEN cpu.ret ELSE "switch")
  /\ Dispatched(cpu.next)
  /\ UNCHANGED <<pid, time_slice, stack_ptr, next_pid, scheduler_enabled,
                 inService, frame, raced>>

ScheduleSwitch ==
  /\ At("switch")
  /\ Switch(cpu.old, cpu.next, [cpu EXCEPT !.pc = cpu.ret])
  /\ inService' = EOIAfter(cpu.next, inService)
  /\ UNCHANGED <<state, pid, time_slice, next_pid, current_process,
                 scheduler_enabled, frame, history>>

-----------------------------------------------------------------------------
(* The interrupt paths: scheduler_tick, with schedule() run to its end *)

\* scheduler_tick returns before it reaches schedule().
TickOnly ==
  /\ IF scheduler_enabled /\ current_process # NULL
     THEN /\ time_slice[current_process] > 1
          /\ time_slice' = [time_slice EXCEPT ![current_process] = @ - 1]
     ELSE UNCHANGED time_slice
  /\ UNCHANGED <<state, pid, stack_ptr, next_pid, current_process,
                 scheduler_enabled, cpu, history>>

\* The slice is used up: reset it and call schedule().
SliceUsed ==
  /\ scheduler_enabled
  /\ current_process # NULL
  /\ time_slice[current_process] <= 1
  /\ time_slice' = [time_slice EXCEPT ![current_process] = SLICE]
  /\ pid' = CleanPid
  /\ UNCHANGED <<next_pid, scheduler_enabled>>

\* schedule() finds nothing READY, or only the current slot itself.
TickStay ==
  /\ SliceUsed
  /\ Ready \subseteq {current_process}
  /\ state' = IF Ready = {} THEN CleanState
              ELSE [CleanState EXCEPT ![current_process] = "RUNNING"]
  /\ Dispatched(current_process)
  /\ UNCHANGED <<stack_ptr, current_process, cpu, raced>>

\* schedule() switches; the interrupted flow is suspended where it is.
TickSwitch(irq, unacknowledged) ==
  /\ SliceUsed
  /\ ~(Ready \subseteq {current_process})
  /\ \E n \in NextReady :
       /\ state' = [s \in Slots |->
                      CASE s = n -> "RUNNING"
                        [] s = current_process /\ state[s] = "RUNNING" -> "READY"
                        [] OTHER -> CleanState[s]]
       /\ current_process' = n
       /\ Dispatched(n)
       /\ Switch(current_process, n, [cpu EXCEPT !.irq = irq])
       /\ inService' = EOIAfter(n, unacknowledged)
  /\ raced' = (raced \/ cpu.pc \in Critical)

\* IRQ0: isr_handler_c sends the EOI only after timer_irq_handler returned, on
\* the stack that was interrupted.
TimerIRQ ==
  /\ cpu.pc \in Interruptible
  /\ ~inService
  /\ UNCHANGED frame
  /\ \/ (TickOnly \/ TickStay) /\ UNCHANGED inService
     \/ TickSwitch(TRUE, TRUE)

\* int 0x80 with SYS_YIELD: sys_yield is scheduler_tick, and no EOI is due.
SysYield ==
  /\ At("run")
  /\ UNCHANGED frame
  /\ \/ (TickOnly \/ TickStay) /\ UNCHANGED inService
     \/ TickSwitch(FALSE, inService)

-----------------------------------------------------------------------------
ScheduleSteps == SchedulePick \/ ScheduleMark \/ ScheduleDispatch \/ ScheduleSwitch

Next ==
  \/ CreateFind \/ CreateClaim \/ CreateStack
  \/ scheduler_init
  \/ process_yield \/ process_exit
  \/ \E p \in 1 .. MaxPid : process_kill(p)
  \/ ScheduleSteps
  \/ TimerIRQ
  \/ SysYield

Spec == Init /\ [][Next]_vars

\* Preemptive use: the timer fires for ever, a call into process.c is
\* completed, and no process is obliged to give the CPU up.
PreemptiveSpec ==
  /\ Spec
  /\ WF_vars(TimerIRQ)
  /\ WF_vars(ScheduleSteps)
  /\ WF_vars(CreateClaim \/ CreateStack)

-----------------------------------------------------------------------------
(* Properties.  Each holds as long as the timer never took the CPU away    *)
(* inside process_create or schedule, and a tick there that takes it away   *)
(* breaks it (OneRunningAlways, for one).                                   *)

\* Bound: a behaviour is followed up to and including the first such tick.
UpToTheRace == ~raced

\* No two slots share a pid other than 0, and a pid still to be handed out is
\* in no slot, so that kill and ps name one process (process_create,
\* cleanup_zombies).
PidsDistinct ==
  ~raced => \A s \in Slots :
              /\ pid[s] < next_pid
              /\ \A t \in Slots : s # t /\ pid[s] = pid[t] => pid[s] = 0

\* A live process has a pid and an unused slot has none, so find_process finds
\* exactly the processes (process_create, cleanup_zombies).
PidsNameProcesses ==
  ~raced => \A s \in Slots :
              /\ state[s] = "UNUSED" => pid[s] = 0
              /\ state[s] \in {"READY", "RUNNING"} => pid[s] # 0

\* At most one process is RUNNING ("Currently executing", process.h), and it
\* is the one current_process points to: whatever a tick between two steps of
\* process.c does, short of taking the CPU away inside one of its calls.
OneRunningAlways == \A s \in Slots : state[s] = "RUNNING" => s = current_process
OneRunning == ~raced => OneRunningAlways

\* Code outside process.c runs on the stack of the process that
\* current_process names: schedule never marks one process and resumes
\* another (schedule, context_switch).
CpuIsCurrent ==
  ~raced /\ At("run") /\ current_process # NULL => cpu.owner = current_process

\* process_create never hands out a slot whose process is still alive: a slot
\* goes back to pid 0 before it gets another pid.
SlotNotStolen ==
  [][~raced' => \A s \in Slots :
       pid'[s] = pid[s] \/ pid[s] = 0 \/ pid'[s] = 0]_vars

\* Round robin starves nobody, whoever calls schedule and whenever: before a
\* READY process gets the CPU, fewer than MAX_PROCESSES other dispatches go by
\* (schedule starts its search after the current slot).
BoundedOvertaking ==
  ~raced => \A s \in Slots : state[s] = "READY" => waited[s] < MAX_PROCESSES

\* "Should never reach here" (process_exit, after schedule).
ExitNeverReturns == ~At("halt")

\* The timer goes on interrupting: an unacknowledged IRQ0 is acknowledged.
TimerKeepsTicking == inService ~> ~inService

\* A process that gets the CPU executes code: it never starts from a null or
\* misread frame.
NeverWild == ~At("wild")
=============================================================================
