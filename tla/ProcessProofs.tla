---------------------------- MODULE ProcessProofs ----------------------------
(***************************************************************************)
(* Proofs about Process, for every table size and with the timer free to   *)
(* interrupt anywhere: types and pids; up to the first tick that takes the *)
(* CPU away inside process_create or schedule, one RUNNING process on its  *)
(* own stack, pids that name processes, slots handed out once and bounded  *)
(* overtaking.  As ProcessWired shows, the kernel's own use of the module  *)
(* never gets to such a tick.                                              *)
(***************************************************************************)
EXTENDS ProcessWired, TLAPS

\* Every suspended flow and every flow on the CPU is well formed.
LEMMA FlowType ==
  ASSUME NEW s \in Slots \cup {NULL}, NEW pc \in Pcs
  PROVE  Flow(s, pc) \in Conts
  BY ProcessAssumption DEF Flow, Conts, Slots, Pcs

\* The stack that process_create builds is a well-formed suspended flow.
LEMMA FreshType ==
  ASSUME NEW s \in Slots
  PROVE  Fresh(s) \in Conts /\ Fresh(s).pc \in {"run", "wild"} /\ Fresh(s).owner = s
<1> DEFINE pc == IF EntersWrapper(frame) THEN "run" ELSE "wild"
<1>1. pc \in {"run", "wild"}
  OBVIOUS
<1> HIDE DEF pc
<1>2. pc \in Pcs
  BY <1>1 DEF Pcs
<1>3. Fresh(s) = Flow(s, pc)
  BY DEF Fresh, pc
<1>4. Fresh(s) \in Conts
  BY <1>2, <1>3, FlowType
<1>5. Fresh(s).pc = pc /\ Fresh(s).owner = s
  BY <1>3 DEF Flow
<1> QED
  BY <1>1, <1>4, <1>5

\* cleanup_zombies keeps the types of the fields it changes.
LEMMA CleanType ==
  ASSUME TypeOK
  PROVE  CleanState \in [Slots -> States] /\ CleanPid \in [Slots -> Nat]
  BY DEF TypeOK, CleanState, CleanPid, States

\* What context_switch leaves in stack_ptr and on the CPU is well formed.
LEMMA SwitchType ==
  ASSUME TypeOK, NEW old \in Slots \cup {NULL}, NEW next \in Slots,
         NEW saved \in Conts, Switch(old, next, saved)
  PROVE  stack_ptr' \in [Slots -> Conts] /\ cpu' \in Conts
<1>1. stack_ptr' \in [Slots -> Conts]
  BY DEF Switch, TypeOK
<1>2. cpu' \in Conts
  BY DEF Switch, TypeOK, Conts
<1> QED
  BY <1>1, <1>2

\* Refilling a used-up time slice keeps the types.
LEMMA SliceUsedType ==
  ASSUME TypeOK, SliceUsed
  PROVE  /\ time_slice' \in [Slots -> 0 .. SLICE] /\ pid' \in [Slots -> Nat]
         /\ next_pid' \in Nat \ {0} /\ scheduler_enabled' \in BOOLEAN
         /\ current_process \in Slots
<1>1. current_process \in Slots
  BY DEF TypeOK, SliceUsed
<1>2. SLICE \in 0 .. SLICE
  BY ProcessAssumption
<1>3. time_slice' \in [Slots -> 0 .. SLICE]
  BY <1>1, <1>2 DEF TypeOK, SliceUsed
<1>4. pid' \in [Slots -> Nat]
  BY CleanType DEF SliceUsed
<1> QED
  BY <1>1, <1>3, <1>4 DEF TypeOK, SliceUsed

\* Counting a dispatch keeps the type of the count.
LEMMA DispatchedType ==
  ASSUME TypeOK, NEW n \in Slots, Dispatched(n)
  PROVE  waited' \in [Slots -> 0 .. MAX_PROCESSES]
  BY ProcessAssumption DEF Dispatched, TypeOK

\* A tick whose scheduler_tick returns before schedule() keeps the types.
LEMMA TickOnlyType ==
  ASSUME TypeOK, TickOnly, inService' = inService, frame' = frame
  PROVE  TypeOK'
<1>1. CASE scheduler_enabled /\ current_process # NULL
  <2>1. current_process \in Slots /\ time_slice[current_process] \in 0 .. SLICE
    BY <1>1 DEF TypeOK
  <2>2. time_slice[current_process] - 1 \in 0 .. SLICE
    BY <1>1, <2>1, ProcessAssumption DEF TickOnly
  <2>3. time_slice' \in [Slots -> 0 .. SLICE]
    BY <1>1, <2>1, <2>2 DEF TypeOK, TickOnly
  <2> QED
    BY <2>3 DEF TypeOK, TickOnly, history
<1>2. CASE ~(scheduler_enabled /\ current_process # NULL)
  BY <1>2 DEF TypeOK, TickOnly, history
<1> QED
  BY <1>1, <1>2

\* A tick whose schedule() stays with the current process keeps the types.
LEMMA TickStayType ==
  ASSUME TypeOK, TickStay, inService' = inService, frame' = frame
  PROVE  TypeOK'
<1>1. SliceUsed
  BY DEF TickStay
<1>2. state' \in [Slots -> States]
  BY <1>1, CleanType, SliceUsedType DEF TickStay, States
<1>3. waited' \in [Slots -> 0 .. MAX_PROCESSES]
  BY <1>1, SliceUsedType, DispatchedType DEF TickStay
<1> QED
  BY <1>1, <1>2, <1>3, SliceUsedType DEF TypeOK, TickStay

\* A tick whose schedule() switches keeps the types.
LEMMA TickSwitchType ==
  ASSUME TypeOK, NEW irq \in BOOLEAN, NEW unack \in BOOLEAN, TickSwitch(irq, unack),
         frame' = frame
  PROVE  TypeOK'
<1>1. SliceUsed
  BY DEF TickSwitch
<1>2. PICK n \in NextReady :
        /\ state' = [s \in Slots |->
                       CASE s = n -> "RUNNING"
                         [] s = current_process /\ state[s] = "RUNNING" -> "READY"
                         [] OTHER -> CleanState[s]]
        /\ current_process' = n
        /\ Dispatched(n)
        /\ Switch(current_process, n, [cpu EXCEPT !.irq = irq])
        /\ inService' = EOIAfter(n, unack)
  BY DEF TickSwitch
<1>3. n \in Slots
  BY DEF NextReady, Ready
<1>4. state' \in [Slots -> States]
  BY <1>2, CleanType DEF States
<1>5. [cpu EXCEPT !.irq = irq] \in Conts
  BY DEF TypeOK, Conts
<1>6. stack_ptr' \in [Slots -> Conts] /\ cpu' \in Conts
  BY <1>1, <1>2, <1>3, <1>5, SliceUsedType, SwitchType
<1>7. inService' \in BOOLEAN
  BY <1>2 DEF EOIAfter
<1>8. waited' \in [Slots -> 0 .. MAX_PROCESSES]
  BY <1>2, <1>3, DispatchedType
<1>9. raced' \in BOOLEAN
  BY DEF TickSwitch, TypeOK
<1> QED
  BY <1>1, <1>2, <1>3, <1>4, <1>6, <1>7, <1>8, <1>9, SliceUsedType DEF TypeOK

\* Every step keeps the types: one case per action of Next.
LEMMA TypeStep == TypeOK /\ [Next]_vars => TypeOK'
<1> SUFFICES ASSUME TypeOK, [Next]_vars
             PROVE  TypeOK'
  OBVIOUS
<1>0. {"run", "halt"} \subseteq Pcs
  BY DEF Pcs
<1>1. CASE CreateFind
  BY <1>1 DEF CreateFind, TypeOK, table, history, find_free_slot, FreeSlots, Conts, Pcs
<1>2. CASE CreateClaim
  <2> DEFINE s == cpu.next
  <2>1. s \in Slots
    BY DEF TypeOK, Conts
  <2>2. state' \in [Slots -> States] /\ pid' \in [Slots -> Nat] /\ next_pid' \in Nat \ {0}
    BY <1>2, <2>1 DEF CreateClaim, TypeOK, States
  <2>3. time_slice' \in [Slots -> 0 .. SLICE]
    BY <1>2, <2>1, ProcessAssumption DEF CreateClaim, TypeOK
  <2>4. stack_ptr' \in [Slots -> Conts]
    <3>1. Flow(s, "wild") \in Conts
      BY <2>1, FlowType DEF Pcs
    <3> QED
      BY <1>2, <2>1, <3>1 DEF CreateClaim, TypeOK
  <2>5. cpu' \in Conts
    BY <1>2 DEF CreateClaim, Goto, TypeOK, Conts, Pcs
  <2>6. waited' \in [Slots -> 0 .. MAX_PROCESSES]
    BY <1>2, <2>1, ProcessAssumption DEF CreateClaim, TypeOK
  <2> QED
    BY <1>2, <2>2, <2>3, <2>4, <2>5, <2>6 DEF CreateClaim, TypeOK
<1>3. CASE CreateStack
  <2>1. cpu.next \in Slots
    BY DEF TypeOK, Conts
  <2>2. stack_ptr' \in [Slots -> Conts]
    BY <1>3, <2>1, FreshType DEF CreateStack, TypeOK
  <2>3. cpu' \in Conts
    BY <1>3 DEF CreateStack, Goto, TypeOK, Conts, Pcs
  <2> QED
    BY <1>3, <2>2, <2>3 DEF CreateStack, TypeOK, history
<1>4. CASE scheduler_init
  BY <1>4 DEF scheduler_init, TypeOK, table, history
<1>5. CASE process_yield
  BY <1>5 DEF process_yield, TypeOK, table, history, Conts, Pcs
<1>6. CASE process_exit
  BY <1>6 DEF process_exit, TypeOK, history, Conts, Pcs, States
<1>7. ASSUME NEW p \in 1 .. MaxPid, process_kill(p)
      PROVE  TypeOK'
  <2>1. PICK s \in Slots :
          /\ state' = [state EXCEPT ![s] = "ZOMBIE"]
          /\ cpu' = IF s = current_process
                    THEN [cpu EXCEPT !.pc = "sched", !.ret = "run"] ELSE cpu
    BY <1>7 DEF process_kill, find_process, HasPid
  <2>2. cpu' \in Conts
    BY <2>1 DEF TypeOK, Conts, Pcs
  <2>3. state' \in [Slots -> States]
    BY <2>1 DEF TypeOK, States
  <2> QED
    BY <1>7, <2>2, <2>3 DEF process_kill, TypeOK, history
<1>8. CASE SchedulePick
  <2>1. CASE ~scheduler_enabled
    BY <1>8, <2>1, <1>0 DEF SchedulePick, Goto, TypeOK, history, Conts
  <2>2. CASE scheduler_enabled /\ Ready = {}
    BY <1>8, <2>2, <1>0, CleanType DEF SchedulePick, Goto, TypeOK, history, Conts
  <2>3. CASE scheduler_enabled /\ Ready # {}
    <3>1. PICK n \in NextReady :
            cpu' = [cpu EXCEPT !.pc = "mark", !.old = current_process, !.next = n]
      BY <1>8, <2>3 DEF SchedulePick
    <3>2. cpu' \in Conts
      BY <3>1 DEF NextReady, Ready, TypeOK, Conts, Pcs
    <3> QED
      BY <1>8, <2>3, <3>2, CleanType DEF SchedulePick, TypeOK, history
  <2> QED
    BY <2>1, <2>2, <2>3 DEF TypeOK
<1>9. CASE ScheduleMark
  BY <1>9 DEF ScheduleMark, Goto, TypeOK, history, Conts, Pcs, States
<1>10. CASE ScheduleDispatch
  <2>1. waited' \in [Slots -> 0 .. MAX_PROCESSES]
    BY <1>10, DispatchedType DEF ScheduleDispatch, TypeOK, Conts
  <2> QED
    BY <1>10, <1>0, <2>1 DEF ScheduleDispatch, Goto, TypeOK, Conts, Pcs, States
<1>11. CASE ScheduleSwitch
  <2>1. [cpu EXCEPT !.pc = cpu.ret] \in Conts
    BY <1>0 DEF TypeOK, Conts
  <2>2. stack_ptr' \in [Slots -> Conts] /\ cpu' \in Conts
    BY <1>11, <2>1, SwitchType DEF ScheduleSwitch, TypeOK, Conts
  <2> QED
    BY <1>11, <2>2 DEF ScheduleSwitch, EOIAfter, TypeOK, history
<1>12. CASE TimerIRQ
  BY <1>12, TickOnlyType, TickStayType, TickSwitchType DEF TimerIRQ
<1>13. CASE SysYield
  BY <1>13, TickOnlyType, TickStayType, TickSwitchType DEF SysYield, TypeOK
<1>14. CASE UNCHANGED vars
  BY <1>14 DEF vars, table, history, TypeOK
<1> QED
  BY <1>1, <1>2, <1>3, <1>4, <1>5, <1>6, <1>7, <1>8, <1>9, <1>10, <1>11,
     <1>12, <1>13, <1>14 DEF Next, ScheduleSteps

\* The initial state is well typed.
LEMMA TypeInit == Init => TypeOK
<1> SUFFICES ASSUME Init
             PROVE  TypeOK
  OBVIOUS
<1>1. cpu \in Conts /\ \A s \in Slots : Flow(s, "wild") \in Conts
  BY FlowType DEF Init, Pcs
<1>2. stack_ptr \in [Slots -> Conts]
  BY <1>1 DEF Init
<1>3. time_slice \in [Slots -> 0 .. SLICE]
  BY ProcessAssumption DEF Init
<1>4. state \in [Slots -> States] /\ pid \in [Slots -> Nat] /\ next_pid \in Nat \ {0}
  BY DEF Init, States
<1>5. scheduler_enabled \in BOOLEAN /\ inService \in BOOLEAN
        /\ current_process \in Slots \cup {NULL}
  BY DEF Init
<1>6. waited \in [Slots -> 0 .. MAX_PROCESSES]
  BY ProcessAssumption DEF Init
<1>7. frame \in {CreatedFrame, DocumentedFrame} /\ raced \in BOOLEAN
  BY DEF Init
<1> QED
  BY <1>1, <1>2, <1>3, <1>4, <1>5, <1>6, <1>7 DEF TypeOK

\* The state variables keep their types, whatever interrupts what.
THEOREM TypeCorrect == Spec => []TypeOK
<1> QED
  BY TypeInit, TypeStep, PTL DEF Spec

-----------------------------------------------------------------------------
\* The only steps that change a pid are the claim of a slot, which uses the
\* next pid, and cleanup, which resets pids to 0.
PidsApart ==
  \A s \in Slots :
    /\ pid[s] < next_pid
    /\ \A t \in Slots : s # t /\ pid[s] = pid[t] => pid[s] = 0

\* No step puts a pid into a second slot.
LEMMA PidStep == TypeOK /\ PidsApart /\ [Next]_vars => PidsApart'
<1> SUFFICES ASSUME TypeOK, PidsApart, [Next]_vars
             PROVE  PidsApart'
  OBVIOUS
<1>1. CASE CreateClaim
  <2>1. cpu.next \in Slots
    BY DEF TypeOK, Conts
  <2> QED
    BY <1>1, <2>1 DEF CreateClaim, PidsApart, TypeOK
<1>2. CASE pid' = CleanPid /\ next_pid' = next_pid
  BY <1>2 DEF CleanPid, PidsApart, TypeOK
<1>3. CASE pid' = pid /\ next_pid' = next_pid
  BY <1>3 DEF PidsApart
<1>4. CreateFind \/ CreateStack \/ scheduler_init \/ process_yield \/ process_exit
        \/ ScheduleMark \/ ScheduleDispatch \/ ScheduleSwitch \/ UNCHANGED vars
        \/ (\E p \in 1 .. MaxPid : process_kill(p))
      => pid' = pid /\ next_pid' = next_pid
  BY DEF CreateFind, CreateStack, scheduler_init, process_yield, process_exit,
         ScheduleMark, ScheduleDispatch, ScheduleSwitch, process_kill, vars, table
<1>5. SchedulePick => pid' \in {pid, CleanPid} /\ next_pid' = next_pid
  BY DEF SchedulePick
<1>6. TimerIRQ \/ SysYield => pid' \in {pid, CleanPid} /\ next_pid' = next_pid
  BY DEF TimerIRQ, SysYield, TickOnly, TickStay, TickSwitch, SliceUsed
<1> QED
  BY <1>1, <1>2, <1>3, <1>4, <1>5, <1>6 DEF Next, ScheduleSteps

\* kill and ps name one process: no pid is ever in two slots, and none that is
\* still to be handed out is in the table, for any number of slots.
THEOREM PidsAlwaysDistinct == Spec => []PidsDistinct
<1>1. Init => PidsApart
  BY DEF Init, PidsApart
<1>2. PidsApart => PidsDistinct
  BY DEF PidsApart, PidsDistinct
<1> QED
  BY <1>1, <1>2, PidStep, TypeStep, TypeCorrect, PTL DEF Spec

-----------------------------------------------------------------------------
(* Scheduling, up to the first tick that takes the CPU away inside process.c *)

\* Once raced, always raced.
LEMMA RacedStays == [Next]_vars /\ ~raced' => ~raced
<1> SUFFICES ASSUME [Next]_vars, ~raced'
             PROVE  ~raced
  OBVIOUS
<1>1. CASE raced' = raced
  BY <1>1
<1>2. CASE \E irq, unack : TickSwitch(irq, unack)
  BY <1>2 DEF TickSwitch
<1>3. CreateFind \/ CreateClaim \/ CreateStack \/ scheduler_init \/ process_yield
        \/ process_exit \/ SchedulePick \/ ScheduleMark \/ ScheduleDispatch
        \/ ScheduleSwitch \/ UNCHANGED vars
        \/ (\E p \in 1 .. MaxPid : process_kill(p))
      => raced' = raced
  BY DEF CreateFind, CreateClaim, CreateStack, scheduler_init, process_yield,
         process_exit, SchedulePick, ScheduleMark, ScheduleDispatch,
         ScheduleSwitch, process_kill, vars, table, history
<1>4. TimerIRQ \/ SysYield
      => raced' = raced \/ \E irq, unack : TickSwitch(irq, unack)
  BY DEF TimerIRQ, SysYield, TickOnly, TickStay, history
<1> QED
  BY <1>1, <1>2, <1>3, <1>4 DEF Next, ScheduleSteps

\* A suspended flow is outside process.c, halted at the end of exit, or in
\* schedule before it has looked at the table; and each slot suspends a flow of
\* its own stack.
SuspendedOutside ==
  \A s \in Slots : /\ stack_ptr[s].pc \in {"run", "halt", "wild", "sched"}
                   /\ stack_ptr[s].owner = s

\* The flow on the CPU is on the current process's stack until schedule has
\* chosen another, and schedule's local `old` is that process.
OnCurrent ==
  /\ cpu.pc \in {"run", "halt", "claim", "stack", "sched", "mark", "dispatch"}
       /\ current_process # NULL => cpu.owner = current_process
  /\ cpu.pc \in {"mark", "dispatch"} => cpu.old = current_process
  /\ cpu.pc = "dispatch" => \A s \in Slots : state[s] = "RUNNING" => s = cpu.next
  /\ cpu.pc = "switch" => /\ cpu.next = current_process
                          /\ cpu.old # NULL => cpu.old = cpu.owner

\* What process_create and schedule have found still holds when they use it:
\* the slot to be claimed is unused, and the process to be dispatched is READY
\* (or runs already, when it is the current one).
FoundHolds ==
  /\ cpu.pc = "claim" => state[cpu.next] = "UNUSED"
  /\ cpu.pc \in {"mark", "dispatch"} =>
       \/ state[cpu.next] = "READY"
       \/ state[cpu.next] = "RUNNING" /\ cpu.next = current_process

SchedInv ==
  TypeOK /\ OneRunningAlways /\ SuspendedOutside /\ OnCurrent /\ FoundHolds

\* After process_init nothing runs and the invariant holds.
LEMMA SchedInit == Init => SchedInv
<1>1. Init => TypeOK
  BY TypeInit
<1>2. Init => OneRunningAlways /\ SuspendedOutside /\ OnCurrent /\ FoundHolds
  BY DEF Init, OneRunningAlways, SuspendedOutside, OnCurrent, FoundHolds, Flow
<1> QED
  BY <1>1, <1>2 DEF SchedInv

\* Every step that does not race keeps the invariant: one case per action of
\* Next, and for the timer one per way scheduler_tick ends.
LEMMA SchedStep ==
  ASSUME SchedInv, [Next]_vars, ~raced'
  PROVE  SchedInv'
<1>0. TypeOK'
  BY TypeStep DEF SchedInv
<1> USE <1>0 DEF SchedInv
<1>a. cpu.next \in Slots /\ cpu.old \in Slots \cup {NULL} /\ cpu.ret \in {"run", "halt"}
  BY DEF TypeOK, Conts
<1>n. NULL \notin Slots
  BY ProcessAssumption DEF NULL, Slots
<1>1. CASE CreateFind
  <2>1. PICK s \in Slots : state[s] = "UNUSED" /\ cpu' = [cpu EXCEPT !.pc = "claim", !.next = s]
    BY <1>1 DEF CreateFind, find_free_slot, FreeSlots
  <2>2. cpu'.pc = "claim" /\ cpu'.next = s /\ cpu'.owner = cpu.owner
    BY <2>1 DEF TypeOK, Conts
  <2> QED
    BY <1>1, <2>1, <2>2 DEF CreateFind, At, OneRunningAlways, SuspendedOutside, OnCurrent,
       FoundHolds, table
<1>2. CASE CreateClaim
  <2>1. OneRunningAlways'
    BY <1>2 DEF CreateClaim, OneRunningAlways, TypeOK
  <2>2. SuspendedOutside'
    BY <1>2, <1>a DEF CreateClaim, SuspendedOutside, TypeOK, Flow
  <2>3. cpu'.pc \in {"wild", "stack"} /\ cpu'.owner = cpu.owner
    BY <1>2 DEF CreateClaim, Goto, TypeOK, Conts
  <2> QED
    BY <1>2, <2>1, <2>2, <2>3 DEF CreateClaim, OnCurrent, FoundHolds, At
<1>3. CASE CreateStack
  <2>1. SuspendedOutside'
    BY <1>3, <1>a, FreshType DEF CreateStack, SuspendedOutside, TypeOK
  <2>2. cpu'.pc = "run" /\ cpu'.owner = cpu.owner
    BY <1>3 DEF CreateStack, Goto, TypeOK, Conts
  <2> QED
    BY <1>3, <2>1, <2>2 DEF CreateStack, OneRunningAlways, OnCurrent, FoundHolds, At
<1>4. CASE scheduler_init
  BY <1>4 DEF scheduler_init, OneRunningAlways, SuspendedOutside, OnCurrent, FoundHolds, table
<1>5. CASE process_yield
  <2>1. cpu'.pc = "sched" /\ cpu'.owner = cpu.owner
    BY <1>5 DEF process_yield, TypeOK, Conts
  <2> QED
    BY <1>5, <2>1 DEF process_yield, At, OneRunningAlways, SuspendedOutside, OnCurrent,
       FoundHolds, table
<1>6. CASE process_exit
  <2>1. cpu'.pc = "sched" /\ cpu'.owner = cpu.owner
    BY <1>6 DEF process_exit, TypeOK, Conts
  <2> QED
    BY <1>6, <2>1 DEF process_exit, At, OneRunningAlways, SuspendedOutside, OnCurrent,
       FoundHolds, TypeOK
<1>7. ASSUME NEW p \in 1 .. MaxPid, process_kill(p)
      PROVE  SchedInv'
  <2>1. PICK s \in Slots :
          /\ state' = [state EXCEPT ![s] = "ZOMBIE"]
          /\ cpu' = IF s = current_process
                    THEN [cpu EXCEPT !.pc = "sched", !.ret = "run"] ELSE cpu
    BY <1>7 DEF process_kill, find_process, HasPid
  <2>2. OneRunningAlways' /\ SuspendedOutside'
    BY <1>7, <2>1 DEF process_kill, OneRunningAlways, SuspendedOutside, TypeOK
  <2>3. cpu'.pc \in {"run", "sched"} /\ cpu'.owner = cpu.owner
    BY <1>7, <2>1 DEF process_kill, At, TypeOK, Conts
  <2> QED
    BY <1>7, <2>2, <2>3 DEF process_kill, At, OnCurrent, FoundHolds
<1>c. \A s \in Slots : /\ state[s] \in {"READY", "RUNNING", "UNUSED"} => CleanState[s] = state[s]
                       /\ CleanState[s] = "RUNNING" => state[s] = "RUNNING"
                       /\ CleanState[s] = "READY" => state[s] = "READY"
  BY DEF CleanState, TypeOK
<1>8. CASE SchedulePick
  <2>1. stack_ptr' = stack_ptr /\ current_process' = current_process
    BY <1>8 DEF SchedulePick
  <2>2. \A s \in Slots : state'[s] = "RUNNING" => state[s] = "RUNNING"
    BY <1>8, <1>c DEF SchedulePick
  <2>3. OneRunningAlways' /\ SuspendedOutside'
    BY <2>1, <2>2 DEF OneRunningAlways, SuspendedOutside
  <2>4. CASE ~scheduler_enabled \/ Ready = {}
    <3>1. cpu'.pc \in {"run", "halt"} /\ cpu'.owner = cpu.owner
      BY <1>8, <1>a, <2>4 DEF SchedulePick, Goto, TypeOK, Conts
    <3> QED
      BY <1>8, <2>1, <2>3, <3>1 DEF SchedulePick, At, OnCurrent, FoundHolds
  <2>5. CASE scheduler_enabled /\ Ready # {}
    <3>1. PICK n \in NextReady :
            cpu' = [cpu EXCEPT !.pc = "mark", !.old = current_process, !.next = n]
      BY <1>8, <2>5 DEF SchedulePick
    <3>2. n \in Slots /\ state[n] = "READY"
      BY <3>1 DEF NextReady, Ready
    <3>3. cpu'.pc = "mark" /\ cpu'.next = n /\ cpu'.old = current_process
            /\ cpu'.owner = cpu.owner
      BY <3>1, <3>2 DEF TypeOK, Conts
    <3>4. state'[n] = "READY"
      BY <1>8, <1>c, <2>5, <3>2 DEF SchedulePick
    <3> QED
      BY <1>8, <2>1, <2>3, <3>3, <3>4 DEF SchedulePick, At, OnCurrent, FoundHolds
  <2> QED
    BY <2>4, <2>5 DEF TypeOK
<1>9. CASE ScheduleMark
  <2>0. cpu.pc = "mark" /\ cpu.old = current_process
    BY <1>9 DEF ScheduleMark, At, OnCurrent
  <2>1. cpu'.owner = cpu.owner /\ cpu'.old = cpu.old /\ cpu'.pc = "dispatch"
          /\ cpu'.next = cpu.next
    BY <1>9 DEF ScheduleMark, Goto, TypeOK, Conts
  <2>2. \A s \in Slots : state'[s] # "RUNNING"
    BY <1>9, <1>n, <2>0 DEF ScheduleMark, OneRunningAlways, TypeOK
  <2>3. state'[cpu.next] = "READY"
    BY <1>9, <1>a, <1>n, <2>0 DEF ScheduleMark, FoundHolds, TypeOK
  <2> QED
    BY <1>9, <2>0, <2>1, <2>2, <2>3 DEF ScheduleMark, OneRunningAlways, SuspendedOutside,
       OnCurrent, FoundHolds
<1>10. CASE ScheduleDispatch
  <2>1. OneRunningAlways'
    BY <1>10, <1>a DEF ScheduleDispatch, At, OnCurrent, OneRunningAlways, TypeOK
  <2>2. cpu'.owner = cpu.owner /\ cpu'.old = cpu.old /\ cpu'.next = cpu.next
        /\ cpu'.pc = IF cpu.old = cpu.next THEN cpu.ret ELSE "switch"
    BY <1>10 DEF ScheduleDispatch, Goto, TypeOK, Conts
  <2> QED
    BY <1>10, <1>a, <1>n, <2>1, <2>2 DEF ScheduleDispatch, At, OnCurrent, SuspendedOutside,
       FoundHolds
<1>11. CASE ScheduleSwitch
  <2>1. SuspendedOutside'
    BY <1>11, <1>a DEF ScheduleSwitch, Switch, At, SuspendedOutside, OnCurrent, TypeOK, Conts
  <2>2. cpu'.owner = cpu.next /\ cpu'.pc \in {"run", "halt", "wild", "sched"}
    BY <1>11, <1>a DEF ScheduleSwitch, Switch, SuspendedOutside, TypeOK, Conts
  <2> QED
    BY <1>11, <2>1, <2>2 DEF ScheduleSwitch, At, OneRunningAlways, OnCurrent, FoundHolds
<1>12. CASE TickOnly
  BY <1>12 DEF TickOnly, OneRunningAlways, SuspendedOutside, OnCurrent, FoundHolds
<1>13. CASE TickStay
  <2>1. /\ current_process \in Slots /\ cpu' = cpu /\ stack_ptr' = stack_ptr
        /\ current_process' = current_process
    BY <1>13 DEF TickStay, SliceUsed, TypeOK
  <2>2. CASE Ready = {}
    <3>1. state' = CleanState
      BY <1>13, <2>2 DEF TickStay
    <3> QED
      BY <1>a, <1>c, <2>1, <3>1 DEF OneRunningAlways, SuspendedOutside, OnCurrent, FoundHolds
  <2>3. CASE Ready # {}
    <3>1. state' = [CleanState EXCEPT ![current_process] = "RUNNING"]
      BY <1>13, <2>3 DEF TickStay
    <3>2. /\ state[current_process] = "READY"
          /\ \A s \in Slots : state[s] = "READY" => s = current_process
      BY <1>13, <2>3 DEF TickStay, Ready
    <3>3. state' \in [Slots -> States] /\ state'[current_process] = "RUNNING"
            /\ \A s \in Slots : s # current_process => state'[s] = CleanState[s]
      BY <2>1, <3>1 DEF CleanState, TypeOK
    <3>4. OneRunningAlways' /\ SuspendedOutside'
      BY <1>c, <2>1, <3>3 DEF OneRunningAlways, SuspendedOutside
    <3>5. FoundHolds' /\ (cpu.pc \in {"mark", "dispatch"} => cpu.next = current_process)
      BY <1>a, <1>c, <2>1, <3>2, <3>3 DEF FoundHolds
    <3>6. OnCurrent'
      BY <2>1, <3>4, <3>5 DEF OnCurrent, OneRunningAlways
    <3> QED
      BY <3>4, <3>5, <3>6
  <2> QED
    BY <2>2, <2>3
<1>14. ASSUME NEW irq \in BOOLEAN, NEW unack, TickSwitch(irq, unack), TimerIRQ \/ SysYield
       PROVE  SchedInv'
  <2>1. PICK n \in Slots :
          /\ state' = [s \in Slots |->
                         CASE s = n -> "RUNNING"
                           [] s = current_process /\ state[s] = "RUNNING" -> "READY"
                           [] OTHER -> CleanState[s]]
          /\ current_process' = n
          /\ Switch(current_process, n, [cpu EXCEPT !.irq = irq])
    BY <1>14 DEF TickSwitch, NextReady, Ready
  <2>o. cpu.pc \in {"run", "halt", "sched"}
    <3>1. cpu.pc \in Pcs \ {"wild"} /\ cpu.pc \notin Critical
      BY <1>14 DEF TickSwitch, TimerIRQ, Interruptible, SysYield, At, Pcs, Critical
    <3> QED
      BY <3>1 DEF Pcs, Critical
  <2>2. current_process \in Slots /\ cpu.owner = current_process
    BY <1>14, <2>o DEF TickSwitch, SliceUsed, OnCurrent, TypeOK
  <2>3. OneRunningAlways'
    BY <1>c, <2>1 DEF OneRunningAlways
  <2>4. SuspendedOutside'
    BY <2>o, <2>1, <2>2 DEF Switch, SuspendedOutside, TypeOK, Conts
  <2>5. cpu'.owner = n /\ cpu'.pc \in {"run", "halt", "wild", "sched"}
    BY <2>1 DEF Switch, SuspendedOutside, TypeOK, Conts
  <2> QED
    BY <2>1, <2>3, <2>4, <2>5 DEF OnCurrent, FoundHolds
<1>15. CASE UNCHANGED vars
  BY <1>15 DEF vars, table, OneRunningAlways, SuspendedOutside, OnCurrent, FoundHolds
<1>16. CASE TimerIRQ
  BY <1>12, <1>13, <1>14, <1>16 DEF TimerIRQ
<1>17. CASE SysYield
  BY <1>12, <1>13, <1>14, <1>17 DEF SysYield
<1> QED
  BY <1>1, <1>2, <1>3, <1>4, <1>5, <1>6, <1>7, <1>8, <1>9, <1>10, <1>11,
     <1>15, <1>16, <1>17 DEF Next, ScheduleSteps

\* The invariant holds in every behaviour up to the first race.
LEMMA SchedAlways == Spec => [](~raced => SchedInv)
<1>1. Init => (~raced => SchedInv)
  BY SchedInit
<1>2. (~raced => SchedInv) /\ [Next]_vars => (~raced => SchedInv)'
  BY SchedStep, RacedStays
<1> QED
  BY <1>1, <1>2, PTL DEF Spec

\* With the timer free to interrupt anywhere, and until a tick takes the CPU
\* away inside process_create or schedule, at most one process is RUNNING and
\* it is the current one, for any number of slots (schedule).
THEOREM SchedulingSafety == Spec => []OneRunning
<1>1. (~raced => SchedInv) => OneRunning
  BY DEF SchedInv, OneRunning
<1> QED
  BY <1>1, SchedAlways, PTL

\* Under the same condition the code that runs is on the stack of the current
\* process: schedule resumes the process it marks, called by a thread or by
\* the timer (schedule, context_switch).
THEOREM CpuAlwaysCurrent == Spec => []CpuIsCurrent
<1>1. (~raced => SchedInv) => CpuIsCurrent
  BY DEF SchedInv, OnCurrent, CpuIsCurrent, At
<1> QED
  BY <1>1, SchedAlways, PTL
-----------------------------------------------------------------------------
(* Pids and slots, up to the same tick *)

\* find_process finds exactly the processes.
Named ==
  \A s \in Slots :
    /\ state[s] = "UNUSED" => pid[s] = 0
    /\ state[s] \in {"READY", "RUNNING"} => pid[s] # 0

TableInv == SchedInv /\ Named

\* Only the claim of a slot makes a slot live, and it gives it a pid; only
\* cleanup makes one unused, and it takes its pid.
LEMMA NamedStep ==
  ASSUME TableInv, [Next]_vars
  PROVE  Named'
<1>0. TypeOK
  BY DEF TableInv, SchedInv
<1> USE DEF TableInv
<1>a. cpu.next \in Slots
  BY <1>0 DEF TypeOK, Conts
<1>1. CASE CreateClaim
  BY <1>0, <1>1, <1>a DEF CreateClaim, Named, TypeOK
<1>2. CASE process_exit
  BY <1>0, <1>2 DEF process_exit, Named, TypeOK
<1>3. ASSUME NEW p \in 1 .. MaxPid, process_kill(p)
      PROVE  Named'
  BY <1>0, <1>3 DEF process_kill, find_process, HasPid, Named, TypeOK
<1>c. /\ \A s \in Slots : CleanState[s] = "UNUSED" => CleanPid[s] = 0
      /\ \A s \in Slots : CleanState[s] \in {"READY", "RUNNING"} => CleanPid[s] # 0
      /\ \A s \in Slots : state[s] \in {"READY", "RUNNING"} => CleanPid[s] # 0
  BY <1>0 DEF CleanState, CleanPid, Named, TypeOK
<1>4. CASE SchedulePick
  BY <1>4, <1>c DEF SchedulePick, Named
<1>5. CASE ScheduleMark
  BY <1>0, <1>5 DEF ScheduleMark, Named, TypeOK
<1>6. CASE ScheduleDispatch
  BY <1>0, <1>6, <1>a DEF ScheduleDispatch, At, Named, SchedInv, FoundHolds, TypeOK
<1>7. CASE TickOnly
  BY <1>7 DEF TickOnly, Named
<1>8. CASE TickStay
  <2>1. pid' = CleanPid /\ current_process \in Slots
    BY <1>0, <1>8 DEF TickStay, SliceUsed, TypeOK
  <2>2. CASE Ready = {}
    BY <1>8, <1>c, <2>1, <2>2 DEF TickStay, Named
  <2>3. CASE Ready # {}
    <3>1. state[current_process] = "READY"
            /\ state' = [CleanState EXCEPT ![current_process] = "RUNNING"]
      BY <1>8, <2>3 DEF TickStay, Ready
    <3> QED
      BY <1>c, <2>1, <3>1 DEF Named, CleanState
  <2> QED
    BY <2>2, <2>3
<1>9. ASSUME NEW irq, NEW unack, TickSwitch(irq, unack)
      PROVE  Named'
  <2>1. PICK n \in NextReady :
          state' = [s \in Slots |->
                      CASE s = n -> "RUNNING"
                        [] s = current_process /\ state[s] = "RUNNING" -> "READY"
                        [] OTHER -> CleanState[s]]
    BY <1>9 DEF TickSwitch
  <2>2. n \in Slots /\ state[n] = "READY" /\ pid' = CleanPid
    BY <1>9, <2>1 DEF TickSwitch, SliceUsed, NextReady, Ready
  <2> QED
    BY <1>c, <2>1, <2>2 DEF Named
<1>10. CASE CreateFind \/ CreateStack \/ scheduler_init \/ process_yield
              \/ ScheduleSwitch \/ UNCHANGED vars
  <2>1. state' = state /\ pid' = pid
    BY <1>10 DEF CreateFind, CreateStack, scheduler_init, process_yield, ScheduleSwitch,
       vars, table
  <2> QED
    BY <2>1 DEF Named
<1>11. CASE TimerIRQ
  BY <1>7, <1>8, <1>9, <1>11 DEF TimerIRQ
<1>12. CASE SysYield
  BY <1>7, <1>8, <1>9, <1>12 DEF SysYield
<1> QED
  BY <1>1, <1>2, <1>3, <1>4, <1>5, <1>6, <1>10, <1>11, <1>12 DEF Next, ScheduleSteps

\* The table invariant holds in every behaviour up to the first race.
LEMMA TableAlways == Spec => [](~raced => TableInv)
<1>1. Init => (~raced => TableInv)
  BY SchedInit DEF Init, TableInv, Named
<1>2. (~raced => TableInv) /\ [Next]_vars => (~raced => TableInv)'
  BY SchedStep, NamedStep, RacedStays DEF TableInv
<1> QED
  BY <1>1, <1>2, PTL DEF Spec

\* Until a tick takes the CPU away inside process_create or schedule, every live
\* process has a pid and an unused slot has none, so kill and ps find exactly
\* the processes (process_create, cleanup_zombies, find_process).
THEOREM PidsAlwaysName == Spec => []PidsNameProcesses
<1>1. (~raced => TableInv) => PidsNameProcesses
  BY DEF TableInv, Named, PidsNameProcesses
<1> QED
  BY <1>1, TableAlways, PTL

\* Under the same condition a slot is given up before it gets another pid: the
\* slot process_create found is still unused when it is claimed.
THEOREM SlotNeverStolen == Spec => SlotNotStolen
<1> DEFINE Kept == \A s \in Slots : pid'[s] = pid[s] \/ pid[s] = 0 \/ pid'[s] = 0
<1>1. (~raced => TableInv) /\ [Next]_vars => [~raced' => Kept]_vars
  <2> SUFFICES ASSUME ~raced => TableInv, [Next]_vars, ~raced' PROVE Kept
    OBVIOUS
  <2>0. TableInv
    BY RacedStays
  <2>1. TypeOK /\ cpu.next \in Slots
    BY <2>0 DEF TableInv, SchedInv, TypeOK, Conts
  <2>2. CASE CreateClaim
    BY <2>0, <2>1, <2>2 DEF CreateClaim, At, TableInv, SchedInv, FoundHolds, Named, TypeOK
  <2>3. CASE pid' = pid \/ pid' = CleanPid
    BY <2>3 DEF CleanPid
  <2>4. CreateFind \/ CreateStack \/ scheduler_init \/ process_yield \/ process_exit
          \/ ScheduleMark \/ ScheduleDispatch \/ ScheduleSwitch \/ UNCHANGED vars
          \/ (\E p \in 1 .. MaxPid : process_kill(p))
        => pid' = pid
    BY DEF CreateFind, CreateStack, scheduler_init, process_yield, process_exit,
           ScheduleMark, ScheduleDispatch, ScheduleSwitch, process_kill, vars, table
  <2>5. SchedulePick \/ TimerIRQ \/ SysYield => pid' \in {pid, CleanPid}
    BY DEF SchedulePick, TimerIRQ, SysYield, TickOnly, TickStay, TickSwitch, SliceUsed
  <2> QED
    BY <2>2, <2>3, <2>4, <2>5 DEF Next, ScheduleSteps
<1> QED
  BY <1>1, TableAlways, PTL DEF Spec, SlotNotStolen
-----------------------------------------------------------------------------
(* Overtaking, up to the same tick *)

\* The circular search visits each slot once.
LEMMA DistanceType ==
  ASSUME TypeOK, NEW s \in Slots
  PROVE  Distance(s) \in 0 .. MAX_PROCESSES - 1
  BY ProcessAssumption DEF TypeOK, Distance, SearchStart, Slots, NULL

\* The same after slot n has been dispatched.
LEMMA DistanceAfter ==
  ASSUME NEW n \in Slots, NEW s \in Slots, current_process' = n
  PROVE  /\ Distance(s)' = IF s > n THEN s - n - 1 ELSE s + MAX_PROCESSES - n - 1
         /\ Distance(s)' \in 0 .. MAX_PROCESSES - 1
  BY ProcessAssumption DEF Distance, SearchStart, Slots, NULL

\* Dispatching a slot that the search meets before slot s brings s nearer.
LEMMA DistanceDrops ==
  ASSUME TypeOK, NEW n \in Slots, NEW s \in Slots, n # s,
         Distance(n) <= Distance(s), current_process' = n
  PROVE  Distance(s)' + 1 <= Distance(s)
<1>1. SearchStart \in 0 .. MAX_PROCESSES
  BY ProcessAssumption DEF TypeOK, SearchStart, Slots, NULL
<1> QED
  BY <1>1, DistanceAfter, ProcessAssumption DEF Distance, Slots

\* What a READY process has waited and what is still ahead of it in the search
\* add up to less than one round; the process that runs starts from 0.
Overtaken ==
  \A s \in Slots :
    /\ state[s] = "READY" => waited[s] + Distance(s) < MAX_PROCESSES
    /\ state[s] = "RUNNING" => waited[s] = 0

\* The process schedule has chosen is still the first READY one of the search.
StillFirst ==
  cpu.pc \in {"mark", "dispatch"} =>
    \A t \in Slots : state[t] = "READY" => Distance(cpu.next) <= Distance(t)

FairInv == SchedInv /\ Overtaken /\ StillFirst

\* A dispatch of the first READY slot keeps every waiting process within one
\* round: its count goes up by one and its distance down by at least one.
LEMMA DispatchFair ==
  ASSUME SchedInv, Overtaken, NEW n \in Slots, Dispatched(n), current_process' = n,
         \A t \in Slots : state[t] = "READY" => Distance(n) <= Distance(t),
         \A s \in Slots : state'[s] = "READY" =>
           s # n /\ (state[s] = "READY" \/ s = current_process)
  PROVE  \A s \in Slots : state'[s] = "READY" => waited'[s] + Distance(s)' < MAX_PROCESSES
<1> SUFFICES ASSUME NEW s \in Slots, state'[s] = "READY"
             PROVE  waited'[s] + Distance(s)' < MAX_PROCESSES
  OBVIOUS
<1>1. Distance(s) \in 0 .. MAX_PROCESSES - 1 /\ Distance(n) \in 0 .. MAX_PROCESSES - 1
        /\ waited[s] \in 0 .. MAX_PROCESSES
  BY DistanceType DEF SchedInv, TypeOK
<1>2. Distance(s)' \in 0 .. MAX_PROCESSES - 1
  BY DistanceAfter
<1>3. CASE state[s] = "READY"
  <2>1. Distance(s)' + 1 <= Distance(s)
    BY <1>3, DistanceDrops DEF SchedInv
  <2>2. waited[s] + Distance(s) < MAX_PROCESSES
    BY <1>3 DEF Overtaken
  <2>3. waited'[s] = waited[s] + 1
    BY <1>1, <1>3, <2>2, ProcessAssumption DEF Dispatched
  <2> QED
    BY <1>1, <1>2, <2>1, <2>2, <2>3, ProcessAssumption
<1>4. CASE state[s] # "READY"
  <2>1. waited'[s] = 0
    BY <1>4 DEF Dispatched
  <2> QED
    BY <1>2, <2>1, ProcessAssumption
<1> QED
  BY <1>3, <1>4
\* Every step that does not race keeps a READY process within one round: only
\* the claim and schedule's mark make a slot READY, only a dispatch counts.
LEMMA FairStep ==
  ASSUME FairInv, [Next]_vars, ~raced'
  PROVE  FairInv'
<1>0. TypeOK /\ SchedInv' /\ cpu.next \in Slots /\ NULL \notin Slots
  <2>1. SchedInv' /\ TypeOK
    BY SchedStep DEF FairInv, SchedInv
  <2>2. cpu.next \in Slots
    BY <2>1 DEF TypeOK, Conts
  <2> QED
    BY <2>1, <2>2, ProcessAssumption DEF NULL, Slots
<1> USE DEF FairInv
<1>d. \A s \in Slots : Distance(s) \in 0 .. MAX_PROCESSES - 1
  BY <1>0, DistanceType
<1>m. current_process \in Slots => Distance(current_process) = MAX_PROCESSES - 1
  BY ProcessAssumption DEF Distance, SearchStart, Slots, NULL
\* Steps that dispatch nothing and make no slot READY.
<1>k. ASSUME current_process' = current_process, waited' = waited,
             cpu'.pc \in {"mark", "dispatch"} => cpu.pc \in {"mark", "dispatch"}
                                               /\ cpu'.next = cpu.next,
             \A s \in Slots : state'[s] \in {"READY", "RUNNING"} => state'[s] = state[s]
      PROVE  FairInv'
  <2>1. \A s \in Slots : Distance(s)' = Distance(s)
    BY <1>k DEF Distance, SearchStart
  <2>2. Overtaken'
    BY <1>k, <2>1 DEF Overtaken
  <2>3. StillFirst'
    BY <1>0, <1>k, <2>1 DEF StillFirst
  <2> QED
    BY <1>0, <2>2, <2>3
<1>1. CASE CreateClaim
  <2>1. \A s \in Slots : Distance(s)' = Distance(s)
    BY <1>1 DEF CreateClaim, Distance, SearchStart
  <2>2. Overtaken'
    BY <1>0, <1>1, <1>d, <2>1, ProcessAssumption DEF CreateClaim, Overtaken, TypeOK
  <2>3. cpu'.pc \in {"wild", "stack"}
    BY <1>0, <1>1 DEF CreateClaim, Goto, TypeOK, Conts
  <2> QED
    BY <1>0, <2>2, <2>3 DEF StillFirst
<1>2. CASE CreateFind \/ CreateStack \/ scheduler_init \/ process_yield
             \/ ScheduleSwitch \/ UNCHANGED vars
  <2>1. state' = state /\ waited' = waited /\ current_process' = current_process
    BY <1>2 DEF CreateFind, CreateStack, scheduler_init, process_yield, ScheduleSwitch,
       vars, table, history
  <2>2. CASE scheduler_init \/ UNCHANGED vars
    BY <1>k, <2>1, <2>2 DEF scheduler_init, vars
  <2>3. CASE CreateFind \/ CreateStack \/ process_yield
    <3>1. cpu'.pc \in {"claim", "run", "sched"}
      BY <1>0, <2>3 DEF CreateFind, CreateStack, process_yield, Goto, TypeOK, Conts
    <3> QED
      BY <1>k, <2>1, <3>1
  <2>4. CASE ScheduleSwitch
    <3>1. cpu'.pc \in {"run", "halt", "wild", "sched"}
      BY <1>0, <2>4 DEF ScheduleSwitch, Switch, SchedInv, SuspendedOutside, TypeOK, Conts
    <3> QED
      BY <1>k, <2>1, <3>1
  <2> QED
    BY <1>2, <2>2, <2>3, <2>4
<1>3. CASE process_exit \/ \E p \in 1 .. MaxPid : process_kill(p)
  <2>1. /\ waited' = waited /\ current_process' = current_process
        /\ cpu.pc = "run" /\ cpu'.pc \in {"run", "sched"}
    BY <1>0, <1>3 DEF process_exit, process_kill, At, history, TypeOK, Conts
  <2>2. \A s \in Slots : state'[s] \in {"READY", "RUNNING"} => state'[s] = state[s]
    BY <1>0, <1>3 DEF process_exit, process_kill, find_process, HasPid, TypeOK
  <2> QED
    BY <1>k, <2>1, <2>2
<1>c. \A s \in Slots : CleanState[s] \in {"READY", "RUNNING"} => CleanState[s] = state[s]
  BY <1>0 DEF CleanState, TypeOK
<1>4. CASE SchedulePick
  <2>1. /\ waited' = waited /\ current_process' = current_process
        /\ \A s \in Slots : state'[s] \in {"READY", "RUNNING"} => state'[s] = state[s]
    BY <1>4, <1>c DEF SchedulePick, history
  <2>2. CASE ~scheduler_enabled \/ Ready = {}
    <3>1. cpu'.pc \in {"run", "halt"}
      BY <1>0, <1>4, <2>2 DEF SchedulePick, Goto, TypeOK, Conts
    <3> QED
      BY <1>k, <2>1, <3>1
  <2>3. CASE scheduler_enabled /\ Ready # {}
    <3>1. PICK n \in NextReady :
            cpu' = [cpu EXCEPT !.pc = "mark", !.old = current_process, !.next = n]
      BY <1>4, <2>3 DEF SchedulePick
    <3>2. n \in Slots /\ cpu'.next = n
            /\ \A t \in Slots : state[t] = "READY" => Distance(n) <= Distance(t)
      BY <1>0, <3>1 DEF NextReady, Ready, TypeOK, Conts
    <3>3. \A s \in Slots : Distance(s)' = Distance(s)
      BY <2>1 DEF Distance, SearchStart
    <3>4. Overtaken'
      BY <2>1, <3>3 DEF Overtaken
    <3>5. StillFirst'
      BY <2>1, <3>2, <3>3 DEF StillFirst
    <3> QED
      BY <1>0, <3>4, <3>5
  <2> QED
    BY <1>0, <2>2, <2>3 DEF TypeOK
<1>5. CASE ScheduleMark
  <2>1. /\ cpu.pc = "mark" /\ cpu.old = current_process
        /\ cpu'.next = cpu.next /\ waited' = waited /\ current_process' = current_process
    BY <1>0, <1>5 DEF ScheduleMark, Goto, At, SchedInv, OnCurrent, history, TypeOK, Conts
  <2>2. \A s \in Slots : state'[s] \in {"READY", "RUNNING"} =>
          \/ state'[s] = state[s]
          \/ s = current_process /\ state[s] = "RUNNING" /\ state'[s] = "READY"
    BY <1>0, <1>5, <2>1 DEF ScheduleMark, TypeOK
  <2>3. \A s \in Slots : Distance(s)' = Distance(s)
    BY <2>1 DEF Distance, SearchStart
  <2>4. Overtaken'
    BY <1>0, <1>d, <2>1, <2>2, <2>3, ProcessAssumption DEF Overtaken, TypeOK
  <2>5. StillFirst'
    BY <1>0, <1>d, <1>m, <2>1, <2>2, <2>3, ProcessAssumption DEF StillFirst
  <2> QED
    BY <1>0, <2>4, <2>5
<1>6. CASE ScheduleDispatch
  <2>1. /\ cpu.pc = "dispatch" /\ current_process' = cpu.next
        /\ Dispatched(cpu.next) /\ state' = [state EXCEPT ![cpu.next] = "RUNNING"]
        /\ cpu'.pc \in {"run", "halt", "switch"}
    BY <1>0, <1>6 DEF ScheduleDispatch, Goto, At, TypeOK, Conts
  <2>2. \A s \in Slots : state'[s] = "READY" => waited'[s] + Distance(s)' < MAX_PROCESSES
    BY <1>0, <2>1, DispatchFair DEF StillFirst, TypeOK
  <2>3. \A s \in Slots : state'[s] = "RUNNING" => waited'[s] = 0
    BY <1>0, <2>1 DEF Dispatched, TypeOK, SchedInv, OnCurrent
  <2> QED
    BY <1>0, <2>1, <2>2, <2>3 DEF Overtaken, StillFirst
<1>7. CASE TickOnly
  BY <1>7, <1>k DEF TickOnly, history
<1>8. CASE TickStay
  <2>1. /\ current_process \in Slots /\ current_process' = current_process /\ cpu' = cpu
        /\ Dispatched(current_process) /\ Ready \subseteq {current_process}
    BY <1>0, <1>8 DEF TickStay, SliceUsed, TypeOK
  <2>2. \A s \in Slots : state'[s] # "READY"
    <3>1. CASE Ready = {}
      BY <1>8, <1>c, <3>1 DEF TickStay, Ready
    <3>2. CASE Ready # {}
      BY <1>8, <1>c, <2>1, <3>2 DEF TickStay, Ready, CleanState
    <3> QED
      BY <3>1, <3>2
  <2>3. \A s \in Slots : waited'[s] = 0
    BY <2>1 DEF Dispatched, Ready
  <2> QED
    BY <1>0, <2>2, <2>3 DEF Overtaken, StillFirst
<1>9. ASSUME NEW irq \in BOOLEAN, NEW unack, TickSwitch(irq, unack), TimerIRQ \/ SysYield
      PROVE  FairInv'
  <2>1. PICK n \in NextReady :
          /\ state' = [s \in Slots |->
                         CASE s = n -> "RUNNING"
                           [] s = current_process /\ state[s] = "RUNNING" -> "READY"
                           [] OTHER -> CleanState[s]]
          /\ current_process' = n
          /\ Dispatched(n)
          /\ Switch(current_process, n, [cpu EXCEPT !.irq = irq])
    BY <1>9 DEF TickSwitch
  <2>2. n \in Slots /\ state[n] = "READY"
          /\ \A t \in Slots : state[t] = "READY" => Distance(n) <= Distance(t)
    BY <2>1 DEF NextReady, Ready
  <2>3. \A s \in Slots : state'[s] = "READY" =>
          s # n /\ (state[s] = "READY" \/ s = current_process)
    BY <1>c, <2>1, <2>2
  <2>4. \A s \in Slots : state'[s] = "READY" => waited'[s] + Distance(s)' < MAX_PROCESSES
    BY <2>1, <2>2, <2>3, DispatchFair
  <2>5. \A s \in Slots : state'[s] = "RUNNING" => s = n
    BY <1>0, <2>1 DEF SchedInv, OneRunningAlways
  <2>6. waited'[n] = 0
    BY <2>1, <2>2 DEF Dispatched
  <2>7. cpu'.pc \in {"run", "halt", "wild", "sched"}
    BY <1>0, <2>1, <2>2 DEF Switch, SchedInv, SuspendedOutside, TypeOK, Conts
  <2> QED
    BY <1>0, <2>4, <2>5, <2>6, <2>7 DEF Overtaken, StillFirst
<1>10. CASE TimerIRQ
  BY <1>7, <1>8, <1>9, <1>10 DEF TimerIRQ
<1>11. CASE SysYield
  BY <1>7, <1>8, <1>9, <1>11 DEF SysYield
<1> QED
  BY <1>1, <1>2, <1>3, <1>4, <1>5, <1>6, <1>10, <1>11 DEF Next, ScheduleSteps

\* Until a tick takes the CPU away inside process_create or schedule, no READY
\* process sees MAX_PROCESSES other dispatches go by, for any number of slots,
\* whoever calls schedule and wherever the timer interrupts (schedule).
THEOREM NobodyStarves == Spec => []BoundedOvertaking
<1>1. Init => (~raced => FairInv)
  BY SchedInit DEF Init, FairInv, Overtaken, StillFirst, Flow
<1>2. (~raced => FairInv) /\ [Next]_vars => (~raced => FairInv)'
  BY FairStep, RacedStays
<1>3. (~raced => FairInv) => BoundedOvertaking
  <2> SUFFICES ASSUME FairInv, NEW s \in Slots, state[s] = "READY"
               PROVE  waited[s] < MAX_PROCESSES
    BY DEF BoundedOvertaking
  <2>1. Distance(s) \in 0 .. MAX_PROCESSES - 1 /\ waited[s] \in 0 .. MAX_PROCESSES
    BY DistanceType DEF FairInv, SchedInv, TypeOK
  <2> QED
    BY <2>1, ProcessAssumption DEF FairInv, Overtaken
<1> QED
  BY <1>1, <1>2, <1>3, PTL DEF Spec
-----------------------------------------------------------------------------
(* The kernel as it is wired *)

\* The boot thread is the only flow that ever runs, inside or outside
\* process_create: schedule is never reached with a process to switch from.
BootOnly ==
  /\ current_process = NULL
  /\ cpu.owner = NULL
  /\ cpu.pc \in {"run", "claim", "stack"}
  /\ cpu.pc = "claim" => state[cpu.next] = "UNUSED"
  /\ ~raced

WiredInv == TypeOK /\ PidsApart /\ Named /\ BootOnly

\* Every step of the wired kernel keeps the invariant.
LEMMA WiredStep ==
  ASSUME WiredInv, [WNext]_wvars
  PROVE  WiredInv'
<1> USE DEF WiredInv
<1>0. cpu.next \in Slots /\ NULL \notin Slots /\ next_pid \in Nat \ {0}
  BY ProcessAssumption DEF TypeOK, Conts, NULL, Slots
<1>1. CASE SpawnCreate
  <2>1. [Next]_vars /\ CreateFind
    BY <1>1 DEF SpawnCreate, Next
  <2>2. PICK s \in Slots : state[s] = "UNUSED" /\ cpu' = [cpu EXCEPT !.pc = "claim", !.next = s]
    BY <2>1 DEF CreateFind, find_free_slot, FreeSlots
  <2>3. cpu'.pc = "claim" /\ cpu'.next = s /\ cpu'.owner = cpu.owner
    BY <2>2 DEF TypeOK, Conts
  <2>4. Named' /\ BootOnly'
    BY <2>1, <2>2, <2>3 DEF CreateFind, table, history, Named, BootOnly
  <2> QED
    BY <2>1, <2>4, TypeStep, PidStep
<1>2. CASE SpawnClaim
  <2>1. [Next]_vars /\ CreateClaim
    BY <1>2 DEF SpawnClaim, Next
  <2>2. cpu'.pc = "stack" /\ cpu'.owner = cpu.owner
    BY <1>0, <2>1 DEF CreateClaim, Goto, BootOnly, TypeOK, Conts
  <2>3. Named'
    BY <1>0, <2>1 DEF CreateClaim, Named, TypeOK
  <2>4. BootOnly'
    BY <2>1, <2>2 DEF CreateClaim, BootOnly
  <2> QED
    BY <2>1, <2>3, <2>4, TypeStep, PidStep
<1>3. CASE SpawnStack
  <2>1. [Next]_vars /\ CreateStack
    BY <1>3 DEF SpawnStack, Next
  <2>2. cpu'.pc = "run" /\ cpu'.owner = cpu.owner
    BY <2>1 DEF CreateStack, Goto, TypeOK, Conts
  <2>3. Named' /\ BootOnly'
    BY <2>1, <2>2 DEF CreateStack, Named, BootOnly, history
  <2> QED
    BY <2>1, <2>3, TypeStep, PidStep
<1>4. CASE SpawnEnable
  BY <1>4 DEF SpawnEnable, table, history, TypeOK, PidsApart, Named, BootOnly
<1>5. ASSUME NEW p \in 0 .. MaxPid, cmd_kill(p)
      PROVE  WiredInv'
  <2>1. PICK s \in Slots :
          /\ pid[s] = p /\ state[s] # "UNUSED"
          /\ state' = [state EXCEPT ![s] = "ZOMBIE"]
          /\ cpu' = IF s = current_process
                    THEN [cpu EXCEPT !.pc = "sched", !.ret = "run"] ELSE cpu
          /\ UNCHANGED <<pid, time_slice, stack_ptr, next_pid, current_process,
                         scheduler_enabled, inService, frame, history>>
          /\ cpu.pc = "run"
    BY <1>5 DEF cmd_kill, process_kill, find_process, HasPid, At
  <2>2. cpu' = cpu
    BY <1>0, <2>1 DEF BootOnly
  <2>3. TypeOK'
    BY <2>1, <2>2 DEF TypeOK, States, history
  <2>4. PidsApart' /\ Named' /\ BootOnly'
    BY <2>1, <2>2 DEF PidsApart, Named, BootOnly, history, TypeOK
  <2> QED
    BY <2>3, <2>4
<1>6. CASE Tick
  <2>1. [Next]_vars /\ TimerIRQ
    BY <1>6 DEF Tick, Next
  <2>2. TickOnly
    BY <2>1 DEF TimerIRQ, TickStay, TickSwitch, SliceUsed, BootOnly
  <2>3. Named' /\ BootOnly'
    BY <2>2 DEF TickOnly, Named, BootOnly, history
  <2> QED
    BY <2>1, <2>3, TypeStep, PidStep
<1>7. CASE UNCHANGED wvars
  BY <1>7 DEF wvars, vars, table, history, TypeOK, PidsApart, Named, BootOnly
<1> QED
  BY <1>1, <1>2, <1>3, <1>4, <1>5, <1>6, <1>7 DEF WNext

\* In the kernel as the shell and the timer use it no condition is needed: the
\* timer never takes the CPU away inside process.c, because current_process
\* stays null, so every pid names one process and every process has one,
\* wherever the timer interrupts cmd_spawn and cmd_kill (shell.c, timer.c).
THEOREM WiredPids ==
  WSpec => [](~raced /\ PidsDistinct /\ PidsNameProcesses)
<1>1. WInit => WiredInv
  <2>1. Init => PidsApart /\ Named /\ BootOnly
    BY DEF Init, PidsApart, Named, BootOnly, Flow
  <2> QED
    BY <2>1, TypeInit DEF WInit, WiredInv
<1>2. WiredInv /\ [WNext]_wvars => WiredInv'
  BY WiredStep
<1>3. WiredInv => ~raced /\ PidsDistinct /\ PidsNameProcesses
  BY DEF WiredInv, BootOnly, PidsApart, Named, PidsDistinct, PidsNameProcesses
<1> QED
  BY <1>1, <1>2, <1>3, PTL DEF WSpec
=============================================================================
