---------------------------- MODULE ProcessWired ----------------------------
(***************************************************************************)
(* The process table as the rest of the kernel uses it: only the shell     *)
(* (kernel/shell.c, on the boot thread) creates and kills processes, only  *)
(* the timer interrupt ticks, and nothing calls process_yield.             *)
(***************************************************************************)
EXTENDS Process

\* cmd_spawn: process_create, and scheduler_init once it has returned a pid.
VARIABLE shell     \* "prompt", or "spawned" between the two calls

wvars == <<vars, shell>>

WInit == Init /\ shell = "prompt"

SpawnCreate == shell = "prompt" /\ CreateFind /\ UNCHANGED shell
SpawnClaim == CreateClaim /\ UNCHANGED shell
SpawnStack == CreateStack /\ shell' = "spawned"
SpawnEnable ==
  /\ shell = "spawned"
  /\ At("run")
  /\ shell' = "prompt"
  /\ scheduler_enabled' = TRUE
  /\ UNCHANGED <<table, current_process, cpu, inService, frame, history>>

\* cmd_kill: any number may be typed; the ones that name no process print
\* "process not found".
cmd_kill(p) == shell = "prompt" /\ process_kill(p) /\ UNCHANGED shell

Tick == TimerIRQ /\ UNCHANGED shell

WNext ==
  \/ SpawnCreate \/ SpawnClaim \/ SpawnStack \/ SpawnEnable
  \/ \E p \in 0 .. MaxPid : cmd_kill(p)
  \/ Tick

\* The shell finishes a command it has begun, and the timer fires for ever.
WSpec ==
  /\ WInit /\ [][WNext]_wvars
  /\ WF_wvars(SpawnClaim) /\ WF_wvars(SpawnStack) /\ WF_wvars(SpawnEnable)
  /\ WF_wvars(Tick)

-----------------------------------------------------------------------------
\* "Implements cooperative and preemptive multitasking" (process.h), "Call
\* scheduler tick for preemptive scheduling" (timer.c): a spawned process
\* gets the CPU unless it is killed first.
SpawnedRuns ==
  \A s \in Slots : state[s] = "READY" ~> state[s] # "READY"

\* "Terminated, waiting cleanup" (process.h): a killed process leaves the
\* table, so that its slot can be used again.
ZombieIsCleanedUp ==
  \A s \in Slots : state[s] = "ZOMBIE" ~> state[s] = "UNUSED"
=============================================================================
