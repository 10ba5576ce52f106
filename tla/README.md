# OsU: TLA+ models, checks and proofs

OsU is a 32-bit x86 kernel in C: a boot loader, interrupt handling, a process
table with a scheduler, drivers for timer, keyboard, mouse and ATA disk, a FAT16
filesystem, and a shell with an editor, a script runner and two small language
interpreters. This directory holds TLA+ models of the parts in which state
changes in ways that are hard to test, TLC configurations that check them on
small instances, and TLAPS proofs, for every size, of nearly all the safety
properties those configurations check.

Source paths below are relative to the repository root (`kernel/...`).
`PROJECT.json` maps every definition to the lines it models.

## 1. Inventory

| part | state | operations | interacts with | what is hard |
|---|---|---|---|---|
| process table, scheduler (`process.c`, `context.asm`) | 16 slots with state, pid, time slice, stack; `current_process`, `next_pid`, `scheduler_enabled` | create, exit, kill, yield, schedule, tick | timer and `int 0x80` call it from interrupt gates, shell from the boot thread | no code disables interrupts; stacks are switched inside an interrupt |
| interrupt dispatch (`idt.c`, `isr.asm`) | handler table | dispatch, EOI | every driver | the EOI is sent after the handler, on whichever stack returns |
| timer (`timer.c`) | tick counter | tick, sleep | scheduler | wrap-around, ticks between test and `hlt` |
| keyboard (`keyboard.c`) | ring buffer, shift and prefix flags | interrupt, getchar, try_getchar, readline, flush | everything that reads input | the reader and the interrupt share the ring without a lock |
| disk (`disk.c`) | none in memory; the drive's | read, write sectors | filesystem | a slow drive, errors in the middle of a request |
| FAT16 (`fs.c`) behind `vfs.c` | FAT and root in memory, subdirectory buffer, read buffer, working directory | init, touch, rm, write, append, read, mkdir, rmdir, cd, list | disk; shell, editor, scripts | several writes per command, a full disk, errors, power cuts, stale buffers |
| editor (`editor.c`) | text, cursor, mode, dirty flag | keys, colon commands | filesystem, keyboard | boundaries of text and buffer, failed saves |
| script runner (`script.c`) | a pointer into the filesystem's read buffer | run, execute a line | filesystem | its commands replace the buffer it reads from |
| CosyPy (`cospy.c`) | variables, functions, flags for open blocks | statements, expressions, REPL, files | keyboard, filesystem | block structure in counters and flags |
| Forth (`lang.c`) | a stack | words | shell, keyboard | both limits of the stack, arithmetic at its edges |
| mouse (`mouse.c`) | packet, position, buttons, update flag | init, interrupt, poll | the PS/2 controller it shares with the keyboard, GUI | polled answers that interrupt handlers compete for; a poll torn by an interrupt |
| GUI (`gui.c`) | window, drag, typed line, log | start, turn of the loop, end | mouse, keyboard, console | drags over several polls, restarts in the middle of a packet |
| shell (`shell.c`) | history | commands | all of the above | which calls it makes, and in which order |
| system calls (`syscall.c`) | - | exit, write, read, getpid, sleep, yield | keyboard, timer, scheduler | they start with interrupts off |
| console (`vga.c`, `gfxcon.c`, over `vesa.c`) | screen, cursor, back buffer | characters, clear, scroll, set cursor | every program, keyboard_readline, GUI | two implementations of one screen, wrap and scroll, a back buffer over it |
| memory (`memory.c`) | one pointer | kmalloc | - | no caller |
| V86 monitor, FAT32 reader | - | - | - | no caller |
| boot code, `string.c`, `io.h` | hardware | set-up, helpers | - | straight-line |

What makes each part correct:

* **process table**: one process runs, it is the current one, and the CPU is on
  its stack; a slot is not reused while its process lives; pids are unique;
  nobody starves.
* **keyboard**: characters come out once, in order; they are lost only when the
  buffer is full; a waiting reader wakes up.
* **timer and system calls**: a sleep ends, and not early, across the wrap-around
  and from inside a system call; a read returns when keys are typed.
* **disk**: a request that returns 0 has moved every sector; a failed write has
  changed a prefix.
* **filesystem**: a cluster has one owner; a command is durable when it returns;
  the volume behaves like a tree of files; a fault damages only what the command
  was working on.
* **editor**: the cursor is in the text, the terminator in the buffer; "no
  changes" means that the file holds the text.
* **script runner**: the lines of the script are executed, in order, and it ends.
* **CosyPy**: a program does what its blocks and expressions say.
* **Forth**: a word takes its operands and leaves its results, and touches nothing
  below them.
* **shell**: the history is the lines that were acted upon.
* **mouse and GUI**: packets are decoded in step with the mouse, no packet is
  overlooked, a drag lasts as long as the button is held, and everything stays on
  the screen.
* **console**: every row shows what was printed there; what is echoed is what was
  read.

## 2. Modules

| module | models | specification for |
|---|---|---|
| `ContextSwitch` | frames of `context.asm` and of `process_create` | operators used by `Process` |
| `Process` | `process.c`, the timer interrupt, `sys_yield` | any threads that use the API |
| `ProcessWired` | `shell.c`'s spawn and kill on top of `Process` | the kernel as it is wired |
| `ProcessProofs` | theorems about `Process` and `ProcessWired` | |
| `CharQueue` | abstract bounded queue | what the keyboard promises |
| `Keyboard` | `keyboard.c` | implements `CharQueue` |
| `KeyboardProofs` | theorems about `Keyboard` and `Console` | |
| `Timer` | `timer.c` and the interrupt flag | used by `Syscall` |
| `Syscall` | `syscall.c` over `Timer`, a user program that makes any calls | |
| `SyscallProofs` | theorem about `Syscall` and `Timer` | |
| `Mouse` | `mouse.c`; controller and devices are external | used by `Gui` |
| `Gui` | `gui.c` over `Mouse` | |
| `GuiProofs` | theorems about `Gui` | |
| `Console` | `vga.c`, `gfxcon.c`, the buffers of `vesa.c`, `keyboard_readline`'s echo | refers to a roll of paper |
| `Disk` | `disk.c`; the drive is external | |
| `DiskProofs` | theorems about `Disk` | |
| `FileTree` | abstract tree of files with a working directory | what the file commands promise |
| `Fs`, `MCFs` | `fs.c` and `vfs.c` | implements `FileTree` |
| `FsProofs` | theorems about `Fs` | |
| `Editor`, `MCEditor` | `editor.c` | |
| `EditorProofs` | theorems about `Editor` | |
| `Script` | `script.c` over the read buffer of `fs.c` | used by `Shell` |
| `Forth` | `lang.c` | used by `Shell` |
| `Shell`, `MCShell` | `shell.c`, composed with `Script` and `Forth` on one thread | |
| `ShellProofs` | theorems about `Shell`, `Script` and `Forth` | |
| `CospyExpr` | tokenizer and expression parser of `cospy.c`, and expression trees | |
| `Cospy`, `MCCospy` | statements, REPL and file loop of `cospy.c`, and the reference | |

### State and actions

**Process.** `cpu` is the flow of control the processor executes: the slot whose
stack it is on (`NULL` for the boot thread), where in `process.c` it is, and the
locals it holds there. `stack_ptr[s]` is the suspended flow slot `s` points to.
`schedule` called by a thread is four actions (`SchedulePick`, `ScheduleMark`,
`ScheduleDispatch`, `ScheduleSwitch`) and `process_create` three, split where a
tick makes a difference. Called from an interrupt gate they run to their end
(`TickOnly`, `TickStay`, `TickSwitch`). `inService` is an IRQ0 without EOI: the
PIC delivers no further tick until the EOI, which only a flow that was suspended
inside the timer interrupt sends when it resumes.

Nothing in `process.c` disables interrupts, so IRQ0 finds the CPU anywhere
(`Interruptible`: everywhere but at an address that is no code). A tick returns to
the code it interrupted unless it ends the time slice and finds another process.
If it does so at a place where `process_create` or `schedule` has looked at the
table and not finished (`Critical`), the table is not safe any more (section 4);
the history variable `raced` records that this has happened. The properties of
the table speak of the states before, ticks inside `process.c` that return
included. `raced` also stands for such a tick between two stores that are one step
here (`next_pid++` and the stores after it), which is why they are not split any
further. A new
process starts from `frame`, chosen in `Init`: the frame `process_create` builds,
which leads the first dispatch to an address that is no code (`Process_frame.cfg`,
section 4), or the one `context.asm` documents, with which processes run at all.
`waited` counts the dispatches a READY slot has seen go by.

**Keyboard.** The interrupt handler is one action per scan code (`KeyIRQ`); the
thread's `dequeue_char`, `keyboard_flush` and the halt are split at every access
to the shared ring. The refinement mapping reads the queue off the ring: from the
tail, or one past it once a character has been read and not yet removed, or slot
0 once `keyboard_flush` has reset the head.

**Timer, Syscall.** `timer_sleep` is split into its read of the counter, its test
and its `hlt`; `hit` says that a tick has already hit the current stretch of code
(a tick is millions of instructions long). Arithmetic is modulo `Word`. `enabled`
is the processor's interrupt flag: the gate of `int 0x80` clears it, `sti; hlt`
sets it, the `iret` restores it; `late` is the one tick the PIC keeps meanwhile.
A user program makes any calls in any order; one call waits at a time.

**Mouse, Gui.** The controller has one byte for the processor (`obf`) and takes
the next when that has been read, by a handler or by the polling of `mouse_init`.
`mouse_init` is one action per answer it waits for and per command it sends the
mouse, `mouse_poll` one per access to the handler's variables; a turn of the loop
in `gui_run` after that works on locals and is one action. The mouse goes on
sending until it is told to stop (`InitDefaults`), and after 0xF4 before the
handler is there: such a byte stays in the controller (`IRQ12Unhandled`) until
something reads it. Three history variables name what can go wrong: `torn`, a
packet was completed between the copies of a poll; `taken`, a handler took an
answer `mouse_init` waits for; `apart`, the handler held part of a packet when the
mouse was reset, or took an acknowledgement for a byte of one. The last two
begin anew with each `mouse_init`. Nothing stops after any of them. The line that
is typed into the window and its log are not kept.

**Console.** Text mode is one line of cells per row, graphics mode `BandOf` lines
of pixels per row and `ExtraOf` lines under the last one. `putc` is the whole of
`vga_putc` or `gfxcon_putc`, wrap and scroll included. `paper` is the
specification: rows without end, of which the last `PaperRows` are kept. `buf` is
the buffer of `keyboard_readline`, `from` the place on the paper where it began.
`GuiPresent` copies a back buffer that may be smaller than the mode (`BackBuffers`),
from the top of the screen.

**Shell.** One action per line typed (`ReadLine`), script line and Forth word;
`mode` says which of the three loops the thread is in. What a script finds on the
volume is chosen when it is started. `usermode` and a division that raises an
exception stop the machine.

**Disk.** The drive works on one sector at a time; the driver's loop takes one
sector per `Transfer`. A command is given without a look at the status (`Issue`).
After the last sector of a write the drive is still busy with it, and does not hear
a command: the driver then polls for a request the drive does not have. `heard`
records whether it did; `before` and `given` are the disk and the caller's buffer
when the drive took its request.

**Fs.** An action is a whole command: nothing else touches the filesystem while
one runs. `Finish` takes the set of all the ways it may end: success, a full
disk, a disk error at any of its writes (a prefix of the FAT or of the root
written), or a power cut at any of these points. `Scope` switches on the parts of
the environment a configuration is about. Data is reduced to bytes in small
sectors; the FAT, deleted entries, the order of allocation, the order of the
flushes and which buffer is read again from the disk are kept. A cluster of text
that is read as a directory is not followed further.

`path` is the path of the directories `fs_chdir` has gone through, `current_path`
what it has written. It has `FS_MAX_PATH` bytes: a name for which there is no room
is not appended although the cluster moves, and `cut` is set until an absolute path
or a restart begins again at the root. The `/` that has taken the place of the
old zero then leads on to what stands behind in the buffer, left from an earlier
path: one of `Behind`. `cmd` is the command that was given; with it the refinement
of `FileTree` says that this command, and no other, made the change, and when it
may fail. An absolute `cd` that fails has moved to the root, in `FileTree` too.

**Editor, Script, Cospy.** One action per key or colon command, per script line,
per program line with the loop it may close. `Open` loads the file, or, if it
cannot be read, edits an empty text in its place; a failed write leaves the file,
empties it or has written it. `fault` records the last of these that counts. In
`Script` a text is a sequence of words and newlines, `read_cache` the shared
buffer. In `Cospy` a condition is a tree that is written down as symbols and read
back by the tokenizer and the parser; the reference runs the same lines by jumps
between matching lines.

## 3. Runs

| run | configuration | shows | states |
|---|---|---|---|
| `process` | `Process_run.cfg` | table, scheduler and stacks stay consistent up to a tick that takes the CPU away inside `process.c`; nobody is overtaken for ever | 373 473 |
| `keyboard` | `Keyboard_ring.cfg` | the ring is a bounded queue under every interleaving; pending keys are read | 462 232 |
| `fs_dirs` | `Fs_dirs.cfg` | allocation, durability, names, working directory, refinement of `FileTree` | 92 565 |
| `fs_faults` | `Fs_faults.cfg` | one fault puts one path at risk | 4 193 |
| `editor` | `Editor_edit.cfg` | cursor, lines, dirty flag, terminator | 405 732 |
| `syscall` | `Syscall_run.cfg` | sleeps end on time across the wrap-around, from the kernel and from system calls; reads return | 32 912 |
| `disk` | `Disk_io.cfg` | complete transfers, prefix writes, termination of what the drive hears | 21 504 |
| `shell` | `Shell_run.cfg` | history, scripts and Forth on the shell's thread | 168 395 |
| `cospy` | `Cospy_run.cfg` | blocks and expressions mean what they say | 175 000 |
| `gui` | `Gui_run.cfg` | pointer and window on the screen, packets in step, polls fresh, drags held, `mouse_init` ends, each up to the cases its property names | 944 965 |
| `console` | `Console_run.cfg` | the screen shows what was printed, the echo what was read | 107 177 |
| `fs_crosslink` | `Fs_crosslink.cfg` | counterexample: a full disk cross-links files | |

### Bounds and why they are enough

* `process`: 3 slots, 3 pids, a slice of 2 ticks. Two processes beside the
  current one make the order of the round robin visible; three pids in three
  slots let a slot be freed and reused; a slice of 2 has a tick that ends it and
  one that does not. `UpToTheRace` stops a behaviour behind the tick that sets
  `raced`: the properties claim nothing after it.
* `keyboard`: a ring of 3, a line of 3: empty, partly filled, full and wrapped
  rings at every position, and a line that fills up.
* `fs_dirs`: 3 clusters of 2 bytes, 2 root entries, directories with one free
  entry, files of up to 3 bytes: files of zero, one and two clusters with a last
  sector that is not full, directories inside directories, a full directory, a
  full root, reuse of deleted entries and of freed clusters. Writes have room
  here; a full disk is the subject of `fs_faults` and `fs_crosslink`. Names of two
  letters and `FS_MAX_PATH` = 9: the third of three nested directories finds no
  room, and a path that was longer before leaves one or two names behind it.
  `SYMMETRY SameNames` exchanges the names, which no command treats differently.
  `VIEW State` leaves out the last command and, once it is cut, the text of the
  path: no guard reads them (what fits behind a cut path does not change that it
  is cut), no invariant either, and TLC checks the refinement on every step it
  generates, whether or not the state it leads to is new.
* `fs_faults`: 2 clusters of 1 byte. States that are not in order are not
  followed: the property is about one fault. The state constraint does not hide
  the step that leads into such a state.
* `editor`: a buffer of 5 bytes, files of up to 3 and one of 5: full buffers,
  several lines, empty lines, the first and the last line.
* `syscall`: words of 16 values and every initial tick count, so every position of
  the wrap-around; delays of less than a tick, of several, and two whose product
  with the frequency overflows; a ring of 2 and reads of up to 2 characters.
  `MaxElapsed` only stops the history counter.
* `disk`: 3 sectors, requests of 1 and 2, two values: the first, a middle and the
  last sector of a request, and a request after one that is not yet done.
* `shell`: a history of 2 and four lines, so that it overflows and `!!` meets an
  empty, a partly filled and a full one; all script texts of `MCShell`, with lines
  up to the size of the line buffer; a Forth stack of 3 with words of 16 values.
* `gui`: a screen of 3 by 2 with a window of 2 by 1 and a task bar, moves of 0, 1
  and -1 (byte 255): every position of pointer and window, every edge, and the
  sign of the byte; the GUI is left and started again at any point of a packet.
  `Leftovers` bounds the answers nobody has read when it is started again.
* `console`: 3 columns, 2 rows, 2 lines of pixels per row with 1 left over, tab
  stops of 2, lines of up to 4 characters: wraps, scrolls inside a line that is
  read, tabs that do not end at the edge; back buffers of the whole screen and of
  half of it.
* `cospy`: up to three blocks, loops of up to four turns, bodies of up to five
  lines; every expression with two operators.

### Fairness

* The run `process` has none: that nobody starves is said by counting
  (`BoundedOvertaking`), not by assuming that processes yield.
* `WSpec` (`ProcessWired_runs.cfg`): the shell finishes a command it has begun, and the
  timer, programmed at boot to 100 Hz, goes on firing.
* `FairSpec` of `Keyboard`: the thread goes on executing when it is not halted, and
  the timer goes on firing.
* `FairSpec` of `Syscall`: the same, a tick that was kept is delivered once
  interrupts are on, and, for `ReadReturns`, somebody types while the machine
  accepts keys. The weak fairness of `Key` and `Tick` asks nothing while
  interrupts are off: a call that kept them off would be found.
* `FairSpec` of `Gui`: the thread runs, interrupts that are pending are taken, and
  the controller answers what it was asked (strongly fair: keys may keep its one
  byte busy in between, but a byte that is read makes room). Nothing is assumed of
  the mouse or the user.
* `FairSpec` of `Disk`: the drive answers each command, with data or an error,
  and the driver goes on polling. This is the hardware's promise: `ata_poll` has
  no limit of its own.

`CHECK_DEADLOCK FALSE` is set for `Process`: a flow at an address that is no code
is the end of the machine, and with all pids used and every process gone nothing
more happens. It is set for `Gui`, where a controller whose answer was taken by a
handler leaves `mouse_init` waiting for ever, for `Disk`, where the driver polls for
ever after a command the drive did not hear, and for `Shell`, where `usermode`
ends in `SYS_EXIT` and a Forth division can stop the machine.

## 4. Where the code does not do what its text says

One finding is a run of the project (`PROJECT.json`, `findings`). The other
disagreements give a counterexample when they are run by hand: with the listed
configuration, or, where it is a run's own, with the property in place of the
run's properties. The text that states the property is quoted.

| configuration (module) | property | text | what happens |
|---|---|---|---|
| `ProcessWired_runs.cfg` (`ProcessWired`) | `SpawnedRuns` | `process.h:3` "Implements cooperative and preemptive multitasking" | `scheduler_tick` returns while `current_process` is null, and the boot thread never calls `schedule`: a spawned process stays READY for ever |
| `Process_frame.cfg` (`Process`) | `NeverWild` | `process.c:74` "The stack needs to look like context_switch will restore from it" | `process_create` stores eight zeros where `context_switch` pops seven: the first dispatch jumps to 0x202, the EFLAGS word |
| `Process_run.cfg` without its CONSTRAINT (`Process`) | `OneRunningAlways` | `process.h:22` "Currently executing" | a tick that takes the CPU away inside `schedule` leaves two processes RUNNING |
| `Process_exit.cfg` (`Process`) | `ExitNeverReturns` | `process.c:109` "Should never reach here" | with nothing READY, `schedule` returns to `process_exit` |
| `Process_eoi.cfg` (`Process`) | `TimerKeepsTicking` | `timer.c:27` "Call scheduler tick for preemptive scheduling" | a tick that switches to a new process sends no EOI: it was the last one |
| `ProcessWired_cleanup.cfg` (`ProcessWired`) | `ZombieIsCleanedUp` | `process.h:24` "Terminated, waiting cleanup" | nothing calls `schedule`, so killed processes keep their slots |
| `Keyboard_halt.cfg` (`Keyboard`) | `NoHaltWithPendingKey` | `keyboard.c:196` "Enable interrupts and halt atomically to avoid race condition" | interrupts are on before `sti` already; the timer ends the `hlt` within a tick (`PendingKeyIsRead`) |
| `Syscall_run.cfg` (`Syscall`) | `SleepsLongEnough` | `timer.c:63` "Sleep for approximately ms milliseconds" | `ms * tick_frequency` wraps |
| `Syscall_run.cfg` (`Syscall`) | `TicksGoOn` | `syscall.c:73` "just halt this context" | `hlt` with interrupts off halts the machine |
| `Gui_run.cfg` (`Gui`) | `GuiStarts` | `shell.c:112` "launch GUI demo" | the keyboard's handler takes the controller's command byte, and `mouse_init` polls for it for ever |
| `Gui_run.cfg` (`Gui`) | `PollIsFreshAlways` | `mouse.c:141` `mouse_updated = 0` | a packet that completes between the copies of `mouse_poll` is half taken, and its flag is cleared |
| `Gui_run.cfg` (`Gui`) | `PacketsInStepAlways` | `mouse.c:57` `packet_index == 0 && (data & 0x08) == 0` (only a first byte starts a packet) | `packet_index = 0` (mouse.c:96) comes before the mouse is told to stop (mouse.c:121): a dx or dy byte with bit 3 that arrives in between starts a packet, and all later ones are decoded shifted |
| `Console_run.cfg` (`Console`) | `EchoesLineAlways` | `gfxcon.c:109` "Clear the character" | at column 0 a backspace leaves the character of the row above on the screen |
| `Shell_run.cfg` (`MCShell`) | `NoTrap` | `lang.c:121` "div by zero" | the lowest number divided by -1 raises the same exception, whose handler returns to the division |
| `Shell_run.cfg` (`MCShell`) | `ComplaintKeepsStack` | `lang.c:98` "stack underflow" | `+` with one operand complains and has taken it |
| `Disk_io.cfg` (`Disk`) | `WriteIsDone` | `README.md:16` "LBA28 disk I/O for persistent storage" | an error in the last sector of a write is not noticed |
| `Disk_io.cfg` (`Disk`) | `ReturnsAlways` | `disk.c:71` (the command is given without a look at BSY) | a command given to a drive that still commits the last sector of a write is not heard, and the driver polls for ever |
| `Fs_dirs.cfg` (`MCFs`) | `CwdPathAgreesAlways` | `fs.c:875` "Update path" | a name for which `current_path` has no room moves the cluster and not the path |
| `Fs_rm_dir.cfg` (`MCFs`) | `OneNodeAtATime` | `README.md:84` "rm FILE # Delete file" | `rm` on a directory drops everything in it |
| `Fs_append.cfg` (`MCFs`) | `NeverShorter` | `README.md:83` "Append text to file" | a file that cannot be read is replaced by the added text |
| `Fs_format.cfg` (`MCFs`) | `SurvivesRestart` | `README.md:16` "persistent storage" | a boot sector that cannot be read is formatted over |
| `Editor_edit.cfg` (`MCEditor`) | `CleanMeansSavedAlways` | `README.md:116` ":q - Quit (if no changes)" | a file that cannot be read is an empty text without changes; a failed `:w` on a full disk has emptied the file, and `:q` still leaves |
| `Editor_edit.cfg` (`MCEditor`) | `TerminatorFitsAlways` | `editor.c:148` `text[FS_MAX_FILE_SIZE]` | a file of exactly that size puts its terminator behind the buffer |
| `Editor_edit.cfg` (`MCEditor`) | `CtrlSSaves` | `README.md:119` "Ctrl+S - Quick save" | the keyboard driver never yields character 19 |
| `Shell_run.cfg` (`MCShell`) | `LinesInOrder` | `script.c:164` "Process line by line" | `cat` and `append` replace the text under the runner |
| `Shell_run.cfg` with `Scripts <- LongScripts` (`MCShell`) | `LinesInOrder` | the same | the rest of a long line is executed as a line |
| `Cospy_nested_if.cfg` (`MCCospy`) | `MeansItsBlocks` | `cospy.c:73` "Track nested ifs" | a false inner `if` disables the rest of the outer one |
| `Cospy_nested_if.cfg` with `Programs <- NestedLoops` (`MCCospy`) | `MeansItsBlocks` | `cospy.c:75` "Track nested whiles" | the inner loop's condition replaces the outer one's |
| `Cospy_nested_if.cfg` with `Programs <- ExitPrograms` (`MCCospy`) | `MeansItsBlocks` | `cospy.c:72` "Skip lines inside false if block" | `exit` is executed inside a false `if`, and ignored in a file |
| `Cospy_tight.cfg` (`MCCospy`) | `EvaluatesAsWritten` | - | `n-1` without blanks is read as `n` followed by the number -1 |

## 5. Proofs

All proofs are checked by tlapm with its SMT, Zenon and LS4 backends. Nothing is
assumed but the `ASSUME`s of the modules (sizes are positive numbers, names are
not the marks of an empty entry, texts are sequences), and what a theorem names as
its own hypothesis. Those are listed here with the reason; each is met by the
instance of the run that checks the same property.

| theorem | property | hypothesis and why |
|---|---|---|
| `ProcessProofs`: `TypeCorrect` | `TypeOK` | none |
| `PidsAlwaysDistinct`, `SchedulingSafety`, `CpuAlwaysCurrent`, `PidsAlwaysName`, `SlotNeverStolen`, `NobodyStarves` | `PidsDistinct`, `OneRunning`, `CpuIsCurrent`, `PidsNameProcesses`, `SlotNotStolen`, `BoundedOvertaking` | none; the properties speak of states before a tick took the CPU away inside `process.c` (section 4) |
| `WiredPids` | `~raced`, `PidsDistinct`, `PidsNameProcesses` | none; about `ProcessWired` |
| `KeyboardProofs`: `TypeCorrect`, `LineAlwaysFits`, `Refinement`, `DropsOnlyWhenFull` | `TypeOK`, `LineFits`, `ImplementsQueue`, `DroppedOnlyWhenFull` | none |
| `AlwaysShowsPaper` | `ShowsPaper` | none |
| `AlwaysEchoesLine` | `EchoesLine` | `LineMax - 1 <= (PaperRows - 1) * Cols`: the paper that is kept holds a whole line, so that its start can still be looked at. The screen alone is enough for every reader in the code: at most 191 characters on 24 rows of 80 |
| `GuiProofs`: `StaysOnScreen`, `DragAlwaysHeld`, `PacketsAlwaysInStep`, `PollAlwaysFresh` | `OnScreen`, `DragIsHeld`, `PacketsInStep`, `PollIsFresh` | none; the last two except their `apart` and `torn` cases (section 4) |
| `SyscallProofs`: `SleepsOnTime` | `OnTime` | `Wide`: a word holds more than 5 numbers, and the history is not cut off before a delay ends |
| `DiskProofs`: `ZeroAlwaysMeansDone`, `WriteAlwaysPrefix` | `ZeroMeansDone`, `WriteIsPrefix` | none: the drive may be busy when a command is given |
| `EditorProofs`: `CursorAlwaysInText`, `AlwaysOneLineAtATime` | `CursorInText`, `OneLineAtATime` | none |
| `TerminatorAlwaysFits`, `CleanAlwaysSaved` | `TerminatorFits`, `CleanMeansSaved` | none: files of the buffer's size, failed reads and failed writes are included, and the properties say what they leave |
| `FsProofs`: `NamesAlwaysUnique` | `NamesUnique` | no power cut, and no error on the write of a directory: one that is written in part can hold a name twice |
| `AlwaysDurable` | `Durable` | no fault, no full disk: after one, the buffers are ahead of the disk |
| `ClustersAlwaysOwnedOnce`, `CwdAlwaysAgrees` | `ClustersOwnedOnce`, `CwdPathAgrees` | the same, and `rm` and `write` are not used on a directory: a full disk cross-links files (`fs_crosslink`), and `rm` on a directory drops what is in it (section 4) |
| `VolumeImplementsTree` | `ImplementsTree` | the same, and the boot sector can be read: otherwise `fs_init` formats the volume (section 4) |
| `ShellProofs`: `HistoryAlwaysRecent`, `AlwaysAdvances`, `AlwaysDisciplined` | `HistoryIsRecent`, `Advances`, `StackDiscipline` | none |
| `AlwaysInOrder` | `UndisturbedInOrder` | `ShortLines`: lines are shorter than `script_run`'s buffer (section 4) |

**ProcessProofs.**
`TypeOK` is inductive; the proof has one step per action and lemmas for the parts
several actions share (`Flow`, `Switch`, cleanup, the three outcomes of a tick).
Distinct pids are inductive with the types, because the property also says that
pids in the table are smaller than `next_pid` (`PidsApart`).
`OneRunning` and `CpuIsCurrent` are not: while `schedule` is between its stores, the
table and the CPU disagree on purpose. `SchedInv` adds where a suspended flow can be
(`SuspendedOutside`: at none of the places of `Critical`, on its own slot's stack) and what
`schedule`'s locals mean at each of its steps (`OnCurrent`). A tick that returns
changes none of this, wherever it falls; one that takes the CPU away inside
`schedule` suspends a flow there, and sets `raced`. `SlotNotStolen` is an action
property that follows from the same invariant. For `BoundedOvertaking`, `Overtaken`
bounds what a READY slot has waited by its distance from the current one in the
order of the search, and `StillFirst` says that what `schedule` has picked is still
the nearest READY slot when it dispatches it. `WiredPids` needs only that
`current_process` stays null in `ProcessWired`: a tick there never switches.

**KeyboardProofs.**
For every ring size greater than 1 and every line length. The inductive invariant
adds to `TypeOK` that a reader that has passed its test has a character to take,
that every slot between tail and head holds a character, and where the indices
are while `keyboard_flush` is at work. `Refinement` shows that a stored key is
`Put`, the read of a character is `Get`, the first store of flush is `Clear`,
and every other step leaves the queue alone, by comparing the sequences slot by
slot (`IsAppend`, `IsTail`).

For `Console`, `ShowsPaper` is not inductive: scrolling copies the `ExtraOf` lines
under the last row into that row. `ScreenInv` adds that those lines are blank
(`Window`), that the cursor is on the screen, and that no line is read while the
GUI draws. A character is a cell drawn in every line of one row (`DrawKeeps`),
then perhaps a scroll (`ScrollKeeps`), each of which takes a window on the paper to
one on the new paper; the lines are found by quotients (`RowOfLine`, `LineOfRow`).
`EchoesLine` needs in addition that the start of the line is still on the paper
(`Echoed`); `CellPut` and `CellUp` say what writing and scrolling do to the cell
at a given place, and `GlyphEchoes` and `BackspaceEchoes` follow the line from
there.

**GuiProofs.**
For every screen, every window that fits above the task bar at the start, and
every byte the mouse sends. `OnScreen` is not inductive: the pointer `gui_run`
draws was copied field by field by `mouse_poll` while the handler went on.
`GuiInv` adds which fields of the copy are on the screen at each step of the
poll (`CopyOnScreen`), the types of what is added and clamped, and that a packet
in the making is shorter than three bytes. `DragIsHeld` needs that a press is seen
only after a turn without the button, which excludes a second press during a drag.
`StepInv` ties the handler's count of bytes to what the mouse has sent and the
controller holds, and says what `mouse_init` relies on: unless they are `apart`, the
handler has no packet begun while the mouse is reset (`Restarting`), and the mouse
sends its last acknowledgement before any motion (`AckFirst`); `FreshInv` says what
`mouse_updated` means between the copies of a poll.

**SyscallProofs.**
The loop of `timer_sleep` knows only `tick_count`. `SleepInv` bounds, at each of
its steps, how far the PIT can be ahead of what the loop has seen: by a tick given
before `start` was read and by one that the PIC keeps while interrupts are off.

**DiskProofs.**
`DiskInv` ties the loop variable of the driver to the sector the drive is at, and
says for each status of the drive how many sectors of a write are on the disk and
how many of a read are in the buffer. It does so for the request the drive is at;
while the driver polls for one that was not heard, the drive is past all sectors of
the old one and does not ask for data.

**EditorProofs.**
`line_start` and `line_end` look for the nearest newline. That there is a nearest
one is `LeastBelow`, which takes the place of induction: the segments `0 .. n` are
finite sets, and inclusion of finite sets is well-founded. The rest is arithmetic
on positions, key by key. `FitsInv` adds to `TerminatorFits` that
the file is no longer than the buffer, for the next load.

**FsProofs.**
`VolumeInv`: in memory and on the disk, every directory, reached or not, has
nothing in use after its end mark, has no name twice, and points to clusters only
(`Tidy`). The commands are proved once for both theorems (`Keeps`): each ends in an
outcome that leaves the volume in order, and one that reports no fault has its
buffers on the disk. That a write with enough room does so rests on
`FreedRoom`: the clusters a file gives back are free for its new text. `Follow` and
`Dirs` repeat a step a bounded number of times; `Iterates` and `StaysBelow`, both
from `LeastBelow`, say that these functions exist and where they stay.

The other three theorems are about the tree as a whole. `Dirs`, which finds the
directories level by level, does not say how a command changes it. `TreeInv` says
that there is a map from the cluster of each directory to its path (`Volume`) such
that no two paths are equal (`Mapped`), each directory but the root has one entry
that leads to it, and its `..` leads back (`Hung`), and the chains of the
used entries are apart, end, and together are just the clusters that are not free
(`Owned`); and that the current directory is on the map under the path `fs_chdir` has gone through.
`DirsMapped` shows that `Dirs` finds exactly the map. A command that succeeds
takes one of three steps: the entry of one file in the current directory changes
and its chain is replaced (`FileStep`: `touch`, `write`, `append`, `rm`), a
directory on a fresh cluster is added (`MkdirStep`), or an empty one goes
(`RmdirStep`). Each comes with a new map, so `TreeInv` is kept, and with what the
tree is afterwards. The refinement reads the abstract tree off the disk: an
outcome that succeeds is the step of `FileTree` of the same name, one that fails
has left the disk as it was, and its result is the one `FileTree` gives
in that case, which is where the map is needed again: a command looks a name up in
the current directory, `FileTree` a path in the tree (`Ends`, `Succeeds`, one lemma per
command). `PathInv`, that the two paths are one until `cut`, concerns `fs_chdir` and
restarts only and is proved apart from `TreeInv`.

**ShellProofs.**
`HistoryInv` relates `history` to the lines acted upon slot by slot. For scripts,
`PlaceInv` (the runner is in its text) gives `Advances`, whatever is in the buffer;
`OrderInv` adds that a script that reads no file is still in the buffer, and that
exactly the lines before `p` have been executed. `StackDiscipline` needs
the bounds of the stack, and that no word is left over from an earlier
`lang_repl`; each word is a lemma about two sequences (`BinaryAbove`,
`MoversAbove`, `OthersAbove`).

**Only model-checked.** Liveness (`PendingKeyIsRead`,
`Wakes`, `ReadReturns`, `InitEnds`, `Returns`): fairness and ENABLED are outside
the prover's fragment. `OnePathAtRisk` of `Fs`: it compares the disk before a
command with the disk a power cut or an error leaves at any of its writes, for
which the map of `TreeInv` no longer exists; the lemmas about the three steps say
nothing of a FAT or a directory that is written in part. `MeansItsBlocks`,
`EvaluatesAsWritten` and `ReadyForMore` of `Cospy`: the reference semantics is a
RECURSIVE operator on expression trees, which the provers cannot unfold, and a
module that uses one is closed to them.

## 6. Not modelled

* The V86 monitor (`v86.c`, `tss.c`): `v86_bios_call` has no caller, so that no
  state of the kernel is inside it; what it emulates is the processor's real mode.
* `fat32.c` and `kmalloc` of `memory.c` have no caller either.
* The boot code and the IDT and PIC set-up: straight-line hardware initialisation
  before interrupts are enabled. `string.c` and `io.h` are helpers.
* The drawing of shapes, the font, the colours, and the line and log of the GUI's
  window (`vesa.c`, `gui.c`): output that nothing reads back.
  What is kept of them is which buffer is written, by whom.
* An interrupt that stays pending when a poll has already read its byte, and whose
  handler then reads the same byte again (`mouse.c`, `keyboard.c`): what the data
  port yields then is the controller's business.
* The names and text conversions of `vfs.c` and the shell's argument parsing,
  beyond which names are valid.

## 7. Plan

Modelled first, because the rest of the kernel depends on it: process table and
interrupts, keyboard, timer, disk, filesystem; then the programs on top; then
mouse and GUI, system calls, console, shell and Forth. Next:

1. Composition of `Editor` and `Script` with the outcomes of `Fs` commands by
   INSTANCE instead of by a constant.
