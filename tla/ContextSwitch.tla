---------------------------- MODULE ContextSwitch ----------------------------
(***************************************************************************)
(* The stack frames that kernel/context.asm saves and restores, and the    *)
(* first frame that process_create (kernel/process.c) builds by hand.      *)
(*                                                                         *)
(* A frame is the sequence of words from the saved stack pointer upwards.  *)
(***************************************************************************)
EXTENDS Integers, Sequences

\* The general registers in the order context_switch pushes them.
PushOrder == <<"eax", "ecx", "edx", "ebx", "ebp", "esi", "edi">>

Registers == {PushOrder[i] : i \in DOMAIN PushOrder} \cup {"eflags"}

\* What lies on the stack after the eight pushes, lowest address first: the
\* last register pushed, ..., the first one, EFLAGS, and the return address
\* that the call left there.
Pushed(regs, eip) ==
  [i \in 1 .. Len(PushOrder) |-> regs[PushOrder[Len(PushOrder) + 1 - i]]]
     \o <<regs["eflags"], eip>>

\* pop edi ... pop eax; popfd; ret: registers are taken from the frame in the
\* reverse order of the pushes, and control continues at the next word.
PopOrder == <<"edi", "esi", "ebp", "ebx", "edx", "ecx", "eax", "eflags">>

Restored(frame) ==
  [r \in Registers |-> frame[CHOOSE i \in DOMAIN PopOrder : PopOrder[i] = r]]

ResumeEip(frame) == frame[Len(PopOrder) + 1]

\* The words process_create stores, from the address it leaves in stack_ptr.
CreatedFrame ==
  << "0", "0", "0", "0", "0", "0", "0", "0",    \* EDI .. EAX, ESP included
     "0x202", "process_wrapper", "fake return", "entry" >>

\* The frame that the comment of context.asm describes for a suspended
\* process, holding what process_create means to store in it.
DocumentedFrame ==
  << "0", "0", "0", "0", "0", "0", "0",
     "0x202", "process_wrapper", "fake return", "entry" >>

\* Whether the CPU reaches process_wrapper with its argument in place: cdecl
\* finds the return address at the stack pointer and the argument above it.
EntersWrapper(frame) ==
  /\ ResumeEip(frame) = "process_wrapper"
  /\ frame[Len(PopOrder) + 3] = "entry"
=============================================================================
