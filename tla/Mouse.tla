-------------------------------- MODULE Mouse --------------------------------
(***************************************************************************)
(* The PS/2 mouse driver of kernel/mouse.c and the controller it shares    *)
(* with the keyboard.  The controller and the two devices are external:    *)
(* the controller holds one byte for the processor, raises IRQ1 or IRQ12   *)
(* for it, and takes the next one when that has been read, by whomever.    *)
(* mouse_init asks for three answers and polls for them with interrupts    *)
(* on, so the handlers of both interrupts compete with it for each byte.   *)
(*                                                                         *)
(* A byte is a number below 256.  pc is where the one thread is; the steps *)
(* of a caller of mouse_init and mouse_poll are in Gui.  dx, dy and all    *)
(* buttons but the left are left out of the polled state: no caller uses   *)
(* them.                                                                   *)
(***************************************************************************)
EXTENDS Integers, Sequences

CONSTANTS Width, Height,  \* of the screen: arguments of mouse_set_bounds
          Moves,          \* bytes the mouse sends for a motion
          Leftovers       \* bound: answers no one has read, at a new mouse_init

ASSUME MouseAssumption ==
  /\ Width \in Nat \ {0} /\ Height \in Nat \ {0} /\ Moves \subseteq 0 .. 255
  /\ Leftovers \in Nat

VARIABLES
  obf,            \* the controller's output buffer
  answers,        \* answers the controller and the mouse still owe
  reporting,      \* whether the mouse reports motions,
  phase,          \* and which byte of its packet is next
  mouse_x, mouse_y, mouse_buttons, mouse_updated, packet,
  registered,     \* whether IRQ12 has its handler
  pc, tmp,        \* the thread, and the state it is copying
  torn,           \* history: the last packet was completed during a copy
  taken,          \* history: a handler has taken an answer, and
  apart           \* mouse_irq_handler holds part of a packet as the mouse is
                  \* reset, or has taken an answer for a byte of one; both
                  \* since the last mouse_init began

device == <<obf, answers, reporting, phase>>
state == <<mouse_x, mouse_y, mouse_buttons, mouse_updated>>
driver == <<state, packet, registered>>
history == <<torn, taken, apart>>
mouseVars == <<device, driver, pc, tmp, history>>

\* A mouse_state_t that holds nothing yet, or nothing that is still used.
NoState == [x |-> 0, y |-> 0, buttons |-> 0]

Empty == [kind |-> "none", val |-> 0, irq |-> FALSE]
Byte(k, v) == [kind |-> k, val |-> v, irq |-> TRUE]
\* Bit 5 of the status port: the byte comes from the mouse.
Aux == obf.kind \in {"move", "ack"}

InitSteps == {"i_ctl", "i_def", "i_ack1", "i_ack2", "i_reg"}
\* From packet_index = 0 to the mouse's answer that it has set its defaults.
Resetting == {"i_ctl", "i_def", "i_ack1"}
PollSteps == {"p_test", "p_x", "p_y", "p_buttons", "p_clear"}

MouseInit ==
  /\ obf = Empty /\ answers = <<>> /\ reporting = FALSE /\ phase = 0
  /\ mouse_x = 0 /\ mouse_y = 0 /\ mouse_buttons = 0 /\ mouse_updated = FALSE
  /\ packet = <<>> /\ registered = FALSE
  /\ tmp = NoState
  /\ torn = FALSE /\ taken = FALSE /\ apart = FALSE

-----------------------------------------------------------------------------
(* The controller and the devices *)

KeyPressed == /\ obf = Empty /\ obf' = Byte("key", 30)
              /\ UNCHANGED <<answers, reporting, phase, driver, pc, tmp, history>>

\* An answer: the controller's command byte, or the mouse's acknowledgement.
Answer == /\ obf = Empty /\ answers # <<>>
          /\ obf' = Byte(Head(answers), IF Head(answers) = "ack" THEN 250 ELSE 71)
          /\ answers' = Tail(answers)
          /\ UNCHANGED <<reporting, phase, driver, pc, tmp, history>>

\* The next byte of a packet: the buttons with bit 3 set, then dx, then dy.  The
\* mouse sends the acknowledgement it owes first.
MouseReports ==
  /\ obf = Empty /\ reporting /\ \A i \in 1 .. Len(answers) : answers[i] # "ack"
  /\ \E v \in IF phase = 0 THEN {8, 9} ELSE Moves : obf' = Byte("move", v)
  /\ phase' = (phase + 1) % 3
  /\ UNCHANGED <<answers, reporting, driver, pc, tmp, history>>

-----------------------------------------------------------------------------
(* Interrupts *)

\* keyboard_irq_handler reads the data port; what it makes of the byte is the
\* subject of Keyboard.
IRQ1 == /\ obf.irq /\ ~Aux
        /\ obf' = Empty /\ taken' = (taken \/ obf.kind # "key")
        /\ UNCHANGED <<answers, reporting, phase, driver, pc, tmp, torn, apart>>

\* isr_handler_c without a handler: the byte stays where it is.
IRQ12Unhandled ==
  /\ obf.irq /\ Aux /\ ~registered
  /\ obf' = [obf EXCEPT !.irq = FALSE]
  /\ UNCHANGED <<answers, reporting, phase, driver, pc, tmp, history>>

Int8(b) == IF b >= 128 THEN b - 256 ELSE b
Clamp(v, size) == IF v < 0 THEN 0 ELSE IF v >= size THEN size - 1 ELSE v

\* Mutant: only a pointer that has moved is reported to mouse_poll.
Decode_MotionOnly(p) ==
  /\ mouse_x' = Clamp(mouse_x + Int8(p[2]), Width)
  /\ mouse_y' = Clamp(mouse_y - Int8(p[3]), Height)
  /\ mouse_buttons' = p[1] % 2
  /\ mouse_updated' = (mouse_updated \/ mouse_x' # mouse_x \/ mouse_y' # mouse_y)

\* A complete packet.
Decode(p) ==
  /\ mouse_x' = Clamp(mouse_x + Int8(p[2]), Width)
  /\ mouse_y' = Clamp(mouse_y - Int8(p[3]), Height)
  /\ mouse_buttons' = p[1] % 2
  /\ mouse_updated' = TRUE

\* mouse_irq_handler.  A byte without bit 3 does not start a packet.
mouse_irq_handler ==
  LET p == Append(packet, obf.val) IN
  /\ obf.irq /\ Aux /\ registered
  /\ obf' = Empty
  /\ taken' = (taken \/ obf.kind = "ack")
  /\ IF packet = <<>> /\ (obf.val \div 8) % 2 = 0
     THEN UNCHANGED <<packet, state, torn>>
     ELSE IF Len(p) < 3 THEN packet' = p /\ UNCHANGED <<state, torn>>
     ELSE /\ packet' = <<>> /\ Decode(p)
          /\ torn' = (pc \in {"p_y", "p_buttons", "p_clear"})
  /\ apart' = IF pc \in Resetting THEN packet' # <<>> ELSE apart \/ obf.kind = "ack"
  /\ UNCHANGED <<answers, reporting, phase, registered, pc, tmp>>

-----------------------------------------------------------------------------
(* mouse_set_bounds and mouse_init *)

\* Mutant: a packet that was begun is kept.
NewPacket_Kept == packet

\* packet_index = 0.
NewPacket == <<>>

\* From the start to the request for the command byte.  The bounds are set just
\* before, always to the same screen; mouse_init puts the cursor in its middle.
InitBegin ==
  /\ packet' = NewPacket
  /\ mouse_x' = Width \div 2 /\ mouse_y' = Height \div 2
  /\ mouse_buttons' = 0 /\ mouse_updated' = FALSE
  /\ answers' = Append(answers, "ctl") /\ pc' = "i_ctl"
  /\ taken' = FALSE /\ apart' = FALSE
  /\ UNCHANGED <<obf, reporting, phase, registered, tmp, torn>>

\* ps2_wait_read, and the byte: whatever it is.
ReadByte == obf # Empty /\ obf' = Empty

\* The command byte is changed and written back.
InitCommand ==
  /\ pc = "i_ctl" /\ ReadByte /\ pc' = "i_def"
  /\ UNCHANGED <<answers, reporting, phase, driver, tmp, history>>

\* The mouse is told to set its defaults, which ends its packet and its reports.
InitDefaults ==
  /\ pc = "i_def" /\ pc' = "i_ack1"
  /\ reporting' = FALSE /\ phase' = 0 /\ answers' = Append(answers, "ack")
  /\ UNCHANGED <<obf, driver, tmp, history>>

InitEnable ==
  /\ pc = "i_ack1" /\ ReadByte /\ pc' = "i_ack2"
  /\ reporting' = TRUE /\ answers' = Append(answers, "ack")
  /\ UNCHANGED <<phase, driver, tmp, history>>

\* Mutant: one more answer is waited for.
InitAcked_Again ==
  /\ pc = "i_ack2" /\ ReadByte /\ pc' = "i_ack2"
  /\ UNCHANGED <<answers, reporting, phase, driver, tmp, history>>

InitAcked ==
  /\ pc = "i_ack2" /\ ReadByte /\ pc' = "i_reg"
  /\ UNCHANGED <<answers, reporting, phase, driver, tmp, history>>

-----------------------------------------------------------------------------
(* mouse_poll, split at every access to what the handler changes.  After it  *)
(* the thread is at "act".                                                   *)

PollTest == /\ pc = "p_test" /\ pc' = IF mouse_updated THEN "p_x" ELSE "act"
            /\ UNCHANGED <<device, driver, tmp, history>>
PollX == /\ pc = "p_x" /\ tmp' = [tmp EXCEPT !.x = mouse_x] /\ pc' = "p_y"
         /\ torn' = FALSE /\ UNCHANGED <<device, driver, taken, apart>>
PollY == /\ pc = "p_y" /\ tmp' = [tmp EXCEPT !.y = mouse_y] /\ pc' = "p_buttons"
         /\ UNCHANGED <<device, driver, history>>
PollButtons ==
  /\ pc = "p_buttons" /\ tmp' = [tmp EXCEPT !.buttons = mouse_buttons]
  /\ pc' = "p_clear" /\ UNCHANGED <<device, driver, history>>
PollClear ==
  /\ pc = "p_clear" /\ mouse_updated' = FALSE /\ tmp' = NoState /\ pc' = "act"
  /\ UNCHANGED <<device, mouse_x, mouse_y, mouse_buttons, packet, registered,
                 history>>
=============================================================================
