------------------------------ MODULE GuiProofs ------------------------------
(***************************************************************************)
(* For every size of screen and window and every motion of the mouse: the  *)
(* pointer and the window stay on the screen (OnScreen), and a window is   *)
(* dragged only while the button is held (DragIsHeld); the handler begins  *)
(* its packets where the mouse does (PacketsInStep); and gui_run misses no *)
(* packet but one completed during its copy (PollIsFresh).                 *)
(*                                                                         *)
(* OnScreen is not inductive: what gui_run draws was copied by mouse_poll  *)
(* field by field from what the handler had clamped.  GuiInv says which    *)
(* fields of the copy are already on the screen at each step of mouse_poll.*)
(* StepInv and FreshInv, for the other two, rest on GuiInv.                *)
(***************************************************************************)
EXTENDS Gui, SequenceTheorems, TLAPS

\* What the controller's buffer may hold.
Kinds == {"none", "key", "move", "ack", "ctl"}
Bytes == [kind : Kinds, val : Nat, irq : BOOLEAN]

\* A mouse_state_t whose buttons are bits.
States == [x : Int, y : Int, buttons : Nat]

\* Types of what the handler and the thread compute with.
GuiTypes ==
  /\ obf \in Bytes /\ answers \in Seq(Kinds)
  /\ packet \in Seq(Nat) /\ Len(packet) < 3
  /\ mouse_buttons \in Nat /\ last_buttons \in Nat
  /\ tmp \in States /\ ms \in States
  /\ win \in [x : Int, y : Int] /\ off \in [x : Int, y : Int]
  /\ dragging \in BOOLEAN

\* The part of the copy that mouse_poll has made.
CopyOnScreen ==
  /\ pc \in {"p_y", "p_buttons", "p_clear"} => tmp.x \in 0 .. Width - 1
  /\ pc \in {"p_buttons", "p_clear"} => tmp.y \in 0 .. Height - 1

GuiInv == GuiTypes /\ OnScreen /\ CopyOnScreen /\ DragIsHeld

-----------------------------------------------------------------------------
(* Arithmetic *)

\* The clamp of mouse_irq_handler yields a position of the screen.
LEMMA ClampOnScreen ==
  ASSUME NEW v \in Int, NEW size \in Nat \ {0}
  PROVE  Clamp(v, size) \in 0 .. size - 1
BY DEF Clamp

\* The clamps of gui_run keep a window that fits within its limit.
LEMMA InsideFits ==
  ASSUME NEW v \in Int, NEW size \in Nat, NEW limit \in Int, size <= limit
  PROVE  Inside(v, size, limit) \in 0 .. limit - size
BY DEF Inside

\* The cast to int8_t yields a number.
LEMMA Int8Number ==
  ASSUME NEW b \in Nat
  PROVE  Int8(b) \in Int
BY DEF Int8

-----------------------------------------------------------------------------
(* The actions *)

\* The initial state satisfies the invariant: the window starts above the bar.
LEMMA InitInv == Init => GuiInv
<1> SUFFICES ASSUME Init PROVE GuiInv
  OBVIOUS
<1>1. GuiTypes
  <2>1. obf \in Bytes
    BY DEF Init, MouseInit, Empty, Bytes, Kinds
  <2>2. tmp \in States /\ ms \in States
    BY DEF Init, MouseInit, NoState, States
  <2>3. answers \in Seq(Kinds) /\ packet \in Seq(Nat) /\ Len(packet) < 3
    BY DEF Init, MouseInit
  <2>4. win \in [x : Int, y : Int] /\ off \in [x : Int, y : Int]
    BY GuiAssumption DEF Init, NoPoint
  <2> QED
    BY <2>1, <2>2, <2>3, <2>4 DEF Init, MouseInit, GuiTypes
<1>2. OnScreen
  BY MouseAssumption, GuiAssumption
  DEF Init, MouseInit, OnScreen, Running, PollSteps
<1>3. CopyOnScreen /\ DragIsHeld
  BY DEF Init, CopyOnScreen, DragIsHeld
<1> QED
  BY <1>1, <1>2, <1>3 DEF GuiInv

\* The devices only fill the controller's buffer.
LEMMA DevicesInv == GuiInv /\ Devices => GuiInv'
<1> SUFFICES ASSUME GuiInv, Devices PROVE GuiInv'
  OBVIOUS
<1> USE DEF Devices, KeyPressed, Answer, MouseReports, driver, state, history,
            guiVars, window
<1>1. obf' \in Bytes
  <2>1. CASE KeyPressed
    BY <2>1 DEF Byte, Bytes, Kinds
  <2>2. CASE Answer
    <3>1. Head(answers) \in Kinds
      BY <2>2 DEF GuiInv, GuiTypes
    <3>2. PICK v \in {250, 71} : obf' = Byte(Head(answers), v)
      BY <2>2
    <3> QED
      BY <3>1, <3>2 DEF Byte, Bytes, Kinds
  <2>3. CASE MouseReports
    <3>1. PICK v \in Nat : obf' = Byte("move", v)
      BY <2>3, MouseAssumption
    <3> QED
      BY <3>1 DEF Byte, Bytes, Kinds
  <2> QED
    BY <2>1, <2>2, <2>3
<1>2. answers' \in Seq(Kinds)
  <2>1. answers' = answers \/ (answers # <<>> /\ answers' = Tail(answers))
    OBVIOUS
  <2>2. answers \in Seq(Kinds)
    BY DEF GuiInv, GuiTypes
  <2> QED
    BY <2>1, <2>2, HeadTailProperties
<1>3. UNCHANGED <<driver, pc, tmp, guiVars>>
  OBVIOUS
<1> QED
  BY <1>1, <1>2, <1>3
  DEF GuiInv, GuiTypes, OnScreen, CopyOnScreen, DragIsHeld, Running, OnGrid

\* A complete packet moves the pointer within the screen.
LEMMA DecodeInv ==
  ASSUME MouseAssumption, mouse_x \in Int, mouse_y \in Int,
         NEW p \in Seq(Nat), Len(p) = 3, Decode(p)
  PROVE  /\ mouse_x' \in 0 .. Width - 1 /\ mouse_y' \in 0 .. Height - 1
         /\ mouse_buttons' \in Nat
<1>1. p[1] \in Nat /\ p[2] \in Nat /\ p[3] \in Nat
  <2>1. \A i \in 1 .. Len(p) : p[i] \in Nat
    BY ElementOfSeq
  <2> QED
    BY <2>1
<1>2. Int8(p[2]) \in Int /\ Int8(p[3]) \in Int
  BY <1>1, Int8Number
<1>3. mouse_x + Int8(p[2]) \in Int /\ mouse_y - Int8(p[3]) \in Int
  BY <1>2
<1>4. mouse_x' \in 0 .. Width - 1 /\ mouse_y' \in 0 .. Height - 1
  BY <1>3, ClampOnScreen DEF Decode, MouseAssumption
<1>5. mouse_buttons' \in Nat
  BY <1>1 DEF Decode
<1> QED
  BY <1>4, <1>5

\* An interrupt changes what the handler keeps, never what the thread has copied.
LEMMA InterruptsInv == GuiInv /\ Interrupts => GuiInv'
<1> SUFFICES ASSUME GuiInv, Interrupts PROVE GuiInv'
  OBVIOUS
<1>1. UNCHANGED <<answers, pc, tmp, guiVars>>
  BY DEF Interrupts, IRQ1, IRQ12Unhandled, mouse_irq_handler
<1>2. obf' \in Bytes
  <2>1. obf' = Empty \/ obf' = [obf EXCEPT !.irq = FALSE]
    BY DEF Interrupts, IRQ1, IRQ12Unhandled, mouse_irq_handler
  <2>2. Empty \in Bytes
    BY DEF Empty, Bytes, Kinds
  <2>3. [obf EXCEPT !.irq = FALSE] \in Bytes
    BY DEF GuiInv, GuiTypes, Bytes
  <2> QED
    BY <2>1, <2>2, <2>3
<1>3. /\ packet' \in Seq(Nat) /\ Len(packet') < 3 /\ mouse_buttons' \in Nat
      /\ mouse_x' \in 0 .. Width - 1 /\ mouse_y' \in 0 .. Height - 1
  <2>1. CASE UNCHANGED <<packet, state>>
    BY <2>1 DEF GuiInv, GuiTypes, OnScreen, state
  <2>2. CASE mouse_irq_handler /\ ~UNCHANGED <<packet, state>>
    <3> DEFINE p == Append(packet, obf.val)
    <3>1. p \in Seq(Nat) /\ Len(p) <= 3
      <4>1. packet \in Seq(Nat) /\ Len(packet) < 3 /\ obf.val \in Nat
        BY DEF GuiInv, GuiTypes, Bytes
      <4> QED
        BY <4>1
    <3>2. CASE Len(p) < 3
      <4>1. packet' = p /\ UNCHANGED state
        BY <2>2, <3>2 DEF mouse_irq_handler
      <4> QED
        BY <4>1, <3>1, <3>2 DEF GuiInv, GuiTypes, OnScreen, state
    <3>3. CASE ~(Len(p) < 3)
      <4>1. packet' = <<>> /\ Decode(p)
        BY <2>2, <3>3 DEF mouse_irq_handler
      <4>2. Len(p) = 3
        BY <3>1, <3>3
      <4>3. mouse_x \in Int /\ mouse_y \in Int
        BY DEF GuiInv, OnScreen
      <4> HIDE DEF p
      <4> QED
        BY <4>1, <4>2, <4>3, <3>1, DecodeInv, MouseAssumption
    <3> QED
      BY <3>2, <3>3
  <2> QED
    BY <2>1, <2>2 DEF Interrupts, IRQ1, IRQ12Unhandled, driver
<1> QED
  BY <1>1, <1>2, <1>3 DEF GuiInv, GuiTypes, OnScreen, CopyOnScreen, DragIsHeld,
                         Running, OnGrid, guiVars, window

\* mouse_init begins in the middle of the screen.
LEMMA GuiStartInv == GuiInv /\ GuiStart => GuiInv'
<1> SUFFICES ASSUME GuiInv, GuiStart PROVE GuiInv'
  OBVIOUS
<1> USE DEF GuiStart, InitBegin, NewPacket, guiVars, window
<1>1. GuiTypes'
  <2>1. answers' \in Seq(Kinds) /\ packet' \in Seq(Nat) /\ Len(packet') < 3
    BY DEF GuiInv, GuiTypes, Kinds
  <2> QED
    BY <2>1 DEF GuiInv, GuiTypes
<1>2. mouse_x' \in 0 .. Width - 1 /\ mouse_y' \in 0 .. Height - 1
  BY MouseAssumption
<1>3. OnScreen' /\ CopyOnScreen' /\ DragIsHeld'
  BY <1>2 DEF GuiInv, OnScreen, CopyOnScreen, DragIsHeld, Running, PollSteps
<1> QED
  BY <1>1, <1>3 DEF GuiInv

\* The other steps of mouse_init read the controller's buffer.
LEMMA AnswersInv == GuiInv /\ (InitCommand \/ InitDefaults \/ InitEnable \/ InitAcked)
                           /\ UNCHANGED guiVars => GuiInv'
<1> SUFFICES ASSUME GuiInv, InitCommand \/ InitDefaults \/ InitEnable \/ InitAcked,
                    UNCHANGED guiVars
             PROVE  GuiInv'
  OBVIOUS
<1> USE DEF InitCommand, InitDefaults, InitEnable, InitAcked, driver, state, guiVars, window
<1>1. /\ UNCHANGED <<driver, tmp, guiVars>> /\ obf' \in {obf, Empty}
      /\ pc' \in {"i_def", "i_ack1", "i_ack2", "i_reg"}
  BY DEF ReadByte
<1>2. answers' \in Seq(Kinds)
  <2>1. answers' \in {answers, Append(answers, "ack")}
    OBVIOUS
  <2>2. answers \in Seq(Kinds) /\ "ack" \in Kinds
    BY DEF GuiInv, GuiTypes, Kinds
  <2>3. Append(answers, "ack") \in Seq(Kinds)
    BY <2>2, AppendProperties
  <2> QED
    BY <2>1, <2>2, <2>3, Zenon
<1>3. GuiTypes'
  <2>1. Empty \in Bytes
    BY DEF Empty, Bytes, Kinds
  <2> QED
    BY <1>1, <1>2, <2>1 DEF GuiInv, GuiTypes
<1>4. OnScreen' /\ CopyOnScreen' /\ DragIsHeld'
  BY <1>1 DEF GuiInv, OnScreen, CopyOnScreen, DragIsHeld, Running, PollSteps
<1> QED
  BY <1>3, <1>4 DEF GuiInv

\* gui_run starts with the window where it belongs and nothing dragged.
LEMMA GuiReadyInv == GuiInv /\ GuiReady => GuiInv'
<1> SUFFICES ASSUME GuiInv, GuiReady PROVE GuiInv'
  OBVIOUS
<1> USE DEF GuiReady, device, state
<1>1. /\ ms' \in States /\ OnGrid(ms')
  BY MouseAssumption DEF States, OnGrid
<1>2. /\ win' \in [x : Int, y : Int] /\ off' \in [x : Int, y : Int]
      /\ win.x' = WinX /\ win.y' = WinY
  BY GuiAssumption DEF NoPoint
<1>3. GuiTypes'
  BY <1>1, <1>2 DEF GuiInv, GuiTypes
<1>4. OnScreen'
  BY <1>1, <1>2, GuiAssumption, MouseAssumption DEF GuiInv, OnScreen, Running, OnGrid
<1>5. CopyOnScreen' /\ DragIsHeld'
  BY DEF CopyOnScreen, DragIsHeld
<1> QED
  BY <1>3, <1>4, <1>5 DEF GuiInv

\* A wake-up, and the steps of mouse_poll.
Polling ==
  \/ Wake
  \/ (PollTest \/ PollX \/ PollY \/ PollButtons) /\ UNCHANGED guiVars
  \/ Polled

\* mouse_poll copies fields that are on the screen.
LEMMA PollInv == GuiInv /\ Polling => GuiInv'
<1> USE DEF guiVars, window, device, driver, state, history
<1>1. ASSUME GuiInv, Wake PROVE GuiInv'
  BY <1>1 DEF Wake, GuiInv, GuiTypes, OnScreen, CopyOnScreen, DragIsHeld, Running,
              OnGrid, PollSteps
<1>2. ASSUME GuiInv, PollTest, UNCHANGED guiVars PROVE GuiInv'
  BY <1>2 DEF PollTest, GuiInv, GuiTypes, OnScreen, CopyOnScreen, DragIsHeld,
              Running, OnGrid, PollSteps
<1>3. ASSUME GuiInv, PollX, UNCHANGED guiVars PROVE GuiInv'
  <2>1. tmp' \in States /\ tmp.x' = mouse_x
    <3>1. tmp \in States /\ mouse_x \in Int /\ tmp' = [tmp EXCEPT !.x = mouse_x]
      BY <1>3 DEF PollX, GuiInv, GuiTypes, OnScreen
    <3> QED
      BY <3>1 DEF States
  <2> QED
    BY <1>3, <2>1 DEF PollX, GuiInv, GuiTypes, OnScreen, CopyOnScreen, DragIsHeld,
                      Running, OnGrid, PollSteps
<1>4. ASSUME GuiInv, PollY, UNCHANGED guiVars PROVE GuiInv'
  <2>1. tmp' \in States /\ tmp'.x = tmp.x /\ tmp'.y = mouse_y
    <3>1. tmp \in States /\ mouse_y \in Int /\ tmp' = [tmp EXCEPT !.y = mouse_y]
      BY <1>4 DEF PollY, GuiInv, GuiTypes, OnScreen
    <3> QED
      BY <3>1 DEF States
  <2> QED
    BY <1>4, <2>1 DEF PollY, GuiInv, GuiTypes, OnScreen, CopyOnScreen, DragIsHeld,
                      Running, OnGrid, PollSteps
<1>5. ASSUME GuiInv, PollButtons, UNCHANGED guiVars PROVE GuiInv'
  <2>1. tmp' \in States /\ tmp.x' = tmp.x /\ tmp.y' = tmp.y
    BY <1>5 DEF PollButtons, GuiInv, GuiTypes, States
  <2> QED
    BY <1>5, <2>1 DEF PollButtons, GuiInv, GuiTypes, OnScreen, CopyOnScreen,
                      DragIsHeld, Running, OnGrid, PollSteps
<1>6. ASSUME GuiInv, Polled PROVE GuiInv'
  <2>1. tmp' \in States /\ ms' = tmp
    BY <1>6 DEF Polled, PollClear, NoState, States
  <2> QED
    BY <1>6, <2>1 DEF Polled, PollClear, GuiInv, GuiTypes, OnScreen, CopyOnScreen,
                      DragIsHeld, Running, OnGrid, PollSteps
<1> QED
  BY <1>1, <1>2, <1>3, <1>4, <1>5, <1>6 DEF Polling

\* A turn of the loop of gui_run.
LEMMA ActInv == ASSUME NEW escape
                PROVE  GuiInv /\ Act(escape) => GuiInv'
<1> SUFFICES ASSUME GuiInv, Act(escape) PROVE GuiInv'
  OBVIOUS
<1>1. /\ UNCHANGED <<device, driver, tmp, ms>> /\ Drag
      /\ last_buttons' = ms.buttons /\ pc = "act" /\ pc' \in {"shell", "halt"}
  BY DEF Act
<1>2. /\ ms.x \in 0 .. Width - 1 /\ ms.y \in 0 .. Height - 1 /\ ms.buttons \in Nat
      /\ win.x \in Int /\ win.y \in Int /\ last_buttons \in Nat
      /\ off.x \in Int /\ off.y \in Int
  BY <1>1 DEF GuiInv, GuiTypes, OnScreen, Running, OnGrid, States
<1>3. dragging' \in BOOLEAN
  BY DEF Act, Drag, GuiInv, GuiTypes
<1>4. dragging' => /\ ms.buttons % 2 = 1
                   /\ (Pressed /\ OnTitle) \/ dragging
  <2>1. ms.buttons % 2 \in {0, 1} /\ last_buttons % 2 \in {0, 1}
    BY <1>2
  <2>2. dragging => last_buttons % 2 = 1
    BY DEF GuiInv, DragIsHeld
  <2> QED
    BY <1>1, <2>1, <2>2 DEF Drag, Pressed, Released
<1>5. off' \in [x : Int, y : Int]
  BY <1>1, <1>2 DEF Drag, NoPoint, GuiInv, GuiTypes
<1>6. dragging' => off.x' \in 0 .. WinW - 1 /\ off.y' \in 0 .. WIN_TITLE_H - 1
  <2>1. CASE Pressed /\ OnTitle
    BY <2>1, <1>1, <1>2, GuiAssumption DEF Drag, OnTitle
  <2>2. CASE ~(Pressed /\ OnTitle)
    BY <2>2, <1>1, <1>4 DEF Drag, GuiInv, DragIsHeld
  <2> QED
    BY <2>1, <2>2
<1>7. /\ win' \in [x : Int, y : Int] /\ win.x' \in 0 .. Width - WinW
      /\ win.y' \in 0 .. Height - GUI_BAR_H - WinH
  <2>1. CASE dragging'
    <3> DEFINE vx == ms.x - off'.x
               vy == ms.y - off'.y
               limit == Height - GUI_BAR_H
    <3>1. vx \in Int /\ vy \in Int
      BY <1>2, <1>5
    <3>2. win' = [x |-> Inside(vx, WinW, Width), y |-> Inside(vy, WinH, limit)]
      BY <2>1, <1>1 DEF Drag
    <3>3. limit \in Int /\ WinH <= limit /\ WinW <= Width /\ WinW \in Nat
          /\ WinH \in Nat /\ Width \in Int
      BY GuiAssumption, MouseAssumption
    <3> HIDE DEF vx, vy, limit
    <3>4. Inside(vx, WinW, Width) \in 0 .. Width - WinW
      BY <3>1, <3>3, InsideFits
    <3>5. Inside(vy, WinH, limit) \in 0 .. limit - WinH
      BY <3>1, <3>3, InsideFits
    <3> QED
      BY <3>2, <3>3, <3>4, <3>5 DEF limit
  <2>2. CASE ~dragging'
    BY <2>2, <1>1 DEF Drag, GuiInv, GuiTypes, OnScreen
  <2> QED
    BY <2>1, <2>2
<1>8. GuiTypes'
  BY <1>1, <1>2, <1>3, <1>5, <1>7 DEF GuiInv, GuiTypes, device, driver, state
<1>9. OnScreen' /\ CopyOnScreen' /\ DragIsHeld'
  BY <1>1, <1>2, <1>4, <1>6, <1>7
  DEF GuiInv, OnScreen, CopyOnScreen, DragIsHeld, Running, OnGrid, driver, state
<1> QED
  BY <1>8, <1>9 DEF GuiInv

-----------------------------------------------------------------------------
(* The theorems *)

\* The invariant is inductive, whatever the mouse and the keyboard send.
LEMMA NextInv == GuiInv /\ [Next]_vars => GuiInv'
<1> SUFFICES ASSUME GuiInv, [Next]_vars PROVE GuiInv'
  OBVIOUS
<1>1. CASE GuiStart
  BY <1>1, GuiStartInv
<1>2. CASE Devices
  BY <1>2, DevicesInv
<1>3. CASE Interrupts
  BY <1>3, InterruptsInv
<1>4. CASE Thread
  <2>1. CASE \E escape \in BOOLEAN : Act(escape)
    <3>1. PICK escape \in BOOLEAN : Act(escape)
      BY <2>1
    <3> QED
      BY <3>1, ActInv
  <2> QED
    <3>1. \/ (InitCommand \/ InitDefaults \/ InitEnable \/ InitAcked) /\ UNCHANGED guiVars
          \/ GuiReady
          \/ Polling
          \/ \E escape \in BOOLEAN : Act(escape)
      BY <1>4 DEF Thread, Polling
    <3> QED
      BY <3>1, <2>1, AnswersInv, GuiReadyInv, PollInv
<1>5. CASE UNCHANGED vars
  BY <1>5 DEF vars, mouseVars, guiVars, device, driver, state, window, GuiInv,
              GuiTypes, OnScreen, CopyOnScreen, DragIsHeld, Running, OnGrid
<1> QED
  BY <1>1, <1>2, <1>3, <1>4, <1>5 DEF Next

\* The pointer the interrupt handler keeps, the one gui_run draws and the window
\* are on the screen, for every size of either, whatever packets arrive between
\* any two accesses of mouse_poll.
THEOREM StaysOnScreen == Spec => []OnScreen
<1>1. GuiInv => OnScreen
  BY DEF GuiInv
<1> QED
  BY <1>1, InitInv, NextInv, PTL DEF Spec

\* A window is dragged by a point of its title bar, and only while the button was
\* down in the last turn of gui_run.
THEOREM DragAlwaysHeld == Spec => []DragIsHeld
<1>1. GuiInv => DragIsHeld
  BY DEF GuiInv
<1> QED
  BY <1>1, InitInv, NextInv, PTL DEF Spec

-----------------------------------------------------------------------------
(* Packets in step *)

\* The first byte of a packet has bit 3 set when it reaches the handler.
FirstByte == obf.kind = "move" /\ phase = 1 => obf.val \in {8, 9}

\* While mouse_init resets the mouse the handler has no packet begun, and from the
\* reset to its acknowledgement the mouse sends none.
Restarting == /\ pc \in Resetting /\ ~apart => packet = <<>>
              /\ pc = "i_ack1" => phase = 0 /\ ~reporting

\* Whether the mouse has an acknowledgement to send.
AckOwed == \E i \in 1 .. Len(answers) : answers[i] = "ack"

\* The mouse sends no motion before the acknowledgement mouse_init waits for last.
AckFirst == pc = "i_ack2" /\ ~apart =>
              obf.kind = "ack" \/ (obf.kind # "move" /\ AckOwed)

StepInv == /\ phase \in 0 .. 2 /\ answers \in Seq({"ctl", "ack"})
           /\ FirstByte /\ Restarting /\ AckFirst /\ PacketsInStep

\* A step that leaves the packets alone, and the byte of a packet too, keeps them
\* in step.
LEMMA SameStep ==
  ASSUME StepInv, UNCHANGED <<phase, packet, pc, reporting, answers, apart>>,
         \/ obf'.kind = obf.kind /\ obf'.val = obf.val
         \/ obf'.kind \notin {"move", "ack"} /\ obf.kind \notin {"move", "ack"}
  PROVE  StepInv'
<1>1. FirstByte' /\ Restarting'
  BY DEF StepInv, FirstByte, Restarting
<1>2. AckFirst' /\ PacketsInStep'
  BY DEF StepInv, AckFirst, AckOwed, PacketsInStep, InStep
<1> QED
  BY <1>1, <1>2 DEF StepInv

\* An acknowledgement the mouse owes is still owed when another is asked for, and
\* when an answer that is none has been sent.
LEMMA StillOwed ==
  ASSUME NEW s \in Seq({"ctl", "ack"})
  PROVE  /\ \E i \in 1 .. Len(Append(s, "ack")) : Append(s, "ack")[i] = "ack"
         /\ s # <<>> /\ Head(s) # "ack" /\ (\E i \in 1 .. Len(s) : s[i] = "ack") =>
              \E i \in 1 .. Len(Tail(s)) : Tail(s)[i] = "ack"
<1>1. Len(s) \in Nat
  BY LenProperties
<1>2. \E i \in 1 .. Len(Append(s, "ack")) : Append(s, "ack")[i] = "ack"
  <2> DEFINE a == "ack"
             n == Append(s, a)
  <2>1. Len(n) = Len(s) + 1 /\ n[Len(s) + 1] = a
    <3>1. a \in {"ctl", "ack"}
      OBVIOUS
    <3> HIDE DEF a
    <3> QED
      BY <3>1, AppendProperties
  <2>2. Len(s) + 1 \in 1 .. Len(n)
    BY <1>1, <2>1
  <2> QED
    BY <2>1, <2>2
<1>3. ASSUME s # <<>>, Head(s) # "ack", NEW i \in 1 .. Len(s), s[i] = "ack"
      PROVE  \E j \in 1 .. Len(Tail(s)) : Tail(s)[j] = "ack"
  <2>1. i # 1
    BY <1>3
  <2>2. i - 1 \in 1 .. Len(Tail(s)) /\ Tail(s)[i - 1] = s[(i - 1) + 1]
    BY <1>1, <1>3, <2>1, HeadTailProperties
  <2>3. (i - 1) + 1 = i
    OBVIOUS
  <2> QED
    BY <1>3, <2>2, <2>3
<1> QED
  BY <1>2, <1>3

\* Every step keeps the handler's packets in step with the mouse's.
LEMMA StepStep == GuiInv /\ StepInv /\ [Next]_vars => StepInv'
<1> SUFFICES ASSUME GuiInv, StepInv, [Next]_vars PROVE StepInv'
  OBVIOUS
<1>0. obf \in Bytes /\ packet \in Seq(Nat) /\ Len(packet) \in 0 .. 2
  <2>1. obf \in Bytes /\ packet \in Seq(Nat)
    BY DEF GuiInv, GuiTypes
  <2>2. Len(packet) < 3
    BY DEF GuiInv, GuiTypes
  <2>3. Len(packet) \in Nat
    BY <2>1, LenProperties
  <2>4. \A n \in Nat : n < 3 => n \in 0 .. 2
    OBVIOUS
  <2>5. Len(packet) \in 0 .. 2
    BY <2>2, <2>3, <2>4, Zenon
  <2> QED
    BY <2>1, <2>5
<1>e. Empty.kind = "none"
  BY DEF Empty
<1>1. CASE GuiStart
  <2>1. /\ packet' = <<>> /\ pc' = "i_ctl" /\ answers' = Append(answers, "ctl")
        /\ UNCHANGED <<obf, phase>>
    BY <1>1 DEF GuiStart, InitBegin, NewPacket
  <2>2. answers' \in Seq({"ctl", "ack"})
    BY <2>1 DEF StepInv
  <2> QED
    BY <2>1, <2>2 DEF StepInv, FirstByte, Restarting, AckFirst, PacketsInStep, Resetting
<1>2. CASE Devices
  <2>1. CASE KeyPressed
    <3>1. obf'.kind = "key" /\ obf.kind = "none"
      BY <2>1, <1>e DEF KeyPressed, Byte
    <3>2. UNCHANGED <<phase, packet, pc, reporting, answers, apart>>
      BY <2>1 DEF KeyPressed, driver, history
    <3> QED
      BY <3>1, <3>2, SameStep
  <2>2. CASE Answer
    <3>1. PICK v : obf' = Byte(Head(answers), v)
      BY <2>2 DEF Answer
    <3>2. /\ Head(answers) \in {"ctl", "ack"}
          /\ answers' \in Seq({"ctl", "ack"}) /\ answers' = Tail(answers)
      BY <2>2, HeadTailProperties DEF Answer, StepInv
    <3>3. obf'.kind = Head(answers) /\ obf.kind = "none" /\ answers # <<>>
      BY <2>2, <3>1, <3>2, <1>e DEF Byte, Answer
    <3>4. UNCHANGED <<phase, packet, pc, reporting, apart>>
      BY <2>2 DEF Answer, driver, history
    <3>5. PacketsInStep'
      BY <3>2, <3>3, <3>4 DEF StepInv, PacketsInStep, InStep
    <3>6. AckFirst'
      <4> SUFFICES ASSUME pc = "i_ack2", ~apart, Head(answers) # "ack"
                   PROVE  AckOwed'
        BY <3>2, <3>3, <3>4 DEF AckFirst
      <4>1. AckOwed
        BY <3>3 DEF StepInv, AckFirst
      <4>2. answers \in Seq({"ctl", "ack"})
        BY DEF StepInv
      <4> QED
        BY <3>2, <3>3, <4>1, <4>2, StillOwed DEF AckOwed
    <3> QED
      BY <3>2, <3>3, <3>4, <3>5, <3>6 DEF StepInv, FirstByte, Restarting
  <2>3. CASE MouseReports
    <3>1. PICK v \in IF phase = 0 THEN {8, 9} ELSE Moves : obf' = Byte("move", v)
      BY <2>3 DEF MouseReports
    <3>2. obf'.kind = "move" /\ obf'.val = v
      BY <3>1 DEF Byte
    <3>3. phase' = (phase + 1) % 3 /\ obf.kind = "none" /\ phase \in 0 .. 2
      BY <2>3, <1>e DEF MouseReports, StepInv
    <3>4. UNCHANGED <<packet, pc, apart, reporting, answers>> /\ reporting /\ ~AckOwed
      BY <2>3 DEF MouseReports, driver, history, AckOwed
    <3>5. phase' \in 0 .. 2 /\ (phase' = 1 => phase = 0)
      BY <3>3
    <3>6. FirstByte'
      BY <3>1, <3>2, <3>5 DEF FirstByte
    <3>7. PacketsInStep'
      <4>1. ASSUME pc \notin Resetting, ~apart
            PROVE  phase' = (Len(packet) + 1) % 3
        <5>1. phase = (Len(packet) + 0) % 3
          BY <3>3, <4>1 DEF StepInv, PacketsInStep, InStep
        <5> QED
          BY <5>1, <3>3, <1>0
      <4> QED
        BY <4>1, <3>2, <3>4 DEF PacketsInStep, InStep
    <3>8. AckFirst'
      BY <3>3, <3>4 DEF StepInv, AckFirst
    <3> QED
      BY <3>2, <3>4, <3>5, <3>6, <3>7, <3>8 DEF StepInv, Restarting
  <2> QED
    BY <1>2, <2>1, <2>2, <2>3 DEF Devices
<1>3. CASE Interrupts
  <2>1. UNCHANGED <<phase, reporting, pc, answers>>
    BY <1>3 DEF Interrupts, IRQ1, IRQ12Unhandled, mouse_irq_handler
  <2>2. CASE IRQ1
    <3>1. obf'.kind = "none" /\ obf.kind \notin {"move", "ack"}
      BY <2>2, <1>e DEF IRQ1, Aux
    <3>2. UNCHANGED <<packet, apart>>
      BY <2>2 DEF IRQ1, driver
    <3> QED
      BY <2>1, <3>1, <3>2, SameStep
  <2>3. CASE IRQ12Unhandled
    <3>1. obf'.kind = obf.kind /\ obf'.val = obf.val
      BY <2>3, <1>0 DEF IRQ12Unhandled, Bytes
    <3>2. UNCHANGED <<packet, apart>>
      BY <2>3 DEF IRQ12Unhandled, driver, history
    <3> QED
      BY <2>1, <3>1, <3>2, SameStep
  <2>4. CASE mouse_irq_handler
    <3> DEFINE p == Append(packet, obf.val)
    <3>1. /\ obf' = Empty /\ obf.kind \in {"move", "ack"}
          /\ apart' = IF pc \in Resetting THEN packet' # <<>> ELSE apart \/ obf.kind = "ack"
      BY <2>4 DEF mouse_irq_handler, Aux
    <3>2. FirstByte' /\ Restarting'
      <4>1. pc \in Resetting /\ ~apart' => packet' = <<>>
        BY <3>1
      <4> QED
        BY <1>e, <2>1, <3>1, <4>1 DEF StepInv, FirstByte, Restarting
    <3>3. CASE apart' \/ pc \in Resetting
      <4>1. pc = "i_ack2" => pc \notin Resetting
        BY DEF Resetting
      <4> QED
        BY <2>1, <3>2, <3>3, <4>1 DEF StepInv, AckFirst, PacketsInStep
    <3>4. CASE ~apart' /\ pc \notin Resetting
      <4>1. ~apart /\ obf.kind = "move"
        BY <3>1, <3>4
      <4>2. phase = (Len(packet) + 1) % 3
        BY <3>4, <4>1 DEF StepInv, PacketsInStep, InStep
      <4>3. Len(p) = Len(packet) + 1
        BY <1>0 DEF Bytes
      <4>4. packet = <<>> => Len(packet) = 0
        BY <1>0
      <4>5. ~(packet = <<>> /\ (obf.val \div 8) % 2 = 0)
        <5> SUFFICES ASSUME packet = <<>> PROVE (obf.val \div 8) % 2 # 0
          OBVIOUS
        <5>1. obf.val \in {8, 9}
          BY <4>1, <4>2, <4>4 DEF StepInv, FirstByte
        <5> QED
          BY <5>1
      <4>6. Len(packet') = IF Len(packet) < 2 THEN Len(packet) + 1 ELSE 0
        BY <2>4, <4>3, <4>5, <1>0 DEF mouse_irq_handler
      <4>7. phase = (Len(packet') + 0) % 3
        <5>1. CASE Len(packet) = 0
          BY <4>2, <4>6, <5>1
        <5>2. CASE Len(packet) = 1
          BY <4>2, <4>6, <5>2
        <5>3. CASE Len(packet) = 2
          BY <4>2, <4>6, <5>3
        <5> QED
          BY <1>0, <5>1, <5>2, <5>3
      <4>8. PacketsInStep'
        BY <1>e, <2>1, <3>1, <4>7 DEF PacketsInStep, InStep
      <4>9. AckFirst'
        BY <2>1, <3>4, <4>1 DEF StepInv, AckFirst
      <4> QED
        BY <2>1, <3>2, <4>8, <4>9 DEF StepInv
    <3> QED
      BY <3>3, <3>4
  <2> QED
    BY <1>3, <2>2, <2>3, <2>4 DEF Interrupts
<1>4. CASE InitCommand
  <2>1. /\ obf'.kind = "none" /\ pc = "i_ctl" /\ pc' = "i_def"
        /\ UNCHANGED <<phase, packet, answers, apart>>
    BY <1>4, <1>e DEF InitCommand, ReadByte, driver, history
  <2> QED
    BY <2>1 DEF StepInv, FirstByte, Restarting, AckFirst, PacketsInStep, Resetting
<1>5. CASE InitDefaults
  <2>1. /\ pc = "i_def" /\ pc' = "i_ack1" /\ reporting' = FALSE /\ phase' = 0
        /\ UNCHANGED <<obf, packet, apart>>
    BY <1>5 DEF InitDefaults, driver, history
  <2>2. answers' \in Seq({"ctl", "ack"})
    BY <1>5 DEF InitDefaults, StepInv
  <2> QED
    BY <2>1, <2>2 DEF StepInv, FirstByte, Restarting, AckFirst, PacketsInStep, Resetting
<1>6. CASE InitEnable
  <2>1. /\ obf'.kind = "none" /\ pc = "i_ack1" /\ pc' = "i_ack2"
        /\ UNCHANGED <<phase, packet, apart>> /\ answers' = Append(answers, "ack")
    BY <1>6, <1>e DEF InitEnable, ReadByte, driver, history
  <2>2. answers' \in Seq({"ctl", "ack"}) /\ AckOwed'
    BY <2>1, StillOwed DEF AckOwed, StepInv
  <2>3. PacketsInStep'
    <3> SUFFICES ASSUME ~apart' PROVE phase' = (Len(packet') + 0) % 3
      BY <2>1 DEF PacketsInStep, InStep
    <3>1. packet = <<>> /\ phase = 0
      BY <2>1 DEF StepInv, Restarting, Resetting
    <3>2. Len(packet) = 0
      BY <3>1
    <3> QED
      BY <2>1, <3>1, <3>2
  <2> QED
    BY <2>1, <2>2, <2>3 DEF StepInv, FirstByte, Restarting, AckFirst, Resetting
<1>7. CASE InitAcked
  <2>1. /\ obf'.kind = "none" /\ pc = "i_ack2" /\ pc' = "i_reg"
        /\ UNCHANGED <<phase, packet, answers, apart>>
    BY <1>7, <1>e DEF InitAcked, ReadByte, driver, history
  <2>2. ~apart => obf.kind # "move"
    BY <2>1 DEF StepInv, AckFirst
  <2>3. PacketsInStep'
    BY <2>1, <2>2 DEF StepInv, PacketsInStep, InStep, Resetting
  <2> QED
    BY <2>1, <2>3 DEF StepInv, FirstByte, Restarting, AckFirst, Resetting
<1>8. CASE GuiReady \/ Polling \/ UNCHANGED vars
           \/ \E escape \in BOOLEAN : Act(escape)
  <2>1. /\ UNCHANGED <<obf, phase, reporting, packet, apart, answers>>
        /\ pc' = pc \/ (pc' \notin Resetting /\ pc' # "i_ack2" /\ pc \notin Resetting)
    BY <1>8 DEF GuiReady, Polling, Wake, PollTest, PollX, PollY, PollButtons, Polled,
                PollClear, Act, vars, mouseVars, device, driver, history, Resetting
  <2>2. Resetting = {"i_ctl", "i_def", "i_ack1"}
    BY DEF Resetting
  <2> QED
    BY <2>1, <2>2 DEF StepInv, FirstByte, Restarting, AckFirst, AckOwed, PacketsInStep,
                      InStep
<1> QED
  BY <1>1, <1>2, <1>3, <1>4, <1>5, <1>6, <1>7, <1>8 DEF Next, Thread, Polling

\* mouse_irq_handler begins its packets where the mouse begins them, for every
\* sequence of packets, keys, misread answers and starts of gui_run, unless it
\* has taken an acknowledgement or holds part of a packet as the mouse is reset.
THEOREM PacketsAlwaysInStep == Spec => []PacketsInStep
<1>1. Init => StepInv
  <2> SUFFICES ASSUME Init PROVE StepInv
    OBVIOUS
  <2>1. Len(packet) = 0
    BY DEF Init, MouseInit
  <2> QED
    BY <2>1 DEF Init, MouseInit, Empty, StepInv, FirstByte, Restarting, AckFirst,
                PacketsInStep, InStep, Resetting
<1>2. StepInv => PacketsInStep
  BY DEF StepInv
<1> QED
  BY <1>1, <1>2, InitInv, NextInv, StepStep, PTL DEF Spec

-----------------------------------------------------------------------------
(* What gui_run knows of the mouse *)

\* mouse_poll goes on only when there is news, and nobody but it takes it back.
NewsStays == pc \in {"p_x", "p_y", "p_buttons", "p_clear"} => mouse_updated

\* Until a packet is complete the mouse is where mouse_init put it, which is
\* where gui_run takes it to be at first.
StartsInMiddle ==
  pc \in InitSteps /\ ~mouse_updated =>
    mouse_x = Width \div 2 /\ mouse_y = Height \div 2 /\ mouse_buttons = 0

\* The part of the copy that mouse_poll has made, when no packet came between.
CopyInStep ==
  ~torn => /\ pc \in {"p_y", "p_buttons", "p_clear"} => tmp.x = mouse_x
           /\ pc \in {"p_buttons", "p_clear"} => tmp.y = mouse_y
           /\ pc = "p_clear" => tmp.buttons = mouse_buttons

FreshInv == NewsStays /\ StartsInMiddle /\ CopyInStep /\ PollIsFresh

\* A step that leaves the driver's state, the thread and its copy alone.
LEMMA SameNews ==
  ASSUME FreshInv, UNCHANGED <<mouse_x, mouse_y, mouse_buttons, mouse_updated,
                               pc, tmp, torn, ms>>
  PROVE  FreshInv'
BY DEF FreshInv, NewsStays, StartsInMiddle, CopyInStep, PollIsFresh, Running

\* Every step keeps gui_run's knowledge of the mouse fresh.
LEMMA FreshStep == GuiInv /\ FreshInv /\ [Next]_vars => FreshInv'
<1> SUFFICES ASSUME GuiInv, FreshInv, [Next]_vars PROVE FreshInv'
  OBVIOUS
<1>0. tmp \in States
  BY DEF GuiInv, GuiTypes
<1>1. CASE GuiStart
  <2>1. /\ pc' = "i_ctl" /\ mouse_x' = Width \div 2 /\ mouse_y' = Height \div 2
        /\ mouse_buttons' = 0
    BY <1>1 DEF GuiStart, InitBegin
  <2> QED
    BY <2>1 DEF FreshInv, NewsStays, StartsInMiddle, CopyInStep, PollIsFresh, Running,
                PollSteps
<1>2. CASE Devices
  <2>1. UNCHANGED <<mouse_x, mouse_y, mouse_buttons, mouse_updated, pc, tmp, torn, ms>>
    BY <1>2 DEF Devices, KeyPressed, Answer, MouseReports, driver, state, history, guiVars
  <2> QED
    BY <2>1, SameNews
<1>3. CASE Interrupts
  <2>1. UNCHANGED <<pc, tmp, ms>>
    BY <1>3 DEF Interrupts, IRQ1, IRQ12Unhandled, mouse_irq_handler, guiVars
  <2>2. \/ UNCHANGED <<mouse_x, mouse_y, mouse_buttons, mouse_updated, torn>>
        \/ mouse_updated' /\ torn' = (pc \in {"p_y", "p_buttons", "p_clear"})
    BY <1>3 DEF Interrupts, IRQ1, IRQ12Unhandled, mouse_irq_handler, Decode, driver, state,
            history
  <2>3. CASE mouse_updated' /\ torn' = (pc \in {"p_y", "p_buttons", "p_clear"})
    BY <2>1, <2>3 DEF FreshInv, NewsStays, StartsInMiddle, CopyInStep, PollIsFresh
  <2> QED
    BY <2>1, <2>2, <2>3, SameNews
<1>4. CASE (InitCommand \/ InitDefaults \/ InitEnable \/ InitAcked) /\ UNCHANGED guiVars
  <2>1. /\ UNCHANGED <<mouse_x, mouse_y, mouse_buttons, mouse_updated>>
        /\ pc \in InitSteps /\ pc' \in InitSteps
    BY <1>4 DEF InitCommand, InitDefaults, InitEnable, InitAcked, driver, state, InitSteps
  <2> QED
    BY <2>1 DEF FreshInv, NewsStays, StartsInMiddle, CopyInStep, PollIsFresh, Running,
                PollSteps, InitSteps
<1>5. CASE GuiReady
  <2>1. /\ UNCHANGED <<mouse_x, mouse_y, mouse_buttons, mouse_updated>>
        /\ pc = "i_reg" /\ pc' = "halt"
        /\ ms' = [x |-> Width \div 2, y |-> Height \div 2, buttons |-> 0]
    BY <1>5 DEF GuiReady, state
  <2> QED
    BY <2>1 DEF FreshInv, NewsStays, StartsInMiddle, CopyInStep, PollIsFresh, InitSteps
<1>6. CASE Wake
  <2>1. /\ UNCHANGED <<mouse_x, mouse_y, mouse_buttons, mouse_updated, torn, ms>>
        /\ pc = "halt" /\ pc' = "p_test"
    BY <1>6 DEF Wake, driver, state, history, guiVars
  <2> QED
    BY <2>1 DEF FreshInv, NewsStays, StartsInMiddle, CopyInStep, PollIsFresh, InitSteps,
                Running
<1>7. CASE PollTest /\ UNCHANGED guiVars
  <2>1. /\ UNCHANGED <<mouse_x, mouse_y, mouse_buttons, mouse_updated, torn, ms>>
        /\ pc = "p_test" /\ pc' = IF mouse_updated THEN "p_x" ELSE "act"
    BY <1>7 DEF PollTest, driver, state, history, guiVars
  <2> QED
    BY <2>1 DEF FreshInv, NewsStays, StartsInMiddle, CopyInStep, PollIsFresh, InitSteps,
                Running, PollSteps
<1>8. CASE PollX /\ UNCHANGED guiVars
  <2>1. /\ UNCHANGED <<mouse_x, mouse_y, mouse_buttons, mouse_updated>>
        /\ pc = "p_x" /\ pc' = "p_y" /\ tmp'.x = mouse_x
    BY <1>8, <1>0 DEF PollX, driver, state, States
  <2> QED
    BY <2>1 DEF FreshInv, NewsStays, StartsInMiddle, CopyInStep, PollIsFresh, InitSteps
<1>9. CASE PollY /\ UNCHANGED guiVars
  <2>1. /\ UNCHANGED <<mouse_x, mouse_y, mouse_buttons, mouse_updated, torn>>
        /\ pc = "p_y" /\ pc' = "p_buttons" /\ tmp'.x = tmp.x /\ tmp'.y = mouse_y
    BY <1>9, <1>0 DEF PollY, driver, state, States, history
  <2> QED
    BY <2>1 DEF FreshInv, NewsStays, StartsInMiddle, CopyInStep, PollIsFresh, InitSteps
<1>10. CASE PollButtons /\ UNCHANGED guiVars
  <2>1. /\ UNCHANGED <<mouse_x, mouse_y, mouse_buttons, mouse_updated, torn>>
        /\ pc = "p_buttons" /\ pc' = "p_clear" /\ tmp'.x = tmp.x /\ tmp'.y = tmp.y
        /\ tmp'.buttons = mouse_buttons
    BY <1>10, <1>0 DEF PollButtons, driver, state, States, history
  <2> QED
    BY <2>1 DEF FreshInv, NewsStays, StartsInMiddle, CopyInStep, PollIsFresh, InitSteps
<1>11. CASE Polled
  <2>1. /\ UNCHANGED <<mouse_x, mouse_y, mouse_buttons, torn>>
        /\ pc = "p_clear" /\ pc' = "act" /\ ms' = tmp
    BY <1>11 DEF Polled, PollClear, history
  <2>2. ~torn => ms' = [x |-> mouse_x, y |-> mouse_y, buttons |-> mouse_buttons]
    BY <1>0, <2>1 DEF FreshInv, CopyInStep, States
  <2> QED
    BY <2>1, <2>2 DEF FreshInv, NewsStays, StartsInMiddle, CopyInStep, PollIsFresh,
                      InitSteps
<1>12. CASE \E escape \in BOOLEAN : Act(escape)
  <2>1. /\ UNCHANGED <<mouse_x, mouse_y, mouse_buttons, mouse_updated, torn, ms>>
        /\ pc = "act" /\ pc' \in {"shell", "halt"}
    BY <1>12 DEF Act, driver, state, history
  <2> QED
    BY <2>1 DEF FreshInv, NewsStays, StartsInMiddle, CopyInStep, PollIsFresh, InitSteps,
                Running
<1>13. CASE UNCHANGED vars
  BY <1>13, SameNews DEF vars, mouseVars, driver, state, history, guiVars
<1> QED
  BY <1>1, <1>2, <1>3, <1>4, <1>5, <1>6, <1>7, <1>8, <1>9, <1>10, <1>11, <1>12, <1>13
  DEF Next, Thread

\* Between polls gui_run knows the mouse as the handler left it or the flag says
\* there is news, unless a packet was completed between the copies of mouse_poll.
THEOREM PollAlwaysFresh == Spec => []PollIsFresh
<1>1. Init => FreshInv
  BY DEF Init, MouseInit, FreshInv, NewsStays, StartsInMiddle, CopyInStep, PollIsFresh,
         Running, PollSteps, InitSteps
<1>2. FreshInv => PollIsFresh
  BY DEF FreshInv
<1> QED
  BY <1>1, <1>2, InitInv, NextInv, FreshStep, PTL DEF Spec
=============================================================================
