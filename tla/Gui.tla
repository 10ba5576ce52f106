--------------------------------- MODULE Gui ---------------------------------
(***************************************************************************)
(* gui_run of kernel/gui.c, which cmd_gui of kernel/shell.c calls, over    *)
(* Mouse.  The thread is halted until an interrupt (the timer's, if no     *)
(* other) wakes it, polls the mouse, moves the window, handles the keys    *)
(* there are, draws and sleeps.  The last four work on locals: one action. *)
(* Of the keys only an escape matters; the line that is typed, the log and *)
(* the drawing are left out.                                               *)
(***************************************************************************)
EXTENDS Mouse

CONSTANTS WinX, WinY, WinW, WinH,  \* where the window starts, and its size
          WIN_TITLE_H, GUI_BAR_H

ASSUME GuiAssumption ==
  /\ WinX \in Nat /\ WinY \in Nat /\ WinW \in Nat \ {0} /\ WinH \in Nat \ {0}
  /\ WIN_TITLE_H \in Nat /\ GUI_BAR_H \in Nat
  /\ WinX + WinW <= Width /\ WinY + WinH <= Height - GUI_BAR_H

VARIABLES win,           \* where main_win is
          dragging, off, \* whether it is dragged, and by which of its points
          ms,            \* the mouse as the thread knows it
          last_buttons

window == <<win, dragging, off>>
NoPoint == [x |-> 0, y |-> 0]  \* what off is when it is not used
guiVars == <<window, ms, last_buttons>>
vars == <<mouseVars, guiVars>>

Init ==
  /\ MouseInit /\ pc = "shell"
  /\ win = [x |-> WinX, y |-> WinY] /\ dragging = FALSE
  /\ off = NoPoint
  /\ ms = NoState /\ last_buttons = 0

-----------------------------------------------------------------------------

\* cmd_gui and gui_run up to the first byte mouse_init waits for.
GuiStart == /\ pc = "shell" /\ Len(answers) <= Leftovers
            /\ InitBegin /\ UNCHANGED guiVars

\* mouse_init installs the handler, gui_run its state.
GuiReady ==
  /\ pc = "i_reg" /\ registered' = TRUE /\ pc' = "halt"
  /\ win' = [x |-> WinX, y |-> WinY] /\ dragging' = FALSE
  /\ off' = NoPoint
  /\ ms' = [x |-> Width \div 2, y |-> Height \div 2, buttons |-> 0]
  /\ last_buttons' = 0
  /\ UNCHANGED <<device, state, packet, tmp, history>>

\* sti; hlt and the interrupt that ends it.
Wake == /\ pc = "halt" /\ pc' = "p_test"
        /\ UNCHANGED <<device, driver, tmp, history, guiVars>>

\* ms = tmp when mouse_poll returns 1.
Polled == PollClear /\ ms' = tmp /\ UNCHANGED <<window, last_buttons>>

Pressed == ms.buttons % 2 = 1 /\ last_buttons % 2 = 0

\* Mutant: the release of the button does not end a drag begun before.
Released_Never == FALSE

Released == ms.buttons % 2 = 0 /\ last_buttons % 2 = 1
OnTitle == /\ ms.x >= win.x /\ ms.x < win.x + WinW
           /\ ms.y >= win.y /\ ms.y < win.y + WIN_TITLE_H

\* Mutant: the far edge is not looked at.
Inside_NearEdge(v, size, limit) == IF v < 0 THEN 0 ELSE v

\* The corner of the window, kept on the screen.
Inside(v, size, limit) ==
  LET u == IF v < 0 THEN 0 ELSE v
  IN IF u + size > limit THEN limit - size ELSE u

Drag ==
  /\ dragging' = IF Pressed THEN dragging \/ OnTitle ELSE dragging /\ ~Released
  /\ off' = IF Pressed /\ OnTitle
            THEN [x |-> ms.x - win.x, y |-> ms.y - win.y]
            ELSE IF dragging' THEN off ELSE NoPoint
  /\ win' = IF dragging'
            THEN [x |-> Inside(ms.x - off'.x, WinW, Width),
                  y |-> Inside(ms.y - off'.y, WinH, Height - GUI_BAR_H)]
            ELSE win

\* The rest of a turn of the loop; after an escape gui_run returns.
Act(escape) ==
  /\ pc = "act"
  /\ Drag
  /\ last_buttons' = ms.buttons
  /\ pc' = IF escape THEN "shell" ELSE "halt"
  /\ UNCHANGED <<device, driver, tmp, history, ms>>

Devices == (KeyPressed \/ Answer \/ MouseReports) /\ UNCHANGED guiVars
Interrupts == (IRQ1 \/ IRQ12Unhandled \/ mouse_irq_handler) /\ UNCHANGED guiVars
Thread ==
  \/ (InitCommand \/ InitDefaults \/ InitEnable \/ InitAcked) /\ UNCHANGED guiVars
  \/ GuiReady \/ Wake
  \/ (PollTest \/ PollX \/ PollY \/ PollButtons) /\ UNCHANGED guiVars
  \/ Polled
  \/ \E escape \in BOOLEAN : Act(escape)

Next == GuiStart \/ Devices \/ Interrupts \/ Thread

Spec == Init /\ [][Next]_vars
\* The thread runs, interrupts are taken, and what has been asked is answered
\* even if keys keep coming.
FairSpec == /\ Spec /\ WF_vars(Thread) /\ WF_vars(Interrupts)
            /\ SF_vars(Answer /\ UNCHANGED guiVars)

-----------------------------------------------------------------------------
(* Properties *)

Running == pc \in PollSteps \cup {"halt", "act"}
OnGrid(p) == p.x \in 0 .. Width - 1 /\ p.y \in 0 .. Height - 1

\* The pointer the handler keeps, the one gui_run draws, be it put together
\* from two packets, and the whole window above the task bar stay on the
\* screen, however the mouse moves while the window is dragged.
OnScreen ==
  /\ mouse_x \in 0 .. Width - 1 /\ mouse_y \in 0 .. Height - 1
  /\ Running => OnGrid(ms)
  /\ win.x \in 0 .. Width - WinW /\ win.y \in 0 .. Height - GUI_BAR_H - WinH

InStep == phase = (Len(packet) + (IF obf.kind = "move" THEN 1 ELSE 0)) % 3

\* mouse_irq_handler starts its packets where the mouse starts them, after a
\* second gui_run in the middle of a packet too, and whatever bytes mouse_init has
\* polled away.  Two things bring them apart until the next mouse_init: the
\* handler takes an acknowledgement for a byte of a packet, or it holds part of a
\* packet, begun after packet_index = 0, when the mouse is reset.
PacketsInStep == pc \notin Resetting /\ ~apart => InStep

\* packet_index = 0 comes before the mouse is told to stop (mouse.c): a byte of
\* the packet it is sending may start one of the handler's, and it stays there,
\* though each byte went to its reader.
PacketsInStepAlways == pc \notin Resetting /\ ~taken => InStep

\* Between polls gui_run knows the mouse as the handler left it, or mouse_updated
\* says that there is news: clearing the flag last loses a packet only when it
\* was completed between the copies of mouse_poll.
PollIsFresh ==
  Running /\ pc # "p_clear" /\ ~mouse_updated /\ ~torn =>
    ms = [x |-> mouse_x, y |-> mouse_y, buttons |-> mouse_buttons]

\* A window is dragged only while the button was down in the last turn of the
\* loop, by a point of its title bar: no release is overlooked for good.
DragIsHeld ==
  dragging => /\ last_buttons % 2 = 1
              /\ off.x \in 0 .. WinW - 1 /\ off.y \in 0 .. WIN_TITLE_H - 1

\* mouse_init returns, whatever bytes of keys and packets its polling loops, which
\* have no limit, take for answers, unless an interrupt handler took an answer
\* away from it.
InitEnds == [](pc \in InitSteps => <>(pc \notin InitSteps \/ taken))

\* gui: launch GUI demo (shell.c).
GuiStarts == [](pc \in InitSteps => <>(pc \notin InitSteps))

\* What mouse_poll hands out is one state of the mouse.
PollIsFreshAlways ==
  Running /\ pc # "p_clear" /\ ~mouse_updated =>
    ms = [x |-> mouse_x, y |-> mouse_y, buttons |-> mouse_buttons]
=============================================================================
