------------------------------- MODULE Console -------------------------------
(***************************************************************************)
(* The text console: vga.c in text mode, gfxcon.c over the pixels of       *)
(* vesa.c in graphics mode, with keyboard_readline, which echoes to it,    *)
(* and the GUI, which draws over it.                                       *)
(*                                                                         *)
(* The screen is made of lines of cells.  A text row is one line in text   *)
(* mode; in graphics mode it is Band lines of pixels, and Extra lines (600 *)
(* is no multiple of 16) remain under the last row.  A cell holds a        *)
(* character, or its part of it; colours are left out.                     *)
(*                                                                         *)
(* paper is the specification: what was printed since the screen was last  *)
(* cleared, on as many rows as it takes; the last rows of it are kept.     *)
(***************************************************************************)
EXTENDS Integers, Sequences

CONSTANTS Cols, Rows,
          BandOf, ExtraOf,  \* lines of a row and lines left over in graphics mode
          TabStop,          \* 8 in the code
          Glyphs,           \* printable characters
          LineMax,          \* max_len of keyboard_readline
          BackBuffers,      \* sizes the back buffer may have, in cells of the mode
          PaperRows         \* bound: rows of paper that are remembered

Controls == {"newline", "return", "backspace", "tab", "control"}

ASSUME ConsoleAssumption ==
  /\ Cols \in Nat \ {0} /\ Rows \in Nat \ {0} /\ BandOf \in Nat \ {0}
  /\ ExtraOf \in 0 .. BandOf - 1 /\ TabStop \in Nat \ {0}
  /\ LineMax \in Nat \ {0} /\ BackBuffers \subseteq Nat /\ PaperRows \in Nat /\ PaperRows >= Rows
  /\ Glyphs \cap Controls = {}

VARIABLES gfx_active,
          screen,             \* lines from the top, each a sequence of cells
          cursor_x, cursor_y, \* cursor_col and cursor_row in gfxcon.c
          gui,                \* whether gui_run draws in the back buffer
          paper,              \* history: rows, see above
          reading, buf,       \* keyboard_readline, and its buffer
          from,               \* history: where on the paper it started,
          stuck               \* and whether a backspace found column 0

cursor == <<cursor_x, cursor_y>>
readVars == <<reading, buf, from, stuck>>
consoleVars == <<gfx_active, screen, cursor, gui, paper, readVars>>

Band == IF gfx_active THEN BandOf ELSE 1
Height == Rows * Band + (IF gfx_active THEN ExtraOf ELSE 0)
BlankRow == [x \in 1 .. Cols |-> " "]
Cleared == [y \in 1 .. Height |-> BlankRow]
Page == [y \in 1 .. PaperRows |-> BlankRow]

\* vesa_init says whether there is graphics; vga_init or gfxcon_init clears.
ConsoleInit ==
  /\ gfx_active \in BOOLEAN /\ screen = Cleared
  /\ cursor_x = 0 /\ cursor_y = 0 /\ gui = FALSE /\ paper = Page
  /\ reading = FALSE /\ buf = <<>> /\ from = 0 /\ stuck = FALSE

-----------------------------------------------------------------------------

\* vesa_put_char, or the store into the text memory.
Draw(scr, y, x, c) ==
  [l \in 1 .. Len(scr) |-> IF (l - 1) \div Band = y
                           THEN [scr[l] EXCEPT ![x + 1] = c] ELSE scr[l]]

\* scroll_up, and the loops of scroll_if_needed: the whole screen moves up by a
\* row, and the lines at its end are cleared.
Scroll(scr) ==
  [l \in 1 .. Len(scr) |-> IF l + Band <= Len(scr) THEN scr[l + Band] ELSE BlankRow]

\* Where the cursor goes, and what is put on the screen before that, if
\* anything.  In text mode every other code is a glyph.
Step(c) ==
  LET at(x, y) == [x |-> x, y |-> y, put |-> FALSE, px |-> 0, glyph |-> " "]
      put(x, px, g) == [x |-> x, y |-> cursor_y, put |-> TRUE, px |-> px, glyph |-> g]
  IN CASE c = "newline" -> at(0, cursor_y + 1)
       [] c = "return" -> at(0, cursor_y)
       [] c = "backspace" -> IF cursor_x > 0
                             THEN put(cursor_x - 1, cursor_x - 1, " ")
                             ELSE at(0, cursor_y)
       [] c = "tab" /\ gfx_active ->
            at(((cursor_x + TabStop) \div TabStop) * TabStop, cursor_y)
       [] c = "control" /\ gfx_active -> at(cursor_x, cursor_y)
       [] c \in {"tab", "control"} /\ ~gfx_active -> put(cursor_x + 1, cursor_x, "?")
       [] OTHER -> put(cursor_x + 1, cursor_x, c)

Wraps(c) == Step(c).x >= Cols
NewRow(c) == IF Wraps(c) THEN Step(c).y + 1 ELSE Step(c).y
Scrolls(c) == NewRow(c) >= Rows

\* vga_putc and gfxcon_putc: the character, the wrap, the scrolling.
putc(c) ==
  LET s == Step(c)
      drawn == IF s.put THEN Draw(screen, cursor_y, s.px, s.glyph) ELSE screen
      row == PaperRows - Rows + cursor_y + 1
      written == IF s.put THEN [paper EXCEPT ![row][s.px + 1] = s.glyph] ELSE paper
  IN /\ cursor_x' = IF Wraps(c) THEN 0 ELSE s.x
     /\ cursor_y' = IF Scrolls(c) THEN Rows - 1 ELSE NewRow(c)
     /\ screen' = IF Scrolls(c) THEN Scroll(drawn) ELSE drawn
     /\ paper' = IF Scrolls(c) THEN Append(Tail(written), BlankRow) ELSE written

\* vga_clear and gfxcon_clear.
Clear == screen' = Cleared /\ cursor_x' = 0 /\ cursor_y' = 0 /\ paper' = Page

\* Output of any program; no one prints while a line is read.
Put(c) == /\ ~reading /\ ~gui /\ putc(c)
          /\ UNCHANGED <<gfx_active, gui, readVars>>
vga_clear == /\ ~reading /\ ~gui /\ Clear /\ UNCHANGED <<gfx_active, gui, readVars>>

Least(a, b) == IF a < b THEN a ELSE b

\* vga_set_cursor and gfxcon_set_cursor, for the editor.
vga_set_cursor(x, y) ==
  /\ ~reading /\ ~gui
  /\ cursor_x' = Least(x, Cols - 1) /\ cursor_y' = Least(y, Rows - 1)
  /\ UNCHANGED <<gfx_active, screen, gui, paper, readVars>>

-----------------------------------------------------------------------------
(* keyboard_readline *)

\* The place on the paper the cursor is at, counted in cells.
Place == (PaperRows - Rows + cursor_y) * Cols + cursor_x

\* from moves up with the rows of the paper.
KeepFrom(c) == from' = IF stuck' THEN 0 ELSE IF Scrolls(c) THEN from - Cols ELSE from

ReadBegin == /\ ~reading /\ ~gui /\ reading' = TRUE
             /\ buf' = <<>> /\ from' = Place /\ stuck' = FALSE
             /\ UNCHANGED <<gfx_active, screen, cursor, gui, paper>>

\* Mutant: the echo does not depend on whether there was room.
ReadGlyph_EchoAlways(c) ==
  /\ reading /\ putc(c)
  /\ buf' = IF Len(buf) + 1 < LineMax THEN Append(buf, c) ELSE buf
  /\ UNCHANGED <<gfx_active, gui, reading, stuck>> /\ KeepFrom(c)

ReadGlyph(c) == /\ reading /\ Len(buf) + 1 < LineMax
                /\ putc(c) /\ buf' = Append(buf, c)
                /\ UNCHANGED <<gfx_active, gui, reading, stuck>> /\ KeepFrom(c)

ReadBackspace == /\ reading /\ buf # <<>>
                 /\ putc("backspace") /\ buf' = SubSeq(buf, 1, Len(buf) - 1)
                 /\ stuck' = (stuck \/ cursor_x = 0)
                 /\ KeepFrom("backspace") /\ UNCHANGED <<gfx_active, gui, reading>>

ReadEnd == /\ reading /\ putc("newline") /\ reading' = FALSE
           /\ buf' = <<>> /\ from' = 0 /\ stuck' = FALSE
           /\ UNCHANGED <<gfx_active, gui>>

-----------------------------------------------------------------------------
(* gui_run and cmd_gui *)

GuiBegin == /\ ~reading /\ ~gui /\ gfx_active /\ gui' = TRUE
            /\ UNCHANGED <<gfx_active, screen, cursor, paper, readVars>>

\* vesa_present copies the back buffer over the screen, from its top; a back
\* buffer that is smaller than the mode leaves the rest as it was.
Covered(size) ==
  [l \in 1 .. Height |-> [x \in 1 .. Cols |->
     IF (l - 1) * Cols + x <= size THEN "pixels" ELSE screen[l][x]]]
GuiPresent == /\ gui /\ \E size \in BackBuffers : screen' = Covered(size)
              /\ UNCHANGED <<gfx_active, cursor, gui, paper, readVars>>

\* Mutant: the screen is cleared while the back buffer is still in use.
GuiEnd_ClearedFirst ==
  /\ gui /\ gui' = FALSE
  /\ cursor_x' = 0 /\ cursor_y' = 0 /\ paper' = Page
  /\ UNCHANGED <<gfx_active, screen, readVars>>

\* The back buffer is given up, then vga_clear.
GuiEnd == gui /\ gui' = FALSE /\ Clear /\ UNCHANGED <<gfx_active, readVars>>

ConsoleNext ==
  \/ \E c \in Glyphs \cup Controls : Put(c)
  \/ vga_clear
  \/ \E x \in 0 .. Cols, y \in 0 .. Rows : vga_set_cursor(x, y)
  \/ ReadBegin \/ ReadBackspace \/ ReadEnd
  \/ \E c \in Glyphs : ReadGlyph(c)
  \/ GuiBegin \/ GuiPresent \/ GuiEnd

ConsoleSpec == ConsoleInit /\ [][ConsoleNext]_consoleVars

-----------------------------------------------------------------------------
(* Properties *)

\* The screen is a window on the end of the paper: whatever was printed, wrapped,
\* erased and scrolled, and whatever the GUI has drawn, every text row shows the
\* row it should from its first line to its last, though scrolling moves the
\* lines under the last row into it.
ShowsPaper ==
  ~gui => \A y \in 1 .. Rows, b \in 1 .. Band :
            screen[(y - 1) * Band + b] = paper[PaperRows - Rows + y]

\* What keyboard_readline has in its buffer is what stands on the screen from
\* where it began up to the cursor, over as many rows as it takes, until a
\* backspace is typed at the left edge, which the console cannot undo.
EchoesLine ==
  reading /\ ~stuck =>
    /\ Place = from + Len(buf)
    /\ \A i \in 1 .. Len(buf) :
         paper[((from + i - 1) \div Cols) + 1][((from + i - 1) % Cols) + 1] = buf[i]

\* "Clear the character" (gfxcon.c): a backspace takes what was typed last off
\* the screen.
EchoesLineAlways == reading => Place = from + Len(buf)
=============================================================================
