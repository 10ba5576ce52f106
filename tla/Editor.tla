------------------------------- MODULE Editor -------------------------------
(***************************************************************************)
(* The modal editor of kernel/editor.c: one action per key or colon command*)
(* of editor_edit_file.  The text is the first len bytes of the buffer; a  *)
(* position p (0 .. len) is the gap before character p + 1.  Drawing and   *)
(* the line editing of read_colon_cmd are left out; a cancelled, empty or  *)
(* unknown colon command changes nothing.                                  *)
(***************************************************************************)
EXTENDS Integers, Sequences, FiniteSets

CONSTANTS FS_MAX_FILE_SIZE, \* size of the buffer text[]
          Chars,            \* what the user types, besides newlines
          Contents          \* contents the edited file may have at first

NL == "NL"
ASSUME EditorAssumption ==
  /\ FS_MAX_FILE_SIZE \in Nat \ {0}
  /\ NL \notin Chars /\ "S" \notin Chars
  /\ Contents \subseteq Seq(Chars \cup {NL})
  /\ \A t \in Contents : Len(t) <= FS_MAX_FILE_SIZE

VARIABLES file,      \* the content of the file on the volume
          running,   \* whether editor_edit_file is active
          text, cursor, mode, dirty,
          fault      \* history: whether the load failed, or a write that failed
                     \* emptied the file, and no write has reached it since
vars == <<file, running, text, cursor, mode, dirty, fault>>

len == Len(text)

Texts == Seq(Chars \cup {NL, "S"})

\* Types of the locals of editor_edit_file.
TypeOK == /\ file \in Texts /\ text \in Texts
          /\ running \in BOOLEAN /\ dirty \in BOOLEAN
          /\ cursor \in Nat
          /\ mode \in {"MODE_NORMAL", "MODE_INSERT"}
          /\ fault \in {"none", "load", "write"}

-----------------------------------------------------------------------------
(* Helpers *)

\* The start and the end of the line position p is on.
line_start(t, p) ==
  CHOOSE s \in 0 .. p : /\ s = 0 \/ t[s] = NL
                        /\ \A i \in s + 1 .. p : t[i] # NL
line_end(t, p) ==
  CHOOSE e \in p .. Len(t) : /\ e = Len(t) \/ t[e + 1] = NL
                             /\ \A i \in p + 1 .. e : t[i] # NL

Min2(a, b) == IF a < b THEN a ELSE b

Inserted(t, p, c) == SubSeq(t, 1, p) \o <<c>> \o SubSeq(t, p + 1, Len(t))
Deleted(t, p) == SubSeq(t, 1, p) \o SubSeq(t, p + 2, Len(t))

Idle == running /\ UNCHANGED <<file, running, mode, fault>>
Normal == running /\ mode = "MODE_NORMAL"
Insert == running /\ mode = "MODE_INSERT"

-----------------------------------------------------------------------------
(* Keys *)

\* Start of editor_edit_file; a file that vfs_read_ptr cannot read is edited as
\* an empty text.
Open ==
  /\ ~running
  /\ \/ text' = file /\ fault' = "none"
     \/ text' = <<>> /\ fault' = "load"
  /\ running' = TRUE /\ cursor' = 0
  /\ mode' = "MODE_NORMAL" /\ dirty' = FALSE
  /\ file' = file

\* Mutant: the terminating zero is forgotten in the test for a full buffer.
insert_char_OffByOne(c) ==
  /\ Len(text) + 1 <= FS_MAX_FILE_SIZE
  /\ text' = Inserted(text, cursor, c) /\ cursor' = cursor + 1
  /\ dirty' = TRUE

\* insert_char; a full buffer only changes the message.
insert_char(c) ==
  /\ Len(text) + 1 < FS_MAX_FILE_SIZE
  /\ text' = Inserted(text, cursor, c) /\ cursor' = cursor + 1
  /\ dirty' = TRUE

Type(c) == Insert /\ Idle /\ insert_char(c)

Backspace ==
  /\ Insert /\ Idle /\ cursor > 0
  /\ cursor' = cursor - 1 /\ text' = Deleted(text, cursor - 1) /\ dirty' = TRUE

KeyDelete ==
  /\ Normal /\ Idle /\ cursor < len
  /\ text' = Deleted(text, cursor) /\ dirty' = TRUE /\ cursor' = cursor

Move(p) == Idle /\ cursor' = p /\ UNCHANGED <<text, dirty>>

\* Left and right work in both modes.
KeyLeft == cursor > 0 /\ Move(cursor - 1)
KeyRight == cursor < len /\ Move(cursor + 1)

\* Mutant: the column is not limited to the length of the next line.
DownTo_NoLimit(t, p) == line_end(t, p) + 1 + p - line_start(t, p)

\* Mutant: the newline that ends the previous line is not skipped.
UpTo_NewlineKept(t, p) ==
  LET last == line_start(t, p)
      start == line_start(t, last)
  IN start + Min2(p - line_start(t, p), last - start)

\* Where 'j' and 'k' go: the same column of the next or previous line, or its
\* end if it is shorter.
DownTo(t, p) ==
  LET start == line_end(t, p) + 1
  IN start + Min2(p - line_start(t, p), line_end(t, start) - start)
UpTo(t, p) ==
  LET last == line_start(t, p) - 1
      start == line_start(t, last)
  IN start + Min2(p - line_start(t, p), last - start)

KeyDown == Normal /\ line_end(text, cursor) < len /\ Move(DownTo(text, cursor))
KeyUp == Normal /\ line_start(text, cursor) > 0 /\ Move(UpTo(text, cursor))

SetMode(m) == /\ running /\ mode' = m
              /\ UNCHANGED <<file, running, text, cursor, dirty, fault>>
KeyI == Normal /\ SetMode("MODE_INSERT")
Escape == Insert /\ SetMode("MODE_NORMAL")

\* Ctrl and S: keyboard.c has no Ctrl state and gives an 's' ("S" here), which
\* insert mode inserts and normal mode ignores.  The tests for character 19
\* are never true.
CtrlS == \/ Type("S")
         \/ Normal /\ UNCHANGED vars

-----------------------------------------------------------------------------
(* Colon commands *)

\* vfs_write_raw succeeds, or fails before it touches the file, after it has
\* given up the old clusters (no room, disk error), or at its flushes (Fs).
WriteOk == file' = text /\ fault' = "none"
WriteFail == \/ UNCHANGED <<file, fault>>
             \/ file' = <<>> /\ fault' = "write"
             \/ WriteOk

Leave == running' = FALSE /\ UNCHANGED <<text, cursor, mode, dirty>>

\* Mutant: a failed write is taken for a success.
Save_Blind == /\ Normal /\ (WriteOk \/ WriteFail) /\ dirty' = FALSE
              /\ UNCHANGED <<running, text, cursor, mode>>

\* :w
Save == /\ Normal
        /\ \/ WriteOk /\ dirty' = FALSE
           \/ WriteFail /\ dirty' = dirty
        /\ UNCHANGED <<running, text, cursor, mode>>
\* :q, refused while there are unsaved changes, and :q!
Quit == Normal /\ ~dirty /\ Leave /\ UNCHANGED <<file, fault>>
ForceQuit == Normal /\ Leave /\ UNCHANGED <<file, fault>>
\* :wq
SaveQuit ==
  /\ Normal
  /\ \/ WriteOk /\ Leave
     \/ WriteFail /\ UNCHANGED <<running, text, cursor, mode, dirty>>

Init == /\ file \in Contents /\ running = FALSE /\ text = <<>> /\ cursor = 0
        /\ mode = "MODE_NORMAL" /\ dirty = FALSE /\ fault = "none"

Next == \/ Open
        \/ \E c \in Chars \cup {NL} : Type(c)
        \/ Backspace \/ KeyDelete \/ KeyLeft \/ KeyRight \/ KeyDown \/ KeyUp
        \/ KeyI \/ Escape \/ CtrlS
        \/ Save \/ Quit \/ ForceQuit \/ SaveQuit

Spec == Init /\ [][Next]_vars

-----------------------------------------------------------------------------
(* Properties *)

\* The cursor is a position of the text, whatever moves, insertions and
\* deletions editor_edit_file has made.
CursorInText == cursor <= len

\* :q - Quit (if no changes) (README): dirty = 0 is what lets :q leave, so then
\* the file on the volume holds the text.  Two faults break this, and no more is
\* lost then than they explain: a file that could not be read is edited as an
\* empty text, and a write that failed may have emptied the file.
CleanMeansSaved ==
  running /\ ~dirty => \/ file = text
                       \/ fault = "load" /\ text = <<>>
                       \/ fault = "write" /\ file = <<>>

\* Without the faults' excuse it is false of the code.
CleanMeansSavedAlways == running /\ ~dirty => file = text

\* The number of lines before position p.
LineOf(t, p) == Cardinality({i \in 1 .. p : t[i] = NL})

\* j and k move by one line, and a move that does not change the line is one
\* by a character (line_start, line_end and the column arithmetic).
OneLineAtATime ==
  [][(running /\ running' /\ text' = text) =>
       LET up == LineOf(text, cursor) down == LineOf(text, cursor') IN
       /\ down - up \in {-1, 0, 1}
       /\ down = up => cursor' - cursor \in {-1, 0, 1}]_vars

\* The buffer text[FS_MAX_FILE_SIZE] has room for the text, and after any change
\* for the terminating zero that insert_char and delete_at put behind it: only a
\* file of exactly FS_MAX_FILE_SIZE, as it was loaded, leaves none.
TerminatorFits == len <= FS_MAX_FILE_SIZE /\ (dirty => len < FS_MAX_FILE_SIZE)

\* The zero that the load itself puts behind such a file is past the buffer.
TerminatorFitsAlways == len < FS_MAX_FILE_SIZE

\* Ctrl+S - Quick save (README).
CtrlSSaves == [][CtrlS => file' = text]_vars
=============================================================================
