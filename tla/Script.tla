------------------------------- MODULE Script -------------------------------
(***************************************************************************)
(* The script runner of kernel/script.c.  script_run walks over the text   *)
(* that vfs_read_ptr left in read_cache, the one buffer fs.c has for what  *)
(* it reads: a command of the script that reads a file replaces the text   *)
(* under the runner.                                                       *)
(*                                                                         *)
(* A text is a sequence of words, newlines among them.  A word that is a   *)
(* command carries the name of its file; the words after it are its text.  *)
(* The volume is reduced to the contents of two files; its errors are the  *)
(* subject of Fs.                                                          *)
(***************************************************************************)
EXTENDS Integers, Sequences, SequencesExt

CONSTANTS FS_MAX_FILE_SIZE,  \* words of a file
          SCRIPT_LINE_MAX,   \* words of line[], the terminating zero included
          Scripts,           \* texts of the script
          Data               \* texts of the other file

Word(w, f) == [word |-> w, file |-> f]
NL == Word("newline", "")
NUL == Word("zero", "")

ASSUME ScriptAssumption ==
  /\ FS_MAX_FILE_SIZE \in Nat \ {0} /\ SCRIPT_LINE_MAX \in Nat \ {0, 1}
  /\ \A t \in Scripts \cup Data :
       t \in Seq({t[i] : i \in 1 .. Len(t)}) /\ Len(t) <= FS_MAX_FILE_SIZE

VARIABLES files,        \* contents by name, for the files that exist
          read_cache,
          running, p, end,
          text,         \* history: the script as it was when it was started
          done          \* history: the lines executed, a newline after each

scriptVars == <<files, read_cache, running, p, end, text, done>>

\* The buffer after a text has been read into it.
Load(cache, t) == t \o <<NUL>> \o SubSeq(cache, Len(t) + 2, Len(cache))

Put(f, t) == [g \in DOMAIN files \cup {f} |-> IF g = f THEN t ELSE files[g]]
ContentOf(f) == IF f \in DOMAIN files THEN files[f] ELSE <<>>

-----------------------------------------------------------------------------
(* execute_line *)

\* cat: vfs_read_ptr, if the file is there.
Cat(f) == /\ read_cache' = IF f \in DOMAIN files THEN Load(read_cache, files[f])
                           ELSE read_cache
          /\ files' = files

\* append: fs_append builds the new content in read_cache too; one too long is
\* refused after the file has been read.
AppendText(f, t) ==
  LET old == ContentOf(f)
      new == old \o t
      cache == IF f \in DOMAIN files THEN Load(read_cache, old) ELSE read_cache
  IN IF Len(new) > FS_MAX_FILE_SIZE
     THEN read_cache' = cache /\ files' = files
     ELSE read_cache' = Load(cache, new) /\ files' = Put(f, new)

Write(f, t) == files' = Put(f, t) /\ read_cache' = read_cache
RemoveFile(f) == /\ files' = [g \in DOMAIN files \ {f} |-> files[g]]
                 /\ read_cache' = read_cache

\* What a line does, by its first word.  Comments, empty lines, a zero, words
\* that are no command, and commands about directories or the screen leave the
\* files and the buffer alone.
execute_line(line) ==
  LET first == IF line = <<>> THEN NUL ELSE Head(line)
      rest == IF line = <<>> THEN <<>> ELSE Tail(line)
  IN \/ first.word = "cat" /\ Cat(first.file)
     \/ first.word = "append" /\ AppendText(first.file, rest)
     \/ first.word = "write" /\ Write(first.file, rest)
     \/ first.word = "rm" /\ RemoveFile(first.file)
     \/ /\ first.word \notin {"cat", "append", "write", "rm"}
        /\ UNCHANGED <<files, read_cache>>

-----------------------------------------------------------------------------
(* script_run *)

\* What the volume may hold.  Its content is chosen when a script is started and
\* forgotten when it ends: nothing else here looks at it.
Volumes == [{"script"} -> Scripts] \cup [{"data"} -> Data] \cup
           {[g \in {"script", "data"} |-> IF g = "data" THEN d ELSE t] :
              t \in Scripts, d \in Data}

Idle == /\ files = <<>> /\ read_cache = <<>> /\ text = <<>> /\ done = <<>>
        /\ running = FALSE /\ p = 1 /\ end = 1

\* The script is read.
Start(volume) ==
  /\ ~running /\ "script" \in DOMAIN volume
  /\ files' = volume
  /\ read_cache' = Load([i \in 1 .. FS_MAX_FILE_SIZE + 1 |-> NUL], volume["script"])
  /\ running' = TRUE /\ p' = 1 /\ end' = Len(volume["script"]) + 1
  /\ text' = volume["script"] /\ done' = <<>>

\* A script that is not there is only reported.
StartMissing(volume) ==
  ~running /\ "script" \notin DOMAIN volume /\ UNCHANGED scriptVars

\* Where the line that starts at p stops: at the end of the text, at a newline,
\* or when the line buffer is full.
LineEnd ==
  CHOOSE q \in p .. end :
    /\ q = end \/ read_cache[q] = NL \/ q - p = SCRIPT_LINE_MAX - 1
    /\ q - p <= SCRIPT_LINE_MAX - 1
    /\ \A i \in p .. q - 1 : read_cache[i] # NL

\* Mutant: the newline is not skipped.
AfterLine_NotSkipped(q) == q

\* Where the next line starts: a newline is skipped.
AfterLine(q) == IF q < end /\ read_cache[q] = NL THEN q + 1 ELSE q

\* One turn of the loop: a line is taken out and executed.
Line ==
  /\ running /\ p < end
  /\ LET line == SubSeq(read_cache, p, LineEnd - 1) IN
     /\ execute_line(line)
     /\ done' = done \o line \o <<NL>>
  /\ p' = AfterLine(LineEnd)
  /\ UNCHANGED <<running, end, text>>

Finish == /\ running /\ p >= end
          /\ files' = <<>> /\ read_cache' = <<>> /\ text' = <<>> /\ done' = <<>>
          /\ running' = FALSE /\ p' = 1 /\ end' = 1

-----------------------------------------------------------------------------
(* Properties *)

\* Process line by line (script.c): what has been executed is the script that
\* was started, line for line, up to where the runner is.
LinesInOrder == IsPrefix(done, text \o <<NL>>)

\* The same for a script none of whose words is a command that reads a file:
\* writing and removing files, the script itself among them, disturbs nothing
\* (script_run works on the copy in read_cache).
UndisturbedInOrder ==
  (\A i \in 1 .. Len(text) : text[i].word \notin {"cat", "append"}) => LinesInOrder

\* Every turn of script_run's loop moves forward to an end that stays where it
\* was, so the script ends, whatever its commands have done to the buffer.
Advances == [][running /\ running' => p' > p /\ p' <= end /\ end' = end]_scriptVars
=============================================================================
