-------------------------------- MODULE Shell --------------------------------
(***************************************************************************)
(* shell_run of kernel/shell.c: the history, the splitting of a line and   *)
(* the dispatch, with the two programs of the shell that have a run of     *)
(* their own, Script (run) and Forth (lang), composed with it on the one   *)
(* thread.  The file commands are actions of Fs, spawn and kill of         *)
(* ProcessWired, gui of Gui, edit of Editor and python of Cospy: seen from *)
(* here each of them comes back to the prompt and changes nothing.         *)
(*                                                                         *)
(* A line is a sequence of words; the word " " is white space.             *)
(***************************************************************************)
EXTENDS Script, Forth

CONSTANTS HISTORY_MAX,
          Lines,      \* what may be typed
          MaxLines,   \* bound: lines since the machine was started,
          MaxBefore   \* and lines before a script or Forth is started

ASSUME ShellAssumption == /\ HISTORY_MAX \in Nat \ {0}
                          /\ MaxLines \in Nat /\ MaxBefore \in Nat

VARIABLES mode,      \* "prompt", "script", "forth", or "stopped" for ever
          history,
          executed   \* history: the lines acted upon since the start

shellVars == <<mode, history, executed>>
vars == <<scriptVars, forthVars, shellVars>>

Init == /\ Idle /\ ForthInit
        /\ mode = "prompt" /\ history = <<>> /\ executed = <<>>

-----------------------------------------------------------------------------

\* Mutant: a line is stored when split_cmd has put a zero behind its command.
Stored_Split(line) == SubSeq(line, 1, 1)

\* save_history is called before split_cmd writes into the line.
Stored(line) == line

save_history(line) ==
  /\ history' = IF Len(history) < HISTORY_MAX THEN Append(history, Stored(line))
                ELSE Append(Tail(history), Stored(line))
  /\ executed' = Append(executed, line)

\* split_cmd: the words from the first one that is not blank.
Split(line) == LET ws == {i \in 1 .. Len(line) : line[i] # " "}
               IN IF ws = {} THEN <<>>
                  ELSE SubSeq(line, CHOOSE i \in ws : \A j \in ws : i <= j,
                              Len(line))

\* script_run, if there is a script of that name.
cmd_run == /\ Len(executed) <= MaxBefore
           /\ \E v \in Volumes : \/ Start(v) /\ mode' = "script"
                                 \/ StartMissing(v) /\ mode' = mode
           /\ UNCHANGED forthVars

lang_repl == /\ Len(executed) <= MaxBefore
             /\ stack' = <<>> /\ mode' = "forth"
             /\ UNCHANGED <<scriptVars, word, complaint>>

\* The user program ends in SYS_EXIT, which halts with interrupts off.
cmd_usermode == mode' = "stopped" /\ UNCHANGED <<scriptVars, forthVars>>

\* The kernel is started afresh.
cmd_reboot == /\ history' = <<>> /\ executed' = <<>>
              /\ UNCHANGED <<scriptVars, forthVars, mode>>

\* The other commands, and unknown ones: each is acted upon in its own module or
\* only prints, and comes back to the prompt.
cmd_other == UNCHANGED <<scriptVars, forthVars, mode>>

\* What the loop does with a line that is not empty, after !! has been replaced.
Act(line) ==
  LET words == Split(line)
      cmd == IF words = <<>> THEN "" ELSE Head(words)
      args == IF words = <<>> THEN <<>> ELSE Tail(words)
      special == cmd \in {"lang", "usermode", "reboot"} \/ (cmd = "run" /\ args # <<>>)
  IN \/ cmd = "run" /\ special /\ save_history(line) /\ cmd_run
     \/ cmd = "lang" /\ save_history(line) /\ lang_repl
     \/ cmd = "usermode" /\ save_history(line) /\ cmd_usermode
     \/ cmd = "reboot" /\ cmd_reboot
     \/ ~special /\ save_history(line) /\ cmd_other

\* !! stands for the last line of the history.  An empty line, and !! without
\* any history, is left alone.
Repeat == <<"!!">>
ReadLine(line) ==
  /\ mode = "prompt" /\ line # <<>> /\ Len(executed) < MaxLines
  /\ IF line # Repeat THEN Act(line)
     ELSE history # <<>> /\ Act(history[Len(history)])

-----------------------------------------------------------------------------
(* The programs *)

ScriptLine == mode = "script" /\ Line /\ UNCHANGED <<forthVars, shellVars>>
ScriptEnd == /\ mode = "script" /\ Finish /\ mode' = "prompt"
             /\ UNCHANGED <<forthVars, history, executed>>

ForthWord == \E w \in ForthWords :
               mode = "forth" /\ Execute(w) /\ UNCHANGED <<scriptVars, shellVars>>
ForthTrap == /\ mode = "forth" /\ Traps("/") /\ mode' = "stopped"
             /\ UNCHANGED <<scriptVars, forthVars, history, executed>>

\* bye: the rest of its line is dropped.
ForthBye == /\ mode = "forth" /\ mode' = "prompt"
            /\ stack' = <<>> /\ word' = "none" /\ complaint' = FALSE
            /\ UNCHANGED <<scriptVars, history, executed>>

Next == \/ \E line \in Lines : ReadLine(line)
        \/ ScriptLine \/ ScriptEnd \/ ForthWord \/ ForthTrap \/ ForthBye

Spec == Init /\ [][Next]_vars

-----------------------------------------------------------------------------
(* Properties *)

\* history shows the last lines that were acted upon, whole and in order, with
\* the line !! stood for in its place, however many the shell has dropped and
\* whatever ran in between.
HistoryIsRecent ==
  LET n == Len(executed)
      k == IF n < HISTORY_MAX THEN n ELSE HISTORY_MAX
  IN history = SubSeq(executed, n - k + 1, n)

\* A division is refused when it cannot be done, "div by zero" (lang.c): no word
\* of Forth stops the machine.
NoTrap == ~(mode = "stopped" /\ stack # <<>>)
=============================================================================
