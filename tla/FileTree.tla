------------------------------ MODULE FileTree ------------------------------
(***************************************************************************)
(* What the file commands of the shell promise, with no disk in sight: a   *)
(* tree of named files and directories, a working directory, the last      *)
(* command and whether it reported success.  A command that succeeds makes *)
(* its change and no other; one that fails makes none, and the commands    *)
(* that need no room fail only when they have to.                          *)
(***************************************************************************)
EXTENDS Integers, Sequences

CONSTANTS Names, Texts,
          FS_MAX_FILE_SIZE  \* of a file

VARIABLES tree,   \* the set of the files and directories, each with its path
          wd,     \* the working directory, a path
          cmd,    \* the last command
          ok      \* whether it reported success

tvars == <<tree, wd, cmd, ok>>

Dir(p) == [path |-> p, dir |-> TRUE, text |-> <<>>]
File(p, t) == [path |-> p, dir |-> FALSE, text |-> t]
At(T, p) == {x \in T : x.path = p}
Inside(T, p) == {x \in T : x.path # <<>> /\ SubSeq(x.path, 1, Len(x.path) - 1) = p}
Put(T, x) == (T \ At(T, x.path)) \cup {x}
IsDir(T, p) == Dir(p) \in T
IsFile(T, p) == \E x \in At(T, p) : ~x.dir
TextOf(T, p) == (CHOOSE x \in At(T, p) : TRUE).text

\* The trees a command on path p may leave: none where it must not succeed.
Touch(T, p) == {IF At(T, p) = {} THEN Put(T, File(p, <<>>)) ELSE T}
Write(T, p, t) == IF IsDir(T, p) THEN {} ELSE {Put(T, File(p, t))}
Longer(T, p, t) == IF IsFile(T, p) THEN TextOf(T, p) \o t ELSE t
AppendText(T, p, t) == Write(T, p, Longer(T, p, t))
Remove(T, p) == IF IsFile(T, p) THEN {T \ At(T, p)} ELSE {}
Mkdir(T, p) == IF At(T, p) = {} THEN {Put(T, Dir(p))} ELSE {}
Rmdir(T, p) == IF IsDir(T, p) /\ Inside(T, p) = {} THEN {T \ At(T, p)} ELSE {}

\* A new file or directory may find no room for its entry; a file that is there
\* is refused only a text that is too long.
NoRoom(T, p, t) == IsFile(T, p) => Len(t) > FS_MAX_FILE_SIZE

\* Command op on name n of the working directory: it succeeds and leaves one of
\* trees, or fails, if it may.
Command(T, op, n, t, trees, mayFail) ==
  /\ cmd' = [op |-> op, absolute |-> FALSE, name |-> n, text |-> t]
  /\ wd' = wd
  /\ \/ ok' = TRUE /\ tree' \in trees
     \/ ok' = FALSE /\ mayFail /\ tree' = T

On(T, n) ==
  LET p == Append(wd, n) IN
  \/ Command(T, "touch", n, <<>>, Touch(T, p), At(T, p) = {})
  \/ Command(T, "rm", n, <<>>, Remove(T, p), ~IsFile(T, p))
  \/ Command(T, "mkdir", n, <<>>, Mkdir(T, p), TRUE)
  \/ Command(T, "rmdir", n, <<>>, Rmdir(T, p), Rmdir(T, p) = {})
  \/ \E t \in Texts :
       \/ Command(T, "write", n, t, Write(T, p, t), NoRoom(T, p, t))
       \/ Command(T, "append", n, t, AppendText(T, p, t),
                  NoRoom(T, p, Longer(T, p, t)))

\* cd goes to the root, to the parent, or to a directory named from here or from
\* the root; an absolute one that fails leaves the user at the root.
Base(absolute) == IF absolute THEN <<>> ELSE wd
Target(absolute, n) ==
  LET b == Base(absolute) IN
  IF n = "" \/ (n = ".." /\ b = <<>>) THEN b
  ELSE IF n = ".." THEN SubSeq(b, 1, Len(b) - 1) ELSE Append(b, n)
Chdir(T, absolute, n) ==
  /\ cmd' = [op |-> "cd", absolute |-> absolute, name |-> n, text |-> <<>>]
  /\ tree' = T
  /\ \/ ok' = TRUE /\ IsDir(T, Target(absolute, n)) /\ wd' = Target(absolute, n)
     \/ ok' = FALSE /\ ~IsDir(T, Target(absolute, n)) /\ wd' = Base(absolute)

\* A name no file can have.
Reject(T) == /\ cmd' = [op |-> "rejected", absolute |-> FALSE, name |-> "", text |-> <<>>]
             /\ ok' = FALSE /\ wd' = wd /\ tree' = T

\* The machine is restarted: the tree survives.
Restart(T) == /\ cmd' = [op |-> "start", absolute |-> FALSE, name |-> "", text |-> <<>>]
              /\ ok' = TRUE /\ wd' = <<>> /\ tree' = T

TInit == /\ tree = {Dir(<<>>)} /\ wd = <<>> /\ ok = TRUE
         /\ cmd = [op |-> "start", absolute |-> FALSE, name |-> "", text |-> <<>>]
TNext == \E T \in {tree} :
           \/ \E n \in Names : On(T, n)
           \/ \E absolute \in BOOLEAN, n \in Names \cup {"", ".."} : Chdir(T, absolute, n)
           \/ Reject(T) \/ Restart(T)
TSpec == TInit /\ [][TNext]_tvars
=============================================================================
