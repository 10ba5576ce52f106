---------------------------- MODULE ShellProofs ----------------------------
(***************************************************************************)
(* For every size of the history, of the line buffer and of the stack, and *)
(* every line, script and number: history shows the last lines that were   *)
(* acted upon (HistoryIsRecent); script_run moves forward in every turn    *)
(* (Advances) and executes a script that reads no file line for line       *)
(* (UndisturbedInOrder); and the words of Forth keep to their part of the  *)
(* stack (StackDiscipline).                                                *)
(*                                                                         *)
(* UndisturbedInOrder is about texts whose lines are shorter than the line *)
(* buffer: of a longer line, the rest is executed as a line of its own.    *)
(* It is not inductive: OrderInv adds that the buffer still holds the      *)
(* script, and how much has been executed when the runner is at p.         *)
(***************************************************************************)
EXTENDS Shell, FiniteSetTheorems, WellFoundedInduction, SequenceTheorems, TLAPS

-----------------------------------------------------------------------------
(* The history *)

\* Both are made of lines that were typed, and history shows the last of those
\* that were acted upon.
Kept == IF Len(executed) < HISTORY_MAX THEN Len(executed) ELSE HISTORY_MAX
HistoryInv ==
  /\ executed \in Seq(Lines) /\ history \in Seq(Lines)
  /\ Len(history) = Kept
  /\ \A i \in 1 .. Len(history) : history[i] = executed[Len(executed) - Kept + i]

\* save_history, for one more line.
LEMMA SaveKeeps ==
  ASSUME HistoryInv, NEW line \in Lines, save_history(line)
  PROVE  HistoryInv'
<1> DEFINE h == history
           x == executed
           n == Len(executed)
           m == HISTORY_MAX
<1>1. m \in Nat \ {0} /\ n \in Nat
  BY ShellAssumption DEF HistoryInv
<1>2. executed' = Append(x, line) /\ executed' \in Seq(Lines) /\ Len(executed') = n + 1
  BY DEF save_history, HistoryInv
<1>3. \A i \in 1 .. n : executed'[i] = x[i]
  BY <1>2 DEF HistoryInv
<1>4. executed'[n + 1] = line
  BY <1>2 DEF HistoryInv
<1>5. CASE n < m
  <2>1. Len(h) = n /\ \A i \in 1 .. n : h[i] = x[i]
    BY <1>1, <1>5 DEF HistoryInv, Kept
  <2>2. history' = Append(h, line)
    BY <1>5, <2>1 DEF save_history, Stored
  <2>3. history' \in Seq(Lines) /\ Len(history') = n + 1 /\ history'[n + 1] = line
        /\ \A i \in 1 .. n : history'[i] = h[i]
    BY <2>1, <2>2 DEF HistoryInv
  <2>4. Kept' = n + 1
    BY <1>1, <1>2, <1>5 DEF Kept
  <2>5. ASSUME NEW i \in 1 .. n + 1 PROVE history'[i] = executed'[i]
    BY <1>1, <1>3, <1>4, <2>1, <2>3
  <2>6. \A i \in 1 .. Len(history') : history'[i] = executed'[Len(executed') - Kept' + i]
    BY <1>1, <1>2, <2>3, <2>4, <2>5
  <2> QED
    BY <1>2, <2>3, <2>4, <2>6 DEF HistoryInv
<1>6. CASE n >= m
  <2>1. Len(h) = m /\ \A i \in 1 .. m : h[i] = x[n - m + i]
    BY <1>1, <1>6 DEF HistoryInv, Kept
  <2>2. history' = Append(Tail(h), line)
    BY <1>1, <1>6, <2>1 DEF save_history, Stored
  <2>3. Tail(h) \in Seq(Lines) /\ Len(Tail(h)) = m - 1
        /\ \A i \in 1 .. m - 1 : Tail(h)[i] = h[i + 1]
    BY <1>1, <2>1 DEF HistoryInv
  <2>4. history' \in Seq(Lines) /\ Len(history') = m /\ history'[m] = line
        /\ \A i \in 1 .. m - 1 : history'[i] = h[i + 1]
    BY <1>1, <2>2, <2>3
  <2>5. Kept' = m
    BY <1>1, <1>2, <1>6 DEF Kept
  <2>6. ASSUME NEW i \in 1 .. m PROVE history'[i] = executed'[n + 1 - m + i]
    <3> HIDE DEF n, m
    <3>1. CASE i = m
      <4>1. n + 1 - m + i = n + 1
        BY <1>1, <3>1
      <4> QED
        BY <1>4, <2>4, <3>1, <4>1
    <3>2. CASE i # m
      <4>1. /\ i \in 1 .. m - 1 /\ i + 1 \in 1 .. m
            /\ n - m + (i + 1) \in 1 .. n /\ n - m + (i + 1) = n + 1 - m + i
        BY <1>1, <1>6, <3>2
      <4>2. history'[i] = h[i + 1] /\ h[i + 1] = x[n - m + (i + 1)]
        BY <2>1, <2>4, <4>1
      <4> QED
        BY <1>3, <4>1, <4>2
    <3> QED
      BY <3>1, <3>2
  <2>7. ASSUME NEW i \in 1 .. Len(history')
        PROVE  history'[i] = executed'[Len(executed') - Kept' + i]
    <3>1. Len(executed') - Kept' + i = n + 1 - m + i /\ i \in 1 .. m
      BY <1>2, <2>4, <2>5
    <3> QED
      BY <2>6, <3>1
  <2> QED
    BY <1>2, <2>4, <2>5, <2>7 DEF HistoryInv
<1> QED
  BY <1>1, <1>5, <1>6

\* A line that is acted upon.
LEMMA ActKeeps ==
  ASSUME HistoryInv, NEW line \in Lines, Act(line)
  PROVE  HistoryInv'
<1>1. CASE save_history(line)
  BY <1>1, SaveKeeps
<1>2. CASE cmd_reboot
  BY <1>2, ShellAssumption DEF cmd_reboot, HistoryInv, Kept
<1> QED
  BY <1>1, <1>2 DEF Act

LEMMA HistoryStep ==
  ASSUME HistoryInv, [Next]_vars
  PROVE  HistoryInv'
<1>1. ASSUME NEW line \in Lines, ReadLine(line) PROVE HistoryInv'
  <2>1. CASE line # Repeat
    BY <1>1, <2>1, ActKeeps DEF ReadLine
  <2>2. CASE line = Repeat
    <3>1. history # <<>> /\ Act(history[Len(history)])
      BY <1>1, <2>2 DEF ReadLine
    <3>2. history[Len(history)] \in Lines
      BY <3>1 DEF HistoryInv
    <3> QED
      BY <3>1, <3>2, ActKeeps
  <2> QED
    BY <2>1, <2>2
<1>2. CASE UNCHANGED <<history, executed>>
  BY <1>2 DEF HistoryInv, Kept
<1>3. CASE ScriptLine \/ ScriptEnd \/ ForthWord \/ ForthTrap \/ ForthBye
  BY <1>2, <1>3 DEF ScriptLine, ScriptEnd, ForthWord, ForthTrap, ForthBye, shellVars
<1>4. CASE UNCHANGED vars
  BY <1>2, <1>4 DEF vars, shellVars
<1> QED
  BY <1>1, <1>3, <1>4 DEF Next

\* HistoryInv says, slot by slot, what HistoryIsRecent says.
LEMMA Recent == HistoryInv => HistoryIsRecent
<1> SUFFICES ASSUME HistoryInv PROVE HistoryIsRecent
  OBVIOUS
<1> DEFINE n == Len(executed)
           k == Kept
           s == SubSeq(executed, n - k + 1, n)
<1>1. n \in Nat /\ k \in 0 .. n
  BY ShellAssumption DEF HistoryInv, Kept
<1>2. s \in Seq(Lines) /\ Len(s) = k /\ \A i \in 1 .. k : s[i] = executed[n - k + i]
  BY <1>1, SubSeqProperties DEF HistoryInv
<1>3. history = s
  <2> HIDE DEF n, k, s
  <2> QED
    BY <1>2, SeqEqual DEF HistoryInv, k, n
<1> QED
  BY <1>3 DEF HistoryIsRecent, Kept

-----------------------------------------------------------------------------
(* The script runner *)

\* A set of numbers below a bound that is not empty has a least one: the initial
\* segments they end are finite sets, which are well-founded under inclusion.
LEMMA LeastBelow ==
  ASSUME NEW m \in Nat, NEW T, T \subseteq 0 .. m, T # {}
  PROVE  \E x \in T : \A y \in T : x <= y
<1> DEFINE B(n) == 0 .. n
           U == {B(n) : n \in T}
           F == FiniteSubsetsOf(0 .. m)
<1>1. IsWellFoundedOn(StrictSubsetOrdering(0 .. m), F)
  BY FS_Interval, FS_StrictSubsetOrderingWellFounded
<1>2. \A n \in T : B(n) \in F
  BY FS_Interval DEF FiniteSubsetsOf
<1>3. U \subseteq F /\ U # {}
  BY <1>2
<1>4. PICK b \in U : \A c \in U : ~(<<c, b>> \in StrictSubsetOrdering(0 .. m))
  <2> HIDE DEF U, F
  <2> QED
    BY <1>1, <1>3, WFMin
<1>5. PICK x \in T : b = B(x)
  OBVIOUS
<1>6. ASSUME NEW y \in T, y < x PROVE FALSE
  <2>1. B(y) \in SUBSET (0 .. m) /\ B(x) \in SUBSET (0 .. m)
    OBVIOUS
  <2>2. B(y) \subseteq B(x) /\ x \notin B(y) /\ x \in B(x)
    BY <1>6
  <2>3. <<B(y), B(x)>> \in StrictSubsetOrdering(0 .. m)
    BY <2>1, <2>2 DEF StrictSubsetOrdering
  <2> QED
    BY <1>4, <1>5, <2>3
<1> QED
  BY <1>6

\* The runner is at a word of its text, or at the end.
PlaceInv == p \in Nat /\ end \in Nat /\ 1 <= p /\ p <= end

\* Where a line that starts at a stops, in a buffer c up to b.
Stops(c, a, b, q) ==
  /\ q \in a .. b
  /\ q = b \/ c[q] = NL \/ q - a = SCRIPT_LINE_MAX - 1
  /\ q - a <= SCRIPT_LINE_MAX - 1
  /\ \A i \in a .. q - 1 : c[i] # NL

LEMMA StopsSomewhere ==
  ASSUME NEW c, NEW a \in Nat, NEW b \in Nat, a <= b
  PROVE  \E q : Stops(c, a, b, q)
<1> DEFINE T == {q \in a .. b : q = b \/ c[q] = NL \/ q - a = SCRIPT_LINE_MAX - 1}
<1>1. T \subseteq 0 .. b /\ b \in T
  OBVIOUS
<1>2. PICK q \in T : \A y \in T : q <= y
  <2> HIDE DEF T
  <2> QED
    BY <1>1, LeastBelow
<1>3. q \in a .. b /\ (q = b \/ c[q] = NL \/ q - a = SCRIPT_LINE_MAX - 1)
  OBVIOUS
<1>4. ASSUME NEW i \in a .. q - 1 PROVE c[i] # NL
  <2>1. i \in a .. b /\ ~(q <= i)
    BY <1>3
  <2>2. i \notin T
    <3> HIDE DEF T
    <3> QED
      BY <1>2, <2>1
  <2> QED
    BY <2>1, <2>2
<1>5. q - a <= SCRIPT_LINE_MAX - 1
  <2> SUFFICES ASSUME q - a > SCRIPT_LINE_MAX - 1 PROVE FALSE
    BY <1>3, ScriptAssumption
  <2> DEFINE y == a + (SCRIPT_LINE_MAX - 1)
  <2>1. y \in a .. b /\ y - a = SCRIPT_LINE_MAX - 1 /\ ~(q <= y)
    BY <1>3, ScriptAssumption
  <2>2. y \in T
    BY <2>1
  <2> HIDE DEF T, y
  <2> QED
    BY <1>2, <2>1, <2>2
<1> QED
  BY <1>3, <1>4, <1>5 DEF Stops

\* LineEnd is such a place, and the line after it starts further on.
LEMMA LineStops ==
  ASSUME PlaceInv, p < end
  PROVE  /\ Stops(read_cache, p, end, LineEnd)
         /\ p < AfterLine(LineEnd) /\ AfterLine(LineEnd) <= end
         /\ AfterLine(LineEnd) \in Nat
<1> DEFINE q == LineEnd
<1>1. \E x : Stops(read_cache, p, end, x)
  BY StopsSomewhere DEF PlaceInv
<1>2. q = CHOOSE x \in p .. end : Stops(read_cache, p, end, x)
  <2>1. \A x \in p .. end :
          Stops(read_cache, p, end, x) <=>
            /\ x = end \/ read_cache[x] = NL \/ x - p = SCRIPT_LINE_MAX - 1
            /\ x - p <= SCRIPT_LINE_MAX - 1
            /\ \A i \in p .. x - 1 : read_cache[i] # NL
    BY DEF Stops
  <2> QED
    BY DEF LineEnd, Stops
<1>3. Stops(read_cache, p, end, q)
  <2>1. \E x \in p .. end : Stops(read_cache, p, end, x)
    BY <1>1 DEF Stops
  <2> HIDE DEF q
  <2> QED
    BY <1>2, <2>1
<1> HIDE DEF q
<1>4. q \in p .. end /\ (q = end \/ read_cache[q] = NL \/ q - p = SCRIPT_LINE_MAX - 1)
  BY <1>3 DEF Stops
<1>5. p < AfterLine(q) /\ AfterLine(q) <= end /\ AfterLine(q) \in Nat
  BY <1>4, ScriptAssumption DEF AfterLine, PlaceInv
<1> QED
  BY <1>3, <1>5 DEF q

\* What a step of the machine does to the script.
ScriptNext == \/ \E v \in Volumes : Start(v)
              \/ Line \/ Finish \/ UNCHANGED scriptVars

LEMMA ScriptSteps == ASSUME [Next]_vars PROVE ScriptNext
<1>1. ASSUME NEW line, Act(line) PROVE ScriptNext
  BY <1>1 DEF Act, cmd_run, lang_repl, cmd_usermode, cmd_reboot, cmd_other, StartMissing,
              ScriptNext
<1>2. ASSUME NEW line \in Lines, ReadLine(line) PROVE ScriptNext
  BY <1>1, <1>2 DEF ReadLine
<1>3. CASE ScriptLine \/ ScriptEnd
  BY <1>3 DEF ScriptLine, ScriptEnd, ScriptNext
<1>4. CASE ForthWord \/ ForthTrap \/ ForthBye
  BY <1>4 DEF ForthWord, ForthTrap, ForthBye, ScriptNext
<1>5. CASE UNCHANGED vars
  BY <1>5 DEF vars, ScriptNext
<1> QED
  BY <1>2, <1>3, <1>4, <1>5 DEF Next

\* A script in a volume is one of Scripts.
LEMMA VolumeScript ==
  ASSUME NEW v \in Volumes, "script" \in DOMAIN v
  PROVE  /\ v["script"] \in Scripts
         /\ v["script"] \in Seq({v["script"][i] : i \in 1 .. Len(v["script"])})
         /\ Len(v["script"]) \in Nat /\ Len(v["script"]) <= FS_MAX_FILE_SIZE
<1>1. v["script"] \in Scripts
  <2>1. CASE v \in [{"script"} -> Scripts]
    BY <2>1
  <2>2. CASE v \in [{"data"} -> Data]
    BY <2>2
  <2>3. ASSUME NEW t \in Scripts, NEW d \in Data,
               v = [g \in {"script", "data"} |-> IF g = "data" THEN d ELSE t]
        PROVE  v["script"] \in Scripts
    BY <2>3
  <2> QED
    BY <2>1, <2>2, <2>3 DEF Volumes
<1> QED
  BY <1>1, ScriptAssumption

LEMMA PlaceStep ==
  ASSUME PlaceInv, ScriptNext
  PROVE  PlaceInv' /\ (running /\ running' => scriptVars' = scriptVars \/
                                             (p' > p /\ p' <= end /\ end' = end))
<1>1. ASSUME NEW v \in Volumes, Start(v) PROVE PlaceInv' /\ ~running
  BY <1>1, VolumeScript DEF Start, PlaceInv
<1>2. CASE Line
  <2>1. p < end /\ end' = end /\ p' = AfterLine(LineEnd)
    BY <1>2 DEF Line
  <2>2. p' > p /\ p' <= end /\ p' \in Nat
    BY <2>1, LineStops DEF PlaceInv
  <2> QED
    BY <2>1, <2>2 DEF PlaceInv
<1>3. CASE Finish
  BY <1>3 DEF Finish, PlaceInv
<1>4. CASE UNCHANGED scriptVars
  BY <1>4 DEF scriptVars, PlaceInv
<1> QED
  BY <1>1, <1>2, <1>3, <1>4 DEF ScriptNext

\* The words of a text, and the text with the newline that ends its last line.
WordsOf(t) == {t[i] : i \in 1 .. Len(t)} \cup {NL}
Whole(t) == t \o <<NL>>
Agrees(d, t) ==
  /\ d \in Seq(WordsOf(t)) /\ Len(d) <= Len(t) + 1
  /\ \A i \in 1 .. Len(d) : d[i] = IF i <= Len(t) THEN t[i] ELSE NL

\* Up to one more line, from word a to word q, which is a newline or the end.
LEMMA OneLineMore ==
  ASSUME NEW t, Len(t) \in Nat, NEW d, Agrees(d, t), NEW a \in Nat, Len(d) = a - 1,
         NEW q \in a .. Len(t) + 1, q = Len(t) + 1 \/ t[q] = NL,
         NEW l \in Seq(WordsOf(t)), Len(l) = q - a,
         \A i \in 1 .. q - a : l[i] = t[a + i - 1]
  PROVE  Agrees(d \o l \o <<NL>>, t) /\ Len(d \o l \o <<NL>>) = q
<1> DEFINE W == WordsOf(t)
           n == Len(t)
           u == d \o l
           x == u \o <<NL>>
<1>0. n \in Nat /\ a >= 1
  BY DEF Agrees
<1>1. d \in Seq(W) /\ l \in Seq(W) /\ <<NL>> \in Seq(W)
  BY DEF Agrees, WordsOf
<1>2. /\ u \in Seq(W) /\ Len(u) = q - 1
      /\ \A i \in 1 .. q - 1 : u[i] = IF i <= a - 1 THEN d[i] ELSE l[i - (a - 1)]
  <2> HIDE DEF W
  <2>1. u \in Seq(W) /\ Len(u) = Len(d) + Len(l)
    BY <1>1, ConcatProperties
  <2>2. Len(u) = q - 1
    BY <1>0, <2>1
  <2>3. \A i \in 1 .. Len(d) + Len(l) : u[i] = IF i <= Len(d) THEN d[i] ELSE l[i - Len(d)]
    BY <1>1, ConcatProperties
  <2> QED
    BY <1>0, <2>1, <2>2, <2>3
<1>3. /\ x \in Seq(W) /\ Len(x) = q /\ x[q] = NL
      /\ \A i \in 1 .. q - 1 : x[i] = u[i]
  <2> HIDE DEF W, u
  <2> QED
    BY <1>0, <1>1, <1>2
<1>4. ASSUME NEW i \in 1 .. q PROVE x[i] = IF i <= n THEN t[i] ELSE NL
  <2> HIDE DEF u, x
  <2>1. CASE i <= a - 1
    <3>1. i \in 1 .. Len(d) /\ i <= n /\ i \in 1 .. q - 1
      BY <1>0, <2>1
    <3> QED
      BY <1>2, <1>3, <2>1, <3>1 DEF Agrees
  <2>2. CASE i > a - 1 /\ i < q
    <3> DEFINE j == i - (a - 1)
    <3>1. j \in 1 .. q - a /\ a + j - 1 = i /\ i <= n /\ i \in 1 .. q - 1
      BY <1>0, <2>2
    <3>2. x[i] = l[j]
      BY <1>2, <1>3, <2>2, <3>1
    <3>3. l[j] = t[a + j - 1]
      <4> HIDE DEF j
      <4> QED
        BY <3>1
    <3> HIDE DEF j
    <3> QED
      BY <3>1, <3>2, <3>3
  <2>3. CASE i = q
    BY <1>0, <1>3, <2>3
  <2> QED
    BY <1>0, <2>1, <2>2, <2>3
<1> HIDE DEF x, W
<1>5. Agrees(x, t) /\ Len(x) = q
  BY <1>0, <1>3, <1>4 DEF Agrees, W
<1> QED
  BY <1>5 DEF x

\* A text no word of which is a command that reads a file, and texts whose lines
\* are shorter than the line buffer of script_run.
Calm(t) == \A i \in 1 .. Len(t) : t[i].word \notin {"cat", "append"}
ShortLines ==
  \A t \in Scripts : \A i \in 1 .. Len(t) :
    i + SCRIPT_LINE_MAX - 1 <= Len(t) =>
      \E j \in i .. i + SCRIPT_LINE_MAX - 1 : t[j] = NL

\* What has been executed ends where the runner is; the last line may be without
\* its newline.
Reached == /\ p < end => Len(done) = p - 1
           /\ p = end => Len(done) \in {end - 1, end}

\* While a calm script runs, read_cache holds it.
OrderInv ==
  /\ ~running => text = <<>> /\ done = <<>>
  /\ running => text \in Scripts /\ end = Len(text) + 1
  /\ running /\ Calm(text) =>
       /\ \A i \in 1 .. Len(text) : read_cache[i] = text[i]
       /\ Agrees(done, text) /\ Reached

\* One turn of the loop of script_run.
LEMMA LineInOrder ==
  ASSUME ShortLines, PlaceInv, OrderInv, Line
  PROVE  OrderInv'
<1> DEFINE t == text
           q == LineEnd
           l == SubSeq(read_cache, p, q - 1)
<1>1. /\ running /\ p < end /\ running' = running /\ end' = end /\ text' = t
      /\ execute_line(l) /\ done' = done \o l \o <<NL>> /\ p' = AfterLine(q)
  BY DEF Line
<1>2. t \in Scripts /\ end = Len(t) + 1 /\ Len(t) \in Nat
  BY <1>1, ScriptAssumption DEF OrderInv
<1> SUFFICES ASSUME Calm(t)
             PROVE  /\ \A i \in 1 .. Len(t) : read_cache'[i] = t[i]
                    /\ Agrees(done', t) /\ Reached'
  BY <1>1, <1>2 DEF OrderInv, Calm
<1>3. /\ \A i \in 1 .. Len(t) : read_cache[i] = t[i]
      /\ Agrees(done, t) /\ Len(done) = p - 1
  BY <1>1 DEF OrderInv, Reached
<1>4. /\ q \in p .. end /\ q - p <= SCRIPT_LINE_MAX - 1
      /\ q = end \/ read_cache[q] = NL \/ q - p = SCRIPT_LINE_MAX - 1
      /\ \A i \in p .. q - 1 : read_cache[i] # NL
  BY <1>1, LineStops DEF Stops
<1> HIDE DEF q
<1>5. p \in Nat /\ p >= 1 /\ end \in Nat
  BY DEF PlaceInv
<1>6. q = end \/ t[q] = NL
  <2>1. CASE q # end /\ q - p = SCRIPT_LINE_MAX - 1
    <3>1. q \in 1 .. Len(t) /\ p \in 1 .. Len(t) /\ p + SCRIPT_LINE_MAX - 1 = q
      BY <1>2, <1>4, <1>5, <2>1, ScriptAssumption
    <3>2. PICK j \in p .. p + SCRIPT_LINE_MAX - 1 : t[j] = NL
      BY <1>2, <3>1 DEF ShortLines
    <3>3. j \in 1 .. Len(t) /\ j <= q /\ j >= p
      BY <1>5, <3>1, <3>2
    <3>4. ~(j \in p .. q - 1)
      BY <1>3, <1>4, <3>2, <3>3
    <3> QED
      BY <1>4, <1>5, <3>2, <3>3, <3>4
  <2>2. CASE q # end /\ read_cache[q] = NL
    BY <1>2, <1>3, <1>4, <1>5, <2>2
  <2> QED
    BY <1>4, <2>1, <2>2
<1>7. /\ l \in Seq(WordsOf(t)) /\ Len(l) = q - p
      /\ \A i \in 1 .. q - p : l[i] = t[p + i - 1]
  <2>1. ASSUME NEW i \in p .. q - 1
        PROVE  read_cache[i] = t[i] /\ read_cache[i] \in WordsOf(t)
    BY <1>2, <1>3, <1>4, <1>5, <2>1 DEF WordsOf
  <2>2. /\ l \in Seq(WordsOf(t))
        /\ Len(l) = IF p <= q - 1 THEN (q - 1) - p + 1 ELSE 0
        /\ \A i \in 1 .. (q - 1) - p + 1 : l[i] = read_cache[p + i - 1]
    BY <1>4, <1>5, <2>1, SubSeqProperties
  <2>3. Len(l) = q - p
    BY <1>4, <1>5, <2>2
  <2>4. ASSUME NEW i \in 1 .. q - p PROVE l[i] = t[p + i - 1]
    <3>1. i \in 1 .. (q - 1) - p + 1 /\ p + i - 1 \in p .. q - 1
      BY <1>4, <1>5
    <3> QED
      BY <2>1, <2>2, <3>1
  <2> QED
    BY <2>2, <2>3, <2>4
<1>8. read_cache' = read_cache
  <2> DEFINE first == IF l = <<>> THEN NUL ELSE Head(l)
  <2>1. first.word \notin {"cat", "append"}
    <3>1. CASE l = <<>>
      BY <3>1 DEF NUL, Word
    <3>2. CASE l # <<>>
      <4>1. q - p >= 1 /\ Head(l) = l[1]
        BY <1>4, <1>5, <1>7, <3>2
      <4>2. l[1] = t[p] /\ p \in 1 .. Len(t)
        BY <1>1, <1>2, <1>4, <1>5, <1>7, <4>1
      <4> QED
        BY <3>2, <4>1, <4>2 DEF Calm
    <3> QED
      BY <3>1, <3>2
  <2> HIDE DEF l
  <2> QED
    BY <1>1, <2>1 DEF execute_line, Write, RemoveFile
<1> HIDE DEF l
<1>9. Agrees(done', t) /\ Len(done') = q
  <2>1. q \in p .. Len(t) + 1 /\ (q = Len(t) + 1 \/ t[q] = NL)
    BY <1>2, <1>4, <1>6
  <2>2. Agrees(done, t) /\ Len(done) = p - 1 /\ Len(t) \in Nat /\ p \in Nat
    BY <1>2, <1>3, <1>5
  <2> HIDE DEF t
  <2>3. Agrees(done \o l \o <<NL>>, t) /\ Len(done \o l \o <<NL>>) = q
    BY <1>7, <2>1, <2>2, OneLineMore
  <2> QED
    BY <1>1, <2>3
<1>10. Reached'
  <2>1. p' = IF q < end /\ read_cache[q] = NL THEN q + 1 ELSE q
    BY <1>1 DEF AfterLine
  <2>2. CASE q = end
    BY <1>1, <1>5, <1>9, <2>1, <2>2 DEF Reached
  <2>3. CASE q # end
    <3>1. q < end /\ read_cache[q] = NL
      BY <1>2, <1>3, <1>4, <1>5, <1>6, <2>3
    <3>2. p' = q + 1
      BY <2>1, <3>1
    <3> QED
      BY <1>1, <1>4, <1>5, <1>9, <3>1, <3>2 DEF Reached
  <2> QED
    BY <2>2, <2>3
<1> QED
  BY <1>3, <1>8, <1>9, <1>10

\* The script is read into the buffer.
LEMMA StartInOrder ==
  ASSUME NEW v \in Volumes, Start(v)
  PROVE  OrderInv'
<1> DEFINE t == v["script"]
           b == [i \in 1 .. FS_MAX_FILE_SIZE + 1 |-> NUL]
           r == SubSeq(b, Len(t) + 2, Len(b))
<1>1. /\ running' = TRUE /\ p' = 1 /\ end' = Len(t) + 1 /\ text' = t /\ done' = <<>>
      /\ read_cache' = t \o <<NUL>> \o r /\ "script" \in DOMAIN v
  BY DEF Start, Load
<1>2. /\ t \in Scripts /\ t \in Seq({t[i] : i \in 1 .. Len(t)})
      /\ Len(t) \in Nat /\ Len(t) <= FS_MAX_FILE_SIZE
  BY <1>1, VolumeScript
<1>3. Agrees(<<>>, t)
  <2>1. <<>> \in Seq(WordsOf(t)) /\ Len(<<>>) = 0
    OBVIOUS
  <2> HIDE DEF t
  <2> QED
    BY <1>2, <2>1 DEF Agrees
<1>4. \A i \in 1 .. Len(t) : (t \o <<NUL>> \o r)[i] = t[i]
  <2> DEFINE W == WordsOf(t) \cup {NUL}
  <2>1. b \in Seq(W) /\ Len(b) = FS_MAX_FILE_SIZE + 1
    BY ScriptAssumption
  <2>2. \A i \in Len(t) + 2 .. Len(b) : b[i] \in W
    <3>1. \A i \in 1 .. FS_MAX_FILE_SIZE + 1 : b[i] = NUL
      OBVIOUS
    <3>2. NUL \in W
      OBVIOUS
    <3>3. Len(t) + 2 .. Len(b) \subseteq 1 .. FS_MAX_FILE_SIZE + 1
      <4> HIDE DEF t, b
      <4> QED
        BY <1>2, <2>1, ScriptAssumption
    <3> HIDE DEF b, W
    <3> QED
      BY <3>1, <3>2, <3>3
  <2>3. r \in Seq(W)
    <3> HIDE DEF b, W, t
    <3>1. Len(t) + 2 \in Int /\ Len(b) \in Int
      BY <1>2, <2>1, ScriptAssumption
    <3> QED
      BY <2>2, <3>1, SubSeqProperties
  <2>4. t \in Seq(W)
    BY <1>2 DEF WordsOf
  <2>5. <<NUL>> \in Seq(W)
    OBVIOUS
  <2> HIDE DEF W, r, t
  <2> DEFINE u == t \o <<NUL>>
  <2>6. u \in Seq(W) /\ Len(u) = Len(t) + 1 /\ \A i \in 1 .. Len(t) : u[i] = t[i]
    BY <1>2, <2>4, <2>5
  <2> HIDE DEF u
  <2>7. \A i \in 1 .. Len(u) : (u \o r)[i] = u[i]
    BY <2>3, <2>6
  <2> QED
    BY <1>2, <2>6, <2>7 DEF u
<1>5. Reached'
  <2>1. Len(<<>>) = 0
    OBVIOUS
  <2> HIDE DEF t
  <2> QED
    BY <1>1, <1>2, <2>1 DEF Reached
<1> HIDE DEF t, r
<1> QED
  BY <1>1, <1>2, <1>3, <1>4, <1>5 DEF OrderInv

LEMMA OrderStep ==
  ASSUME ShortLines, PlaceInv, OrderInv, ScriptNext
  PROVE  OrderInv'
<1>1. CASE \E v \in Volumes : Start(v)
  BY <1>1, StartInOrder
<1>2. CASE Line
  BY <1>2, LineInOrder
<1>3. CASE Finish
  BY <1>3 DEF Finish, OrderInv
<1>4. CASE UNCHANGED scriptVars
  BY <1>4 DEF scriptVars, OrderInv, Calm, Reached
<1> QED
  BY <1>1, <1>2, <1>3, <1>4 DEF ScriptNext

LEMMA AgreesIsPrefix ==
  ASSUME NEW t, t \in Seq({t[i] : i \in 1 .. Len(t)}), NEW d, Agrees(d, t)
  PROVE  IsPrefix(d, Whole(t))
<1> DEFINE W == WordsOf(t)
           x == Whole(t)
           n == Len(d)
<1>1. t \in Seq(W) /\ <<NL>> \in Seq(W) /\ d \in Seq(W) /\ n \in Nat /\ Len(t) \in Nat
  BY DEF WordsOf, Agrees
<1> HIDE DEF W
<1>2. /\ x \in Seq(W) /\ Len(x) = Len(t) + 1
      /\ \A i \in 1 .. Len(t) + 1 : x[i] = IF i <= Len(t) THEN t[i] ELSE NL
  <2> DEFINE y == <<NL>>
  <2>1. Len(y) = 1 /\ y[1] = NL /\ y \in Seq(W)
    BY <1>1
  <2>2. x = t \o y
    BY DEF Whole
  <2> HIDE DEF y, x
  <2>3. /\ x \in Seq(W) /\ Len(x) = Len(t) + Len(y)
        /\ \A i \in 1 .. Len(t) + Len(y) : x[i] = IF i <= Len(t) THEN t[i] ELSE y[i - Len(t)]
    BY <1>1, <2>1, <2>2, ConcatProperties
  <2>4. ASSUME NEW i \in 1 .. Len(t) + 1 PROVE x[i] = IF i <= Len(t) THEN t[i] ELSE NL
    <3>1. i <= Len(t) \/ i - Len(t) = 1
      BY <1>1
    <3> QED
      BY <1>1, <2>1, <2>3, <3>1
  <2> QED
    BY <2>1, <2>3, <2>4
<1> HIDE DEF x
<1>3. n <= Len(x) /\ \A i \in 1 .. n : d[i] = x[i]
  <2>1. n <= Len(t) + 1 /\ \A i \in 1 .. n : d[i] = IF i <= Len(t) THEN t[i] ELSE NL
    BY DEF Agrees
  <2> HIDE DEF n
  <2>2. 1 .. n \subseteq 1 .. Len(t) + 1
    BY <1>1, <2>1
  <2> QED
    BY <1>2, <2>1, <2>2
<1>4. /\ SubSeq(d, 1, n) \in Seq(W) /\ Len(SubSeq(d, 1, n)) = n
      /\ \A i \in 1 .. n : SubSeq(d, 1, n)[i] = d[i]
  BY <1>1
<1>5. /\ SubSeq(x, 1, n) \in Seq(W) /\ Len(SubSeq(x, 1, n)) = n
      /\ \A i \in 1 .. n : SubSeq(x, 1, n)[i] = x[i]
  BY <1>1, <1>2, <1>3
<1>6. SubSeq(d, 1, n) = SubSeq(x, 1, n)
  BY <1>3, <1>4, <1>5, SeqEqual
<1> QED
  BY <1>3, <1>6 DEF IsPrefix, x

LEMMA InOrder == OrderInv => UndisturbedInOrder
<1> SUFFICES ASSUME OrderInv, Calm(text) PROVE IsPrefix(done, Whole(text))
  BY DEF UndisturbedInOrder, LinesInOrder, Calm, Whole
<1>1. text \in Seq({text[i] : i \in 1 .. Len(text)}) /\ Agrees(done, text)
  <2>1. CASE running
    BY <2>1, ScriptAssumption DEF OrderInv
  <2>2. CASE ~running
    <3>1. text = <<>> /\ done = <<>>
      BY <2>2 DEF OrderInv
    <3>2. <<>> \in Seq(WordsOf(<<>>)) /\ Len(<<>>) = 0 /\ 1 .. 0 = {}
      OBVIOUS
    <3>3. Agrees(<<>>, <<>>)
      BY <3>2 DEF Agrees
    <3>4. \A S : <<>> \in Seq(S)
      OBVIOUS
    <3> QED
      BY <3>1, <3>3, <3>4
  <2> QED
    BY <2>1, <2>2
<1> QED
  BY <1>1, AgreesIsPrefix

-----------------------------------------------------------------------------
(* Theorems about the shell and its scripts *)

\* history always shows the last lines that were acted upon, whole and in order,
\* for any size of the history and whatever is typed (save_history, and the
\* place of its call before split_cmd in shell_run).
THEOREM HistoryAlwaysRecent == Spec => []HistoryIsRecent
<1>1. Init => HistoryInv
  BY ShellAssumption DEF Init, HistoryInv, Kept
<1>2. HistoryInv /\ [Next]_vars => HistoryInv'
  BY HistoryStep
<1> QED
  BY <1>1, <1>2, Recent, PTL DEF Spec

LEMMA ScriptStart == ASSUME Init PROVE PlaceInv /\ OrderInv
BY DEF Init, Idle, PlaceInv, OrderInv

\* Every turn of the loop of script_run moves forward to an end that stays where
\* it was, whatever is in the buffer: for every script and every line buffer of
\* at least two words.
THEOREM AlwaysAdvances == Spec => Advances
<1>1. Init => PlaceInv
  BY ScriptStart
<1>2. PlaceInv /\ [Next]_vars => PlaceInv'
  BY ScriptSteps, PlaceStep
<1>3. PlaceInv /\ [Next]_vars =>
        [running /\ running' => p' > p /\ p' <= end /\ end' = end]_scriptVars
  BY ScriptSteps, PlaceStep
<1> QED
  BY <1>1, <1>2, <1>3, PTL DEF Spec, Advances

\* A script none of whose words reads a file is executed line for line, whatever
\* it writes and removes, itself included: for all scripts whose lines are
\* shorter than the line buffer of script_run.
THEOREM AlwaysInOrder ==
  ASSUME ShortLines
  PROVE  Spec => []UndisturbedInOrder
<1>1. Init => PlaceInv /\ OrderInv
  BY ScriptStart
<1>2. PlaceInv /\ OrderInv /\ [Next]_vars => (PlaceInv /\ OrderInv)'
  BY ScriptSteps, PlaceStep, OrderStep
<1> QED
  BY <1>1, <1>2, InOrder, PTL DEF Spec

-----------------------------------------------------------------------------
(* The Forth interpreter *)

\* The stack of lang.c; outside of lang_repl no word is being executed.
StackInv ==
  /\ stack \in Seq(Int) /\ Len(stack) <= STACK_MAX
  /\ mode \in {"prompt", "script"} => word = "none"

\* What StackDiscipline asks of word w, from stack s to stack u: of every word,
\* of one that complains and of one that does not.
Above(w, s, u) ==
  /\ u \in Seq(Int) /\ Len(u) <= STACK_MAX
  /\ Below(s, Takes[w]) = SubSeq(u, 1, Len(s) - Takes[w])
Complains(w, s, u) == Above(w, s, u) /\ Len(u) <= Len(s)
Succeeds(w, s, u) ==
  Above(w, s, u) /\ (w = "clear" \/ Len(u) = Len(s) - Takes[w] + Leaves[w])

LEMMA SamePrefix ==
  ASSUME NEW s \in Seq(Int), NEW u \in Seq(Int), NEW k \in Int,
         k <= Len(s), k <= Len(u), \A i \in 1 .. k : s[i] = u[i]
  PROVE  SubSeq(s, 1, k) = SubSeq(u, 1, k)
<1>1. CASE k < 1
  <2>1. SubSeq(s, 1, k) = <<>> /\ SubSeq(u, 1, k) = <<>>
    BY <1>1, SubSeqEmpty
  <2> QED
    BY <2>1
<1>2. CASE k >= 1
  <2>1. /\ SubSeq(s, 1, k) \in Seq(Int) /\ Len(SubSeq(s, 1, k)) = k
        /\ \A i \in 1 .. k : SubSeq(s, 1, k)[i] = s[i]
    BY <1>2
  <2>2. /\ SubSeq(u, 1, k) \in Seq(Int) /\ Len(SubSeq(u, 1, k)) = k
        /\ \A i \in 1 .. k : SubSeq(u, 1, k)[i] = u[i]
    BY <1>2
  <2> QED
    BY <2>1, <2>2, SeqEqual
<1> QED
  BY <1>1, <1>2

\* A word that leaves what lies below the values it takes.
LEMMA Discipline ==
  ASSUME NEW w, NEW s \in Seq(Int), NEW u \in Seq(Int), Takes[w] \in Nat,
         Len(u) <= STACK_MAX, Len(s) - Takes[w] <= Len(u) \/ Len(s) <= Takes[w],
         \A i \in 1 .. Len(s) - Takes[w] : s[i] = u[i]
  PROVE  Above(w, s, u)
<1> DEFINE k == Len(s) - Takes[w]
<1>1. k \in Int /\ k <= Len(s) /\ (k <= Len(u) \/ k < 1)
  OBVIOUS
<1>2. SubSeq(s, 1, k) = SubSeq(u, 1, k)
  <2>0. \A i \in 1 .. k : s[i] = u[i]
    OBVIOUS
  <2> HIDE DEF k
  <2>1. CASE k <= Len(u)
    BY <1>1, <2>0, <2>1, SamePrefix
  <2>2. CASE k < 1
    <3>1. SubSeq(s, 1, k) = <<>> /\ SubSeq(u, 1, k) = <<>>
      BY <1>1, <2>2, SubSeqEmpty
    <3> QED
      BY <3>1
  <2> QED
    BY <1>1, <2>1, <2>2
<1> QED
  BY <1>2 DEF Above, Below

LEMMA TakesLeaves ==
  /\ \A w \in Binary : Takes[w] = 2 /\ Leaves[w] = 1
  /\ Takes["swap"] = 2 /\ Leaves["swap"] = 2
  /\ Takes["dup"] = 1 /\ Leaves["dup"] = 2
  /\ \A w \in {"drop", "."} : Takes[w] = 1 /\ Leaves[w] = 0
  /\ Takes["clear"] = STACK_MAX /\ Leaves["clear"] = 0
  /\ Takes["number"] = 0 /\ Leaves["number"] = 1
  /\ \A w \in {".s", "unknown"} : Takes[w] = 0 /\ Leaves[w] = 0
BY DEF Takes, Leaves, ForthWords, Binary

LEMMA WrapInt == ASSUME NEW v \in Int PROVE Wrap(v) \in Int
<1>1. WordSize \in Nat /\ WordSize > 0
  BY ForthAssumption
<1>2. Lowest \in Int
  BY <1>1 DEF Lowest
<1>3. \A x \in Int, y \in Nat : y > 0 => x % y \in Int
  OBVIOUS
<1> QED
  BY <1>1, <1>2, <1>3 DEF Wrap

LEMMA ResultInt ==
  ASSUME NEW w \in Binary, NEW a \in Int, NEW b \in Int, ~(w = "/" /\ b = 0)
  PROVE  Result(w, a, b) \in Int
<1>1. CASE w = "+"
  BY <1>1, WrapInt DEF Result
<1>2. CASE w = "-"
  BY <1>2, WrapInt DEF Result
<1>3. CASE w = "*"
  <2>1. a * b \in Int
    OBVIOUS
  <2> QED
    BY <1>3, <2>1, WrapInt DEF Result
<1>4. CASE w = "/"
  <2>1. Abs(a) \in Nat /\ Abs(b) \in Nat /\ Abs(b) > 0
    BY <1>4 DEF Abs
  <2>2. \A x, y \in Nat : y > 0 => x \div y \in Int
    OBVIOUS
  <2>3. Abs(a) \div Abs(b) \in Int
    BY <2>1, <2>2
  <2>4. Quotient(a, b) \in Int
    BY <2>3 DEF Quotient
  <2> QED
    BY <1>4, <2>4 DEF Result
<1> QED
  BY <1>1, <1>2, <1>3, <1>4 DEF Binary

\* +, -, * and / on a stack with enough values, with one result, and when a
\* division pushes both of its values again.
LEMMA BinaryAbove ==
  ASSUME NEW w \in Binary, NEW s \in Seq(Int), Len(s) >= 2, Len(s) <= STACK_MAX,
         NEW a \in Int, NEW b \in Int, STACK_MAX \in Nat
  PROVE  /\ Succeeds(w, s, Append(SubSeq(s, 1, Len(s) - 2), a))
         /\ Complains(w, s, SubSeq(s, 1, Len(s) - 2) \o <<a, b>>)
<1> DEFINE n == Len(s)
           rest == SubSeq(s, 1, n - 2)
           u == Append(rest, a)
           y == <<a, b>>
           v == rest \o y
<1>1. n \in Nat /\ Takes[w] = 2 /\ Leaves[w] = 1
  BY TakesLeaves
<1>2. /\ rest \in Seq(Int) /\ Len(rest) = n - 2
      /\ \A i \in 1 .. n - 2 : rest[i] = s[i]
  <2>1. \A i \in 1 .. n - 2 : s[i] \in Int
    OBVIOUS
  <2>2. /\ rest \in Seq(Int) /\ Len(rest) = IF 1 <= n - 2 THEN (n - 2) - 1 + 1 ELSE 0
        /\ \A i \in 1 .. (n - 2) - 1 + 1 : rest[i] = s[1 + i - 1]
    BY <1>1, <2>1, SubSeqProperties
  <2> HIDE DEF rest, n
  <2>3. n >= 2
    BY DEF n
  <2>4. Len(rest) = n - 2
    BY <1>1, <2>2, <2>3
  <2>5. ASSUME NEW i \in 1 .. n - 2 PROVE rest[i] = s[i]
    <3>1. i \in 1 .. (n - 2) - 1 + 1 /\ 1 + i - 1 = i
      BY <1>1, <2>3
    <3> QED
      BY <2>2, <3>1
  <2> QED
    BY <2>2, <2>4, <2>5
<1> HIDE DEF rest
<1>3. u \in Seq(Int) /\ Len(u) = n - 1 /\ \A i \in 1 .. n - 2 : s[i] = u[i]
  BY <1>1, <1>2
<1>4. y \in Seq(Int) /\ Len(y) = 2
  OBVIOUS
<1> HIDE DEF y
<1>5. v \in Seq(Int) /\ Len(v) = n /\ \A i \in 1 .. n - 2 : s[i] = v[i]
  <2>1. /\ v \in Seq(Int) /\ Len(v) = Len(rest) + Len(y)
        /\ \A i \in 1 .. Len(rest) : v[i] = rest[i]
    <3> HIDE DEF n
    <3>1. /\ v \in Seq(Int) /\ Len(v) = Len(rest) + Len(y)
          /\ \A i \in 1 .. Len(rest) + Len(y) :
               v[i] = IF i <= Len(rest) THEN rest[i] ELSE y[i - Len(rest)]
      BY <1>2, <1>4, ConcatProperties
    <3>2. Len(rest) \in Nat
      BY <1>2
    <3> QED
      BY <1>4, <3>1, <3>2
  <2> HIDE DEF v
  <2> QED
    BY <1>1, <1>2, <1>4, <2>1
<1> HIDE DEF u, v
<1>0. Len(s) - Takes[w] = n - 2 /\ Takes[w] \in Nat
  BY <1>1
<1>6. Above(w, s, u)
  <2>1. /\ Len(s) - Takes[w] <= Len(u) /\ Len(u) <= STACK_MAX
        /\ \A i \in 1 .. Len(s) - Takes[w] : s[i] = u[i]
    BY <1>0, <1>1, <1>3
  <2> QED
    BY <1>0, <1>3, <2>1, Discipline
<1>7. Above(w, s, v)
  <2>1. /\ Len(s) - Takes[w] <= Len(v) /\ Len(v) <= STACK_MAX
        /\ \A i \in 1 .. Len(s) - Takes[w] : s[i] = v[i]
    BY <1>0, <1>1, <1>5
  <2> QED
    BY <1>0, <1>5, <2>1, Discipline
<1>8. Succeeds(w, s, u) /\ Complains(w, s, v)
  BY <1>1, <1>3, <1>5, <1>6, <1>7 DEF Succeeds, Complains
<1> QED
  BY <1>8 DEF u, v, y, rest

\* A word that empties the stack, or leaves it alone with a complaint.
LEMMA EmptiedOrAlone ==
  ASSUME NEW w, NEW s \in Seq(Int), Len(s) <= STACK_MAX, Takes[w] \in Nat,
         STACK_MAX \in Nat
  PROVE  /\ Complains(w, s, s)
         /\ Len(s) <= Takes[w] => Complains(w, s, <<>>)
<1>1. Above(w, s, s)
  BY Discipline
<1>2. <<>> \in Seq(Int) /\ Len(<<>>) = 0
  OBVIOUS
<1>3. ASSUME Len(s) <= Takes[w] PROVE Above(w, s, <<>>)
  <2> DEFINE z == <<>>
  <2>1. z \in Seq(Int) /\ Len(z) <= STACK_MAX /\ \A i \in 1 .. Len(s) - Takes[w] : s[i] = z[i]
    BY <1>2, <1>3
  <2> HIDE DEF z
  <2>2. Above(w, s, z)
    BY <1>3, <2>1, Discipline
  <2> QED
    BY <2>2 DEF z
<1> QED
  BY <1>1, <1>2, <1>3 DEF Complains

\* The words that move values.
LEMMA MoversAbove ==
  ASSUME NEW s \in Seq(Int), Len(s) <= STACK_MAX, STACK_MAX \in Nat
  PROVE  /\ Len(s) > 0 /\ Len(s) < STACK_MAX => Succeeds("dup", s, Append(s, s[Len(s)]))
         /\ \A x \in Int : Len(s) < STACK_MAX => Succeeds("number", s, Append(s, x))
         /\ \A w \in {"drop", "."} : Len(s) > 0 => Succeeds(w, s, Front(s))
         /\ Len(s) >= 2 => Succeeds("swap", s, [s EXCEPT ![Len(s)] = s[Len(s) - 1],
                                                        ![Len(s) - 1] = s[Len(s)]])
<1> DEFINE n == Len(s)
<1>0. n \in Nat /\ n <= STACK_MAX
  OBVIOUS
<1>1. ASSUME NEW x \in Int, n < STACK_MAX, NEW w, Takes[w] \in Nat
      PROVE  Above(w, s, Append(s, x)) /\ Len(Append(s, x)) = n + 1
  <2> DEFINE u == Append(s, x)
  <2>1. u \in Seq(Int) /\ Len(u) = n + 1 /\ \A i \in 1 .. n : s[i] = u[i]
    OBVIOUS
  <2> HIDE DEF u
  <2>2. \A i \in 1 .. Len(s) - Takes[w] : s[i] = u[i]
    BY <1>0, <1>1, <2>1
  <2>3. Len(s) - Takes[w] <= Len(u) /\ Len(u) <= STACK_MAX
    BY <1>0, <1>1, <2>1
  <2>4. Above(w, s, u)
    BY <1>1, <2>1, <2>2, <2>3, Discipline
  <2> QED
    BY <2>1, <2>4 DEF u
<1>2. ASSUME n > 0, n < STACK_MAX PROVE Succeeds("dup", s, Append(s, s[n]))
  <2>1. s[n] \in Int /\ Takes["dup"] = 1 /\ Leaves["dup"] = 2
    BY <1>2, TakesLeaves
  <2> QED
    BY <1>0, <1>1, <1>2, <2>1 DEF Succeeds
<1>3. ASSUME NEW x \in Int, n < STACK_MAX PROVE Succeeds("number", s, Append(s, x))
  <2>1. Takes["number"] = 0 /\ Leaves["number"] = 1
    BY TakesLeaves
  <2> QED
    BY <1>0, <1>1, <1>3, <2>1 DEF Succeeds
<1>4. ASSUME NEW w \in {"drop", "."}, n > 0 PROVE Succeeds(w, s, Front(s))
  <2> DEFINE u == SubSeq(s, 1, n - 1)
  <2>1. Takes[w] = 1 /\ Leaves[w] = 0
    BY TakesLeaves
  <2>2. u \in Seq(Int) /\ Len(u) = n - 1 /\ \A i \in 1 .. n - 1 : s[i] = u[i]
    <3>1. \A i \in 1 .. n - 1 : s[i] \in Int
      OBVIOUS
    <3>2. /\ u \in Seq(Int) /\ Len(u) = IF 1 <= n - 1 THEN (n - 1) - 1 + 1 ELSE 0
          /\ \A i \in 1 .. (n - 1) - 1 + 1 : u[i] = s[1 + i - 1]
      BY <1>0, <3>1, SubSeqProperties
    <3> HIDE DEF u, n
    <3>3. Len(u) = n - 1
      BY <1>0, <1>4, <3>2
    <3>4. ASSUME NEW i \in 1 .. n - 1 PROVE s[i] = u[i]
      <4>1. i \in 1 .. (n - 1) - 1 + 1 /\ 1 + i - 1 = i
        BY <1>0
      <4> QED
        BY <3>2, <4>1
    <3> QED
      BY <3>2, <3>3, <3>4
  <2> HIDE DEF u
  <2>3. Len(s) - Takes[w] = n - 1 /\ Takes[w] \in Nat
    BY <2>1
  <2>4. Len(s) - Takes[w] <= Len(u) /\ Len(u) <= STACK_MAX
        /\ \A i \in 1 .. Len(s) - Takes[w] : s[i] = u[i]
    BY <1>0, <1>4, <2>2, <2>3
  <2>5. Above(w, s, u)
    BY <2>2, <2>3, <2>4, Discipline
  <2>6. Succeeds(w, s, u)
    BY <1>0, <2>1, <2>2, <2>5 DEF Succeeds
  <2>7. Front(s) = u
    BY DEF Front, u
  <2> QED
    BY <2>6, <2>7
<1>5. ASSUME n >= 2
      PROVE  Succeeds("swap", s, [s EXCEPT ![n] = s[n - 1], ![n - 1] = s[n]])
  <2> DEFINE u == [s EXCEPT ![n] = s[n - 1], ![n - 1] = s[n]]
  <2>1. Takes["swap"] = 2 /\ Leaves["swap"] = 2
    BY TakesLeaves
  <2>2. u \in Seq(Int) /\ Len(u) = n /\ \A i \in 1 .. n - 2 : s[i] = u[i]
    BY <1>0, <1>5
  <2> HIDE DEF u
  <2>3. Len(s) - Takes["swap"] = n - 2 /\ Takes["swap"] \in Nat
    BY <2>1
  <2>4. Len(s) - Takes["swap"] <= Len(u) /\ Len(u) <= STACK_MAX
        /\ \A i \in 1 .. Len(s) - Takes["swap"] : s[i] = u[i]
    BY <1>0, <1>5, <2>2, <2>3
  <2>5. Above("swap", s, u)
    BY <2>2, <2>3, <2>4, Discipline
  <2>6. Succeeds("swap", s, u)
    BY <1>0, <2>1, <2>2, <2>5 DEF Succeeds
  <2> QED
    BY <2>6 DEF u
<1> QED
  BY <1>2, <1>3, <1>4, <1>5

\* The words that take all of the stack or nothing.
LEMMA OthersAbove ==
  ASSUME NEW s \in Seq(Int), Len(s) <= STACK_MAX, STACK_MAX \in Nat
  PROVE  /\ Succeeds("clear", s, <<>>)
         /\ \A w \in {".s", "unknown"} : Succeeds(w, s, s) /\ Complains(w, s, s)
         /\ \A w \in ForthWords : Complains(w, s, s)
         /\ \A w \in Binary : Len(s) < 2 => Complains(w, s, <<>>)
<1>0. Len(s) \in Nat
  OBVIOUS
<1>1. \A w \in ForthWords : Takes[w] \in Nat
  BY TakesLeaves DEF ForthWords
<1>2. \A w \in ForthWords : Complains(w, s, s)
  BY <1>1, EmptiedOrAlone
<1>3. ASSUME NEW w \in {".s", "unknown"} PROVE Succeeds(w, s, s)
  <2>1. Takes[w] = 0 /\ Leaves[w] = 0 /\ w \in ForthWords
    BY TakesLeaves DEF ForthWords
  <2> QED
    BY <1>0, <1>2, <2>1 DEF Complains, Succeeds
<1>4. Succeeds("clear", s, <<>>)
  <2>1. Takes["clear"] = STACK_MAX
    BY TakesLeaves
  <2>2. Complains("clear", s, <<>>)
    BY <2>1, EmptiedOrAlone
  <2> QED
    BY <2>2 DEF Complains, Succeeds
<1>5. ASSUME NEW w \in Binary, Len(s) < 2 PROVE Complains(w, s, <<>>)
  <2>1. Takes[w] = 2
    BY TakesLeaves
  <2>2. Takes[w] \in Nat /\ Len(s) <= Takes[w]
    BY <1>0, <1>5, <2>1
  <2> QED
    BY <2>2, EmptiedOrAlone
<1> QED
  BY <1>2, <1>3, <1>4, <1>5 DEF ForthWords

\* Every word.
Behaves(w) == \/ complaint' = TRUE /\ Complains(w, stack, stack')
              \/ complaint' = FALSE /\ Succeeds(w, stack, stack')

LEMMA WordBehaves ==
  ASSUME StackInv, NEW w \in ForthWords, Execute(w)
  PROVE  Behaves(w)
<1> DEFINE s == stack
<1>1. s \in Seq(Int) /\ Len(s) <= STACK_MAX /\ STACK_MAX \in Nat /\ Len(s) \in Nat
  BY ForthAssumption DEF StackInv
<1>2. ASSUME w \in Binary, Operate(w) PROVE Behaves(w)
  <2>1. CASE sp < 2
    <3>1. stack' = <<>> /\ complaint' = TRUE
      BY <1>2, <2>1 DEF Operate, Leave
    <3>2. Complains(w, s, <<>>)
      BY <1>1, <1>2, <2>1, OthersAbove DEF sp
    <3> QED
      BY <3>1, <3>2 DEF Behaves
  <2>2. CASE ~(sp < 2)
    <3> DEFINE a == s[sp - 1]
               b == s[sp]
               rest == SubSeq(s, 1, sp - 2)
    <3>1. Len(s) >= 2 /\ sp = Len(s)
      BY <1>1, <2>2 DEF sp
    <3>2. a \in Int /\ b \in Int
      BY <1>1, <3>1
    <3>3. CASE w = "/" /\ b = 0
      <4>1. stack' = rest \o <<a, b>> /\ complaint' = TRUE
        BY <1>2, <2>2, <3>3 DEF Operate, Leave
      <4>2. Complains(w, s, rest \o <<a, b>>)
        <5> HIDE DEF a, b, s
        <5> QED
          BY <1>1, <1>2, <3>1, <3>2, BinaryAbove
      <4> QED
        BY <4>1, <4>2 DEF Behaves
    <3>4. CASE ~(w = "/" /\ b = 0)
      <4> DEFINE r == Result(w, a, b)
      <4>1. stack' = Append(rest, r) /\ complaint' = FALSE
        BY <1>2, <2>2, <3>4 DEF Operate, Leave
      <4>2. r \in Int
        BY <1>2, <3>2, <3>4, ResultInt
      <4>3. Succeeds(w, s, Append(rest, r))
        <5> HIDE DEF r, s
        <5> QED
          BY <1>1, <1>2, <3>1, <4>2, BinaryAbove
      <4> QED
        BY <4>1, <4>3 DEF Behaves
    <3> QED
      BY <3>3, <3>4
  <2> QED
    BY <2>1, <2>2
<1>3. ASSUME stack' = stack, complaint' = TRUE PROVE Behaves(w)
  BY <1>1, <1>3, OthersAbove DEF Behaves
<1>4. ASSUME w = "dup", Dup PROVE Behaves(w)
  <2>1. CASE sp = 0 \/ Full
    BY <1>3, <1>4, <2>1 DEF Dup, Leave
  <2>2. CASE ~(sp = 0 \/ Full)
    <3>1. stack' = Append(s, s[sp]) /\ complaint' = FALSE
      BY <1>4, <2>2 DEF Dup, Leave
    <3>2. sp = Len(s) /\ Len(s) > 0 /\ Len(s) < STACK_MAX
      BY <1>1, <2>2 DEF sp, Full
    <3>3. Succeeds("dup", s, Append(s, s[sp]))
      BY <1>1, <3>2, MoversAbove
    <3> QED
      BY <1>4, <3>1, <3>3 DEF Behaves
  <2> QED
    BY <2>1, <2>2
<1>5. ASSUME w \in {"drop", "."}, Drop PROVE Behaves(w)
  <2>1. CASE sp = 0
    BY <1>3, <1>5, <2>1 DEF Drop, Leave
  <2>2. CASE sp # 0
    <3>1. stack' = Front(s) /\ complaint' = FALSE
      BY <1>5, <2>2 DEF Drop, Leave
    <3>2. Len(s) > 0
      BY <1>1, <2>2 DEF sp
    <3>3. Succeeds(w, s, Front(s))
      BY <1>1, <1>5, <3>2, MoversAbove
    <3> QED
      BY <3>1, <3>3 DEF Behaves
  <2> QED
    BY <2>1, <2>2
<1>6. ASSUME w = "swap", Swap PROVE Behaves(w)
  <2>1. CASE sp < 2
    BY <1>3, <1>6, <2>1 DEF Swap, Leave
  <2>2. CASE ~(sp < 2)
    <3> DEFINE u == [s EXCEPT ![Len(s)] = s[Len(s) - 1], ![Len(s) - 1] = s[Len(s)]]
    <3>1. stack' = u /\ complaint' = FALSE
      BY <1>6, <2>2 DEF Swap, Leave, sp
    <3>2. Len(s) >= 2
      BY <1>1, <2>2 DEF sp
    <3>3. Succeeds("swap", s, u)
      BY <1>1, <3>2, MoversAbove
    <3> QED
      BY <1>6, <3>1, <3>3 DEF Behaves
  <2> QED
    BY <2>1, <2>2
<1>7. ASSUME w = "number", Number PROVE Behaves(w)
  <2>1. CASE Full
    BY <1>3, <1>7, <2>1 DEF Number, Leave
  <2>2. CASE ~Full
    <3>1. PICK x \in Numbers : stack' = Append(s, x) /\ complaint' = FALSE
      BY <1>7, <2>2 DEF Number, Leave
    <3>2. x \in Int
      <4>1. Numbers \subseteq -(WordSize \div 2) .. WordSize \div 2 - 1
        BY ForthAssumption
      <4> QED
        BY <4>1
    <3>3. Len(s) < STACK_MAX
      BY <1>1, <2>2 DEF Full, sp
    <3>4. Succeeds("number", s, Append(s, x))
      BY <1>1, <3>2, <3>3, MoversAbove
    <3> QED
      BY <1>7, <3>1, <3>4 DEF Behaves
  <2> QED
    BY <2>1, <2>2
<1>8. ASSUME w = "clear", Leave(<<>>, FALSE) PROVE Behaves(w)
  BY <1>1, <1>8, OthersAbove DEF Behaves, Leave
<1>9. ASSUME w \in {".s", "unknown"}, Leave(stack, w = "unknown") PROVE Behaves(w)
  <2>1. CASE w = "unknown"
    <3>1. stack' = stack /\ complaint' = TRUE
      BY <1>9, <2>1 DEF Leave
    <3> QED
      BY <1>3, <3>1
  <2>2. CASE w = ".s"
    <3>1. stack' = stack /\ complaint' = FALSE
      BY <1>9, <2>2 DEF Leave
    <3> QED
      BY <1>1, <1>9, <3>1, OthersAbove DEF Behaves
  <2> QED
    BY <1>9, <2>1, <2>2
<1> QED
  BY <1>2, <1>4, <1>5, <1>6, <1>7, <1>8, <1>9 DEF Execute

\* What StackDiscipline says of a step.
Disciplined ==
  word' \in ForthWords =>
    /\ Below(stack, Takes[word']) = SubSeq(stack', 1, sp - Takes[word'])
    /\ sp' <= STACK_MAX
    /\ IF complaint' THEN sp' <= sp
       ELSE word' = "clear" \/ sp' = sp - Takes[word'] + Leaves[word']

LEMMA BehavesDisciplined ==
  ASSUME NEW w \in ForthWords, word' = w, Behaves(w)
  PROVE  stack' \in Seq(Int) /\ Len(stack') <= STACK_MAX /\ Disciplined
<1>1. sp' = Len(stack') /\ sp = Len(stack)
  BY DEF sp
<1>2. CASE complaint' = TRUE /\ Complains(w, stack, stack')
  BY <1>1, <1>2 DEF Disciplined, Complains, Above
<1>3. CASE complaint' = FALSE /\ Succeeds(w, stack, stack')
  BY <1>1, <1>3 DEF Disciplined, Succeeds, Above
<1> QED
  BY <1>2, <1>3 DEF Behaves

LEMMA StackStep ==
  ASSUME StackInv, [Next]_vars
  PROVE  StackInv' /\ (Disciplined \/ UNCHANGED forthVars)
<1> DEFINE Fine == StackInv' /\ (Disciplined \/ UNCHANGED forthVars)
<1>0. <<>> \in Seq(Int) /\ Len(<<>>) = 0 /\ STACK_MAX \in Nat /\ "none" \notin ForthWords
  BY ForthAssumption DEF ForthWords, Binary
<1>1. ASSUME UNCHANGED forthVars, mode' \in {"prompt", "script"} => mode \in {"prompt", "script"}
      PROVE  Fine
  BY <1>1 DEF forthVars, StackInv
<1>2. ASSUME NEW line, Act(line), mode = "prompt" PROVE Fine
  <2>1. CASE cmd_run
    BY <1>1, <1>2, <2>1 DEF cmd_run
  <2>2. CASE lang_repl
    <3>1. word = "none"
      BY <1>2 DEF StackInv
    <3>2. stack' = <<>> /\ word' = "none" /\ mode' = "forth"
      BY <2>2, <3>1 DEF lang_repl
    <3> QED
      BY <1>0, <3>2 DEF StackInv, Disciplined
  <2>3. CASE cmd_usermode
    BY <1>1, <1>2, <2>3 DEF cmd_usermode
  <2>4. CASE cmd_reboot
    BY <1>1, <1>2, <2>4 DEF cmd_reboot
  <2>5. CASE cmd_other
    BY <1>1, <1>2, <2>5 DEF cmd_other
  <2> QED
    BY <1>2, <2>1, <2>2, <2>3, <2>4, <2>5 DEF Act
<1>3. ASSUME NEW line \in Lines, ReadLine(line) PROVE Fine
  BY <1>2, <1>3 DEF ReadLine
<1>4. CASE ScriptLine
  BY <1>1, <1>4 DEF ScriptLine, shellVars
<1>5. CASE ScriptEnd
  BY <1>1, <1>5 DEF ScriptEnd
<1>6. ASSUME NEW w \in ForthWords, mode = "forth", Execute(w), UNCHANGED shellVars
      PROVE  Fine
  <2>1. word' = w /\ mode' = "forth"
    BY <1>6 DEF Execute, shellVars
  <2>2. Behaves(w)
    BY <1>6, WordBehaves
  <2>3. stack' \in Seq(Int) /\ Len(stack') <= STACK_MAX /\ Disciplined
    BY <2>1, <2>2, BehavesDisciplined
  <2> QED
    BY <2>1, <2>3 DEF StackInv
<1>7. CASE ForthTrap
  BY <1>1, <1>7 DEF ForthTrap
<1>8. CASE ForthBye
  BY <1>0, <1>8 DEF ForthBye, StackInv, Disciplined
<1>9. CASE UNCHANGED vars
  BY <1>1, <1>9 DEF vars, shellVars
<1> QED
  BY <1>3, <1>4, <1>5, <1>6, <1>7, <1>8, <1>9 DEF Next, ForthWord

\* No word of lang.c touches what lies below the values it takes, and the stack
\* stays within stack[]: for every size of the stack and of a number.
THEOREM AlwaysDisciplined == Spec => StackDiscipline
<1>1. Init => StackInv
  BY ForthAssumption DEF Init, ForthInit, StackInv
<1>2. StackInv /\ [Next]_vars => StackInv'
  BY StackStep
<1>3. StackInv /\ [Next]_vars => [Disciplined]_forthVars
  BY StackStep
<1>4. Spec => [][Disciplined]_forthVars
  BY <1>1, <1>2, <1>3, PTL DEF Spec
<1> QED
  BY <1>4 DEF StackDiscipline, Disciplined
=============================================================================
