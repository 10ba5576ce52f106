---------------------------- MODULE EditorProofs ----------------------------
(***************************************************************************)
(* For every text, file and size of the buffer: the cursor stays in the    *)
(* text (CursorInText), j and k move by one line (OneLineAtATime), the     *)
(* buffer keeps room for the terminating zero (TerminatorFits) and a text  *)
(* without changes is the file's (CleanMeansSaved), whatever reads and     *)
(* writes fail.                                                            *)
(*                                                                         *)
(* line_start and line_end choose the newline nearest to a position; that  *)
(* there is one is the well-foundedness of finite sets (LeastBelow).       *)
(***************************************************************************)
EXTENDS Editor, FiniteSetTheorems, WellFoundedInduction, SequenceTheorems, TLAPS

-----------------------------------------------------------------------------
(* Nearest positions *)

\* A set of positions that is not empty has a least one: the initial segments
\* they end are finite sets, which are well-founded under inclusion.
LEMMA LeastBelow ==
  ASSUME NEW m \in Nat, NEW T, T \subseteq 0 .. m, T # {}
  PROVE  \E x \in T : \A y \in T : x <= y
<1> DEFINE B(n) == 0 .. n
           U == {B(n) : n \in T}
           F == FiniteSubsetsOf(0 .. m)
<1>1. IsWellFoundedOn(StrictSubsetOrdering(0 .. m), F)
  BY FS_Interval, FS_StrictSubsetOrderingWellFounded
<1>2. \A n \in T : B(n) \in F
  BY FS_Interval DEF FiniteSubsetsOf
<1>3. U \subseteq F /\ U # {}
  BY <1>2
<1>4. PICK b \in U : \A c \in U : ~(<<c, b>> \in StrictSubsetOrdering(0 .. m))
  <2> HIDE DEF U, F
  <2> QED
    BY <1>1, <1>3, WFMin
<1>5. PICK x \in T : b = B(x)
  OBVIOUS
<1>6. ASSUME NEW y \in T, y < x PROVE FALSE
  <2>1. B(y) \in SUBSET (0 .. m) /\ B(x) \in SUBSET (0 .. m)
    OBVIOUS
  <2>2. B(y) \subseteq B(x) /\ x \notin B(y) /\ x \in B(x)
    BY <1>6
  <2>3. <<B(y), B(x)>> \in StrictSubsetOrdering(0 .. m)
    BY <2>1, <2>2 DEF StrictSubsetOrdering
  <2> QED
    BY <1>4, <1>5, <2>3
<1> QED
  BY <1>6

\* It has a greatest one, too.
LEMMA GreatestBelow ==
  ASSUME NEW m \in Nat, NEW T, T \subseteq 0 .. m, T # {}
  PROVE  \E x \in T : \A y \in T : y <= x
<1> DEFINE R == {m - y : y \in T}
<1>0. \A y \in T : m - y \in 0 .. m
  OBVIOUS
<1>1. R \subseteq 0 .. m /\ R # {}
  BY <1>0
<1>2. PICK r \in R : \A q \in R : r <= q
  <2> HIDE DEF R
  <2> QED
    BY <1>1, LeastBelow
<1>3. PICK x \in T : r = m - x
  OBVIOUS
<1>4. \A y \in T : m - x <= m - y
  BY <1>2, <1>3
<1> QED
  BY <1>4

\* line_start finds the start of the line.
LEMMA LineStart ==
  ASSUME NEW t, NEW p \in Nat
  PROVE  /\ line_start(t, p) \in 0 .. p
         /\ line_start(t, p) = 0 \/ t[line_start(t, p)] = NL
         /\ \A i \in line_start(t, p) + 1 .. p : t[i] # NL
<1> DEFINE P(s) == (s = 0 \/ t[s] = NL) /\ \A i \in s + 1 .. p : t[i] # NL
           T == {s \in 0 .. p : s = 0 \/ t[s] = NL}
<1>1. T \subseteq 0 .. p /\ 0 \in T
  OBVIOUS
<1>2. PICK s \in T : \A y \in T : y <= s
  <2> HIDE DEF T
  <2> QED
    BY <1>1, GreatestBelow
<1>3. s \in 0 .. p /\ P(s)
  <2>1. ASSUME NEW i \in s + 1 .. p, t[i] = NL PROVE FALSE
    <3>1. i \in T
      BY <2>1
    <3> QED
      BY <1>2, <3>1
  <2> QED
    BY <2>1
<1>4. \E x \in 0 .. p : P(x)
  BY <1>3
<1>5. line_start(t, p) = CHOOSE x \in 0 .. p : P(x)
  BY DEF line_start
<1>6. (CHOOSE x \in 0 .. p : P(x)) \in 0 .. p /\ P(CHOOSE x \in 0 .. p : P(x))
  <2> HIDE DEF P
  <2> QED
    BY <1>4
<1> QED
  BY <1>5, <1>6

\* line_end finds its end.
LEMMA LineEnd ==
  ASSUME NEW t, NEW p \in Nat, Len(t) \in Nat, p <= Len(t)
  PROVE  /\ line_end(t, p) \in p .. Len(t)
         /\ line_end(t, p) = Len(t) \/ t[line_end(t, p) + 1] = NL
         /\ \A i \in p + 1 .. line_end(t, p) : t[i] # NL
<1> DEFINE n == Len(t)
           P(e) == (e = n \/ t[e + 1] = NL) /\ \A i \in p + 1 .. e : t[i] # NL
           T == {e \in p .. n : e = n \/ t[e + 1] = NL}
<1>0. n \in Nat /\ p <= n
  OBVIOUS
<1> HIDE DEF n
<1>1. T \subseteq 0 .. n /\ n \in T
  BY <1>0
<1>2. PICK e \in T : \A y \in T : e <= y
  <2> HIDE DEF T
  <2> QED
    BY <1>0, <1>1, LeastBelow
<1>3. e \in p .. n /\ P(e)
  <2>1. ASSUME NEW i \in p + 1 .. e, t[i] = NL PROVE FALSE
    <3>1. i - 1 \in T /\ i - 1 < e
      BY <1>0, <2>1
    <3> QED
      BY <1>0, <1>2, <3>1
  <2> QED
    BY <2>1
<1>4. \E x \in p .. n : P(x)
  BY <1>3
<1>5. line_end(t, p) = CHOOSE x \in p .. n : P(x)
  BY DEF line_end, n
<1>6. (CHOOSE x \in p .. n : P(x)) \in p .. n /\ P(CHOOSE x \in p .. n : P(x))
  <2> HIDE DEF P
  <2> QED
    BY <1>4
<1> QED
  BY <1>5, <1>6 DEF n

\* j goes to a position of the next line: one newline lies between.
LEMMA DownFacts ==
  ASSUME NEW t, NEW p \in Nat, Len(t) \in Nat, p <= Len(t), line_end(t, p) < Len(t)
  PROVE  /\ DownTo(t, p) \in Nat /\ DownTo(t, p) <= Len(t)
         /\ \E e \in p .. Len(t) :
              /\ e + 1 <= DownTo(t, p) /\ t[e + 1] = NL
              /\ \A i \in p + 1 .. e : t[i] # NL
              /\ \A i \in e + 2 .. DownTo(t, p) : t[i] # NL
<1> DEFINE n == Len(t)
           e == line_end(t, p)
           f == line_end(t, e + 1)
           s == line_start(t, p)
           d == DownTo(t, p)
<1>1. n \in Nat /\ e \in p .. n /\ e < n /\ t[e + 1] = NL
  BY LineEnd
<1>2. \A i \in p + 1 .. e : t[i] # NL
  BY LineEnd
<1>3. s \in 0 .. p
  BY LineStart
<1>4. e + 1 \in Nat /\ e + 1 <= n
  BY <1>1
<1>5. f \in e + 1 .. n /\ \A i \in e + 2 .. f : t[i] # NL
  <2>1. f \in e + 1 .. n /\ \A i \in (e + 1) + 1 .. f : t[i] # NL
    BY <1>4, LineEnd
  <2>2. (e + 1) + 1 = e + 2
    BY <1>1
  <2> QED
    BY <2>1, <2>2
<1>6. d = e + 1 + (IF p - s < f - (e + 1) THEN p - s ELSE f - (e + 1))
  BY DEF DownTo, Min2
<1> HIDE DEF n, e, f, s, d
<1>7. d \in Nat /\ e + 1 <= d /\ d <= f /\ d <= n
  BY <1>1, <1>3, <1>5, <1>6
<1>8. \A i \in e + 2 .. d : t[i] # NL
  BY <1>1, <1>5, <1>7
<1> QED
  BY <1>1, <1>2, <1>7, <1>8 DEF n, d

\* k goes to a position of the previous line.
LEMMA UpFacts ==
  ASSUME NEW t, NEW p \in Nat, line_start(t, p) > 0
  PROVE  /\ UpTo(t, p) \in Nat /\ UpTo(t, p) < p
         /\ \E b \in 1 .. p :
              /\ UpTo(t, p) < b /\ t[b] = NL
              /\ \A i \in b + 1 .. p : t[i] # NL
              /\ \A i \in UpTo(t, p) + 1 .. b - 1 : t[i] # NL
<1> DEFINE b == line_start(t, p)
           a == line_start(t, b - 1)
           u == UpTo(t, p)
<1>1. b \in 1 .. p /\ t[b] = NL
  BY LineStart
<1>2. \A i \in b + 1 .. p : t[i] # NL
  BY LineStart
<1>3. b - 1 \in Nat
  BY <1>1
<1>4. a \in 0 .. b - 1 /\ \A i \in a + 1 .. b - 1 : t[i] # NL
  BY <1>3, LineStart
<1>5. u = a + (IF p - b < (b - 1) - a THEN p - b ELSE (b - 1) - a)
  BY DEF UpTo, Min2
<1> HIDE DEF a, b, u
<1>6. u \in Nat /\ u < b /\ u < p /\ a <= u
  BY <1>1, <1>4, <1>5
<1>7. \A i \in u + 1 .. b - 1 : t[i] # NL
  BY <1>1, <1>4, <1>6
<1> QED
  BY <1>1, <1>2, <1>6, <1>7 DEF u

-----------------------------------------------------------------------------
(* The cursor and the buffer *)

\* What the text and the cursor are.
EditInv == /\ file \in Texts /\ text \in Texts /\ cursor \in Nat /\ cursor <= Len(text)

\* Deleting a character shortens the text by one.
LEMMA DeletedText ==
  ASSUME NEW t \in Texts, NEW p \in Nat, p < Len(t)
  PROVE  Deleted(t, p) \in Texts /\ Len(Deleted(t, p)) = Len(t) - 1
<1> DEFINE a == SubSeq(t, 1, p)
           b == SubSeq(t, p + 2, Len(t))
<1>0. Len(t) \in Nat
  BY LenProperties DEF Texts
<1>1. a \in Texts /\ Len(a) = p
  BY <1>0, SubSeqProperties DEF Texts
<1>2. b \in Texts /\ Len(b) = Len(t) - p - 1
  BY <1>0, SubSeqProperties DEF Texts
<1>d. Deleted(t, p) = a \o b
  BY DEF Deleted
<1> HIDE DEF a, b
<1>3. a \o b \in Texts /\ Len(a \o b) = Len(a) + Len(b)
  BY <1>1, <1>2, ConcatProperties DEF Texts
<1> QED
  BY <1>0, <1>1, <1>2, <1>3, <1>d

\* insert_char lengthens it by one.
LEMMA InsertedText ==
  ASSUME NEW t \in Texts, NEW p \in Nat, p <= Len(t), NEW c \in Chars \cup {NL, "S"}
  PROVE  Inserted(t, p, c) \in Texts /\ Len(Inserted(t, p, c)) = Len(t) + 1
<1> DEFINE a == SubSeq(t, 1, p)
           b == SubSeq(t, p + 1, Len(t))
           x == <<c>>
           y == a \o x
<1>0. Len(t) \in Nat
  BY LenProperties DEF Texts
<1>1. a \in Texts /\ Len(a) = p
  BY <1>0, SubSeqProperties DEF Texts
<1>2. b \in Texts /\ Len(b) = Len(t) - p
  BY <1>0, SubSeqProperties DEF Texts
<1>3. x \in Texts /\ Len(x) = 1
  BY DEF Texts
<1>d. Inserted(t, p, c) = y \o b
  BY DEF Inserted
<1> HIDE DEF a, b, x
<1>4. y \in Texts /\ Len(y) = Len(a) + Len(x)
  BY <1>1, <1>3, ConcatProperties DEF Texts
<1> HIDE DEF y
<1>5. y \o b \in Texts /\ Len(y \o b) = Len(y) + Len(b)
  <2>1. y \in Texts /\ b \in Texts
    BY <1>2, <1>4
  <2> QED
    BY <2>1, ConcatProperties DEF Texts
<1> QED
  BY <1>0, <1>1, <1>2, <1>3, <1>4, <1>5, <1>d

\* At first the file is one of those that may be there.
LEMMA InitInv == Init => EditInv
<1> SUFFICES ASSUME Init PROVE EditInv
  OBVIOUS
<1>1. file \in Texts
  <2>1. file \in Seq(Chars \cup {NL})
    BY EditorAssumption DEF Init
  <2>2. \A i \in 1 .. Len(file) : file[i] \in Chars \cup {NL, "S"}
    BY <2>1, ElementOfSeq
  <2>3. Len(file) \in Nat /\ file = [i \in 1 .. Len(file) |-> file[i]]
    BY <2>1, LenProperties
  <2> QED
    BY <2>1, <2>2, <2>3, SeqDef DEF Texts
<1>2. text \in Texts /\ Len(text) = 0
  BY DEF Init, Texts
<1> QED
  BY <1>1, <1>2 DEF Init, EditInv

\* What a step does to the cursor: a move by at most one character, or j or k.
MovedLittle ==
  /\ running /\ cursor' \in Nat
  /\ cursor' = cursor \/ cursor' = cursor + 1 \/ cursor' = cursor - 1

\* Every key and command keeps the cursor in the text, and all but j, k and the
\* start move it by a character at most.
LEMMA NextInv ==
  ASSUME EditInv, [Next]_vars
  PROVE  /\ EditInv'
         /\ MovedLittle \/ KeyDown \/ KeyUp \/ Open \/ UNCHANGED vars
<1>0. /\ file \in Texts /\ text \in Texts /\ cursor \in Nat /\ cursor <= Len(text)
      /\ Len(text) \in Nat
  BY LenProperties DEF EditInv, Texts
<1>n. <<>> \in Texts
  BY DEF Texts
<1>1. CASE Open
  <2>1. Len(file) \in Nat /\ Len(<<>>) = 0
    BY <1>0, LenProperties DEF Texts
  <2> QED
    BY <1>0, <1>1, <1>n, <2>1 DEF Open, EditInv
<1>2. ASSUME NEW c \in Chars \cup {NL, "S"}, Type(c)
      PROVE  EditInv' /\ MovedLittle
  <2>1. /\ text' = Inserted(text, cursor, c) /\ cursor' = cursor + 1 /\ file' = file
        /\ running
    BY <1>2 DEF Type, insert_char, Idle
  <2>2. Inserted(text, cursor, c) \in Texts
        /\ Len(Inserted(text, cursor, c)) = Len(text) + 1
    BY <1>0, InsertedText
  <2> QED
    BY <1>0, <2>1, <2>2 DEF EditInv, MovedLittle
<1>3. CASE Backspace
  <2>1. /\ text' = Deleted(text, cursor - 1) /\ cursor' = cursor - 1 /\ file' = file
        /\ cursor > 0 /\ running
    BY <1>3 DEF Backspace, Idle
  <2>2. cursor - 1 \in Nat /\ cursor - 1 < Len(text)
    BY <1>0, <2>1
  <2>3. /\ Deleted(text, cursor - 1) \in Texts
        /\ Len(Deleted(text, cursor - 1)) = Len(text) - 1
    BY <1>0, <2>2, DeletedText
  <2> QED
    BY <1>0, <2>1, <2>2, <2>3 DEF EditInv, MovedLittle
<1>4. CASE KeyDelete
  <2>1. /\ text' = Deleted(text, cursor) /\ cursor' = cursor /\ file' = file
        /\ cursor < Len(text) /\ running
    BY <1>4 DEF KeyDelete, Idle, len
  <2>2. Deleted(text, cursor) \in Texts /\ Len(Deleted(text, cursor)) = Len(text) - 1
    BY <1>0, <2>1, DeletedText
  <2> QED
    BY <1>0, <2>1, <2>2 DEF EditInv, MovedLittle
<1>5. CASE KeyLeft \/ KeyRight
  BY <1>0, <1>5 DEF KeyLeft, KeyRight, Move, Idle, len, EditInv, MovedLittle
<1>6. CASE KeyDown
  <2>1. /\ line_end(text, cursor) < Len(text) /\ cursor' = DownTo(text, cursor)
        /\ UNCHANGED <<text, file>>
    BY <1>6 DEF KeyDown, Move, Idle, len
  <2>2. DownTo(text, cursor) \in Nat /\ DownTo(text, cursor) <= Len(text)
    BY <1>0, <2>1, DownFacts
  <2> QED
    BY <1>0, <1>6, <2>1, <2>2 DEF EditInv
<1>7. CASE KeyUp
  <2>1. /\ line_start(text, cursor) > 0 /\ cursor' = UpTo(text, cursor)
        /\ UNCHANGED <<text, file>>
    BY <1>7 DEF KeyUp, Move, Idle
  <2>2. UpTo(text, cursor) \in Nat /\ UpTo(text, cursor) < cursor
    BY <1>0, <2>1, UpFacts
  <2> QED
    BY <1>0, <1>7, <2>1, <2>2 DEF EditInv
<1>8. CASE KeyI \/ Escape \/ Save \/ Quit \/ ForceQuit \/ SaveQuit
           \/ (Normal /\ UNCHANGED vars)
  <2>1. UNCHANGED <<text, cursor>> /\ file' \in {file, text, <<>>} /\ running
    BY <1>8 DEF KeyI, Escape, SetMode, Save, Quit, ForceQuit, SaveQuit, WriteOk, WriteFail,
                Leave, Normal, Insert, vars
  <2> QED
    BY <1>0, <1>n, <2>1 DEF EditInv, MovedLittle
<1>9. CASE UNCHANGED vars
  BY <1>9 DEF vars, EditInv
<1>10. CASE (\E c \in Chars \cup {NL} : Type(c)) \/ Type("S")
  BY <1>2, <1>10
<1>11. CASE CtrlS
  BY <1>8, <1>10, <1>11 DEF CtrlS
<1> QED
  BY <1>1, <1>3, <1>4, <1>5, <1>6, <1>7, <1>8, <1>9, <1>10, <1>11 DEF Next

\* Whatever is typed, deleted and moved over, the cursor is in the text.
THEOREM CursorAlwaysInText == Spec => []CursorInText
<1>1. EditInv => CursorInText
  BY DEF EditInv, CursorInText, len
<1>2. EditInv /\ [Next]_vars => EditInv'
  BY NextInv
<1> QED
  BY <1>1, <1>2, InitInv, PTL DEF Spec

\* With one newline more among them, there is one line more before a position.
LEMMA OneMoreLine ==
  ASSUME NEW t, NEW p \in Nat, NEW q \in Nat, NEW b \in p + 1 .. q, t[b] = NL,
         \A i \in p + 1 .. q : i # b => t[i] # NL
  PROVE  LineOf(t, p) \in Nat /\ LineOf(t, q) = LineOf(t, p) + 1
<1> DEFINE P == {i \in 1 .. p : t[i] = NL}
           Q == {i \in 1 .. q : t[i] = NL}
<1>1. IsFiniteSet(P)
  <2>1. IsFiniteSet(1 .. p) /\ P \subseteq 1 .. p
    BY FS_Interval
  <2> QED
    BY <2>1, FS_Subset
<1>2. Q = P \cup {b} /\ b \notin P
  OBVIOUS
<1> HIDE DEF P, Q
<1>3. Cardinality(P) \in Nat /\ Cardinality(Q) = Cardinality(P) + 1
  BY <1>1, <1>2, FS_AddElement, FS_CardinalityType
<1> QED
  BY <1>3 DEF LineOf, P, Q

\* A position one further is on the same line or on the next.
LEMMA NextChar ==
  ASSUME NEW t, NEW p \in Nat
  PROVE  /\ LineOf(t, p) \in Nat
         /\ LineOf(t, p + 1) = LineOf(t, p) \/ LineOf(t, p + 1) = LineOf(t, p) + 1
<1>1. CASE t[p + 1] = NL
  <2>1. p + 1 \in Nat /\ p + 1 \in p + 1 .. p + 1
        /\ \A i \in p + 1 .. p + 1 : i # p + 1 => t[i] # NL
    OBVIOUS
  <2> QED
    BY <1>1, <2>1, OneMoreLine
<1>2. CASE t[p + 1] # NL
  <2>1. {i \in 1 .. p + 1 : t[i] = NL} = {i \in 1 .. p : t[i] = NL}
    BY <1>2
  <2>2. IsFiniteSet({i \in 1 .. p : t[i] = NL})
    <3>1. IsFiniteSet(1 .. p) /\ {i \in 1 .. p : t[i] = NL} \subseteq 1 .. p
      BY FS_Interval
    <3> QED
      BY <3>1, FS_Subset
  <2> QED
    BY <2>1, <2>2, FS_CardinalityType DEF LineOf
<1> QED
  BY <1>1, <1>2

\* From position p to q: by one line at most, and within a line by one character.
OneLine(t, p, q) ==
  /\ LineOf(t, q) - LineOf(t, p) \in {-1, 0, 1}
  /\ LineOf(t, q) = LineOf(t, p) => q - p \in {-1, 0, 1}

\* A move by one character.
LEMMA LittleMove ==
  ASSUME NEW t, NEW p \in Nat, NEW q \in Nat, q = p \/ q = p + 1 \/ q = p - 1
  PROVE  OneLine(t, p, q)
<1>1. CASE q = p
  BY <1>1, NextChar DEF OneLine
<1>2. CASE q = p + 1
  BY <1>2, NextChar DEF OneLine
<1>3. CASE q = p - 1
  <2>1. p = q + 1
    BY <1>3
  <2>2. /\ LineOf(t, q) \in Nat
        /\ LineOf(t, p) = LineOf(t, q) \/ LineOf(t, p) = LineOf(t, q) + 1
    BY <2>1, NextChar
  <2> QED
    BY <2>1, <2>2 DEF OneLine
<1> QED
  BY <1>1, <1>2, <1>3

\* j moves to the next line.
LEMMA LineDown ==
  ASSUME NEW t, NEW p \in Nat, Len(t) \in Nat, p <= Len(t), line_end(t, p) < Len(t)
  PROVE  OneLine(t, p, DownTo(t, p))
<1>1. PICK d \in Nat : d = DownTo(t, p)
  BY DownFacts
<1>2. PICK e \in Nat : /\ p <= e /\ e + 1 <= d /\ t[e + 1] = NL
                       /\ \A i \in p + 1 .. e : t[i] # NL
                       /\ \A i \in e + 2 .. d : t[i] # NL
  BY <1>1, DownFacts
<1>3. ASSUME NEW i \in p + 1 .. d, i # e + 1 PROVE t[i] # NL
  <2>1. i \in p + 1 .. e \/ i \in e + 2 .. d
    BY <1>3
  <2> QED
    BY <1>2, <2>1
<1>4. e + 1 \in p + 1 .. d
  BY <1>2
<1>5. LineOf(t, p) \in Nat /\ LineOf(t, d) = LineOf(t, p) + 1
  BY <1>2, <1>3, <1>4, OneMoreLine
<1> QED
  BY <1>1, <1>5 DEF OneLine

\* k moves to the previous line.
LEMMA LineUp ==
  ASSUME NEW t, NEW p \in Nat, line_start(t, p) > 0
  PROVE  OneLine(t, p, UpTo(t, p))
<1>1. PICK u \in Nat : u = UpTo(t, p) /\ u < p
  BY UpFacts
<1>2. PICK b \in 1 .. p : /\ u < b /\ t[b] = NL
                          /\ \A i \in b + 1 .. p : t[i] # NL
                          /\ \A i \in u + 1 .. b - 1 : t[i] # NL
  BY <1>1, UpFacts
<1>3. ASSUME NEW i \in u + 1 .. p, i # b PROVE t[i] # NL
  <2>1. i \in b + 1 .. p \/ i \in u + 1 .. b - 1
    BY <1>3
  <2> QED
    BY <1>2, <2>1
<1>4. b \in u + 1 .. p
  BY <1>2
<1>5. LineOf(t, u) \in Nat /\ LineOf(t, p) = LineOf(t, u) + 1
  BY <1>2, <1>3, <1>4, OneMoreLine
<1> QED
  BY <1>1, <1>5 DEF OneLine

\* j and k go to the next and the previous line, and a move within a line is by
\* one character, for every text.
THEOREM AlwaysOneLineAtATime == Spec => OneLineAtATime
<1>1. EditInv /\ [Next]_vars =>
        [(running /\ running' /\ text' = text) =>
           LET up == LineOf(text, cursor) down == LineOf(text, cursor') IN
           /\ down - up \in {-1, 0, 1}
           /\ down = up => cursor' - cursor \in {-1, 0, 1}]_vars
  <2> SUFFICES ASSUME EditInv, [Next]_vars, running, UNCHANGED vars => FALSE
               PROVE  OneLine(text, cursor, cursor')
    BY DEF OneLine
  <2>0. cursor \in Nat /\ Len(text) \in Nat /\ cursor <= Len(text)
    BY LenProperties DEF EditInv, Texts
  <2>1. MovedLittle \/ KeyDown \/ KeyUp
    BY NextInv DEF Open
  <2>2. CASE MovedLittle
    BY <2>0, <2>2, LittleMove DEF MovedLittle
  <2>3. CASE KeyDown
    BY <2>0, <2>3, LineDown DEF KeyDown, Move, len
  <2>4. CASE KeyUp
    BY <2>0, <2>4, LineUp DEF KeyUp, Move
  <2> QED
    BY <2>1, <2>2, <2>3, <2>4
<1>2. EditInv /\ [Next]_vars => EditInv'
  BY NextInv
<1> QED
  BY <1>1, <1>2, InitInv, PTL DEF Spec, OneLineAtATime

-----------------------------------------------------------------------------
(* The terminating zero and the file *)

\* The file is no longer than the buffer, and the text only as the file was.
FitsInv == Len(file) <= FS_MAX_FILE_SIZE /\ TerminatorFits

\* insert_char refuses the character that would take the place of the terminating
\* zero, from every file, that of the buffer's size included.
THEOREM TerminatorAlwaysFits == Spec => []TerminatorFits
<1>1. Init => FitsInv
  <2>1. Len(<<>>) = 0 /\ FS_MAX_FILE_SIZE \in Nat
    BY EditorAssumption
  <2> QED
    BY <2>1, EditorAssumption DEF Init, FitsInv, TerminatorFits, len
<1>2. EditInv /\ FitsInv /\ [Next]_vars => FitsInv'
  <2> SUFFICES ASSUME EditInv, FitsInv, [Next]_vars PROVE FitsInv'
    OBVIOUS
  <2>0. /\ text \in Texts /\ cursor \in Nat /\ cursor <= Len(text) /\ Len(text) \in Nat
        /\ FS_MAX_FILE_SIZE \in Nat \ {0} /\ Len(<<>>) = 0
        /\ Len(file) <= FS_MAX_FILE_SIZE /\ Len(text) <= FS_MAX_FILE_SIZE
        /\ dirty => Len(text) < FS_MAX_FILE_SIZE
    BY LenProperties, EditorAssumption DEF EditInv, Texts, FitsInv, TerminatorFits, len
  <2> DEFINE Fits == /\ Len(file') <= FS_MAX_FILE_SIZE /\ Len(text') <= FS_MAX_FILE_SIZE
                     /\ dirty' => Len(text') < FS_MAX_FILE_SIZE
  <2> SUFFICES Fits
    BY DEF FitsInv, TerminatorFits, len
  <2>1. ASSUME NEW c \in Chars \cup {NL, "S"}, Type(c) PROVE Fits
    <3>1. /\ Len(text) + 1 < FS_MAX_FILE_SIZE /\ text' = Inserted(text, cursor, c)
          /\ file' = file
      BY <2>1 DEF Type, Idle, insert_char
    <3>2. Len(Inserted(text, cursor, c)) = Len(text) + 1
      BY <2>0, InsertedText
    <3> QED
      BY <2>0, <3>1, <3>2
  <2>2. ASSUME NEW p \in Nat, p < Len(text), text' = Deleted(text, p), file' = file
        PROVE  Fits
    <3>1. Len(Deleted(text, p)) = Len(text) - 1
      BY <2>0, <2>2, DeletedText
    <3> QED
      BY <2>0, <2>2, <3>1
  <2>3. CASE Backspace
    <3>1. cursor - 1 \in Nat /\ cursor - 1 < Len(text)
      BY <2>0, <2>3 DEF Backspace
    <3> QED
      BY <2>2, <2>3, <3>1 DEF Backspace, Idle
  <2>4. CASE KeyDelete
    BY <2>0, <2>2, <2>4 DEF KeyDelete, Idle, len
  <2>5. CASE Open
    BY <2>0, <2>5 DEF Open
  <2>6. CASE KeyLeft \/ KeyRight \/ KeyDown \/ KeyUp \/ KeyI \/ Escape \/ Save
             \/ Quit \/ ForceQuit \/ SaveQuit \/ UNCHANGED vars
    <3>1. text' = text /\ (dirty' => dirty) /\ file' \in {file, text, <<>>}
      BY <2>6 DEF KeyLeft, KeyRight, KeyDown, KeyUp, Move, Idle, KeyI, Escape, SetMode,
                  Save, Quit, ForceQuit, SaveQuit, WriteOk, WriteFail, Leave, vars
    <3> QED
      BY <2>0, <3>1
  <2>7. CASE (\E c \in Chars \cup {NL} : Type(c)) \/ CtrlS
    BY <2>1, <2>6, <2>7 DEF CtrlS
  <2> QED
    BY <2>3, <2>4, <2>5, <2>6, <2>7 DEF Next
<1>3. FitsInv => TerminatorFits
  BY DEF FitsInv
<1>4. EditInv /\ [Next]_vars => EditInv'
  BY NextInv
<1> QED
  BY <1>1, <1>2, <1>3, <1>4, InitInv, PTL DEF Spec

\* :q leaves only a text that the file holds, whatever reads and writes fail, but
\* for a file that could not be read and one that a failed write has emptied.
THEOREM CleanAlwaysSaved == Spec => []CleanMeansSaved
<1>1. Init => CleanMeansSaved
  BY DEF Init, CleanMeansSaved
<1>2. CleanMeansSaved /\ [Next]_vars => CleanMeansSaved'
  <2> SUFFICES ASSUME CleanMeansSaved, [Next]_vars, running', ~dirty'
               PROVE  \/ file' = text'
                      \/ fault' = "load" /\ text' = <<>>
                      \/ fault' = "write" /\ file' = <<>>
    BY DEF CleanMeansSaved
  <2>1. ASSUME NEW c, Type(c) PROVE FALSE
    BY <2>1 DEF Type, insert_char
  <2>2. CASE Backspace \/ KeyDelete
    BY <2>2 DEF Backspace, KeyDelete
  <2>3. CASE Open
    BY <2>3 DEF Open
  <2>4. CASE KeyLeft \/ KeyRight \/ KeyDown \/ KeyUp \/ KeyI \/ Escape \/ UNCHANGED vars
    BY <2>4 DEF KeyLeft, KeyRight, KeyDown, KeyUp, Move, Idle, KeyI, Escape, SetMode,
                vars, CleanMeansSaved
  <2>5. CASE Save
    BY <2>5 DEF Save, Normal, WriteOk, WriteFail, CleanMeansSaved
  <2>6. CASE Quit \/ ForceQuit
    BY <2>6 DEF Quit, ForceQuit, Leave
  <2>7. CASE SaveQuit
    BY <2>7 DEF SaveQuit, Normal, WriteOk, WriteFail, Leave, CleanMeansSaved
  <2>8. CASE (\E c \in Chars \cup {NL} : Type(c)) \/ CtrlS
    BY <2>1, <2>4, <2>8 DEF CtrlS
  <2> QED
    BY <2>2, <2>3, <2>4, <2>5, <2>6, <2>7, <2>8 DEF Next
<1> QED
  BY <1>1, <1>2, PTL DEF Spec
=============================================================================
