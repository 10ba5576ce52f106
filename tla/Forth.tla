-------------------------------- MODULE Forth --------------------------------
(***************************************************************************)
(* The Forth interpreter of kernel/lang.c: its words on the bounded stack. *)
(* A value is an int32_t, a number of WordSize \div 2 below zero and as    *)
(* many above; arithmetic wraps, as the instructions of the build do.      *)
(* What the words print is reduced to whether it is a complaint.           *)
(***************************************************************************)
EXTENDS Integers, Sequences, SequencesExt

CONSTANTS STACK_MAX,
          WordSize,   \* 2^32 in the code
          Numbers     \* the numbers that are typed

ASSUME ForthAssumption ==
  /\ STACK_MAX \in Nat \ {0} /\ WordSize \in Nat \ {0, 1} /\ WordSize % 2 = 0
  /\ Numbers \subseteq -(WordSize \div 2) .. WordSize \div 2 - 1

VARIABLES stack,     \* stack[0 .. sp - 1], the top last
          word,      \* history: the last word executed,
          complaint  \* and whether it complained

forthVars == <<stack, word, complaint>>

ForthInit == stack = <<>> /\ word = "none" /\ complaint = FALSE

sp == Len(stack)
Lowest == -(WordSize \div 2)
Wrap(v) == ((v - Lowest) % WordSize) + Lowest

Abs(v) == IF v < 0 THEN -v ELSE v
\* Division of int32_t rounds towards zero.
Quotient(a, b) == IF (a < 0) = (b < 0) THEN Abs(a) \div Abs(b)
                  ELSE -(Abs(a) \div Abs(b))

Leave(s, bad) == stack' = s /\ complaint' = bad

\* Mutant: one value too many.
Full_TooLate == sp > STACK_MAX

\* The test in push.
Full == sp >= STACK_MAX

Binary == {"+", "-", "*", "/"}
Result(w, a, b) == CASE w = "+" -> Wrap(a + b) [] w = "-" -> Wrap(a - b)
                     [] w = "*" -> Wrap(a * b) [] w = "/" -> Quotient(a, b)

\* b is popped first: a single value is lost before the underflow is noticed.
\* A division by zero pushes both values again.
Operate(w) ==
  IF sp < 2 THEN Leave(<<>>, TRUE)
  ELSE LET a == stack[sp - 1]
           b == stack[sp]
           rest == SubSeq(stack, 1, sp - 2)
       IN IF w = "/" /\ b = 0 THEN Leave(rest \o <<a, b>>, TRUE)
          ELSE Leave(Append(rest, Result(w, a, b)), FALSE)

\* The lowest number divided by -1 is an exception of the processor, whose
\* handler returns to the same instruction: the machine stays there.
Traps(w) == w = "/" /\ sp >= 2 /\ stack[sp - 1] = Lowest /\ stack[sp] = -1

Dup == IF sp = 0 \/ Full THEN Leave(stack, TRUE)
       ELSE Leave(Append(stack, stack[sp]), FALSE)
Drop == IF sp = 0 THEN Leave(stack, TRUE) ELSE Leave(Front(stack), FALSE)
Swap == IF sp < 2 THEN Leave(stack, TRUE)
        ELSE Leave([stack EXCEPT ![sp] = stack[sp - 1],
                                 ![sp - 1] = stack[sp]], FALSE)
Number == \E n \in Numbers :
            IF Full THEN Leave(stack, TRUE) ELSE Leave(Append(stack, n), FALSE)

\* One word of a line; . pops and prints, .s, mem and words only print.
Execute(w) ==
  /\ word' = w
  /\ \/ w \in Binary /\ ~Traps(w) /\ Operate(w)
     \/ w = "dup" /\ Dup
     \/ w \in {"drop", "."} /\ Drop
     \/ w = "swap" /\ Swap
     \/ w = "clear" /\ Leave(<<>>, FALSE)
     \/ w = "number" /\ Number
     \/ w \in {".s", "unknown"} /\ Leave(stack, w = "unknown")

ForthWords == Binary \cup {"dup", "drop", ".", "swap", "clear", "number", ".s",
                      "unknown"}

-----------------------------------------------------------------------------
(* Property *)

\* How many values a word takes, and how many it leaves.
Takes == [w \in ForthWords |-> CASE w \in Binary \cup {"swap"} -> 2
                            [] w \in {"dup", "drop", "."} -> 1
                            [] w = "clear" -> STACK_MAX
                            [] OTHER -> 0]
Leaves == [w \in ForthWords |-> CASE w \in {"dup", "swap"} -> 2
                             [] w \in Binary \cup {"number"} -> 1
                             [] OTHER -> 0]
Below(s, n) == SubSeq(s, 1, Len(s) - n)

\* No word ever touches what lies below the values it takes; a word that does
\* not complain has found them all and left exactly its results, on a stack
\* that stays within stack[]; and a word that complains leaves nothing extra.
\* The pushes of lang.c whose result nobody looks at never fail.
StackDiscipline ==
  [][word' \in ForthWords =>
       /\ Below(stack, Takes[word']) = SubSeq(stack', 1, sp - Takes[word'])
       /\ sp' <= STACK_MAX
       /\ IF complaint' THEN sp' <= sp
          ELSE word' = "clear" \/ sp' = sp - Takes[word'] + Leaves[word']
    ]_forthVars

\* "stack underflow" (lang.c): a word that complains has done nothing.
ComplaintKeepsStack == [][word' \in ForthWords /\ complaint' => stack' = stack]_forthVars
=============================================================================
