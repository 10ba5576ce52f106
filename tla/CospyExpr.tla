------------------------------ MODULE CospyExpr ------------------------------
(***************************************************************************)
(* The tokenizer and the expression parser of kernel/cospy.c, and what an  *)
(* expression means as a tree.                                             *)
(*                                                                         *)
(* A text is a sequence of symbols: blanks, digits, the characters of the  *)
(* operators, and whole words.  The one variable is n; a word that is not  *)
(* a variable counts as 0.  Values stay far below the 32 bits of int32_t.  *)
(* String literals and input() are left out.                               *)
(***************************************************************************)
EXTENDS Integers, Sequences, SequencesExt

CONSTANT Gap      \* what the programmer puts on both sides of an operator

DigitValue == [d \in {"0", "1", "2", "3", "4"} |->
                 CHOOSE v \in 0 .. 4 : d = <<"0", "1", "2", "3", "4">>[v + 1]]
Digits == DOMAIN DigitValue
Truth(b) == IF b THEN 1 ELSE 0

-----------------------------------------------------------------------------
(* next_token *)

Token(kind, v, len) == [kind |-> kind, v |-> v, len |-> len]
At(s, i) == IF i <= Len(s) THEN s[i] ELSE "end"
DigitRun(s) == CHOOSE k \in 0 .. Len(s) :
                 At(s, k + 1) \notin Digits /\ \A i \in 1 .. k : s[i] \in Digits
NumberOf(ds) == FoldLeft(LAMBDA v, d : 10 * v + DigitValue[d], 0, ds)

WithEquals == [c \in {"=", "<", ">", "!"} |->
                 CASE c = "=" -> "==" [] c = "<" -> "<="
                   [] c = ">" -> ">=" [] c = "!" -> "!="]

\* A minus directly before a digit belongs to the number.
IsNumber(s) == At(s, 1) \in Digits \/ (At(s, 1) = "-" /\ At(s, 2) \in Digits)

\* The token at the start of s, which is not blank: a number, an operator of
\* one or two characters, or a word.
next_token(s) ==
  IF IsNumber(s)
  THEN LET sign == IF At(s, 1) = "-" THEN 1 ELSE 0
           ds == SubSeq(s, sign + 1, sign + DigitRun(SubSeq(s, sign + 1, Len(s))))
       IN Token("number", IF sign = 1 THEN -NumberOf(ds) ELSE NumberOf(ds),
                sign + Len(ds))
  ELSE CASE At(s, 1) \in DOMAIN WithEquals /\ At(s, 2) = "=" ->
              Token(WithEquals[At(s, 1)], 0, 2)
         [] At(s, 1) = "!" /\ At(s, 2) # "=" -> Token("not", 0, 1)
         [] OTHER -> Token(At(s, 1), 0, 1)

RECURSIVE Tokens(_)
Tokens(s) ==
  IF s = <<>> THEN <<>>
  ELSE IF Head(s) = " " THEN Tokens(Tail(s))
  ELSE LET t == next_token(s) IN <<t>> \o Tokens(SubSeq(s, t.len + 1, Len(s)))

-----------------------------------------------------------------------------
(* parse_expr and the functions under it *)

\* The operators that bind at each level, from parse_expr (1) to parse_term
\* (5); level 6 is parse_primary.
LevelOf == [o \in {"or", "and", "<", ">", "<=", ">=", "==", "!=", "+", "-",
                   "*", "/", "%"} |->
  CASE o = "or" -> 1 [] o = "and" -> 2
    [] o \in {"<", ">", "<=", ">=", "==", "!="} -> 3
    [] o \in {"+", "-"} -> 4 [] o \in {"*", "/", "%"} -> 5]
Binary == DOMAIN LevelOf

Abs(x) == IF x < 0 THEN -x ELSE x
\* C's division, which truncates; by zero it is reported and yields 0.
Quotient(a, b) == IF b = 0 THEN 0
                  ELSE IF (a < 0) = (b < 0) THEN Abs(a) \div Abs(b)
                  ELSE -(Abs(a) \div Abs(b))
Remainder(a, b) == IF b = 0 THEN 0 ELSE a - b * Quotient(a, b)

Apply(o, a, b) ==
  CASE o = "or" -> Truth(a # 0 \/ b # 0) [] o = "and" -> Truth(a # 0 /\ b # 0)
    [] o = "<" -> Truth(a < b) [] o = ">" -> Truth(a > b)
    [] o = "<=" -> Truth(a <= b) [] o = ">=" -> Truth(a >= b)
    [] o = "==" -> Truth(a = b) [] o = "!=" -> Truth(a # b)
    [] o = "+" -> a + b [] o = "-" -> a - b [] o = "*" -> a * b
    [] o = "/" -> Quotient(a, b) [] o = "%" -> Remainder(a, b)

Parsed(v, rest) == [val |-> v, rest |-> rest]
Peek(ts) == IF ts = <<>> THEN "end" ELSE Head(ts).kind
Skip(ts, kind) == IF Peek(ts) = kind THEN Tail(ts) ELSE ts
\* The arguments of a call are skipped up to the closing parenthesis.
AfterCall(ts) ==
  LET k == CHOOSE k \in 0 .. Len(ts) :
             /\ k = Len(ts) \/ ts[k + 1].kind = ")"
             /\ \A i \in 1 .. k : ts[i].kind # ")"
  IN SubSeq(ts, k + 2, Len(ts))

RECURSIVE parse(_, _, _)
parse_primary(ts, n) ==
  LET inner == parse(1, Tail(ts), n)
      operand == parse(6, Tail(ts), n)
  IN CASE Peek(ts) = "end" -> Parsed(0, ts)
       [] Peek(ts) = "number" -> Parsed(Head(ts).v, Tail(ts))
       [] Peek(ts) \in {"n", "f"} ->
            IF Peek(Tail(ts)) = "(" THEN Parsed(0, AfterCall(Tail(Tail(ts))))
            ELSE Parsed(IF Peek(ts) = "n" THEN n ELSE 0, Tail(ts))
       [] Peek(ts) = "(" -> Parsed(inner.val, Skip(inner.rest, ")"))
       [] Peek(ts) = "-" -> Parsed(-operand.val, operand.rest)
       [] Peek(ts) = "not" -> Parsed(Truth(operand.val = 0), operand.rest)
       [] OTHER -> Parsed(0, ts)

\* Mutant: one operator of a level, then the level is left.
more_Once(level, r, n) ==
  IF Peek(r.rest) \notin Binary THEN r
  ELSE IF LevelOf[Peek(r.rest)] # level THEN r
  ELSE LET right == parse(level + 1, Tail(r.rest), n)
       IN Parsed(Apply(Peek(r.rest), r.val, right.val), right.rest)

\* The loop of each level: as long as an operator of the level follows.
RECURSIVE more(_, _, _)
more(level, r, n) ==
  IF Peek(r.rest) \notin Binary THEN r
  ELSE IF LevelOf[Peek(r.rest)] # level THEN r
  ELSE LET right == parse(level + 1, Tail(r.rest), n)
       IN more(level, Parsed(Apply(Peek(r.rest), r.val, right.val), right.rest), n)

parse(level, ts, n) ==
  IF level = 6 THEN parse_primary(ts, n) ELSE more(level, parse(level + 1, ts, n), n)

parse_expr(s, n) == parse(1, Tokens(s), n).val

-----------------------------------------------------------------------------
(* The reference: expressions as trees *)

Num(k) == [op |-> "num", v |-> k]
Var == [op |-> "var"]
Un(o, e) == [op |-> o, e |-> e]              \* "neg" or "not"
Bin(o, l, r) == [op |-> o, l |-> l, r |-> r]

RECURSIVE Value(_, _)
Value(e, n) ==
  CASE e.op = "num" -> e.v
    [] e.op = "var" -> n
    [] e.op = "neg" -> -Value(e.e, n)
    [] e.op = "not" -> Truth(Value(e.e, n) = 0)
    [] OTHER -> Apply(e.op, Value(e.l, n), Value(e.r, n))

\* How an expression is written with no more parentheses than it needs: what
\* stands where the grammar wants a given level.
Chars(o) == CASE o = "<=" -> <<"<", "=">> [] o = ">=" -> <<">", "=">>
              [] o = "==" -> <<"=", "=">> [] o = "!=" -> <<"!", "=">>
              [] OTHER -> <<o>>
RECURSIVE Written(_, _)
Written(e, level) ==
  CASE e.op = "num" -> <<<<"0", "1", "2", "3", "4">>[e.v + 1]>>
    [] e.op = "var" -> <<"n">>
    [] e.op = "neg" -> <<"-">> \o Written(e.e, 6)
    [] e.op = "not" -> <<"not", " ">> \o Written(e.e, 6)
    [] OTHER ->
         LET k == LevelOf[e.op]
             s == Written(e.l, k) \o Gap \o Chars(e.op) \o Gap \o Written(e.r, k + 1)
         IN IF k < level THEN <<"(">> \o s \o <<")">> ELSE s
Text(e) == Written(e, 1)
=============================================================================
