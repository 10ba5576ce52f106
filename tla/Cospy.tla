-------------------------------- MODULE Cospy --------------------------------
(***************************************************************************)
(* The control flow of the CosyPy interpreter, kernel/cospy.c: lines come  *)
(* one by one (cospy_repl, cospy_run_file), and conditionals, loops and    *)
(* functions are kept in a handful of counters and flags instead of a      *)
(* syntax tree.  The reference is what the lines mean as nested blocks.    *)
(*                                                                         *)
(* A line is its keyword and, for if and while, a condition: a tree, which *)
(* the programmer has written down (CospyExpr).  Simple statements are     *)
(* letters, each adds one to the variable n.  There is one function name.  *)
(* The interpreter is sequential: an action is one line, with the loop it  *)
(* may close.  A file has no more lines than cospy_run_file keeps (64).    *)
(***************************************************************************)
EXTENDS CospyExpr

CONSTANTS Programs,       \* sequences of lines
          BodyMax,        \* lines of a loop body (16), of a function (32)
          MaxFuncs,       \* COSPY_MAX_FUNCS
          MaxIter         \* iterations of a loop (1000)

Simple == {"a", "b", "c"}
Keywords == Simple \cup {"if", "else", "endif", "while", "endwhile",
                         "def", "enddef", "call", "exit"}
Plain(kw) == [kw |-> kw, cond |-> Num(0)]

ASSUME CospyAssumption ==
  /\ BodyMax \in Nat /\ MaxFuncs \in Nat /\ MaxIter \in Nat
  /\ \A p \in Programs : \A i \in 1 .. Len(p) : p[i].kw \in Keywords

VARIABLES prog,   \* the program being typed, or run from a file
          repl,   \* which of the two
          next,   \* its next line
          st      \* the static variables of cospy.c, and what has been done

vars == <<prog, repl, next, st>>

\* cospy_init.
Fresh == [in_if_false |-> FALSE, if_depth |-> 0,
          while_depth |-> 0, while_cond |-> Num(0), body |-> <<>>,
          defining |-> FALSE, funcs |-> <<>>,
          n |-> 0, out |-> <<>>, exited |-> FALSE]

-----------------------------------------------------------------------------
(* execute_statement *)

CondHolds(t, cond) == parse_expr(Text(cond), t.n) # 0

\* A line while a function is being defined: those beyond the limit are lost.
Define(t, l) ==
  IF l.kw = "enddef" THEN [t EXCEPT !.defining = FALSE]
  ELSE IF Len(Last(t.funcs)) >= BodyMax THEN t
  ELSE [t EXCEPT !.funcs[Len(t.funcs)] = Append(@, l)]

\* Mutant: endif leaves the flag of the false branch set.
Endif_FlagKept(t) ==
  [t EXCEPT !.if_depth = IF @ > 0 THEN @ - 1 ELSE 0]

Endif(t) == IF t.if_depth = 0 THEN t
            ELSE [t EXCEPT !.if_depth = @ - 1,
                           !.in_if_false = @ /\ t.if_depth # 1]

\* Mutant: else is ignored.
Else_Ignored(t) == t

Else(t) == IF t.if_depth = 1 THEN [t EXCEPT !.in_if_false = ~@] ELSE t
\* In a false branch the condition is not evaluated.
If(t, cond) == [t EXCEPT !.if_depth = @ + 1, !.in_if_false = @ \/ ~cond]

RECURSIVE execute_statement(_, _)
\* run_function: the lines of the first function of that name, exit ignored.
run_function(t) ==
  [FoldLeft(execute_statement, t, t.funcs[1]) EXCEPT !.exited = FALSE]

\* The statement as the tests of execute_statement order it: exit first, then
\* if, else and endif, and only then the test for a false branch.
execute_statement(t, l) ==
  CASE t.defining -> Define(t, l)
    [] ~t.defining /\ l.kw = "exit" -> [t EXCEPT !.exited = TRUE]
    [] ~t.defining /\ l.kw = "endif" -> Endif(t)
    [] ~t.defining /\ l.kw = "else" -> Else(t)
    [] ~t.defining /\ l.kw = "if" -> If(t, CondHolds(t, l.cond))
    [] OTHER ->
         IF t.in_if_false \/ l.kw \in {"endwhile", "enddef"} THEN t
         ELSE IF l.kw = "while"
              THEN [t EXCEPT !.while_cond = l.cond, !.while_depth = @ + 1]
         ELSE IF l.kw = "def"
              THEN IF Len(t.funcs) >= MaxFuncs THEN t
                   ELSE [t EXCEPT !.defining = TRUE, !.funcs = Append(@, <<>>)]
         ELSE IF l.kw = "call" THEN IF t.funcs = <<>> THEN t ELSE run_function(t)
         ELSE [t EXCEPT !.n = @ + 1, !.out = Append(@, l.kw)]

-----------------------------------------------------------------------------
(* cospy_repl and cospy_run_file *)

\* A line inside a loop is kept for later, those beyond the limit are lost.
Collect(t, l) ==
  [t EXCEPT !.body = IF Len(@) < BodyMax THEN Append(@, l) ELSE @,
            !.while_depth = IF l.kw = "while" THEN @ + 1 ELSE @]

\* while_body_count = 0, after the loop.
Forget(t) == [t EXCEPT !.body = <<>>]

\* exit in the body: the REPL leaves the rest of the body but not the loop, a
\* file goes on as if nothing had been said.
BodyLine(t, l) == IF repl /\ t.exited THEN t ELSE execute_statement(t, l)
BodyOnce(t) == [FoldLeft(BodyLine, t, t.body) EXCEPT !.exited = FALSE]
Turn(t, k) == IF CondHolds(t, t.while_cond) THEN BodyOnce(t) ELSE t

\* endwhile: the outermost one runs the loop.
Close(t) ==
  LET u == [t EXCEPT !.while_depth = @ - 1] IN
  IF u.while_depth > 0 THEN u
  ELSE Forget(FoldLeft(Turn, u, [k \in 1 .. MaxIter |-> k]))

\* One turn of either loop.
Line ==
  /\ next <= Len(prog)
  /\ LET l == prog[next]
         after == IF st.while_depth > 0 /\ l.kw # "endwhile" THEN Collect(st, l)
                  ELSE IF st.while_depth > 0 THEN Close(st)
                  ELSE execute_statement(st, l)
     IN /\ st' = [after EXCEPT !.exited = FALSE]
        /\ next' = IF after.exited /\ repl THEN Len(prog) + 1 ELSE next + 1
  /\ UNCHANGED <<prog, repl>>

Over == next > Len(prog)
Done == Over /\ UNCHANGED vars

Init == prog \in Programs /\ repl \in BOOLEAN /\ next = 1 /\ st = Fresh
Next == Line \/ Done
Spec == Init /\ [][Next]_vars

-----------------------------------------------------------------------------
(* The reference: lines as nested blocks *)

Opens == {"if", "while", "def"}
Closes == {"endif", "endwhile", "enddef"}
Level(p, i) == Len(SelectSeq(SubSeq(p, 1, i - 1), LAMBDA l : l.kw \in Opens))
               - Len(SelectSeq(SubSeq(p, 1, i - 1), LAMBDA l : l.kw \in Closes))
\* The first line after i, of one of the kinds, that belongs to i's block.
Matching(p, i, kinds) ==
  CHOOSE j \in i + 1 .. Len(p) :
    /\ p[j].kw \in kinds /\ Level(p, j) = Level(p, i) + 1
    /\ \A k \in i + 1 .. j - 1 : p[k].kw \in kinds => Level(p, k) # Level(p, i) + 1
Opening(p, i) ==
  CHOOSE j \in 1 .. i - 1 :
    /\ p[j].kw \in Opens /\ Level(p, j) = Level(p, i) - 1
    /\ \A k \in j + 1 .. i - 1 : p[k].kw \in Opens => Level(p, k) # Level(p, j)

\* One step at line m.at: `back` is where calls return to, `from` the line the
\* function was defined at (0: not yet).
Step(p, m) ==
  LET l == p[m.at].kw
      holds == Value(p[m.at].cond, m.n) # 0
      go(j) == [m EXCEPT !.at = j] IN
  CASE l \in Simple -> [m EXCEPT !.at = @ + 1, !.n = @ + 1, !.out = Append(@, l)]
    [] l = "if" -> IF holds THEN go(m.at + 1)
                   ELSE go(Matching(p, m.at, {"else", "endif"}) + 1)
    [] l = "else" -> go(Matching(p, Opening(p, m.at), {"endif"}) + 1)
    [] l = "while" -> IF holds THEN go(m.at + 1)
                      ELSE go(Matching(p, m.at, {"endwhile"}) + 1)
    [] l = "endwhile" -> go(Opening(p, m.at))
    [] l = "def" -> [m EXCEPT !.from = m.at,
                              !.at = Matching(p, m.at, {"enddef"}) + 1]
    [] l = "call" -> IF m.from = 0 THEN go(m.at + 1)
                     ELSE [m EXCEPT !.at = m.from + 1, !.back = Append(@, m.at + 1)]
    [] l = "enddef" -> [m EXCEPT !.at = Last(m.back), !.back = Front(@)]
    [] l = "exit" -> go(Len(p) + 1)
    [] OTHER -> go(m.at + 1)

RECURSIVE RunFrom(_, _, _)
RunFrom(p, m, fuel) == IF fuel = 0 \/ m.at > Len(p) THEN m.out
                       ELSE RunFrom(p, Step(p, m), fuel - 1)
Meaning(p) ==
  RunFrom(p, [at |-> 1, n |-> 0, out |-> <<>>, from |-> 0, back |-> <<>>], 60)

-----------------------------------------------------------------------------
(* Properties *)

\* The statements a program executes are the ones its blocks call for
\* (cospy.h: "conditional (ends with endif)", "while loop (ends with
\* endwhile)", "function definition (ends with enddef)", "exit REPL").
MeansItsBlocks == Over => st.out = Meaning(prog)

\* An expression has the value its tree has: precedence, association to the
\* left, unary operators and signs (next_token, parse_expr and below).
EvaluatesAsWritten ==
  \A e \in {prog[i].cond : i \in {i \in 1 .. Len(prog) : i = next}} :
    parse_expr(Text(e), st.n) = Value(e, st.n)

\* Everything is closed at the end of a program whose blocks are: the flags of
\* execute_statement and the loop counters are back where cospy_init put them,
\* so one more line would be executed.
ReadyForMore ==
  Over => /\ ~st.in_if_false /\ st.if_depth = 0
          /\ st.while_depth = 0 /\ st.body = <<>> /\ ~st.defining
=============================================================================
