------------------------------- MODULE MCCospy -------------------------------
(***************************************************************************)
(* Programs for the small instances of Cospy, made of blocks.              *)
(***************************************************************************)
EXTENDS Cospy

Spaced == <<" ">>
Tight == <<>>

P(kws) == [i \in DOMAIN kws |-> Plain(kws[i])]
If0 == [kw |-> "if", cond |-> Num(0)]
If1 == [kw |-> "if", cond |-> Num(1)]
While(k) == [kw |-> "while", cond |-> Bin("<", Var, Num(k))]
Whiles == {While(1), While(2), While(4)}

Block(open, body, close) == <<open>> \o body \o <<Plain(close)>>
Bodies == {<<>>, P(<<"a">>), P(<<"a", "b">>)}
IfElse(p, q) == {Block(c, p \o P(<<"else">>) \o q, "endif") : c \in {If0, If1}}
OnlyIf(p) == {Block(c, p, "endif") : c \in {If0, If1}}
Ifs == UNION {OnlyIf(p) : p \in Bodies}
       \cup UNION {IfElse(P(<<"a">>), q) : q \in Bodies}

\* Loops whose body counts, with conditionals in it.
Loops == {Block(w, p \o q, "endwhile") : w \in Whiles,
            p \in {P(<<"a">>), P(<<"b", "a">>)}, q \in {<<>>} \cup OnlyIf(P(<<"c">>))}
Defs == {Block(Plain("def"), p, "enddef") \o P(<<"call">>) :
           p \in Bodies \cup OnlyIf(P(<<"c">>))}

\* Three blocks in a row, none inside another of its kind.
FlatBlocks == Bodies \cup Ifs \cup Loops \cup Defs
FlatPrograms == {p \o q \o r : p \in FlatBlocks, q \in Ifs \cup Loops,
                               r \in {<<>>, P(<<"c">>), P(<<"call">>)}}

\* A conditional on every expression of two operators.
Atoms == {Var, Num(0), Num(2)}
Operations == {Bin(o, l, r) : o \in Binary, l, r \in Atoms}
              \cup {Un(o, e) : o \in {"neg", "not"}, e \in Atoms}
Expressions == {Bin(o, l, r) : o \in Binary, l \in Operations, r \in Atoms}
               \cup {Bin(o, l, r) : o \in Binary, l \in Atoms, r \in Operations}
               \cup {Un(o, e) : o \in {"neg", "not"}, e \in Operations}
ExprPrograms == {P(<<"a">>) \o Block([kw |-> "if", cond |-> e], P(<<"b">>), "endif") :
                   e \in Expressions}
FlatAndExpr == FlatPrograms \cup ExprPrograms
TightPrograms == {Block([kw |-> "if", cond |-> e], P(<<"b">>), "endif") :
                    e \in Operations}

\* An if inside an if, a loop inside a loop, exit in a branch.
NestedIfs == UNION {OnlyIf(p \o P(<<"b">>)) : p \in Ifs}
NestedLoops == {Block(w, P(<<"a">>) \o p \o P(<<"b">>), "endwhile") :
                  w \in Whiles, p \in Loops}
ExitPrograms == {p \o P(<<"b">>) : p \in OnlyIf(P(<<"exit">>))}
=============================================================================
