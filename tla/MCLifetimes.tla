---------------------------- MODULE MCLifetimes ----------------------------
(***************************************************************************)
(* Functions for Lifetimes. A statement is written with the values it      *)
(* defines numbered from a base, so that no two of a function are the same.*)
(***************************************************************************)
EXTENDS Lifetimes

Box == Class(<<Plain>>, TRUE)
Pair == Class(<<Plain, Box>>, FALSE)
Holder == Alternative(<<Plain, Array(Pair)>>)
View == Class(<<OwningPtr(Box)>>, FALSE)

Nothing == <<Yield(<<>>)>>
Leaf(kind, v, t, args) == Op(kind, v, t, args, <<>>)

\* let x : T
Let(n, t) == Op("decl", n, t, <<>>,
                <<<<Leaf("construct", n + 1, t, <<>>), Yield(<<Value(n + 1)>>)>>>>)
\* let x = f(g())
LetCall(n, t) == Op("decl", n, t, <<>>,
                    <<<<Leaf("call", n + 1, t, <<>>),
                        Leaf("call", n + 2, t, <<Value(n + 1)>>),
                        Yield(<<Value(n + 2)>>)>>>>)
\* x.f()
Use(n, x) == Op("exp", NoValue, Plain, <<>>,
                <<<<Leaf("use", n, Plain, <<Value(x)>>), Yield(<<>>)>>>>)
\* f()
Temporary(n, t) == Op("exp", NoValue, Plain, <<>>,
                      <<<<Leaf("call", n, t, <<>>), Yield(<<>>)>>>>)
\* a condition: free, of a temporary, a reference into a temporary, a and b
Free == <<Yield(<<Value(NoValue)>>)>>
Asked(n, t) == <<Leaf("call", n, t, <<>>), Leaf("use", n + 1, Plain, <<Value(n)>>),
                 Yield(<<Value(NoValue)>>)>>
InTemporary(n, t) == <<Leaf("call", n, t, <<>>), Yield(<<Inside(n)>>)>>
ShortCut(kind, n, t) ==
    <<Op(kind, n, Plain, <<>>, <<InTemporary(n + 1, t), InTemporary(n + 2, t)>>),
      Yield(<<Value(n)>>)>>

If(c, t, e) == Op("if", NoValue, Plain, <<>>, <<c, t, e>>)
While(c, b) == Op("while", NoValue, Plain, <<>>, <<c, b>>)
List(b) == Op("list", NoValue, Plain, <<>>, <<b>>)
Leave(kind, n) == Op(kind, n, Plain, <<>>, <<Nothing>>)
ReturnNothing == Op("return", NoValue, Plain, <<>>, <<Nothing>>)
ReturnCall(n, t) == Op("return", NoValue, Plain, <<>>,
                       <<<<Leaf("call", n, t, <<>>), Yield(<<Value(n)>>)>>>>)
ReturnCopy(n, x, t) == Op("return", NoValue, Plain, <<>>,
                          <<<<Leaf("construct", n, t, <<>>),
                              Leaf("use", n + 1, Plain, <<Value(x)>>),
                              Yield(<<Value(n)>>)>>>>)
Act(a) == Leaf("act", a, Plain, <<>>)
Actions(rs) == Op("actions", NoValue, Plain, <<>>, rs)

Optional(S) == {<<>>} \cup {<<x>> : x \in S}

(* Statements with something to destroy: a variable, a variable built from *)
(* a temporary, a temporary.                                               *)
Simple(n) == {Let(n, Box), LetCall(n, Pair), Temporary(n, Holder)}
End == <<Yield(<<>>)>>
LoopEnds(n) == {End, <<Leave("break", n)>>, <<Leave("continue", n)>>,
                <<ReturnCall(n, Box)>>}

(* Functions: a loop with an if in it, values before, inside and after.    *)
Loops ==
    {<<Let(1, Box), While(c, s1 \o <<If(d, s2 \o e, f)>> \o s3 \o End), Use(60, 1)>> \o l :
       c \in {Free, Asked(5, Holder)},
       s1 \in Optional({LetCall(10, Pair)}),
       d \in {Free, ShortCut("and", 15, Box), ShortCut("or", 15, Holder)},
       s2 \in Optional(Simple(20)),
       e \in LoopEnds(25),
       f \in {End, <<Let(30, Holder), Leave("break", 35)>>},
       s3 \in Optional(Simple(40)),
       l \in {End, <<ReturnCopy(70, 1, Box)>>}}

(* A loop in a loop, left or continued from both.                          *)
Nested ==
    {<<While(Free, s1 \o <<While(Free, <<Let(10, Box), If(Free, inner, End)>> \o End),
                           If(Asked(30, Box), outer, End)>> \o End)>> \o End :
       s1 \in Optional({Let(1, View), Let(1, Pair), List(<<Let(1, Box)>> \o End)}),
       inner \in LoopEnds(20),
       outer \in LoopEnds(40)}

(* Action functions: an act in a branch, then alternatives.                *)
Alternatives(n) ==
    Actions(<<<<Act(n), Let(n + 2, Box), Use(n + 4, n + 2)>> \o End,
              <<Act(n + 1), ReturnCall(n + 5, Box)>>>>)

Branches ==
    {s1 \o <<If(Free, s2 \o <<Act(a)>> \o s3 \o e, f)>> \o s4
        \o <<Alternatives(50)>> \o s5 \o End :
       a \in {20, 21},
       s1 \in Optional({Let(1, Box), LetCall(1, Pair)}),
       s2 \in Optional(Simple(10)),
       s3 \in Optional(Simple(25)),
       e \in {End, <<ReturnNothing>>},
       f \in {End, <<Let(35, Box)>> \o End},
       s4 \in Optional({LetCall(40, Pair)}),
       s5 \in Optional({Let(60, Box)})}

(* An act in a loop whose body declares nothing, except before an act that *)
(* every turn goes through.                                                *)
Rounds ==
    {s1 \o <<While(Free, s2 \o x \o s3 \o e)>> \o s4 \o End :
       s1 \in Optional({LetCall(1, Pair)}),
       s2 \in Optional({Temporary(10, Holder)}),
       x \in {<<Let(15, Box), Act(20)>>, <<Let(15, Pair), Alternatives(20)>>,
              <<If(Free, <<Act(20)>> \o End, End)>>,
              <<If(Free, <<Act(21), Temporary(22, Box), Leave("break", 23)>>, End)>>},
       s3 \in Optional({Temporary(30, Holder)}),
       e \in {End, <<If(Free, <<Leave("continue", 35)>>, End)>> \o End},
       s4 \in Optional({LetCall(40, Pair)})}

MCPrograms == Loops \cup Nested \cup Branches \cup Rounds
MCSynthetic == {21}

(* A variable declared after the act of a loop.                            *)
DeclaredAfterAct == {<<While(Free, <<Act(20), Let(30, Box)>> \o End)>> \o End}

=============================================================================
