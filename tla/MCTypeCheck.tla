----------------------------- MODULE MCTypeCheck -----------------------------
(***************************************************************************)
(* Programs for the type checker: classes that use each other, actions     *)
(* that call each other, bodies of nested scopes, and templates with the   *)
(* functions their calls may mean.                                         *)
(***************************************************************************)
EXTENDS TypeRules

IntW == Use("Int", <<>>)
BoolW == Use("Bool", <<>>)
VoidW == Use("Void", <<>>)
T == Param("T")
G == Constrained("HasF", "G")

MCTraits == "HasF" :> <<[name |-> "f", f |-> Function(<<TraitParam>>, <<IntegerType>>)]>>

(* Operations *)
Val(t) == [o |-> "value", t |-> t]
Name(n, id) == [o |-> "ref", n |-> n, id |-> id]
Call(f, args) == [o |-> "call", f |-> f, args |-> args, member |-> FALSE]
IsA(e, t) == [o |-> "is", of |-> e, t |-> t]
Exp(e) == [o |-> "exp", e |-> e]
LetIn(n, id, e) == [o |-> "declare", n |-> n, id |-> id, frm |-> FALSE, e |-> e]
FrmIn(n, id, e) == [o |-> "declare", n |-> n, id |-> id, frm |-> TRUE, e |-> e]
IfDo(c, then, else) == [o |-> "if", cond |-> c, then |-> then, else |-> else]
WhileDo(c, body) == [o |-> "while", cond |-> c, body |-> body]
ForIn(n, id, e, body) == [o |-> "for", n |-> n, id |-> id, e |-> e, body |-> body]
List(body) == [o |-> "list of statements", body |-> body]
ActDo(name, ins, args, pre) == [o |-> "act", name |-> name, ins |-> ins, args |-> args, pre |-> pre]
ActionsDo(alts) == [o |-> "actions", alts |-> alts]
ReturnDo(e) == [o |-> "return", e |-> e]
JumpDo == [o |-> "jump"]
AssertDo(e) == [o |-> "assert", e |-> e]
CanDo(e) == [o |-> "can", of |-> e]
SubDo(fwd, of, n, id) == [o |-> "subaction", fwd |-> fwd, of |-> of, n |-> n, id |-> id]
Arg(n, id) == [n |-> n, id |-> id]

ClassDecl(name, params, uses) == [name |-> name, params |-> params, uses |-> uses, alias |-> FALSE]
Using(name, t) == [name |-> name, params |-> <<>>, uses |-> <<t>>, alias |-> TRUE]
Fun(name, params, ins, out, args, body) ==
    [name |-> name, params |-> params, f |-> Function(ins, out), args |-> args, body |-> body,
     pre |-> <<>>, member |-> FALSE, file |-> "main"]
Action(name, cls, ins, args, body) ==
    [name |-> name, cls |-> cls, ins |-> ins, args |-> args, body |-> body, pre |-> <<>>, file |-> "main"]
Program(classes, funs, acts) == [classes |-> classes, funs |-> funs, acts |-> acts]

-----------------------------------------------------------------------------
(* Three classes, each made of up to two of: the others, itself, a number, *)
(* an array.                                                               *)
Names3 == {"A", "B", "C"}
FieldTypes == {<<>>, <<Use("A", <<>>)>>, <<Use("B", <<>>), IntW>>, <<Array(Use("C", <<>>), Literal("2"))>>,
               <<Use("A", <<>>), Use("C", <<>>)>>, <<Use("D", <<>>)>>}
Lasts == {ClassDecl("C", <<>>, fs) : fs \in FieldTypes} \cup {Using("C", Use(n, <<>>)) : n \in Names3}
         \cup {ClassDecl("C", <<T>>, <<Use("T", <<>>)>>), ClassDecl("B", <<>>, <<>>)}
ClassPrograms ==
    {Program(<<ClassDecl("A", <<>>, a), ClassDecl("B", <<>>, b), c>>, <<>>, <<>>) :
        a \in FieldTypes, b \in FieldTypes, c \in Lasts}

(* Three actions, each calling some of the three. *)
ActionName == <<"a", "b", "c">>
ActionClass == <<"A", "B", "C">>
CallsOf(a, callees) ==
    [i \in DOMAIN callees |->
        FrmIn("g" \o ActionName[callees[i]], <<a, i>>, Call(ActionName[callees[i]], <<>>))]
Increasing == {<<>>, <<1>>, <<2>>, <<3>>, <<1, 2>>, <<1, 3>>, <<2, 3>>, <<3, 2>>, <<2, 1>>}
ActionPrograms ==
    {Program(<<>>, <<>>, [a \in 1..3 |->
        Action(ActionName[a], ActionClass[a], <<>>, <<>>,
               CallsOf(a, callees[a]) \o <<ActDo("go" \o ActionName[a], <<>>, <<>>, <<>>)>>)]) :
            callees \in [1..3 -> Increasing]}

(* A function of an x that is a number or a truth value, made of two       *)
(* statements, nested ones too, and what may follow them.                  *)
IntOrBool == Alternative(<<IntW, BoolW>>)
UseX(id) == Name("x", id)
Simple(at) == {LetIn("y", at, UseX(Append(at, 1))), LetIn("x", at, Val(IntW)),
               Exp(Name("y", Append(at, 1))), ReturnDo(<<Val(IntW)>>), JumpDo}
Nested(at) ==
    {IfDo(IsA(UseX(Append(at, 1)), IntW), <<s>>, <<t>>) :
        s \in Simple(Append(at, 2)), t \in Simple(Append(at, 3)) \ {JumpDo}}
    \cup {WhileDo(Val(BoolW), <<s>>) : s \in Simple(Append(at, 2))}
    \cup {List(<<s>>) : s \in Simple(Append(at, 2))}
Twice ==
    {IfDo(IsA(UseX(<<1, 1>>), IntW), <<IfDo(IsA(UseX(<<1, 2>>), t), <<Exp(UseX(<<1, 3>>))>>, <<Exp(UseX(<<1, 4>>))>>)>>,
          <<Exp(UseX(<<1, 5>>))>>) : t \in {IntW, BoolW}}
Endings == {<<ReturnDo(<<UseX(<<9>>)>>)>>, <<LetIn("z", <<8>>, UseX(<<9>>))>>}
BodyPrograms ==
    {Program(<<>>, <<Fun("main", <<>>, <<IntOrBool>>, <<IntW>>, <<Arg("x", <<0>>)>>, <<s, t>> \o e)>>, <<>>) :
        s \in Nested(<<1>>) \cup Twice, t \in Simple(<<2>>) \cup Nested(<<2>>), e \in Endings}

(* A call of g, and what g and f may be: functions, templates, templates   *)
(* that need a trait, that test a type, that call themselves.              *)
X == Name("x", <<1>>)
OneArg(name, params, in, out, body) ==
    Fun(name, params, <<in>>, <<out>>, <<Arg("x", <<0>>)>>, body)
BoxOf(t) == Use("Box", <<t>>)
Tw == Use("T", <<>>)
Gw == Use("G", <<>>)
Pool == <<
    OneArg("f", <<>>, IntW, IntW, <<ReturnDo(<<X>>)>>),
    OneArg("f", <<T>>, BoxOf(Tw), IntW, <<ReturnDo(<<Val(IntW)>>)>>),
    OneArg("g", <<>>, BoolW, BoolW, <<ReturnDo(<<X>>)>>),
    OneArg("g", <<T>>, Tw, Tw,
           <<Exp(Call("h", <<X>>)), Exp(Call("h", <<Val(BoolW)>>)), ReturnDo(<<X>>)>>),
    OneArg("g", <<T>>, BoxOf(Tw), IntW, <<ReturnDo(<<Val(IntW)>>)>>),
    OneArg("g", <<G>>, Gw, IntW, <<ReturnDo(<<Call("f", <<X>>)>>)>>),
    OneArg("h", <<T>>, Tw, IntW,
           <<IfDo(IsA(X, Use("HasF", <<>>)), <<Exp(Call("f", <<X>>))>>, <<Exp(Call("h", <<X>>))>>),
             ReturnDo(<<Val(IntW)>>)>>)>>
Calls == {IntW, BoolW, BoxOf(IntW), BoxOf(BoolW)}
CallPrograms ==
    {Program(<<ClassDecl("Box", <<T>>, <<Tw>>)>>,
             SelectSeq(Pool, LAMBDA d : d \in chosen)
             \o <<Fun("main", <<>>, <<>>, <<VoidW>>, <<>>, <<Exp(Call("g", <<Val(t)>>))>>)>>, <<>>) :
        chosen \in SUBSET ToSet(Pool), t \in Calls}

(* One statement of every other kind, right and wrong, in a function of an *)
(* x that is a number, next to a class that can be looped over and a       *)
(* template of an array's size.                                            *)
AndAlso(l, r) == [o |-> "both", left |-> l, right |-> r]
ListOf(args) == [o |-> "list", args |-> args]
Row == Use("Row", <<>>)
Nope == Use("Nope", <<>>)
N == NumberParam("N")
Member(name, ins, out) ==
    [Fun(name, <<>>, ins, <<out>>, [i \in DOMAIN ins |-> Arg("p" \o ToString(i), <<0, i>>)],
         <<ReturnDo(<<Val(out)>>)>>) EXCEPT !.member = TRUE]
Library == <<
    Member("size", <<Row>>, IntW), Member("get", <<Row, IntW>>, BoolW),
    Fun("count", <<T, N>>, <<Array(Tw, Use("N", <<>>))>>, <<IntW>>, <<Arg("a", <<0>>)>>,
        <<ReturnDo(<<Name("N", <<1, 1>>)>>)>>),
    [Fun("_hidden", <<>>, <<>>, <<IntW>>, <<>>, <<ReturnDo(<<Val(IntW)>>)>>) EXCEPT !.file = "other"]>>
Statements == {
    Exp(Val(Nope)), Exp(IsA(Val(IntW), Nope)), Exp(Name("size", <<1>>)),
    Exp(AndAlso(Val(BoolW), Val(BoolW))), Exp(AndAlso(Val(IntW), Val(BoolW))), Exp(AndAlso(Val(BoolW), Val(IntW))),
    Exp(Call("count", <<ListOf(<<Val(IntW), UseX(<<1>>)>>)>>)), Exp(ListOf(<<Val(IntW), Val(BoolW)>>)),
    Exp(Call("float", <<UseX(<<1>>)>>)), Exp(Call("_hidden", <<>>)), Exp(Call("get", <<Val(Row), Val(IntW)>>)),
    FrmIn("y", <<1>>, Val(IntW)), WhileDo(Val(IntW), <<>>), WhileDo(Val(BoolW), <<JumpDo>>),
    ForIn("b", <<1>>, Val(Row), <<Exp(Call("bool", <<Name("b", <<2>>)>>))>>), ForIn("b", <<1>>, Val(IntW), <<>>),
    IfDo(Val(IntW), <<>>, <<>>), IfDo(IsA(UseX(<<1>>), IntW), <<LetIn("x", <<2>>, Val(IntW))>>, <<>>),
    IfDo(IsA(UseX(<<1>>), Use("HasF", <<>>)), <<Exp(Call("f", <<UseX(<<2>>)>>))>>, <<>>),
    AssertDo(CanDo(Call("count", <<ListOf(<<UseX(<<1>>)>>)>>))), AssertDo(UseX(<<1>>)),
    Exp(CanDo(UseX(<<1>>))), Exp(CanDo(Call("float", <<UseX(<<1>>)>>))), SubDo(<<>>, <<UseX(<<1>>)>>, "", <<2>>),
    ReturnDo(<<Val(BoolW)>>), ReturnDo(<<Val(IntW)>>), ActDo("go", <<>>, <<>>, <<>>), ActionsDo(<<<<>>>>)}
MainOf(stmts) ==
    Fun("main", <<>>, <<IntW>>, <<IntW>>, <<Arg("x", <<0>>)>>, stmts \o <<ReturnDo(<<Val(IntW)>>)>>)
StatementPrograms ==
    {Program(<<ClassDecl("Row", <<>>, <<>>)>>, Append(Library, MainOf(<<s>>)), <<>>) : s \in Statements}
    \cup {Program(<<>>, <<Pool[1], OneArg("asks", <<G>>, Gw, IntW, <<ReturnDo(<<Call("f", <<Val(t)>>)>>)>>)>>, <<>>) :
              t \in {IntW, BoolW}}
    \cup {Program(<<>>, <<f, f>>, <<>>) : f \in {MainOf(<<>>), [MainOf(<<>>) EXCEPT !.f.ins = <<Nope>>]}}

(* A game whose act takes a number besides the one the game is given each  *)
(* time, and another that plays it.                                        *)
Ctx(t) == Type("ctx", "", <<t>>)
GoWith(t, id) == ActDo("go", <<t>>, <<Arg("n", id)>>, <<Exp(Name("n", Append(id, 1)))>>)
Game(name, cls, stmts) ==
    Action(name, cls, <<Ctx(IntW)>>, <<Arg("host", <<0>>)>>, stmts)
Played == FrmIn("g", <<1>>, Call("game", <<Val(IntW)>>))
GamePlays == {
    <<GoWith(IntW, <<1>>), Exp(Name("n", <<2>>)), Exp(Name("host", <<3>>))>>,
    <<GoWith(IntW, <<1>>), GoWith(BoolW, <<2>>)>>,
    <<GoWith(Nope, <<1>>)>>, <<>>, <<ActionsDo(<<>>)>>,
    <<ForIn("i", <<1>>, Val(IntW), <<IfDo(Val(BoolW), <<>>, <<GoWith(IntW, <<2>>)>>)>>)>>,
    <<ActionsDo(<<<<GoWith(IntW, <<1>>)>>, <<ActDo("stop", <<>>, <<>>, <<>>)>>>>)>>}
PlayerPlays == {
    <<Played, Exp(Call("go", <<Name("g", <<2>>), Val(IntW), Val(IntW)>>)),
      Exp(Call("is_done", <<Name("g", <<3>>)>>)), ActDo("stop", <<>>, <<>>, <<>>)>>}
Watches == <<Exp(Call("is_done", <<Name("g", <<7>>)>>)),
             Exp(Call("go", <<Name("g", <<8>>), Val(IntW), Val(IntW)>>)), ActDo("stop", <<>>, <<>>, <<>>)>>
GamePrograms ==
    {Program(<<>>, <<>>, <<Game(name, "Player", p), Game("game", "Game", g)>>) :
        name \in {"player", "game", "init"}, p \in PlayerPlays, g \in GamePlays}
    \cup {Program(<<>>, <<>>, <<Game("game", "Game", g),
                                Action("watch", "Watch", <<Use("Game", <<>>)>>, <<Arg("g", <<0>>)>>, Watches)>>) : g \in GamePlays}
    \cup {Program(<<>>, <<>>, <<Game("game", "Game", <<Exp(Call("init", <<Val(IntW)>>))>>), Game("init", "Other", <<>>)>>)}

(* A match nests games: one it makes, ones it has, one of two kinds of     *)
(* game, one it was given; it may forward what it is told each time.       *)
Made == Call("game", <<Val(IntW)>>)
EitherOf(t) == Alternative(<<Use("Game", <<>>), t>>)
Forwards == {<<>>, <<Name("host", <<5>>)>>, <<Name("host", <<5>>), Val(IntW)>>, <<Val(BoolW)>>,
             <<Val(IntW), Val(IntW), Val(IntW)>>}
Nestings ==
    {<<SubDo(fwd, <<Made>>, "g", <<1>>), Exp(Name("g", <<2>>))>> : fwd \in Forwards}
    \cup {<<Played, SubDo(fwd, <<Name("g", <<2>>), Name("g", <<3>>)>>, "", <<4>>), GoWith(IntW, <<6>>)>> : fwd \in Forwards}
    \cup {<<Played, FrmIn("o", <<2>>, Call("other", <<>>)), SubDo(<<>>, <<Val(EitherOf(t))>>, "", <<3>>)>> :
             t \in {Use("Other", <<>>), IntW}}
    \cup {<<Played, SubDo(<<>>, <<Val(EitherOf(Use("Other", <<>>))), Name("g", <<2>>)>>, "", <<3>>)>>,
          <<SubDo(<<>>, <<Val(IntW)>>, "", <<1>>)>>,
          <<Played, FrmIn("o", <<2>>, Call("other", <<>>)), SubDo(<<>>, <<Val(EitherOf(Use("Other", <<>>)))>>, "h", <<3>>)>>,
          <<SubDo(<<>>, <<Val(Use("Other", <<>>))>>, "", <<1>>)>>,
          <<FrmIn("o", <<1>>, Call("outer", <<>>)), SubDo(<<>>, <<Val(Use("Other", <<>>))>>, "", <<3>>)>>,
          <<FrmIn("o", <<1>>, Call("other", <<>>)), SubDo(<<>>, <<Name("o", <<2>>)>>, "g", <<3>>),
            SubDo(<<>>, <<Made>>, "g", <<4>>), Exp(Call("go", <<Name("g", <<5>>), Val(IntW), Val(IntW)>>))>>}
Others == <<Action("other", "Other", <<>>, <<>>, <<ActDo("stop", <<>>, <<>>, <<>>)>>),
            Action("outer", "Outer", <<>>, <<>>, <<SubDo(<<>>, <<Call("other", <<>>)>>, "", <<1>>)>>)>>
NestPrograms ==
    {Program(<<>>, <<>>, <<Game("match", "Match", m), Game("game", "Game", <<GoWith(t, <<1>>)>>)>> \o Others) :
        m \in Nestings, t \in {IntW, BoolW}}

MCPrograms ==
    ClassPrograms \cup ActionPrograms \cup BodyPrograms \cup CallPrograms
        \cup StatementPrograms \cup GamePrograms \cup NestPrograms
=============================================================================
