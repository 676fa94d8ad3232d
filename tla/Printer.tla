------------------------------- MODULE Printer ------------------------------
(***************************************************************************)
(* The formatter (rlc --format): serialize of each operation, which writes *)
(* the tree the parser made back as source. Layout that is no token is     *)
(* left out: the empty lines it keeps between statements that were apart.  *)
(* So is what type checking does to the tree between the two, which the    *)
(* serializer undoes (casts, implicit assignments, overloaded operators).  *)
(***************************************************************************)
EXTENDS Integers, Sequences, SequencesExt, TLC, Parser

Spaces(n) == [i \in 1 .. n |-> " "]
Indented(m) == Spaces(2 * m)
Joined(texts, separator) ==
  IF texts = << >> THEN << >>
  ELSE FoldLeft(LAMBDA sofar, t : sofar \o separator \o t, Head(texts), Tail(texts))
Kids(n, ops) == SelectSeq(n.kids, LAMBDA k : k.op \in ops)
Has(n, op) == Kids(n, {op}) # << >>
Kid(n, op) == Kids(n, {op})[1]
Name(n) == Kid(n, "Identifier").word

\* serializeCommentOrNewLine; the text of a comment ends its line.
LineEndOf(n) ==
  IF Has(n, "Inline") THEN <<" ", "#">> \o Kid(n, "Inline").kids[1].word ELSE <<"\n">>

Infix ==
  "Mult" :> <<"*">> @@ "Div" :> <<"/">> @@ "Reminder" :> <<"%">> @@ "Add" :> <<"+">>
  @@ "Sub" :> <<"-">> @@ "LeftShift" :> <<"<", "<">> @@ "RightShift" :> <<">", ">">>
  @@ "Less" :> <<"<">> @@ "Greater" :> <<">">> @@ "LessEqual" :> <<"<", "=">>
  @@ "GreaterEqual" :> <<">", "=">> @@ "Equal" :> <<"=", "=">> @@ "NotEqual" :> <<"!", "=">>
  @@ "Or" :> <<"or">> @@ "BitAnd" :> <<"&">> @@ "BitXor" :> <<"^">> @@ "BitOr" :> <<"|">>
  @@ "Assign" :> <<"=">> @@ "Bound" :> <<"=">>
PrefixOf == "Minus" :> <<"-">> @@ "BitNot" :> <<"~">> @@ "Not" :> <<"!">> @@ "Can" :> <<"can", " ">>
Builtins == {"malloc", "from_array", "mangled_name", "as_ptr", "to_array", "free", "destroy", "construct"}

Comma == <<",", " ">>
Parens(t) == <<"(">> \o t \o <<")">>
Angles(t) == <<"<">> \o t \o <<">">>
Spaced(t) == <<" ">> \o t \o <<" ">>
\* The quotes in a string are escaped, and nothing else.
Quoted(word) ==
  <<"\"">> \o FlattenSeq([i \in DOMAIN word |-> IF word[i] = "\"" THEN <<"\\", "\"">> ELSE <<word[i]>>])
    \o <<"\"">>

RECURSIVE TypeText(_)
TypeText(t) ==
  LET parts == [i \in DOMAIN t.kids |-> TypeText(t.kids[i])]
  IN CASE t.op \in {"Identifier", "Int64"} -> t.word
       [] t.op = "Named" ->
            parts[1] \o (IF Len(parts) = 1 THEN << >> ELSE Angles(Joined(Tail(parts), Comma)))
       [] t.op = "OwningPtr" -> <<"OwningPtr">> \o Angles(parts[1])
       [] t.op = "ArrayOf" -> parts[1] \o <<"[">> \o parts[2] \o <<"]">>
       [] t.op = "AlternativeType" -> Joined(parts, <<" ", "|", " ">>)
       [] t.op \in {"frm", "ctx", "ref"} -> <<t.op, " ">> \o parts[1]

\* Fault: a comma in every precondition.
AlwaysComma(p) == p > 0

\* Between the two sides of an and: in a precondition, and not below the left
\* side of another and, it is the comma of a requirement list.
CommaForAnd(p) == p = 1

\* p counts the preconditions and left sides of an and around an expression.
RECURSIVE Text(_, _)
Args(es, p) == Joined([i \in DOMAIN es |-> Text(es[i], p)], Comma)
AndText(e, p) ==
  Text(e.kids[1], p + 1) \o (IF CommaForAnd(p) THEN Comma ELSE Spaced(<<"and">>)) \o Text(e.kids[2], p)
CallText(e, p) == Text(e.kids[1], p) \o Parens(Args(Tail(e.kids), p))
MemberText(e, p) ==
  Text(e.kids[1], p) \o <<".">> \o Name([e EXCEPT !.kids = Tail(@)])
    \o (IF Has(e, "Args") THEN Parens(Args(Kid(e, "Args").kids, p)) ELSE << >>)
ListText(e, p) == <<"[">> \o Args(SelectSeq(e.kids, LAMBDA k : k.op # "Comment"), p) \o <<"]">>
BuiltinText(e, p) ==
  <<e.op>> \o (IF Len(e.kids) = 2 THEN Angles(TypeText(e.kids[1])) ELSE << >>)
    \o Parens(Text(Last(e.kids), p))
TestText(e, p) ==
  Text(e.kids[1], p) \o Spaced(<<"is">>)
    \o (IF e.op = "Is" THEN TypeText(e.kids[2]) ELSE <<"Alternative">>)

Text(e, p) ==
  LET kid(i) == Text(e.kids[i], p)
      isBinary == e.op \in DOMAIN Infix
  IN CASE isBinary -> kid(1) \o Spaced(Infix[e.op]) \o kid(2)
       [] e.op = "And" -> AndText(e, p)
       [] e.op \in DOMAIN PrefixOf -> PrefixOf[e.op] \o kid(1)
       [] e.op \in {"Reference", "Constant"} -> e.kids[1].word
       [] e.op = "False" -> <<"false">>
       [] e.op = "True" -> <<"true">>
       [] e.op = "StringLiteral" -> Quoted(e.kids[1].word)
       [] e.op = "PostFixCall" -> kid(1) \o e.kids[2].word
       [] e.op = "EnumUse" -> kid(1) \o <<":", ":">> \o e.kids[2].word
       [] e.op = "Brackets" -> Parens(kid(1))
       [] e.op = "InitializerList" -> ListText(e, p)
       [] e.op \in {"Is", "IsAlternative"} -> TestText(e, p)
       [] e.op = "ArrayAccess" -> kid(1) \o <<"[">> \o kid(2) \o <<"]">>
       [] e.op = "Call" -> CallText(e, p)
       [] e.op = "Member" -> MemberText(e, p)
       [] e.op = "Assert" -> <<"assert">> \o Parens(kid(1) \o Comma \o Quoted(e.kids[2].word))
       [] e.op \in Builtins -> BuiltinText(e, p)

-----------------------------------------------------------------------------
(* Statements and declarations, at a level of indentation.                 *)

ArgText(a) == TypeText(a.kids[1]) \o <<" ">> \o a.kids[2].word
ArgumentsOf(n) ==
  LET args == Kid(n, "Arguments").kids
  IN Parens(Joined([i \in DOMAIN args |-> ArgText(args[i])], Comma))
\* The types of an act that come from the signature of the function are ctx.
OwnArgumentsOf(n) ==
  LET args == Kid(n, "Arguments").kids
      own == SelectSeq([i \in DOMAIN args |-> i], LAMBDA i : args[i].kids[1].op # "ctx")
  IN Parens(FlattenSeq([k \in DOMAIN own |->
       ArgText(args[own[k]]) \o (IF own[k] = Len(args) THEN << >> ELSE Comma)]))
GuardOf(n) ==
  IF Has(n, "Requires") THEN <<" ", "{", " ">> \o Text(Kid(n, "Requires").kids[1], 1) \o <<" ", "}">>
  ELSE << >>
TemplatesOf(n) ==
  IF Has(n, "Templates")
  THEN LET ts == Kid(n, "Templates").kids
           text(t) == IF t.kids = << >> THEN t.word
                      ELSE Joined([i \in DOMAIN t.kids |-> t.kids[i].word], <<" ">>)
       IN Angles(Joined([i \in DOMAIN ts |-> text(ts[i])], Comma))
  ELSE << >>
ReturnsOf(n) ==
  IF Has(n, "Returns") THEN <<" ", "-", ">", " ">> \o TypeText(Kid(n, "Returns").kids[1]) ELSE << >>
SignatureOf(n) ==
  <<"fun">> \o TemplatesOf(n) \o <<" ">> \o Name(n) \o ArgumentsOf(n) \o ReturnsOf(n)

RECURSIVE Block(_, _), Lines(_, _), IfText(_, _)
Block(stmts, m) == FlattenSeq([i \in DOMAIN stmts |-> Lines(stmts[i], m)])
Headed(n, m, header, body) == Indented(m) \o header \o <<":">> \o LineEndOf(n) \o Block(body, m + 1)
Line(n, m, text) == Indented(m) \o text \o LineEndOf(n)

\* An if that opens the else block of another goes on its line.
IfText(n, m) ==
  LET else == Kid(n, "Else").kids
  IN <<"if", " ">> \o Text(n.kids[1], 0) \o <<":">> \o LineEndOf(n) \o Block(Kid(n, "Body").kids, m + 1)
       \o IF ~ Has(n, "Else") THEN << >>
          ELSE Indented(m) \o <<"else">>
                 \o IF else[1].op = "If" THEN <<" ">> \o IfText(else[1], m) \o Block(Tail(else), m)
                    ELSE <<":", "\n">> \o Block(else, m + 1)

ForText(n) ==
  <<"for", " ">> \o
  IF Has(n, "In")
  THEN Name(n) \o Spaced(<<"in">>) \o Text(Kid(n, "In").kids[1], 0)
  ELSE LET of == Kid(n, "Of").kids
           names == Kids(n, {"Identifier"})
       IN Joined([i \in DOMAIN names |-> names[i].word], Comma) \o Spaced(<<"of">>)
            \o Joined([i \in DOMAIN of |-> Text(of[i], 0)], Comma)

SubActionText(n) ==
  LET forwarded == Kid(n, "Forwarded").kids
      body == Last(SelectSeq(n.kids, LAMBDA k : k.op # "Inline"))
      listed(es) == Joined([i \in DOMAIN es |-> Text(es[i], 0)], Comma)
  IN <<"subaction">> \o (IF Has(n, "Star") THEN <<"*">> ELSE << >>)
       \o (IF forwarded = << >> THEN << >> ELSE Parens(listed(forwarded))) \o <<" ">>
       \o listed(IF body.op = "Several" THEN body.kids ELSE <<body>>)

DeclarationText(n) ==
  (IF Has(n, "ref") THEN <<"ref">> ELSE IF Has(n, "frm") THEN <<"frm">> ELSE <<"let">>)
    \o <<" ">> \o Name(n)
    \o (IF Has(n, "Construct") THEN Spaced(<<":">>) \o TypeText(Kid(n, "Construct").kids[1])
        ELSE Spaced(<<"=">>) \o Text(SelectSeq(n.kids, LAMBDA k : k.op \notin {"ref", "frm", "Identifier", "Inline"})[1], 0))

UsingText(n) ==
  <<"using", " ">> \o Name(n) \o Spaced(<<"=">>)
    \o (IF Has(n, "TypeOf") THEN <<"type">> \o Parens(Text(Kid(n, "TypeOf").kids[1], 0))
        ELSE TypeText(n.kids[2]))

ReturnText(n) ==
  <<"return">> \o IF Has(n, "Nothing") THEN << >> ELSE <<" ">> \o Text(n.kids[1], 0)
WhileText(n) == <<"while", " ">> \o Text(n.kids[1], 0)
ActText(n) == <<"act", " ">> \o Name(n)
AlternativesText(n, m) ==
  LET alternatives == Kids(n, {"Alternative"})
  IN Headed(n, m, <<"actions">>, FlattenSeq([i \in DOMAIN alternatives |-> alternatives[i].kids]))

StatementText(n, m) ==
  CASE n.op = "Comment" -> Indented(m) \o <<"#">> \o n.word
    [] n.op = "ExpressionStatement" -> Line(n, m, Text(n.kids[1], 0))
    [] n.op = "Declaration" -> Line(n, m, DeclarationText(n))
    [] n.op = "Return" -> Line(n, m, ReturnText(n))
    [] n.op = "Break" -> Line(n, m, <<"break">>)
    [] n.op = "Continue" -> Line(n, m, <<"continue">>)
    [] n.op = "Action" -> Line(n, m, ActText(n) \o OwnArgumentsOf(n) \o GuardOf(n))
    [] n.op = "SubAction" -> Line(n, m, SubActionText(n))
    [] n.op = "Using" -> Line(n, m, UsingText(n))
    [] n.op = "StatementList" -> Block(n.kids, m + 1)
    [] n.op = "While" -> Headed(n, m, WhileText(n), Kid(n, "Body").kids)
    [] n.op = "For" -> Headed(n, m, ForText(n), Kid(n, "Body").kids)
    [] n.op = "If" -> Indented(m) \o IfText(n, m)
    [] n.op = "Actions" -> AlternativesText(n, m)

ActionFunctionText(n, m) ==
  (IF Has(n, "Classes") THEN <<"@", "classes", "\n">> ELSE << >>)
    \o Headed(n, m, ActText(n) \o ArgumentsOf(n) \o <<" ", "-", ">", " ">>
                      \o Kids(n, {"Identifier"})[2].word \o GuardOf(n),
              Kid(n, "Body").kids)
ClassText(n) ==
  Headed(n, 0, <<"cls">> \o TemplatesOf(n) \o <<" ">> \o Name(n), Kids(n, {"Field", "Function", "Comment"}))
\* A field and the functions a trait requests end their line, comment or not.
FieldText(n, m) == Indented(m) \o ArgText(n) \o <<"\n">>
EnumText(n) == Headed(n, 0, <<"enum", " ">> \o Name(n), Kids(n, {"EnumField", "Function", "Comment"}))
EnumFieldText(n, m) ==
  IF Has(n, "FieldExpression") THEN Headed(n, m, Name(n), Kids(n, {"FieldExpression"}))
  ELSE Line(n, m, Name(n))
FieldExpressionText(n) == ArgText(n) \o Spaced(<<"=">>) \o Text(n.kids[3], 0)
TraitText(n) == Headed(n, 0, <<"trait">> \o TemplatesOf(n) \o <<" ">> \o Name(n), Kids(n, {"Requested"}))
RequestedText(n) == <<"fun", " ">> \o Name(n) \o ArgumentsOf(n) \o ReturnsOf(n) \o <<"\n">>
ConstText(n) ==
  <<"const", " ">> \o Name(n) \o Spaced(<<"=">>)
    \o (IF Has(n, "Negative") THEN <<"-">> ELSE << >>) \o Kid(n, "Int64").word
ImportText(n) ==
  LET names == Kids(n, {"Identifier"})
  IN <<"import", " ">> \o Joined([i \in DOMAIN names |-> names[i].word], <<".">>)

DeclarationLines(n, m) ==
  CASE n.op = "Function" -> Headed(n, m, SignatureOf(n) \o GuardOf(n), Kid(n, "Body").kids)
    [] n.op = "Extern" -> Line(n, m, <<"ext", " ">> \o SignatureOf(n))
    [] n.op = "ActionFunction" -> ActionFunctionText(n, m)
    [] n.op = "Class" -> ClassText(n)
    [] n.op = "Field" -> FieldText(n, m)
    [] n.op = "Enum" -> EnumText(n)
    [] n.op = "EnumField" -> EnumFieldText(n, m)
    [] n.op = "FieldExpression" -> Line(n, m, FieldExpressionText(n))
    [] n.op = "Trait" -> TraitText(n)
    [] n.op = "Requested" -> Indented(m) \o RequestedText(n)
    [] n.op = "Const" -> Line(n, 0, ConstText(n))
    [] n.op = "Import" -> Line(n, m, ImportText(n))

Declarations ==
  {"Function", "Extern", "ActionFunction", "Class", "Field", "Enum", "EnumField",
   "FieldExpression", "Trait", "Requested", "Const", "Import"}
Lines(n, m) == IF n.op \in Declarations THEN DeclarationLines(n, m) ELSE StatementText(n, m)

\* What the pass writes for a file; the name of its system is not an operation.
Printed(tree) == Block(SelectSeq(tree.kids, LAMBDA k : k.op # "Identifier"), 0)
=============================================================================
