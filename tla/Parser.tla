------------------------------- MODULE Parser -------------------------------
(***************************************************************************)
(* The parser: a recursive descent that looks at one token and never goes  *)
(* back. Each of its functions is a rule here, a value made of the few     *)
(* things those functions do; Run reads tokens by a rule and returns the   *)
(* trees it made and the position it reached, 0 for a syntax error.        *)
(*                                                                         *)
(* A tree is the operation the parser creates, with what hangs from it in  *)
(* the order of the text. Types, locations and the yield at the end of a   *)
(* region are left out. Characters are, as in the lexer.                   *)
(***************************************************************************)
EXTENDS Integers, Sequences, FiniteSets, SequencesExt, TLC

Node(op, word, kids) == [op |-> op, word |-> word, kids |-> kids]

-----------------------------------------------------------------------------
(* What a function of the parser can do.                                   *)

\* EXPECT: a token of this kind; one with a content leaves a leaf.
Tok(kind) == [form |-> "tok", kind |-> kind]
ContentTokens == {"Identifier", "Int64", "Double", "String", "Comment"}
Rule(name) == [form |-> "rule", name |-> name]
All(parts) == [form |-> "all", parts |-> parts]
Empty == All(<< >>)
\* The operation around what parts leave.
Make(op, parts) == [form |-> "make", op |-> op, part |-> All(parts)]
\* if (current == ...): a function from kinds to rules, and the else.
Switch(cases, other) == [form |-> "switch", cases |-> cases, other |-> other]
If(kinds, then, else) == Switch([k \in kinds |-> then], else)
Opt(kinds, parts) == If(kinds, All(parts), Empty)
While(kinds, parts) == [form |-> "while", kinds |-> kinds, part |-> All(parts), is |-> TRUE]
Until(kinds, parts) == [form |-> "while", kinds |-> kinds, part |-> All(parts), is |-> FALSE]
\* What first leaves becomes the first operand of what the link for the
\* current token makes: once, or as long as there is a link (to the left).
Once(first, links) == [form |-> "chain", first |-> first, links |-> links, loop |-> FALSE]
Left(first, links) == [form |-> "chain", first |-> first, links |-> links, loop |-> TRUE]
\* do { parts } while (accept(","))
Listed(parts) == All(parts \o <<While({","}, <<Tok(",")>> \o parts)>>)
\* Two that look at the trees: the requirements and the actions statement.
Conjoined(part) == [form |-> "conjoined", part |-> part]
Grouped(part) == [form |-> "grouped", part |-> part]

-----------------------------------------------------------------------------
(* Types, 1704-1830.                                                       *)

TypeUse == Rule("type")
FunctionTypeUse == Make("FunctionType", <<TypeUse, While({"->"}, <<Tok("->"), TypeUse>>)>>)
SingleNonArrayTypeUse ==
  Switch("(" :> All(<<Tok("("), FunctionTypeUse, Tok(")")>>)
         @@ "OwningPtr" :> Make("OwningPtr", <<Tok("OwningPtr"), Tok("<"), TypeUse, Tok(">")>>),
         Make("Named",
              <<Tok("Identifier"),
                Opt({"<"}, <<Tok("<"),
                             Listed(<<If({"Int64"}, Tok("Int64"), TypeUse)>>),
                             Tok(">")>>)>>))
ArrayTypeUse ==
  Left(SingleNonArrayTypeUse,
       "[" :> Make("ArrayOf", <<Tok("["),
                                If({"Int64"}, Tok("Int64"), Tok("Identifier")),
                                Tok("]")>>))
SingleTypeUse ==
  Once(ArrayTypeUse,
       "|" :> Make("AlternativeType", <<While({"|"}, <<Tok("|"), ArrayTypeUse>>)>>))

-----------------------------------------------------------------------------
(* Expressions.                                                            *)

Expression == Rule("expression")
InBrackets(parts) == All(<<Tok("(")>> \o parts \o <<Tok(")")>>)
Builtin(keyword, before) ==
  Make(keyword, <<Tok(keyword)>> \o before \o <<InBrackets(<<Expression>>)>>)
OfType == <<Tok("<"), TypeUse, Tok(">")>>

AcceptEndOfLine == If({"Comment"}, Tok("Comment"), Tok("Newline"))
EndsOfLine == While({"Comment", "Newline"}, <<AcceptEndOfLine>>)

InitializerList ==
  Make("InitializerList",
    <<Tok("["),
      If({"]"}, Empty,
         Listed(<<While({"Comment", "Newline", "Indent", "Deindent"},
                        <<Switch("Indent" :> Tok("Indent") @@ "Deindent" :> Tok("Deindent"),
                                 AcceptEndOfLine)>>),
                  Expression>>)),
      Tok("]")>>)

StringExpression ==
  Once(Make("StringLiteral", <<Tok("String")>>),
       "Identifier" :> Make("PostFixCall", <<Tok("Identifier")>>))

\* The builtins with one operand differ in the keyword.
PrimaryExpression ==
  Switch(
    "Identifier" :> Once(Make("Reference", <<Tok("Identifier")>>),
                         "::" :> Make("EnumUse", <<Tok("::"), Tok("Identifier")>>))
    @@ "Double" :> Make("Constant", <<Tok("Double")>>)
    @@ "Int64" :> Make("Constant", <<Tok("Int64")>>)
    @@ "false" :> Make("False", <<Tok("false")>>)
    @@ "true" :> Make("True", <<Tok("true")>>)
    @@ "malloc" :> Builtin("malloc", OfType)
    @@ "from_array" :> Builtin("from_array", OfType)
    @@ "mangled_name" :> Builtin("mangled_name", << >>)
    @@ "as_ptr" :> Builtin("as_ptr", << >>)
    @@ "to_array" :> Builtin("to_array", << >>)
    @@ "String" :> StringExpression
    @@ "(" :> Make("Brackets", <<InBrackets(<<Expression>>)>>),
    InitializerList)

ArgumentExpressionList == If({")"}, Empty, Listed(<<Expression>>))
Arguments == InBrackets(<<ArgumentExpressionList>>)

PostFixExpression ==
  Left(PrimaryExpression,
    "is" :> All(<<Tok("is"),
                  If({"Alternative"}, Make("IsAlternative", <<Tok("Alternative")>>),
                     Make("Is", <<TypeUse>>))>>)
    @@ "(" :> Make("Call", <<Arguments>>)
    @@ "[" :> Make("ArrayAccess", <<Tok("["), Expression, Tok("]")>>)
    @@ "." :> All(<<Tok("."),
                    If({"Identifier"},
                       Make("Member", <<Tok("Identifier"), Opt({"("}, <<Make("Args", <<Arguments>>)>>)>>),
                       Make("Member", <<Opt({"("}, <<Make("Args", <<Arguments>>)>>)>>))>>))

CanCallExpression ==
  If({"can"}, Make("Can", <<Tok("can"), PostFixExpression>>), PostFixExpression)

\* Fault: what follows the operator is a whole product.
PrefixOfProduct(kind, op) == Make(op, <<Tok(kind), Rule("multiplicative")>>)

Prefix(kind, op) == Make(op, <<Tok(kind), Rule("unary")>>)
UnaryExpression ==
  Switch("+" :> All(<<Tok("+"), Rule("unary")>>)
         @@ "-" :> Prefix("-", "Minus")
         @@ "~" :> Prefix("~", "BitNot")
         @@ "!" :> Prefix("!", "Not"),
         CanCallExpression)

Links(ops, rest) == [k \in DOMAIN ops |-> Make(ops[k], <<Tok(k), rest>>)]
Multiplicative == "*" :> "Mult" @@ "/" :> "Div" @@ "%" :> "Reminder"
MultyplicativeExpression == Once(Rule("unary"), Links(Multiplicative, Rule("multiplicative")))
AdditiveExpression == Left(Rule("multiplicative"), Links("+" :> "Add" @@ "-" :> "Sub", Rule("multiplicative")))

\* A shift is two tokens, and ends the chain.
OrShift(angle, shift, compare) ==
  angle :> All(<<Tok(angle),
                 If({angle}, Make(shift, <<Tok(angle), Rule("additive")>>),
                    Make(compare, <<Rule("relational")>>))>>)
RelationalExpression ==
  Once(Rule("additive"),
       OrShift("<", "LeftShift", "Less") @@ OrShift(">", "RightShift", "Greater")
       @@ Links(">=" :> "GreaterEqual" @@ "<=" :> "LessEqual", Rule("relational")))
EqualityExpression ==
  Once(Rule("relational"), Links("==" :> "Equal" @@ "!=" :> "NotEqual", Rule("equality")))
AndExpression == Once(Rule("equality"), Links("and" :> "And", Rule("and")))
OrExpression == Once(Rule("and"), Links("or" :> "Or", Rule("or")))
BitWiseAndExpression == Left(Rule("or"), Links("&" :> "BitAnd", Rule("or")))
BitWiseXorExpression == Left(Rule("bitand"), Links("^" :> "BitXor", Rule("bitand")))
BitWiseOrExpression == Left(Rule("bitxor"), Links("|" :> "BitOr", Rule("bitxor")))

-----------------------------------------------------------------------------
(* Statements.                                                             *)

\* setInlineComment puts the comment on the operation.
EndOfLine == If({"Comment"}, Make("Inline", <<Tok("Comment")>>), Tok("Newline"))

Statement == Rule("statement")
StatementList ==
  All(<<Tok("Indent"), Until({"Deindent"}, <<EndsOfLine, Statement>>), Tok("Deindent")>>)
Body == Make("Body", <<StatementList>>)
Header(parts) == All(parts \o <<Tok(":"), EndOfLine>>)

AssertStatement ==
  Make("Assert", <<Tok("assert"), InBrackets(<<Expression, Tok(","), Tok("String")>>)>>)

ExpressionStatement ==
  Make("ExpressionStatement",
    <<Switch("free" :> Builtin("free", << >>)
             @@ "destroy" :> Builtin("destroy", << >>)
             @@ "construct" :> Builtin("construct", << >>)
             @@ "assert" :> AssertStatement,
             Once(Expression, "=" :> Make("Assign", <<Tok("="), Expression>>))),
      EndOfLine>>)

\* {a, b, c} is And(a, And(b, c)).
RequirementList ==
  Opt({"{"}, <<Make("Requires", <<Conjoined(All(<<Tok("{"), Listed(<<Expression>>), Tok("}")>>))>>)>>)

\* A name and = give the result of the sub-action a name.
SubActionStatement ==
  Make("SubAction",
    <<Tok("subaction"),
      If({"*"}, Make("Star", <<Tok("*")>>), Empty),
      Make("Forwarded", <<Opt({"("}, <<Arguments>>)>>),
      Once(Expression,
           "=" :> Make("Bound", <<Tok("="), Expression>>)
           @@ "," :> Make("Several", <<While({","}, <<Tok(","), Expression>>)>>)),
      EndOfLine>>)

ActionsStatement ==
  Grouped(Make("Actions",
    <<Header(<<Tok("actions")>>), Tok("Indent"),
      Statement, EndsOfLine,
      Until({"act", "Deindent"}, <<Statement, EndsOfLine>>),
      Until({"Deindent"}, <<EndsOfLine, Statement>>),
      Tok("Deindent")>>))

ArgDeclaration ==
  Make("Arg", <<Switch("frm" :> Make("frm", <<Tok("frm"), TypeUse>>)
                       @@ "ctx" :> Make("ctx", <<Tok("ctx"), TypeUse>>), TypeUse),
                Tok("Identifier")>>)
FunctionArguments ==
  Make("Arguments", <<InBrackets(<<If({")"}, Empty, Listed(<<ArgDeclaration>>))>>)>>)

ActionDeclaration(returns) ==
  All(<<Tok("act"), Tok("Identifier"), FunctionArguments>> \o returns)
ActionStatement ==
  Make("Action", <<ActionDeclaration(<< >>), RequirementList, EndOfLine>>)

\* Of the comments, the one after else is not put on the if: it opens the
\* block. So does the if of an else if.
IfStatement ==
  Make("If",
    <<Header(<<Tok("if"), Expression>>), Body,
      Opt({"else"},
          <<Make("Else",
                 <<Tok("else"),
                   If({"if"}, Rule("if"),
                      All(<<Tok(":"), AcceptEndOfLine, StatementList>>))>>)>>)>>)

ForOf == Make("Of", <<Tok("of"), Listed(<<Expression>>)>>)
ForFieldStatement ==
  Make("For",
    <<Tok("for"), Tok("Identifier"),
      Switch("in" :> Make("In", <<Tok("in"), Expression>>)
             @@ "," :> All(<<While({","}, <<Tok(","), Tok("Identifier")>>), ForOf>>),
             ForOf),
      Tok(":"), EndOfLine, Body>>)
WhileStatement == Make("While", <<Header(<<Tok("while"), Expression>>), Body>>)
BreakStatement == Make("Break", <<Tok("break"), EndOfLine>>)
ContinueStatement == Make("Continue", <<Tok("continue"), EndOfLine>>)
\* The comment of a return without a value is lost in its region.
ReturnStatement ==
  Make("Return",
    <<Tok("return"),
      If({"Comment", "Newline"}, Make("Nothing", <<AcceptEndOfLine>>), All(<<Expression, EndOfLine>>))>>)
DeclarationStatement ==
  Make("Declaration",
    <<Switch("ref" :> Make("ref", <<Tok("ref")>>) @@ "frm" :> Make("frm", <<Tok("frm")>>),
             Tok("let")),
      Tok("Identifier"),
      If({"="}, All(<<Tok("="), Expression>>), Make("Construct", <<Tok(":"), TypeUse>>)),
      EndOfLine>>)
UsingTypeStatement ==
  Make("Using",
    <<Tok("using"), Tok("Identifier"), Tok("="),
      If({"type"}, Make("TypeOf", <<Tok("type"), InBrackets(<<Expression>>)>>), TypeUse)>>)

AnyStatement ==
  Switch("act" :> ActionStatement @@ "if" :> Rule("if") @@ "return" :> ReturnStatement
         @@ "break" :> BreakStatement @@ "continue" :> ContinueStatement
         @@ "subaction" :> SubActionStatement @@ "while" :> WhileStatement
         @@ "using" :> UsingTypeStatement @@ "actions" :> ActionsStatement
         @@ "for" :> ForFieldStatement
         @@ "let" :> DeclarationStatement @@ "ref" :> DeclarationStatement
         @@ "frm" :> DeclarationStatement
         @@ "Indent" :> Make("StatementList", <<StatementList>>),
         ExpressionStatement)

-----------------------------------------------------------------------------
(* Declarations.                                                           *)

TemplateArguments ==
  Opt({"<"},
      <<Make("Templates",
             <<Tok("<"),
               Listed(<<Make("Template", <<Tok("Identifier"), Opt({"Identifier"}, <<Tok("Identifier")>>)>>)>>),
               Tok(">")>>)>>)
FunctionDeclaration ==
  All(<<Tok("fun"), TemplateArguments, Tok("Identifier"), FunctionArguments,
        Opt({"->"}, <<Make("Returns", <<Tok("->"),
                                        If({"ref"}, Make("ref", <<Tok("ref"), TypeUse>>), TypeUse)>>)>>)>>)
FunctionDefinition ==
  Make("Function", <<Header(<<FunctionDeclaration, RequirementList>>), Body>>)
ExternFunctionDeclaration ==
  Make("Extern", <<Tok("ext"), FunctionDeclaration, EndOfLine>>)
ActionDefinition(mark) ==
  Make("ActionFunction",
    mark \o <<Header(<<ActionDeclaration(<<Tok("->"), Tok("Identifier")>>), RequirementList>>), Body>>)

ClassField == Make("Field", <<TypeUse, Tok("Identifier"), EndOfLine>>)
ClassDeclaration ==
  Make("Class",
    <<Header(<<Tok("cls"), TemplateArguments, Tok("Identifier")>>), Tok("Indent"), EndsOfLine,
      Until({"Deindent"},
            <<Switch("Comment" :> Tok("Comment") @@ "fun" :> FunctionDefinition
                     @@ "pass" :> Tok("pass"), ClassField),
              EndsOfLine>>),
      Tok("Deindent")>>)

EnumFieldExpression ==
  Make("FieldExpression", <<TypeUse, Tok("Identifier"), Tok("="), Expression, EndOfLine>>)
EnumFieldDeclaration ==
  Make("EnumField",
    <<Tok("Identifier"),
      If({":"}, All(<<Header(<< >>), Tok("Indent"), EnumFieldExpression,
                      Until({"Deindent"}, <<EnumFieldExpression>>), Tok("Deindent")>>),
         EndOfLine)>>)
EnumDeclaration ==
  Make("Enum",
    <<Header(<<Tok("enum"), Tok("Identifier")>>), Tok("Indent"),
      Until({"Deindent"}, <<EndsOfLine, If({"fun"}, FunctionDefinition, EnumFieldDeclaration)>>),
      Tok("Deindent")>>)

TraitDefinition ==
  Make("Trait",
    <<Header(<<Tok("trait"),
               Make("Templates", <<Tok("<"), Listed(<<Tok("Identifier")>>), Tok(">")>>),
               Tok("Identifier")>>),
      Tok("Indent"),
      Until({"Deindent"}, <<Make("Requested", <<FunctionDeclaration, EndOfLine>>)>>),
      Tok("Deindent")>>)
UsingStatement == Make("Using", <<Tok("using"), Tok("Identifier"), Tok("="), TypeUse>>)
GlobalConstant ==
  Make("Const", <<Tok("const"), Tok("Identifier"), Tok("="),
                  If({"-"}, Make("Negative", <<Tok("-")>>), Empty),
                  If({"Double"}, Tok("Double"), Tok("Int64"))>>)
Import ==
  Make("Import", <<Tok("import"), Tok("Identifier"),
                   While({"."}, <<Tok("."), Tok("Identifier")>>), EndOfLine>>)

\* The annotation marks an action; before another declaration it is lost.
Declared(mark) ==
  Switch("act" :> ActionDefinition(mark) @@ "const" :> GlobalConstant
         @@ "fun" :> FunctionDefinition @@ "enum" :> EnumDeclaration
         @@ "cls" :> ClassDeclaration @@ "using" :> UsingStatement
         @@ "import" :> Import, TraitDefinition)
AnyDeclaration ==
  Switch("ext" :> ExternFunctionDeclaration
         @@ "@" :> All(<<Tok("@"), Tok("classes"), AcceptEndOfLine, Declared(<<Make("Classes", << >>)>>)>>),
         Declared(<< >>))
System ==
  Make("System",
    <<Opt({"system"}, <<Tok("system"), Tok("Identifier"), AcceptEndOfLine>>),
      Until({"End"},
            <<While({"Comment", "Newline", "Indent", "Deindent"},
                    <<Switch("Indent" :> Tok("Indent") @@ "Deindent" :> Tok("Deindent"),
                             AcceptEndOfLine)>>),
              If({"End"}, Empty, Rule("declaration"))>>)>>)

Grammar ==
  "type" :> SingleTypeUse @@ "expression" :> BitWiseOrExpression
  @@ "unary" :> UnaryExpression @@ "multiplicative" :> MultyplicativeExpression
  @@ "additive" :> AdditiveExpression @@ "relational" :> RelationalExpression
  @@ "equality" :> EqualityExpression @@ "and" :> AndExpression @@ "or" :> OrExpression
  @@ "bitand" :> BitWiseAndExpression @@ "bitxor" :> BitWiseXorExpression
  @@ "statement" :> AnyStatement @@ "if" :> IfStatement @@ "declaration" :> AnyDeclaration

-----------------------------------------------------------------------------
(* Reading tokens by a rule.                                               *)

Read(at, trees) == [at |-> at, trees |-> trees]
Failed == Read(0, << >>)
Leaf(token) ==
  IF token.kind \in ContentTokens THEN <<Node(token.kind, token.content, << >>)>> ELSE << >>

\* Fault: the last of the ands is erased with the expression in it.
LastDropped(exps) ==
  LET kept == IF Len(exps) = 1 THEN exps ELSE Front(exps)
  IN <<FoldRight(LAMBDA e, rest : Node("And", << >>, <<e, rest>>), Front(kept), Last(kept))>>

\* The last of the ands created has the last expression on its left and
\* nothing on its right: it is replaced by that expression.
Conjunction(exps) ==
  <<FoldRight(LAMBDA e, rest : Node("And", << >>, <<e, rest>>), Front(exps), Last(exps))>>

\* The act statements delimit the alternatives; what is before the first of
\* them is one too. The comments met between the statements were created
\* before the operation.
Alternatives(actions) ==
  LET IsComment(t) == t.op = "Comment"
      header == SelectSeq(actions.kids, LAMBDA t : t.op = "Inline")
      statements == SelectSeq(actions.kids, LAMBDA t : t.op \notin {"Inline", "Comment"})
      starts == {i \in 1 .. Len(statements) : i = 1 \/ statements[i].op = "Action"}
      Stop(i) == CHOOSE j \in i .. Len(statements) :
                   /\ \A k \in i + 1 .. j : k \notin starts
                   /\ j = Len(statements) \/ j + 1 \in starts
      groups == [n \in 1 .. Cardinality(starts) |->
                   LET i == CHOOSE s \in starts : Cardinality({r \in starts : r <= s}) = n
                   IN Node("Alternative", << >>, SubSeq(statements, i, Stop(i)))]
  IN SelectSeq(actions.kids, IsComment) \o <<Node("Actions", << >>, header \o groups)>>

RECURSIVE Run(_, _, _), RunAll(_, _, _), RunWhile(_, _, _), RunChain(_, _, _)
Run(rule, tokens, i) ==
  LET part == Run(rule.part, tokens, i)
      Wrapped(trees) == IF part.at = 0 THEN Failed ELSE Read(part.at, trees)
  IN CASE rule.form = "tok" ->
            IF tokens[i].kind = rule.kind THEN Read(i + 1, Leaf(tokens[i])) ELSE Failed
       [] rule.form = "rule" -> Run(Grammar[rule.name], tokens, i)
       [] rule.form = "all" -> RunAll(rule.parts, tokens, i)
       [] rule.form = "make" -> Wrapped(<<Node(rule.op, << >>, part.trees)>>)
       [] rule.form = "switch" ->
            IF tokens[i].kind \in DOMAIN rule.cases
            THEN Run(rule.cases[tokens[i].kind], tokens, i)
            ELSE Run(rule.other, tokens, i)
       [] rule.form = "while" -> RunWhile(rule, tokens, i)
       [] rule.form = "chain" -> RunChain(rule, tokens, Run(rule.first, tokens, i))
       [] rule.form = "conjoined" -> Wrapped(Conjunction(part.trees))
       [] rule.form = "grouped" -> Wrapped(Alternatives(part.trees[1]))

RunAll(parts, tokens, i) ==
  IF parts = << >> THEN Read(i, << >>)
  ELSE LET head == Run(Head(parts), tokens, i)
           rest == RunAll(Tail(parts), tokens, head.at)
       IN IF head.at = 0 \/ rest.at = 0 THEN Failed
          ELSE Read(rest.at, head.trees \o rest.trees)

RunWhile(rule, tokens, i) ==
  IF (tokens[i].kind \in rule.kinds) # rule.is THEN Read(i, << >>)
  ELSE RunAll(<<rule.part, rule>>, tokens, i)

\* The tree a link makes takes what was read before as its first operand. A
\* sub-action has a result to name only if it is a reference.
RunChain(rule, tokens, read) ==
  IF read.at = 0 \/ tokens[read.at].kind \notin DOMAIN rule.links THEN read
  ELSE LET link == Run(rule.links[tokens[read.at].kind], tokens, read.at)
           made == [link.trees[1] EXCEPT !.kids = read.trees \o @]
       IN IF link.at = 0 \/ (made.op = "Bound" /\ read.trees[1].op # "Reference") THEN Failed
          ELSE IF rule.loop THEN RunChain(rule, tokens, Read(link.at, <<made>>))
          ELSE Read(link.at, <<made>>)

\* A whole file.
Parsed(tokens) == Run(System, tokens, 1)
Accepted(tokens) == Parsed(tokens).at # 0
Tree(tokens) == Parsed(tokens).trees[1]
=============================================================================
