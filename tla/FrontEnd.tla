------------------------------ MODULE FrontEnd ------------------------------
(***************************************************************************)
(* rlc --format on a file, and the file it wrote given to rlc again: lexer, *)
(* parser and serializer composed. The lexer gives its tokens one by one;  *)
(* once it has finished, what the parser makes of them is written out, and *)
(* the lexer starts on that.                                               *)
(***************************************************************************)
EXTENDS Lexer, Parser, Printer

VARIABLE program   \* the tree of the first file and its tokens, once printed

vars == <<text, at, newLine, indentStack, nestedParentesys, deindentToEmit,
          emittedExtraNewLine, out, program>>

RECURSIVE Nodes(_)
Nodes(n) == {n} \cup UNION {Nodes(n.kids[i]) : i \in DOMAIN n.kids}

\* What the serializer has an operation for: not a function type, a constant
\* that is not an integer, or a member access that lacks its name.
Printable(tree) ==
  \A n \in Nodes(tree) :
    /\ n.op # "FunctionType"
    /\ n.op = "Const" => ~ Has(n, "Double")
    /\ n.op = "Member" => Has(n, "Identifier")

Init == (\E t \in Texts : LexerInit(t)) /\ program = << >>

Format ==
  /\ Finished /\ program = << >> /\ Accepted(out)
  /\ Printable(Tree(out))
  /\ program' = <<Tree(out), out>>
  /\ LexerStarts(Printed(Tree(out)) \o <<Eof>>)

Step == NextToken /\ UNCHANGED program
Next == Step \/ Format
Spec == Init /\ [][Next]_vars /\ WF_vars(Step)

-----------------------------------------------------------------------------
(* What the formatter is known not to keep. Each part is a defect of its   *)
(* own, listed among the hazards.                                          *)

\* An and printed with a comma where no requirement list can be.
RECURSIVE Misprinted(_, _, _)
Misprinted(e, p, spine) ==
  IF e.op = "And"
  THEN \/ p = 1 /\ ~ spine
       \/ Misprinted(e.kids[1], p + 1, FALSE) \/ Misprinted(e.kids[2], p, spine)
  ELSE IF e.op = "Requires" THEN Misprinted(e.kids[1], 1, TRUE)
  ELSE \E i \in DOMAIN e.kids : Misprinted(e.kids[i], p, FALSE)

Kept(n) ==
  \* ## leaves a comment without text, printed without its end of line.
  /\ n.op = "Comment" => n.word # << >>
  \* Only the quotes in a string are escaped.
  /\ n.op = "String" => \A i \in DOMAIN n.word : n.word[i] # "\\"
  \* An else block is taken for an else if by its first statement alone.
  /\ n.op = "Else" => n.kids[1].op # "If" \/ Len(n.kids) = 1
  \* Comments on a bare return, in a list, on a field or a request are dropped.
  /\ n.op = "Nothing" => n.kids = << >>
  /\ n.op = "InitializerList" => ~ Has(n, "Comment")
  /\ n.op \in {"Field", "Requested"} => ~ Has(n, "Inline")
  \* So are the template arguments of a request, the ctx arguments of an act
  \* and the name of the system; a class of nothing prints no body.
  /\ n.op = "Requested" => ~ Has(n, "Templates")
  /\ n.op = "Action" =>
       \A i \in DOMAIN Kid(n, "Arguments").kids : Kid(n, "Arguments").kids[i].kids[1].op # "ctx"
  /\ n.op = "System" => ~ Has(n, "Identifier")
  /\ n.op = "Class" => Kids(n, {"Field", "Function", "Comment"}) # << >>
  \* The functions of an enum are moved after its fields.
  /\ n.op = "Enum" =>
       \A i, j \in DOMAIN n.kids : n.kids[i].op = "Function" /\ n.kids[j].op = "EnumField" => j < i

Faithful(tree) == ~ Misprinted(tree, 0, FALSE) /\ \A n \in Nodes(tree) : Kept(n)

-----------------------------------------------------------------------------
(* What the formatter and the parser promise.                              *)

Reread == program # << >> /\ Finished /\ Faithful(program[1])

\* Formatting does not change the program: what it writes is read back as the
\* same tree, comments included. The tree holds the brackets, so this is about
\* separators, margins, ends of lines, the nesting of blocks, else if.
RoundTrip == Reread => Accepted(out) /\ Tree(out) = program[1]

\* Nor does anything disappear between the text and the tree: the names,
\* literals, operators and keywords are those of the file, in order. Of the
\* tokens only a unary plus, pass, the empty brackets of a sub-action, the
\* choice between a comma and an and, and that between else: if and else if
\* may change; comments may move.
Inessential == Layout \cup {"+", "pass", "(", ")", ",", "and", ":", "Comment"}
Essential(tokens) ==
  LET kept == SelectSeq(tokens, LAMBDA t : t.kind \notin Inessential)
  IN [i \in DOMAIN kept |-> <<kept[i].kind, kept[i].content>>]
Comments(tokens) == Len(SelectSeq(tokens, LAMBDA t : t.kind = "Comment"))
NothingLost ==
  Reread => /\ Essential(out) = Essential(program[2])
            /\ Comments(out) = Comments(program[2])

\* The tree follows the precedence of the operators, loosest first: the
\* brackets say what is an operand where the table does not. Sums and bitwise
\* operators associate to the left, relations to the right, shifts do not
\* chain. Nothing is said of the side or, and and equalities associate to,
\* which the grammar leaves open, nor of products (ProductsToTheLeft).
Levels ==
  <<{"BitOr"}, {"BitXor"}, {"BitAnd"}, {"Or"}, {"And"}, {"Equal", "NotEqual"},
    {"Less", "Greater", "LessEqual", "GreaterEqual", "LeftShift", "RightShift"},
    {"Add", "Sub"}, {"Mult", "Div", "Reminder"}, {"Minus", "BitNot", "Not"}, {"Can"}>>
LevelOf(n) ==
  IF \E l \in DOMAIN Levels : n.op \in Levels[l]
  THEN CHOOSE l \in DOMAIN Levels : n.op \in Levels[l] ELSE Len(Levels) + 1
ToTheLeft == {1, 2, 3, 8}
ToEitherSide == {4, 5, 6, 9}
Products == 9
Shifts == {"LeftShift", "RightShift"}
PostFixes == {"Is", "IsAlternative", "Call", "ArrayAccess", "Member"}
WellNested(n) ==
  LET l == LevelOf(n)
      left == LevelOf(n.kids[1])
      right == LevelOf(n.kids[2])
  IN /\ l \in 1 .. 9 =>
          /\ IF l \in ToTheLeft \cup ToEitherSide THEN left >= l ELSE left > l
          /\ IF l \in ToTheLeft \/ n.op \in Shifts THEN right > l ELSE right >= l
     /\ l = 10 => left >= 10
     /\ l = 11 \/ n.op \in PostFixes => left = Len(Levels) + 1
\* Preconditions in a row are joined by an and that is no operator of the text.
RECURSIVE WellBuilt(_, _)
WellBuilt(n, isRow) ==
  IF isRow /\ n.op = "And" THEN WellBuilt(n.kids[1], FALSE) /\ WellBuilt(n.kids[2], TRUE)
  ELSE WellNested(n) /\ \A i \in DOMAIN n.kids : WellBuilt(n.kids[i], n.op = "Requires")
FollowsPrecedence ==
  Finished /\ program = << >> /\ Accepted(out) => WellBuilt(Tree(out), FALSE)

\* The grammar of Parser.cpp:586-589 has products associate to the left: the
\* right operand of a product is a unary expression, never a product, so that
\* x / y * z multiplies the quotient by z.
ProductsToTheLeft ==
  Finished /\ Accepted(out) =>
    \A n \in Nodes(Tree(out)) :
      LevelOf(n) = Products => LevelOf(n.kids[2]) > Products

\* Every file is lexed to its end or to its first error, the formatted too.
Terminates == []<>Finished
=============================================================================
