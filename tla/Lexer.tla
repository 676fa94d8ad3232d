-------------------------------- MODULE Lexer --------------------------------
(***************************************************************************)
(* The lexer: it turns the text of a file into tokens and the margins of   *)
(* its lines into Indent and Deindent tokens, as the parser asks for them, *)
(* one next() at a time.                                                   *)
(*                                                                         *)
(* A text is a sequence of characters that ends with the zero of a C       *)
(* string, "eof". A character stands for itself; a letter stands for a     *)
(* whole word, so a keyword is one character. Out of the model: carriage   *)
(* returns and form feeds, character literals, hexadecimal numbers and     *)
(* numbers that do not fit, escapes other than \\ and \" and \'.          *)
(***************************************************************************)
EXTENDS Integers, Sequences, FiniteSets

CONSTANTS
  Texts,      \* the files
  Letters,    \* the characters a word is made of
  Digits,
  Keywords,   \* the words that are not identifiers
  MaxNesting, \* how many brackets may be open (300)
  MaxTokens   \* a bound on out, which only a lexer that never ends would meet

Blanks == {" "}
Newline == "\n"
Eof == "eof"
Opening == {"(", "{", "["}
Closing == {")", "}", "]"}
Symbols == {"+", "-", "*", "/", "(", ")", "<", ">", "[", "]", "{", "}", "=",
            "!", ":", "%", ",", ".", "~", "&", "^", Newline, "|", "@"}
TwoSymbols == {<<"<", "=", "<=">>, <<">", "=", ">=">>, <<"=", "=", "==">>,
               <<"!", "=", "!=">>, <<"-", ">", "->">>, <<":", ":", "::">>}

IsText(t) ==
  /\ t \in Seq(STRING)
  /\ Len(t) > 0
  /\ \A i \in 1 .. Len(t) : t[i] = Eof <=> i = Len(t)
ASSUME TextAssumption == \A t \in Texts : IsText(t)
ASSUME CharacterAssumption ==
  /\ Letters \cap (Digits \cup Blanks \cup Symbols) = {}
  /\ Digits \cap (Blanks \cup Symbols) = {}
  /\ Eof \notin Letters \cup Digits
  /\ Keywords \cap {"Newline", "Indent", "Deindent", "End", "Error"} = {}
  /\ MaxNesting \in Nat \ {0}
  /\ MaxTokens \in Nat

VARIABLES
  text,
  at,                   \* the character in points to
  newLine,              \* the last character read ended a line
  indentStack,          \* the margins of the blocks that are open
  nestedParentesys,     \* brackets opened and not closed
  deindentToEmit,       \* blocks closed whose Deindent is still to come
  emittedExtraNewLine,  \* the Newline of an unfinished last line was given
  out                   \* the tokens given so far

lexer == <<text, at, newLine, indentStack, nestedParentesys, deindentToEmit,
           emittedExtraNewLine, out>>

Token(kind, content, start) ==
  [kind |-> kind, content |-> content, start |-> start]
\* What the parser is given no token after.
Finished == out # << >> /\ out[Len(out)].kind \in {"End", "Error"}

LexerInit(t) ==
  /\ text = t
  /\ at = 1
  /\ newLine = TRUE
  /\ indentStack = <<0>>
  /\ nestedParentesys = 0
  /\ deindentToEmit = 0
  /\ emittedExtraNewLine = FALSE
  /\ out = << >>

\* The same, for a lexer created later.
LexerStarts(t) ==
  /\ text' = t
  /\ at' = 1
  /\ newLine' = TRUE
  /\ indentStack' = <<0>>
  /\ nestedParentesys' = 0
  /\ deindentToEmit' = 0
  /\ emittedExtraNewLine' = FALSE
  /\ out' = << >>

-----------------------------------------------------------------------------
(* White space.                                                            *)

Places == 1 .. Len(text)

\* The first place from i on that is not one to be skipped.
Skip(i, skipped) ==
  CHOOSE j \in i .. Len(text) : j \notin skipped /\ i .. j - 1 \subseteq skipped
SkipSet(i, chars) == Skip(i, {j \in Places : text[j] \in chars})

\* eatSpaces reads blanks and, at the start of a line, the end of a line that
\* held nothing else.
SpacePlaces ==
  {j \in Places :
     \/ text[j] \in Blanks
     \/ newLine /\ text[j] = Newline /\ j > at /\ text[j - 1] \in Blanks}
AfterSpaces == Skip(at, SpacePlaces)
EndsLine(i) == i > at /\ text[i - 1] = Newline

\* Fault: the count goes on over the end of a line of spaces.
MarginOfAllSpaces == AfterSpaces - at

\* The blanks read since the last end of line.
Margin ==
  AfterSpaces - 1
    - (CHOOSE i \in at - 1 .. AfterSpaces - 1 :
         /\ i = at - 1 \/ text[i] = Newline
         /\ \A j \in i + 1 .. AfterSpaces - 1 : text[j] # Newline)

\* Where the next token starts: inside brackets lines do not matter.
TokenStart ==
  IF nestedParentesys = 0 THEN AfterSpaces ELSE SkipSet(at, Blanks \cup {Newline})

Top == indentStack[Len(indentStack)]
AtMargin == newLine /\ nestedParentesys = 0
OpensBlock == AtMargin /\ Margin > Top
ClosesBlocks == AtMargin /\ \E i \in 1 .. Len(indentStack) - 1 : indentStack[i] = Margin
Misaligned ==
  AtMargin /\ \A i \in 1 .. Len(indentStack) : indentStack[i] # Margin
SameBlock == AtMargin => Margin = Top

-----------------------------------------------------------------------------
(* One call of next(). It gives a token and leaves in at character i; then *)
(* blanks are skipped unless a line starts there.                          *)

MayGoOn == nestedParentesys # MaxNesting

Give(kind, content, start, i, nested, nl) ==
  /\ out' = Append(out, Token(kind, content, start))
  /\ at' = IF nl /\ nested = 0 THEN i ELSE SkipSet(i, Blanks)
  /\ newLine' = (nl /\ at' = i)
  /\ nestedParentesys' = nested
  /\ UNCHANGED text

SameBlocks == UNCHANGED <<indentStack, deindentToEmit, emittedExtraNewLine>>

TooNested ==
  /\ ~ MayGoOn
  /\ out' = Append(out, Token("Error", << >>, at))
  /\ UNCHANGED <<text, at, newLine, nestedParentesys>>
  /\ SameBlocks

AtEnd == MayGoOn /\ text[at] = Eof
GiveAtEnd(kind) == Give(kind, << >>, at, at, nestedParentesys, newLine)

\* Fault: the Newline is given again and again.
GivenForgotten == FALSE

NewlineGiven == TRUE

ExtraNewline ==
  /\ AtEnd
  /\ ~ emittedExtraNewLine /\ ~ newLine
  /\ emittedExtraNewLine' = NewlineGiven
  /\ GiveAtEnd("Newline")
  /\ UNCHANGED <<indentStack, deindentToEmit>>

NoExtraNewline == emittedExtraNewLine \/ newLine

CloseAtEnd ==
  /\ AtEnd /\ NoExtraNewline
  /\ Len(indentStack) > 1
  /\ indentStack' = SubSeq(indentStack, 1, Len(indentStack) - 1)
  /\ GiveAtEnd("Deindent")
  /\ UNCHANGED <<deindentToEmit, emittedExtraNewLine>>

PendingAtEnd ==
  /\ AtEnd /\ NoExtraNewline
  /\ Len(indentStack) = 1 /\ deindentToEmit # 0
  /\ deindentToEmit' = deindentToEmit - 1
  /\ GiveAtEnd("Deindent")
  /\ UNCHANGED <<indentStack, emittedExtraNewLine>>

End ==
  /\ AtEnd /\ NoExtraNewline
  /\ Len(indentStack) = 1 /\ deindentToEmit = 0
  /\ GiveAtEnd("End")
  /\ SameBlocks

-----------------------------------------------------------------------------
(* Blocks: the tokens eatSpaces is the cause of.                           *)

InText == MayGoOn /\ text[at] # Eof
GiveAfterSpaces(kind) ==
  Give(kind, << >>, AfterSpaces, AfterSpaces, nestedParentesys,
       IF AfterSpaces = at THEN newLine ELSE EndsLine(AfterSpaces))

Indent ==
  /\ InText /\ OpensBlock
  /\ indentStack' = Append(indentStack, Margin)
  /\ GiveAfterSpaces("Indent")
  /\ UNCHANGED <<deindentToEmit, emittedExtraNewLine>>

MisalignedLine ==
  /\ InText /\ Misaligned /\ ~ OpensBlock
  /\ GiveAfterSpaces("Error")
  /\ SameBlocks

\* Fault: all the blocks closed are still to be announced.
AllStillToCome(closed) == closed

\* One of the Deindents is given at once.
StillToCome(closed) == closed - 1

Deindent ==
  /\ InText /\ ClosesBlocks
  /\ \E i \in 1 .. Len(indentStack) - 1 :
       /\ indentStack[i] = Margin
       /\ indentStack' = SubSeq(indentStack, 1, i)
       /\ deindentToEmit' = deindentToEmit + StillToCome(Len(indentStack) - i)
  /\ GiveAfterSpaces("Deindent")
  /\ UNCHANGED emittedExtraNewLine

PendingDeindent ==
  /\ InText /\ nestedParentesys = 0 /\ SameBlock
  /\ deindentToEmit # 0
  /\ deindentToEmit' = deindentToEmit - 1
  /\ GiveAfterSpaces("Deindent")
  /\ UNCHANGED <<indentStack, emittedExtraNewLine>>

-----------------------------------------------------------------------------
(* The token at TokenStart.                                                *)

ReadsToken ==
  /\ InText
  /\ nestedParentesys = 0 => SameBlock /\ deindentToEmit = 0
First == text[TokenStart]
GiveToken(kind, content, i, nested) ==
  /\ Give(kind, content, TokenStart, i, nested, EndsLine(i))
  /\ SameBlocks

LineEnd == Skip(TokenStart, {j \in Places : text[j] \notin {Newline, Eof}})
\* The text of a comment goes to the end of its line; ## drops it. The ends
\* of line that follow belong to it.
Comment ==
  /\ ReadsToken /\ First = "#"
  /\ GiveToken("Comment",
       IF text[TokenStart + 1] = "#" THEN << >>
       ELSE SubSeq(text, TokenStart + 1, LineEnd - 1) \o <<Newline>>,
       SkipSet(LineEnd, {Newline}), nestedParentesys)

Number ==
  /\ ReadsToken /\ First \in Digits
  /\ LET whole == SkipSet(TokenStart, Digits)
         isDouble == text[whole] = "."
         end == IF isDouble THEN SkipSet(whole + 1, Digits) ELSE whole
     IN GiveToken(IF isDouble THEN "Double" ELSE "Int64",
                  SubSeq(text, TokenStart, end - 1), end, nestedParentesys)

\* A backslash in a string takes the character after it along.
Escaped ==
  LET taken[j \in TokenStart + 1 .. Len(text)] ==
        j > TokenStart + 1 /\ text[j - 1] = "\\" /\ ~ taken[j - 1]
  IN {j \in DOMAIN taken : taken[j]}
LiteralEnd ==
  Skip(TokenStart + 1, {j \in Places : text[j] # Eof /\ (text[j] = "\"" => j \in Escaped)})
LiteralText ==
  LET inside == [k \in 1 .. LiteralEnd - TokenStart - 1 |-> TokenStart + k]
      kept == SelectSeq(inside, LAMBDA j : text[j] # "\\" \/ j \in Escaped)
  IN [k \in DOMAIN kept |-> text[kept[k]]]

String ==
  /\ ReadsToken /\ First = "\"" /\ text[LiteralEnd] = "\""
  /\ GiveToken("String", LiteralText, LiteralEnd + 1, nestedParentesys)

Unterminated ==
  /\ ReadsToken /\ First = "\"" /\ text[LiteralEnd] = Eof
  /\ GiveToken("Error", << >>, LiteralEnd,
               nestedParentesys + (IF LiteralEnd = TokenStart + 1 THEN 0 ELSE 1))

Nesting(c) ==
  nestedParentesys
    + (IF c \in Opening THEN 1 ELSE IF c \in Closing THEN -1 ELSE 0)

\* The ends of line after an end of line belong to it.
LineBreak ==
  /\ ReadsToken /\ First = Newline
  /\ GiveToken("Newline", << >>, SkipSet(TokenStart, {Newline}), nestedParentesys)

Starts(pair) == pair[1] = First /\ pair[2] = text[TokenStart + 1]
TwoSymbol ==
  /\ ReadsToken
  /\ \E pair \in TwoSymbols :
       Starts(pair) /\ GiveToken(pair[3], << >>, TokenStart + 2, nestedParentesys)

OneSymbol ==
  /\ ReadsToken /\ First \in Symbols \ {Newline}
  /\ ~ \E pair \in TwoSymbols : Starts(pair)
  /\ GiveToken(First, << >>, TokenStart + 1, Nesting(First))

\* Everything up to a blank or a symbol: quotes and # are part of a word.
Ident ==
  /\ ReadsToken /\ First \in Letters
  /\ LET end == Skip(TokenStart,
                     {j \in Places : text[j] \notin Blanks \cup Symbols \cup {Eof}})
         word == SubSeq(text, TokenStart, end - 1)
     IN IF Len(word) = 1 /\ First \in Keywords
        THEN GiveToken(First, << >>, end, nestedParentesys)
        ELSE GiveToken("Identifier", word, end, nestedParentesys)

Unknown ==
  /\ ReadsToken
  /\ First \notin {"#", "\""} \cup Digits \cup Symbols \cup Letters
  /\ GiveToken("Error", << >>, TokenStart, nestedParentesys)

NextToken ==
  /\ ~ Finished /\ Len(out) < MaxTokens
  /\ \/ TooNested
     \/ ExtraNewline \/ CloseAtEnd \/ PendingAtEnd \/ End
     \/ Indent \/ MisalignedLine \/ Deindent \/ PendingDeindent
     \/ Comment \/ Number \/ String \/ Unterminated
     \/ LineBreak \/ TwoSymbol \/ OneSymbol \/ Ident \/ Unknown

-----------------------------------------------------------------------------
(* What the parser relies on.                                              *)

Layout == {"Newline", "Indent", "Deindent", "End", "Error"}
Kinds ==
  Layout \cup {"Comment", "Int64", "Double", "String", "Identifier"} \cup Keywords
    \cup (Symbols \ {Newline}) \cup {pair[3] : pair \in TwoSymbols}

TypeOK ==
  /\ IsText(text)
  /\ at \in Places
  /\ newLine \in BOOLEAN
  /\ indentStack \in Seq(Nat) /\ indentStack # << >> /\ indentStack[1] = 0
  /\ \A i \in 2 .. Len(indentStack) : indentStack[i - 1] < indentStack[i]
  /\ nestedParentesys \in -Len(text) .. MaxNesting
  /\ deindentToEmit \in Nat
  /\ emittedExtraNewLine \in BOOLEAN
  /\ \A i \in 1 .. Len(out) :
       out[i].kind \in Kinds /\ out[i].start \in Places

Given(kind) == {i \in 1 .. Len(out) : out[i].kind = kind}
Depth == Cardinality(Given("Indent")) - Cardinality(Given("Deindent"))

\* The blocks announced and not closed are the margins on the stack and those
\* whose Deindent is on its way. So no Deindent comes without its Indent, and
\* at End every block was closed: statementList, which reads up to its
\* Deindent, never runs into the end of a file.
Balanced ==
  /\ Depth = Len(indentStack) - 1 + deindentToEmit
  /\ Given("End") # {} => Depth = 0

LastIsContent == out # << >> /\ out[Len(out)].kind \notin Layout
Contents == {i \in 1 .. Len(out) : out[i].kind \notin Layout}
Brackets(i, some) == Cardinality({k \in 1 .. i - 1 : out[k].kind \in some})
Outside(i) == Brackets(i, Opening) = Brackets(i, Closing)
LineStart(p) ==
  CHOOSE b \in 1 .. p :
    /\ b = 1 \/ text[b - 1] = Newline
    /\ \A k \in b .. p - 1 : text[k] # Newline
\* The tokens a line outside brackets starts with.
Leads(i) ==
  /\ \A k \in LineStart(out[i].start) .. out[i].start - 1 : text[k] \in Blanks
  /\ Outside(i)
Leading == {i \in Contents : Leads(i)}
MarginOf(i) == out[i].start - LineStart(out[i].start)

\* A line of blanks before an empty line: eatSpaces stops at the second end
\* of line and takes 0 for a margin.
MisreadLine ==
  \E i \in 1 .. Len(text) - 2 :
    /\ text[i] \in Blanks /\ text[i + 1] = Newline /\ text[i + 2] = Newline
    /\ \A k \in LineStart(i) .. i : text[k] \in Blanks

\* A line is as deep as its margin says: it is in one block for every margin
\* that a line before it has and no line since has come back from. The margin
\* that counts is that of lines that hold something, outside brackets.
LayoutByMargin ==
  LET i == Len(out)
      lines == Leading
      open == {j \in lines : \A k \in lines : k >= j => MarginOf(k) >= MarginOf(j)}
  IN LastIsContent /\ i \in lines /\ ~ MisreadLine =>
       Depth = Cardinality({0} \cup {MarginOf(j) : j \in open}) - 1

-----------------------------------------------------------------------------
(* The lexer alone, for what is proved of it.                              *)

LexerSpec == (\E t \in Texts : LexerInit(t)) /\ [][NextToken]_lexer
==============================================================================
