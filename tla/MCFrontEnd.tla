----------------------------- MODULE MCFrontEnd -----------------------------
(* The files the front end is checked on: every short text, every body of  *)
(* a function of a few lines, every two operators, and one of each kind of *)
(* declaration, statement and expression.                                  *)
EXTENDS FrontEnd

CONSTANTS RawLength, BodyLines

-----------------------------------------------------------------------------
(* A line is a level and its words; words are set apart where they have to *)
(* be. A level is one, three, four... blanks wide.                         *)

SomeLetters ==
  {"x", "y", "z", "T", "c", "if", "else", "enum", "cls", "const", "pass", "using", "ref", "is",
   "Alternative", "act", "subaction", "frm", "classes", "ctx", "can", "true", "actions", "import",
   "false", "return", "system", "assert", "break", "continue", "trait", "while", "of", "for", "in",
   "ext", "and", "or", "let", "fun", "type", "malloc", "destroy", "construct", "free", "from_array",
   "to_array", "OwningPtr", "mangled_name", "as_ptr"}
SomeKeywords == SomeLetters \ {"x", "y", "z", "T", "c"}

Long == "<=" :> <<"<", "=">> @@ ">=" :> <<">", "=">> @@ "==" :> <<"=", "=">> @@ "!=" :> <<"!", "=">>
        @@ "->" :> <<"-", ">">> @@ "::" :> <<":", ":">> @@ "<<" :> <<"<", "<">> @@ ">>" :> <<">", ">">>
        @@ "'y'" :> <<"\"", "y", "\"">> @@ "'\\'" :> <<"\"", "\\", "\"", "y", "\"">>
        @@ "#c" :> <<"#", "c">> @@ "##c" :> <<"#", "#", "c">> @@ "1.1" :> <<"1", ".", "1">>
Spelled(w) == IF w \in DOMAIN Long THEN Long[w] ELSE <<w>>
Wordy == SomeLetters \cup {"1", "1.1", "#c", "##c"}
Spelling(words) ==
  FlattenSeq([i \in DOMAIN words |->
    IF i > 1 /\ words[i] \in Wordy /\ words[i - 1] \in Wordy \cup Closing THEN <<" ">> \o Spelled(words[i])
    ELSE Spelled(words[i])])
Width == <<0, 1, 3, 4, 6, 9>>
L(level, words) == Spaces(Width[level + 1]) \o Spelling(words) \o <<"\n">>
File(lines) == FlattenSeq(lines) \o <<"eof">>
Main == L(0, <<"fun", "x", "(", ")", ":">>)
InMain(words) == File(<<Main, L(1, words)>>)

RawTexts ==
  {Append(t, "eof") : t \in UNION {[1 .. n -> {" ", "\n", "x", "(", ")", "#"}] : n \in 0 .. RawLength}}

-----------------------------------------------------------------------------
(* Bodies: the statements that take n lines, at a level.                   *)

Simple == {<<"x">>, <<"act", "x", "(", ")">>, <<"#c">>}
If1 == <<"if", "x", ":">>
Openers == {If1, <<"while", "x", ":">>, <<"actions", ":">>}
Elses == {<<"else", ":">>, <<"else", "if", "y", ":">>}
RECURSIVE Statements(_, _), Bodies(_, _)
Statements(l, n) ==
  IF n = 1 THEN {L(l, w) : w \in Simple}
  ELSE {L(l, w) \o b : w \in Openers, b \in Bodies(l + 1, n - 1)}
       \cup UNION {{L(l, If1) \o a \o L(l, e) \o b :
                      e \in Elses, a \in Bodies(l + 1, k), b \in Bodies(l + 1, n - 2 - k)} : k \in 1 .. n - 3}
Bodies(l, n) ==
  Statements(l, n)
  \cup UNION {{s \o b : s \in Statements(l, k), b \in Bodies(l, n - k)} : k \in 1 .. n - 1}
BodyTexts == {File(<<Main, b>>) : b \in UNION {Bodies(1, n) : n \in 1 .. BodyLines}}

-----------------------------------------------------------------------------
(* Expressions.                                                            *)

Operators == {"*", "/", "%", "+", "-", "<", "<<", ">>", "<=", ">=", "==", "!=", "and", "or", "&", "^", "|"}
Chains == {<<"x", o, "y", p, "z">> : o, p \in Operators}
          \cup {<<o, "x", p, "y">> : o \in {"-", "+", "~", "!"}, p \in {"*", "-", "and"}}
          \cup {<<"x", o, "(", "y", p, "z", ")">> : o, p \in {"*", "-", "and", "or"}}
          \cup {<<"(", "x", o, "y", ")", p, "z">> : o, p \in {"*", "-", "and", "or"}}
Guards == {<<"x", o, "y", p, "z">> : o, p \in {"and", "or", ",", "=="}}
          \cup {<<"x", "(", "y", o, "z", ")", p, "y">> : o, p \in {"and", "or", ","}}
          \cup {<<"(", "x", o, "y", ")", p, "z">> : o, p \in {"and", "or"}}
ExpressionTexts ==
  {InMain(e) : e \in Chains}
  \cup {File(<<L(0, <<"fun", "x", "(", ")", "{">> \o e \o <<"}", ":">>), L(1, <<"x">>)>>) : e \in Guards}

Lines1 ==
  { <<"x", ".", "y", "(", "z", ",", "1", ")", ".", "z", "[", "x", "]">>,
    <<"x", "is", "T", "<", "1", ",", "T", ">", "[", "1", "]", "|", "OwningPtr", "<", "T", ">">>,
    <<"x", "is", "Alternative">>, <<"can", "x", "(", "true", ")">>, <<"x", "=", "T", "::", "y", "+", "1.1">>,
    <<"'y'", "z">>, <<"'\\'">>, <<"[", "1", ",", "[", "]", "]">>, <<"x", "(", ")", "#c">>, <<"x", "##c">>,
    <<"malloc", "<", "T", ">", "(", "1", ")">>, <<"free", "(", "x", ")">>, <<"destroy", "(", "x", ")">>,
    <<"construct", "(", "x", ")">>, <<"from_array", "<", "T", ">", "(", "x", ")">>,
    <<"to_array", "(", "as_ptr", "(", "x", ")", ")">>, <<"mangled_name", "(", "x", ")">>,
    <<"assert", "(", "false", ",", "'y'", ")">>, <<"let", "x", "=", "1">>, <<"ref", "x", "=", "y">>,
    <<"frm", "x", ":", "T", "<", "T", ">", "#c">>, <<"let", "x", ":", "(", "T", "->", "T", ")">>,
    <<"return", "x", "#c">>, <<"return", "#c">>, <<"x", ".">>,
    <<"act", "x", "(", "T", "x", ",", "frm", "T", "y", ")", "{", "x", ",", "y", "}", "#c">>,
    <<"act", "x", "(", "ctx", "T", "x", ",", "T", "y", ")">>,
    <<"subaction", "x">>, <<"subaction", "*", "(", "x", ",", "y", ")", "z", "=", "x", "(", ")">>,
    <<"subaction", "x", ",", "y", ",", "z", "#c">>, <<"subaction", "1", "=", "x">>, <<"pass">>,
    <<"x", ")">>, <<"x", "<", "y", "<", "<", "z">> }
Nested ==
  { <<L(1, <<"while", "x", ":">>), L(2, <<"break", "#c">>), L(2, <<"continue">>)>>,
    <<L(1, <<"for", "x", "in", "y", "(", ")", ":">>), L(2, <<"x">>)>>,
    <<L(1, <<"for", "x", ",", "y", "of", "z", ",", "1", ":", "#c">>), L(2, <<"x">>)>>,
    <<L(1, <<"for", "x", "of", "z", ":">>), L(2, <<"x">>), L(1, <<"y">>)>>,
    <<L(1, <<"for", "x", ",", "y", "in", "z", ":">>), L(2, <<"x">>)>>,
    <<L(1, <<"using", "x", "=", "T", "[", "y", "]">>), L(1, <<"using", "y", "=", "type", "(", "x", ")">>), L(1, <<"x">>)>>,
    <<L(1, <<"x">>), L(2, <<"y">>), L(3, <<"z">>), L(1, <<"x">>)>>,
    <<L(1, <<"x", "(", "y", ",">>), L(3, <<"z", ")">>), <<"\n">>, L(1, <<"x">>)>>,
    <<L(1, <<"[", "#c">>), L(3, <<"z", "]">>)>>,
    <<L(1, If1), L(2, If1), L(3, <<"x">>), L(2, <<"else", ":">>), L(3, <<"y">>), L(1, <<"else", "if", "y", ":">>),
      L(2, <<"y">>), L(1, <<"else", ":", "#c">>), L(2, <<"z">>), L(2, If1), L(3, <<"return">>)>>,
    <<L(1, If1), L(2, <<"x">>), L(1, <<"else", ":">>), L(2, If1), L(3, <<"y">>), L(1, <<"z">>)>> }
Files ==
  { <<L(0, <<"import", "x", ".", "y">>), L(0, <<"system", "x">>)>>,
    <<L(0, <<"system", "x">>), L(0, <<"const", "x", "=", "-", "1", "#c">>), L(0, <<"const", "x", "=", "1.1">>)>>,
    <<L(0, <<"import", "x", ".", "y", "#c">>), L(0, <<"const", "x", "=", "-", "1", "#c">>), <<"\n">>, L(0, <<"using", "x", "=", "T">>)>>,
    <<L(0, <<"ext", "fun", "x", "(", "T", "x", ")", "->", "ref", "T", "#c">>), L(0, <<"ext", "fun", "y", "(", ")">>)>>,
    <<L(0, <<"cls", "<", "T", "x", ",", "y", ">", "z", ":", "#c">>), L(1, <<"T", "x">>), <<"\n", " ", "\n">>,
      L(1, <<"#c">>), L(1, <<"fun", "<", "T", ">", "x", "(", "T", "y", ")", "->", "T", ":">>), L(2, <<"return", "y">>)>>,
    <<L(0, <<"cls", "x", ":">>), L(1, <<"pass">>)>>, <<L(0, <<"cls", "x", ":">>), L(1, <<"T", "x", "#c">>)>>,
    <<L(0, <<"enum", "x", ":">>), L(1, <<"x", ":", "#c">>), L(2, <<"T", "y", "=", "1", "#c">>), L(2, <<"T", "z", "=", "'y'">>),
      L(1, <<"y">>), L(1, <<"fun", "x", "(", ")", ":">>), L(2, <<"x">>)>>,
    <<L(0, <<"trait", "<", "T", ",", "x", ">", "y", ":">>), L(1, <<"fun", "x", "(", "T", "x", ",", "T", "y", ")", "->", "T">>), L(1, <<"fun", "y", "(", ")">>)>>,
    <<L(0, <<"trait", "<", "T", ">", "y", ":">>), L(1, <<"fun", "<", "T", ">", "x", "(", ")", "#c">>)>>,
    <<L(0, <<"@", "classes">>), L(0, <<"act", "x", "(", "ctx", "T", "x", ",", "frm", "T", "y", ")", "->", "T", "{", "x", "and", "y", "}", ":">>),
      L(1, <<"actions", ":", "#c">>), L(2, <<"y">>), L(2, <<"act", "y", "(", ")">>), L(3, <<"x">>), L(2, <<"z">>), L(2, <<"#c">>), L(2, <<"act", "z", "(", ")">>)>>,
    <<L(0, <<"act", "x", "(", ")", ":">>), L(1, <<"x">>)>>,
    <<L(0, <<"@", "classes">>), L(0, <<"ext", "fun", "x", "(", ")">>)>> }
OtherTexts ==
  {InMain(l) : l \in Lines1} \cup {File(<<Main>> \o n) : n \in Nested} \cup {File(d) : d \in Files}
  \cup {<<"x", "\"", "y", "\"", "#", "eof">>, <<"\"", "x", "eof">>, <<"\"", "eof">>, <<"$", "eof">>,
        Spelling(<<"fun", "x", "(", ")", ":">>) \o <<"\n", " ", "x", "eof">>}

SomeTexts == RawTexts \cup BodyTexts \cup ExpressionTexts \cup OtherTexts
=============================================================================
