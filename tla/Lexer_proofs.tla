---------------------------- MODULE Lexer_proofs ----------------------------
(***************************************************************************)
(* Proofs about the lexer: whatever the text, the Indent and Deindent      *)
(* tokens balance, and the brackets never pass their limit.                *)
(***************************************************************************)
EXTENDS Lexer, TLAPS, FiniteSetTheorems

\* A token of this kind counts for one.
One(kind, t) == IF t.kind = kind THEN 1 ELSE 0

\* What a call of next() does to what is counted.
Gives(t) == out' = Append(out, t)
MarginKinds == {"Indent", "Deindent", "End"}
Opens(kind) ==
  /\ kind = "Indent"
  /\ indentStack' = Append(indentStack, Margin) /\ UNCHANGED deindentToEmit
ClosesTo(kind, i) ==
  /\ kind = "Deindent"
  /\ indentStack' = SubSeq(indentStack, 1, i)
  /\ deindentToEmit' = deindentToEmit + (Len(indentStack) - i) - 1
Announces(kind) ==
  /\ kind = "Deindent" /\ deindentToEmit # 0
  /\ deindentToEmit' = deindentToEmit - 1 /\ UNCHANGED indentStack
Ends(kind) ==
  /\ kind = "End" /\ Len(indentStack) = 1 /\ deindentToEmit = 0
  /\ UNCHANGED <<indentStack, deindentToEmit>>
Stays(kind) ==
  /\ kind \notin MarginKinds
  /\ UNCHANGED <<indentStack, deindentToEmit>>
Shape(kind) ==
  \/ Opens(kind) \/ Announces(kind) \/ Ends(kind) \/ Stays(kind)
  \/ \E i \in 1 .. Len(indentStack) - 1 : ClosesTo(kind, i)

\* Fact: a token that is given is counted, and those before it still are.
LEMMA Counted ==
  ASSUME NEW S, out \in Seq(S), NEW t, Gives(t), NEW kind
  PROVE  /\ IsFiniteSet(Given(kind)) /\ Cardinality(Given(kind)) \in Nat
         /\ Cardinality(Given(kind)') = Cardinality(Given(kind)) + One(kind, t)
         /\ Given(kind)' = Given(kind) \cup (IF t.kind = kind THEN {Len(out) + 1} ELSE {})
<1>1. /\ Len(out) \in Nat /\ Len(out') = Len(out) + 1
      /\ \A i \in 1 .. Len(out) : out'[i] = out[i]
      /\ out'[Len(out) + 1] = t
  BY DEF Gives
<1>2. IsFiniteSet(Given(kind)) /\ Cardinality(Given(kind)) \in Nat
  <2>1. IsFiniteSet(1 .. Len(out))
    BY <1>1, FS_Interval
  <2>2. Given(kind) \subseteq 1 .. Len(out)
    BY DEF Given
  <2> QED BY <2>1, <2>2, FS_Subset, FS_CardinalityType
<1>3. Given(kind)' = Given(kind) \cup (IF t.kind = kind THEN {Len(out) + 1} ELSE {})
  <2>1. Given(kind)' = {i \in 1 .. Len(out') : out'[i].kind = kind}
    BY DEF Given
  <2>2. Given(kind) = {i \in 1 .. Len(out) : out[i].kind = kind}
    BY DEF Given
  <2>3. 1 .. Len(out') = (1 .. Len(out)) \cup {Len(out) + 1}
    BY <1>1
  <2> QED BY <1>1, <2>1, <2>2, <2>3
<1>4. Len(out) + 1 \notin Given(kind)
  BY <1>1 DEF Given
<1>5. Cardinality(Given(kind)') = Cardinality(Given(kind)) + One(kind, t)
  <2>1. CASE t.kind = kind
    BY <2>1, <1>2, <1>3, <1>4, FS_AddElement DEF One
  <2>2. CASE t.kind # kind
    BY <2>2, <1>2, <1>3 DEF One
  <2> QED BY <2>1, <2>2
<1> QED BY <1>2, <1>3, <1>5

-----------------------------------------------------------------------------
(* The blocks.                                                             *)

\* The sequences are sequences, and nothing is given after End.
Inv ==
  /\ \E S : out \in Seq(S)
  /\ \E S : indentStack \in Seq(S)
  /\ indentStack # << >>
  /\ deindentToEmit \in Nat
  /\ Given("End") # {} => Finished
  /\ Balanced

\* Fact: each step gives one token, and moves the margins as its kind says.
LEMMA StepShape ==
  ASSUME Inv, NextToken
  PROVE  \E kind, content, start : Gives(Token(kind, content, start)) /\ Shape(kind)
<1> USE DEF Gives, Shape, MarginKinds
<1>0. Len(indentStack) \in Nat \ {0} /\ deindentToEmit \in Nat
  BY DEF Inv
<1>1. CASE TooNested
  BY <1>1 DEF TooNested, SameBlocks, Stays
<1>2. CASE ExtraNewline
  BY <1>2 DEF ExtraNewline, GiveAtEnd, Give, Stays
<1>3. CASE CloseAtEnd
  <2>1. ClosesTo("Deindent", Len(indentStack) - 1) /\ Len(indentStack) - 1 \in 1 .. Len(indentStack) - 1
    BY <1>0, <1>3 DEF CloseAtEnd, ClosesTo
  <2> QED BY <1>3, <2>1 DEF CloseAtEnd, GiveAtEnd, Give
<1>4. CASE PendingAtEnd
  BY <1>4 DEF PendingAtEnd, GiveAtEnd, Give, Announces
<1>5. CASE End
  BY <1>5 DEF End, GiveAtEnd, Give, SameBlocks, Ends
<1>6. CASE Indent
  BY <1>6 DEF Indent, GiveAfterSpaces, Give, Opens
<1>7. CASE MisalignedLine
  BY <1>7 DEF MisalignedLine, GiveAfterSpaces, Give, SameBlocks, Stays
<1>8. CASE Deindent
  <2>1. PICK i \in 1 .. Len(indentStack) - 1 :
          /\ indentStack' = SubSeq(indentStack, 1, i)
          /\ deindentToEmit' = deindentToEmit + StillToCome(Len(indentStack) - i)
    BY <1>8 DEF Deindent
  <2>2. ClosesTo("Deindent", i)
    BY <1>0, <2>1 DEF ClosesTo, StillToCome
  <2> QED BY <1>8, <2>2 DEF Deindent, GiveAfterSpaces, Give
<1>9. CASE PendingDeindent
  BY <1>9 DEF PendingDeindent, GiveAfterSpaces, Give, Announces
<1>10. ASSUME NEW kind, NEW content, NEW i, NEW nested,
              GiveToken(kind, content, i, nested), kind \notin MarginKinds
       PROVE  \E k, c, start : Gives(Token(k, c, start)) /\ Shape(k)
  BY <1>10 DEF GiveToken, Give, SameBlocks, Stays
<1>11. CASE Comment
  BY <1>10, <1>11 DEF Comment
<1>12. CASE Number
  BY <1>10, <1>12 DEF Number
<1>13. CASE String \/ Unterminated
  <2>1. \E kind, content, i, nested :
          GiveToken(kind, content, i, nested) /\ kind \in {"String", "Error"}
    BY <1>13, Zenon DEF String, Unterminated
  <2> QED BY <1>10, <2>1
<1>14. CASE LineBreak
  BY <1>10, <1>14 DEF LineBreak
<1>15. CASE TwoSymbol
  <2>1. PICK pair \in TwoSymbols : GiveToken(pair[3], << >>, TokenStart + 2, nestedParentesys)
    BY <1>15 DEF TwoSymbol
  <2>2. pair[3] \notin MarginKinds
    BY DEF TwoSymbols
  <2> QED BY <1>10, <2>1, <2>2
<1>16. CASE OneSymbol
  <2>1. First \notin MarginKinds
    BY <1>16 DEF OneSymbol, Symbols, Newline
  <2> QED BY <1>10, <1>16, <2>1 DEF OneSymbol
<1>17. CASE Ident
  <2>1. First \in Keywords => First \notin MarginKinds
    BY CharacterAssumption
  <2> QED BY <1>10, <1>17, <2>1 DEF Ident
<1>18. CASE Unknown
  BY <1>10, <1>18 DEF Unknown
<1> QED
  BY <1>1, <1>2, <1>3, <1>4, <1>5, <1>6, <1>7, <1>8, <1>9, <1>11, <1>12, <1>13, <1>14,
     <1>15, <1>16, <1>17, <1>18 DEF NextToken

LEMMA InvInit == ASSUME NEW t \in Texts, LexerInit(t) PROVE Inv
<1>1. out = << >> /\ indentStack = <<0>> /\ deindentToEmit = 0
  BY DEF LexerInit
<1>2. out \in Seq(Nat) /\ indentStack \in Seq(Nat) /\ Len(indentStack) = 1 /\ Len(out) = 0
  BY <1>1
<1>3. \A kind : Given(kind) = {}
  BY <1>2 DEF Given
<1>4. Balanced
  <2>1. Cardinality(Given("Indent")) = 0 /\ Cardinality(Given("Deindent")) = 0
    BY <1>3, FS_EmptySet
  <2> QED BY <1>1, <1>2, <1>3, <2>1 DEF Balanced, Depth
<1> QED BY <1>1, <1>2, <1>3, <1>4 DEF Inv

LEMMA InvStep == ASSUME Inv, NextToken PROVE Inv'
<1>1. PICK kind, content, start : Gives(Token(kind, content, start)) /\ Shape(kind)
  BY StepShape
<1> DEFINE t == Token(kind, content, start)
<1>2. PICK S : out \in Seq(S)
  BY DEF Inv
<1>3. PICK T : indentStack \in Seq(T)
  BY DEF Inv
<1>4. t.kind = kind
  BY DEF Token
<1>5. out' \in Seq(S \cup {t}) /\ Len(out') = Len(out) + 1 /\ out'[Len(out')] = t /\ out' # << >>
  BY <1>1, <1>2 DEF Gives
<1>6. \A k : /\ Cardinality(Given(k)) \in Nat
             /\ Cardinality(Given(k)') = Cardinality(Given(k)) + One(k, t)
             /\ Given(k)' = Given(k) \cup (IF t.kind = k THEN {Len(out) + 1} ELSE {})
  BY <1>1, <1>2, Counted
<1>7. Given("End") = {}
  BY DEF Inv, NextToken
<1>8. Depth \in Int /\ Depth' = Depth + One("Indent", t) - One("Deindent", t)
  BY <1>6 DEF Depth, One
<1> DEFINE Kept == /\ \E U : indentStack' \in Seq(U)
                   /\ indentStack' # << >> /\ deindentToEmit' \in Nat
                   /\ Depth' = Len(indentStack') - 1 + deindentToEmit'
                   /\ kind = "End" => Depth' = 0
<1>9. Kept
  <2>0. /\ Depth = Len(indentStack) - 1 + deindentToEmit /\ deindentToEmit \in Nat
        /\ Len(indentStack) \in Nat \ {0} /\ indentStack # << >>
    BY <1>3 DEF Inv, Balanced
  <2>1. CASE Opens(kind)
    <3>1. indentStack' \in Seq(T \cup {Margin}) /\ Len(indentStack') = Len(indentStack) + 1
      BY <2>1, <1>3 DEF Opens
    <3> QED BY <3>1, <2>0, <2>1, <1>4, <1>8 DEF Opens, One
  <2>2. CASE Announces(kind)
    <3>1. indentStack' \in Seq(T) /\ indentStack' = indentStack
      BY <2>2, <1>3 DEF Announces
    <3>2. kind = "Deindent" /\ deindentToEmit' = deindentToEmit - 1 /\ deindentToEmit - 1 \in Nat
      BY <2>0, <2>2 DEF Announces
    <3> QED BY <3>1, <3>2, <2>0, <1>4, <1>8 DEF One
  <2>3. CASE Ends(kind) \/ Stays(kind)
    <3>1. indentStack' \in Seq(T) /\ indentStack' = indentStack /\ deindentToEmit' = deindentToEmit
      BY <2>3, <1>3 DEF Ends, Stays
    <3>2. kind \notin {"Indent", "Deindent"}
      BY <2>3 DEF Ends, Stays, MarginKinds
    <3>3. kind = "End" => Len(indentStack) = 1 /\ deindentToEmit = 0
      BY <2>3 DEF Ends, Stays, MarginKinds
    <3>4. Depth' = Depth
      BY <3>2, <1>4, <1>8 DEF One
    <3>5. Len(indentStack') = Len(indentStack)
      BY <3>1
    <3>6. kind = "End" => Depth' = 0
      BY <3>3, <3>4, <2>0
    <3> QED BY <3>1, <3>4, <3>5, <3>6, <2>0
  <2>4. ASSUME NEW i \in 1 .. Len(indentStack) - 1, ClosesTo(kind, i)
        PROVE  Kept
    <3>1. indentStack' \in Seq(T) /\ Len(indentStack') = i
      BY <2>0, <2>4, <1>3 DEF ClosesTo
    <3>2. Depth' = Depth - 1 /\ kind # "End"
      BY <2>4, <1>4, <1>8 DEF ClosesTo, One
    <3>3. deindentToEmit' = deindentToEmit + (Len(indentStack) - i) - 1
      BY <2>4 DEF ClosesTo
    <3> QED BY <3>1, <3>2, <3>3, <2>0, <1>8
  <2>5. Opens(kind) \/ Announces(kind) \/ Ends(kind) \/ Stays(kind)
        \/ \E i \in 1 .. Len(indentStack) - 1 : ClosesTo(kind, i)
    BY <1>1 DEF Shape
  <2> HIDE DEF Kept
  <2> QED BY <2>1, <2>2, <2>3, <2>4, <2>5
<1>10. Given("End")' # {} => kind = "End"
  BY <1>4, <1>6, <1>7
<1>11. kind = "End" => Finished'
  BY <1>4, <1>5 DEF Finished
<1> QED BY <1>5, <1>9, <1>10, <1>11 DEF Inv, Balanced

\* The Indent and Deindent tokens given balance the blocks open at every call
\* of next(), and End closes them all, whatever the text.
THEOREM BalancedTheorem == LexerSpec => []Balanced
<1>1. (\E t \in Texts : LexerInit(t)) => Inv
  BY InvInit
<1>2. Inv /\ [NextToken]_lexer => Inv'
  <2>1. ASSUME Inv, UNCHANGED lexer PROVE Inv'
    BY <2>1 DEF Inv, lexer, Balanced, Depth, Given, Finished
  <2> QED BY InvStep, <2>1
<1>3. Inv => Balanced
  BY DEF Inv
<1> QED BY <1>1, <1>2, <1>3, PTL DEF LexerSpec

-----------------------------------------------------------------------------
(* The brackets.                                                           *)

NestingInv == nestedParentesys \in Int /\ nestedParentesys <= MaxNesting

\* Comparing with the limit by equality is enough: no token opens two
\* brackets, so the count never gets past it.
THEOREM NestingBounded == LexerSpec => [](nestedParentesys <= MaxNesting)
<1>1. (\E t \in Texts : LexerInit(t)) => NestingInv
  BY CharacterAssumption DEF LexerInit, NestingInv
<1>2. ASSUME NestingInv, NextToken PROVE NestingInv'
  <2>0. MaxNesting \in Nat
    BY CharacterAssumption
  <2>1. CASE TooNested
    BY <1>2, <2>1 DEF TooNested, NestingInv
  <2>2. CASE ExtraNewline \/ CloseAtEnd \/ PendingAtEnd \/ End
    BY <1>2, <2>2 DEF ExtraNewline, CloseAtEnd, PendingAtEnd, End, GiveAtEnd, Give, NestingInv
  <2>3. CASE Indent \/ MisalignedLine \/ Deindent \/ PendingDeindent
    BY <1>2, <2>3 DEF Indent, MisalignedLine, Deindent, PendingDeindent, GiveAfterSpaces, Give, NestingInv
  <2>4. CASE Comment \/ Number \/ String \/ LineBreak \/ TwoSymbol \/ Ident \/ Unknown
    <3>1. nestedParentesys' = nestedParentesys
      BY <2>4 DEF Comment, Number, String, LineBreak, TwoSymbol, Ident, Unknown, GiveToken, Give
    <3> QED BY <1>2, <3>1 DEF NestingInv
  <2>5. CASE Unterminated \/ OneSymbol
    <3>1. MayGoOn
      BY <2>5 DEF Unterminated, OneSymbol, ReadsToken, InText
    <3>2. nestedParentesys' \in {nestedParentesys - 1, nestedParentesys, nestedParentesys + 1}
      <4>1. \E kind, content, i, n :
              /\ n \in {-1, 0, 1}
              /\ GiveToken(kind, content, i, nestedParentesys + n)
        <5>1. CASE Unterminated
          <6> DEFINE n == IF LiteralEnd = TokenStart + 1 THEN 0 ELSE 1
          <6>1. GiveToken("Error", << >>, LiteralEnd, nestedParentesys + n)
            BY <5>1, Zenon DEF Unterminated
          <6>2. n \in {-1, 0, 1}
            OBVIOUS
          <6> HIDE DEF n
          <6> QED BY <6>1, <6>2
        <5>2. CASE OneSymbol
          <6> DEFINE n == IF First \in Opening THEN 1 ELSE IF First \in Closing THEN -1 ELSE 0
          <6>1. GiveToken(First, << >>, TokenStart + 1, nestedParentesys + n)
            BY <5>2 DEF OneSymbol, Nesting
          <6>2. n \in {-1, 0, 1}
            OBVIOUS
          <6> HIDE DEF n
          <6> QED BY <6>1, <6>2
        <5> QED BY <2>5, <5>1, <5>2
      <4> QED BY <1>2, <4>1 DEF GiveToken, Give, NestingInv
    <3> QED BY <1>2, <2>0, <3>1, <3>2 DEF MayGoOn, NestingInv
  <2> QED BY <1>2, <2>1, <2>2, <2>3, <2>4, <2>5 DEF NextToken
<1>3. NestingInv /\ UNCHANGED lexer => NestingInv'
  BY DEF NestingInv, lexer
<1>4. NestingInv => nestedParentesys <= MaxNesting
  BY DEF NestingInv
<1> QED BY <1>1, <1>2, <1>3, <1>4, PTL DEF LexerSpec
=============================================================================
