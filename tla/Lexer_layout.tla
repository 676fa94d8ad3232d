---------------------------- MODULE Lexer_layout ----------------------------
(***************************************************************************)
(* Proofs about the layout: whatever the text, a line outside brackets is  *)
(* in one block for every margin that a line before it has and no line     *)
(* since has come back from.                                               *)
(***************************************************************************)
EXTENDS Lexer_proofs, WellFoundedInduction

-----------------------------------------------------------------------------
(* The inductive invariant.                                                *)

Delta(kind) == IF kind \in Opening THEN 1 ELSE IF kind \in Closing THEN -1 ELSE 0
Unclosed == Brackets(Len(out) + 1, Opening) - Brackets(Len(out) + 1, Closing)

AtLineStart(p) == p = 1 \/ text[p - 1] = Newline
Stacked(s) ==
  /\ s \in Seq(Nat) /\ s # << >> /\ s[1] = 0
  /\ \A i, j \in 1 .. Len(s) : i < j => s[i] < s[j]

Typed ==
  /\ IsText(text)
  /\ at \in Places
  /\ newLine \in BOOLEAN /\ (newLine => AtLineStart(at))
  /\ Stacked(indentStack)
  /\ nestedParentesys \in Int /\ nestedParentesys <= MaxNesting
  /\ nestedParentesys >= 1 - at
  /\ deindentToEmit \in Nat
  /\ emittedExtraNewLine \in BOOLEAN
  /\ \E S : out \in Seq(S)
  /\ \A i \in 1 .. Len(out) : out[i].kind \in Kinds /\ out[i].start \in Places

Margins == {indentStack[i] : i \in 1 .. Len(indentStack)}
\* The margins of the lines that are open, by LayoutByMargin.
Kept == {j \in Leading : \A k \in Leading : k >= j => MarginOf(k) >= MarginOf(j)}
Lines == {0} \cup {MarginOf(j) : j \in Kept}
Cut(m) == {x \in Lines : x <= m} \cup {m}

Settled == Margins = Lines /\ deindentToEmit = 0
\* A line was read up to its end.
Fresh ==
  /\ newLine
  /\ Settled
  /\ text[at] = Newline => indentStack = <<0>>
\* Something on the line was read.
MidLine ==
  /\ ~ newLine
  /\ \E k \in LineStart(at) .. at - 1 : text[k] \notin Blanks
  /\ Settled
\* The margin of the line was read, and what it opens or closes is on its way.
Ready ==
  /\ ~ LastIsContent
  /\ text[at] \notin Blanks \cup {Newline}
  /\ \A k \in LineStart(at) .. at - 1 : text[k] \in Blanks
  /\ Margins = Cut(at - LineStart(at))
  /\ Top = at - LineStart(at)

Laid ==
  ~ Finished =>
    /\ nestedParentesys = Unclosed
    /\ ~ MisreadLine =>
         /\ LastIsContent => Settled
         /\ text[at] # Eof =>
              IF nestedParentesys = 0 THEN Fresh \/ MidLine \/ Ready ELSE Settled

-----------------------------------------------------------------------------
(* Places in a text.                                                       *)

LEMMA Least ==
  ASSUME NEW A \in SUBSET Nat, A # {}
  PROVE  \E m \in A : \A k \in A : m <= k
<1>1. \E x \in A : \A y \in A : ~ (<<y, x>> \in OpToRel(<, Nat))
  BY NatLessThanWellFounded, WFMin, Zenon
<1>2. \A x, y \in Nat : y < x => <<y, x>> \in OpToRel(<, Nat)
  BY Zenon DEF OpToRel
<1>3. \A x, y \in Nat : y < x \/ x <= y
  OBVIOUS
<1> QED BY <1>1, <1>2, <1>3

\* Fact: a place not to be skipped is found, as the end of a text is none.
LEMMA SkipIs ==
  ASSUME IsText(text), NEW i \in Places, NEW S, Len(text) \notin S
  PROVE  /\ Skip(i, S) \in i .. Len(text) /\ Skip(i, S) \notin S
         /\ i .. Skip(i, S) - 1 \subseteq S
         /\ Skip(i, S) \in Places
<1>1. Len(text) \in Nat \ {0}
  BY DEF IsText
<1> DEFINE A == {j \in i .. Len(text) : j \notin S}
<1>2. A \in SUBSET Nat /\ Len(text) \in A
  BY <1>1 DEF Places
<1>3. PICK m \in A : \A k \in A : m <= k
  BY <1>2, Least
<1>4. m \in i .. Len(text) /\ m \notin S /\ i .. m - 1 \subseteq S
  BY <1>1, <1>3 DEF Places
<1>5. /\ Skip(i, S) \in i .. Len(text) /\ Skip(i, S) \notin S
      /\ i .. Skip(i, S) - 1 \subseteq S
  BY <1>4, Zenon DEF Skip
<1> QED BY <1>1, <1>5 DEF Places

StartsAt(b, p) ==
  /\ b \in 1 .. p /\ AtLineStart(b)
  /\ \A k \in b .. p - 1 : text[k] # Newline

\* Fact: a place is on one line.
LEMMA LineStartIs ==
  ASSUME IsText(text), NEW p \in Places
  PROVE  /\ StartsAt(LineStart(p), p)
         /\ \A b : StartsAt(b, p) => b = LineStart(p)
<1>1. Len(text) \in Nat \ {0} /\ p \in Nat
  BY DEF IsText, Places
<1> DEFINE A == {n \in 0 .. p - 1 : AtLineStart(p - n)}
<1>2. A \in SUBSET Nat /\ p - 1 \in A
  BY <1>1 DEF AtLineStart, Places
<1>3. PICK n \in A : \A k \in A : n <= k
  BY <1>2, Least
<1>4. p - n \in 1 .. p /\ AtLineStart(p - n)
  BY <1>1, <1>3 DEF Places
<1>5. ASSUME NEW k \in p - n .. p - 1, text[k] = Newline PROVE FALSE
  <2>1. p - (k + 1) \in 0 .. p - 1 /\ p - (p - (k + 1)) = k + 1 /\ p - (k + 1) < n
    BY <1>1, <1>3, <1>5 DEF Places
  <2>2. AtLineStart(k + 1)
    BY <1>1, <1>3, <1>5 DEF AtLineStart
  <2> QED BY <1>3, <2>1, <2>2
<1>6. StartsAt(p - n, p)
  BY <1>4, <1>5 DEF StartsAt
<1>7. ASSUME NEW b, NEW c, StartsAt(b, p), StartsAt(c, p), b < c PROVE FALSE
  <2>1. c - 1 \in b .. p - 1 /\ text[c - 1] = Newline
    BY <1>1, <1>7 DEF StartsAt, AtLineStart
  <2> QED BY <1>7, <2>1 DEF StartsAt
<1>8. \A b, c : StartsAt(b, p) /\ StartsAt(c, p) => b = c
  <2> SUFFICES ASSUME NEW b, NEW c, StartsAt(b, p), StartsAt(c, p) PROVE b = c
    OBVIOUS
  <2>1. b \in Int /\ c \in Int
    BY DEF StartsAt
  <2> QED BY <1>7, <2>1
<1>9. LineStart(p) = CHOOSE b \in 1 .. p : AtLineStart(b) /\ \A k \in b .. p - 1 : text[k] # Newline
  BY Zenon DEF LineStart, AtLineStart
<1>10. StartsAt(LineStart(p), p)
  BY <1>6, <1>9, Zenon DEF StartsAt
<1> QED BY <1>8, <1>10

\* Fact: places with no end of line between them are on one line.
LEMMA SameLine ==
  ASSUME IsText(text), NEW p \in Places, NEW q \in Places, p <= q,
         \A k \in p .. q - 1 : text[k] # Newline
  PROVE  LineStart(q) = LineStart(p) /\ LineStart(p) \in 1 .. p
<1>1. Len(text) \in Nat /\ p \in Nat /\ q \in Nat
  BY DEF IsText, Places
<1>2. StartsAt(LineStart(p), p)
  BY LineStartIs
<1>3. StartsAt(LineStart(p), q)
  BY <1>1, <1>2 DEF StartsAt
<1> QED BY <1>2, <1>3, LineStartIs DEF StartsAt

\* Fact: no place after the start of a line is on a line before it.
LEMMA LineStartAfter ==
  ASSUME IsText(text), NEW b \in Places, NEW p \in Places, AtLineStart(b), b <= p
  PROVE  LineStart(p) \in b .. p
<1>1. Len(text) \in Nat /\ b \in Nat /\ b >= 1 /\ p \in Nat
  BY DEF IsText, Places
<1>2. StartsAt(LineStart(p), p)
  BY LineStartIs
<1>3. LineStart(p) \in 1 .. p
  BY <1>2 DEF StartsAt
<1>4. ASSUME LineStart(p) < b PROVE FALSE
  <2>1. b - 1 \in LineStart(p) .. p - 1 /\ b # 1
    BY <1>1, <1>3, <1>4
  <2>2. text[b - 1] = Newline
    BY <2>1 DEF AtLineStart
  <2> QED BY <1>2, <2>1, <2>2 DEF StartsAt
<1> QED BY <1>1, <1>3, <1>4

\* Fact: the margin is counted from the start of the line.
LEMMA MarginIs ==
  ASSUME IsText(text), at \in Places, AtLineStart(at),
         AfterSpaces \in Places, at <= AfterSpaces
  PROVE  /\ Margin = AfterSpaces - LineStart(AfterSpaces)
         /\ LineStart(AfterSpaces) \in at .. AfterSpaces
<1> DEFINE A == AfterSpaces
           Stops(i) == /\ i = at - 1 \/ text[i] = Newline
                       /\ \A j \in i + 1 .. A - 1 : text[j] # Newline
           c == CHOOSE i \in at - 1 .. A - 1 : Stops(i)
<1>1. Len(text) \in Nat /\ at \in Nat /\ at >= 1 /\ A \in Nat
  BY DEF IsText, Places
<1>2. StartsAt(LineStart(A), A)
  BY LineStartIs
<1>3. LineStart(A) >= at
  BY LineStartAfter
<1>4. LineStart(A) - 1 \in at - 1 .. A - 1 /\ Stops(LineStart(A) - 1)
  BY <1>1, <1>2, <1>3 DEF StartsAt, AtLineStart
<1>5. c \in at - 1 .. A - 1 /\ Stops(c)
  BY <1>4, Zenon
<1> HIDE DEF c
<1>6. StartsAt(c + 1, A)
  BY <1>1, <1>5 DEF StartsAt, AtLineStart
<1>7. c + 1 = LineStart(A)
  BY <1>6, LineStartIs
<1>8. Margin = A - 1 - c
  BY DEF Margin, c
<1> QED BY <1>1, <1>2, <1>3, <1>5, <1>7, <1>8 DEF StartsAt

-----------------------------------------------------------------------------
(* What a token that is given changes in what LayoutByMargin counts.       *)

LEMMA BracketsStep ==
  ASSUME NEW S, out \in Seq(S), NEW t, Gives(t), NEW some
  PROVE  /\ \A i \in 1 .. Len(out) + 1 : Brackets(i, some)' = Brackets(i, some)
         /\ Brackets(Len(out) + 1, some) \in Nat
         /\ (Brackets(Len(out) + 1, some))'
              = Brackets(Len(out) + 1, some) + (IF t.kind \in some THEN 1 ELSE 0)
<1>1. /\ Len(out) \in Nat /\ Len(out') = Len(out) + 1
      /\ \A i \in 1 .. Len(out) : out'[i] = out[i]
      /\ out'[Len(out) + 1] = t
  BY DEF Gives
<1> DEFINE Before(i) == {k \in 1 .. i - 1 : out[k].kind \in some}
           After(i) == {k \in 1 .. i - 1 : out'[k].kind \in some}
           n == Len(out) + 1
<1>2. \A i \in 1 .. n : After(i) = Before(i)
  BY <1>1
<1>3. IsFiniteSet(Before(n)) /\ Cardinality(Before(n)) \in Nat
  <2>1. IsFiniteSet(1 .. n - 1) /\ Before(n) \subseteq 1 .. n - 1
    BY <1>1, FS_Interval
  <2> QED BY <2>1, FS_Subset, FS_CardinalityType
<1>4. After(n + 1) = Before(n) \cup (IF t.kind \in some THEN {n} ELSE {})
  <2>1. 1 .. n + 1 - 1 = (1 .. n - 1) \cup {n}
    BY <1>1
  <2> QED BY <1>1, <2>1
<1>5. n \notin Before(n)
  BY <1>1
<1>6. Cardinality(After(n + 1)) = Cardinality(Before(n)) + (IF t.kind \in some THEN 1 ELSE 0)
  <2> HIDE DEF Before, After, n
  <2>1. CASE t.kind \in some
    BY <2>1, <1>3, <1>4, <1>5, FS_AddElement
  <2>2. CASE t.kind \notin some
    <3>1. After(n + 1) = Before(n)
      BY <2>2, <1>4
    <3> QED BY <2>2, <3>1, <1>3
  <2> QED BY <2>1, <2>2
<1>7. Len(out') + 1 = n + 1
  BY <1>1
<1>8. /\ \A i : Brackets(i, some) = Cardinality(Before(i))
      /\ \A i : Brackets(i, some)' = Cardinality(After(i))
      /\ (Brackets(Len(out) + 1, some))' = Cardinality(After(Len(out') + 1))
  BY DEF Brackets
<1> HIDE DEF Before, After
<1> QED BY <1>2, <1>3, <1>6, <1>7, <1>8

LEMMA UnclosedStep ==
  ASSUME NEW S, out \in Seq(S), NEW t, Gives(t)
  PROVE  /\ Unclosed \in Int /\ Unclosed' = Unclosed + Delta(t.kind)
         /\ \A i \in 1 .. Len(out) + 1 : Outside(i)' = Outside(i)
         /\ Outside(Len(out) + 1) <=> Unclosed = 0
<1>1. Opening \cap Closing = {}
  BY DEF Opening, Closing
<1>2. \A some \in {Opening, Closing} :
        /\ \A i \in 1 .. Len(out) + 1 : Brackets(i, some)' = Brackets(i, some)
        /\ Brackets(Len(out) + 1, some) \in Nat
        /\ (Brackets(Len(out) + 1, some))'
             = Brackets(Len(out) + 1, some) + (IF t.kind \in some THEN 1 ELSE 0)
  BY BracketsStep
<1> DEFINE a == Brackets(Len(out) + 1, Opening)
           b == Brackets(Len(out) + 1, Closing)
<1>3. /\ a \in Nat /\ a' = a + (IF t.kind \in Opening THEN 1 ELSE 0)
      /\ b \in Nat /\ b' = b + (IF t.kind \in Closing THEN 1 ELSE 0)
  BY <1>2
<1>4. Unclosed = a - b /\ Unclosed' = a' - b'
  BY DEF Unclosed
<1>5. Outside(Len(out) + 1) <=> a = b
  BY DEF Outside
<1>6. \A i \in 1 .. Len(out) + 1 : Outside(i)' = Outside(i)
  BY <1>2 DEF Outside
<1> HIDE DEF a, b
<1>7. Unclosed' = Unclosed + Delta(t.kind)
  BY <1>1, <1>3, <1>4 DEF Delta
<1> QED BY <1>3, <1>4, <1>5, <1>6, <1>7

\* The token starts a line.
LeadsAs(t) ==
  /\ t.kind \notin Layout /\ Unclosed = 0
  /\ \A k \in LineStart(t.start) .. t.start - 1 : text[k] \in Blanks

\* Fact: only a token a line starts with changes the lines that are open.
LEMMA LinesStep ==
  ASSUME IsText(text), text' = text, NEW S, out \in Seq(S), NEW t, Gives(t),
         \A i \in 1 .. Len(out) : out[i].start \in Places, t.start \in Places
  PROVE  /\ LeadsAs(t) => Lines' = Cut(t.start - LineStart(t.start))
         /\ ~ LeadsAs(t) => Lines' = Lines
<1>0. PICK n : n = Len(out) + 1
  OBVIOUS
<1>1. /\ Len(out) \in Nat /\ Len(out') = n
      /\ \A i \in 1 .. Len(out) : out'[i] = out[i]
      /\ out'[n] = t
      /\ 1 .. n = (1 .. Len(out)) \cup {n} /\ n \notin 1 .. Len(out)
  BY <1>0 DEF Gives
<1>2. /\ \A i \in 1 .. n : Outside(i)' = Outside(i)
      /\ Outside(n) <=> Unclosed = 0
  BY <1>0, UnclosedStep
<1>3. \A i \in 1 .. Len(out) : MarginOf(i)' = MarginOf(i) /\ Leads(i)' = Leads(i)
  <2> TAKE i \in 1 .. Len(out)
  <2>1. out'[i] = out[i] /\ Outside(i)' = Outside(i)
    BY <1>1, <1>2
  <2>2. MarginOf(i)' = MarginOf(i)
    BY <2>1 DEF MarginOf, LineStart
  <2>3. LineStart(out[i].start)' = LineStart(out[i].start)
    BY <2>1 DEF LineStart
  <2> QED BY <2>1, <2>2, <2>3 DEF Leads
<1> DEFINE m == t.start - LineStart(t.start)
           leads == /\ \A k \in LineStart(t.start) .. t.start - 1 : text[k] \in Blanks
                    /\ Unclosed = 0
<1>4. /\ MarginOf(n)' = m
      /\ Leads(n)' = leads
  <2>1. out'[n] = t /\ Outside(n)' = Outside(n)
    BY <1>1, <1>2
  <2>2. LineStart(out'[n].start) = LineStart(t.start) /\ LineStart(t.start)' = LineStart(t.start)
    BY <2>1 DEF LineStart
  <2>3. MarginOf(n)' = m
    BY <2>1 DEF MarginOf, LineStart
  <2>4. Leads(n)' = (/\ \A k \in LineStart(out[n].start)' .. out'[n].start - 1 : text'[k] \in Blanks
                     /\ Outside(n)')
    BY DEF Leads
  <2>5. LineStart(out[n].start)' = LineStart(t.start)
    BY <2>1 DEF LineStart
  <2> QED BY <1>2, <2>1, <2>3, <2>4, <2>5
<1>5. /\ Leading \subseteq 1 .. Len(out)
      /\ Leading' = Leading \cup (IF LeadsAs(t) THEN {n} ELSE {})
  <2>1. Contents' = Contents \cup (IF t.kind \notin Layout THEN {n} ELSE {})
    <3>1. Contents' = {i \in 1 .. Len(out') : out'[i].kind \notin Layout}
      BY DEF Contents, Layout
    <3> QED BY <1>1, <3>1 DEF Contents
  <2>2. Contents \subseteq 1 .. Len(out)
    BY DEF Contents
  <2>3. Leading' = {i \in Contents' : Leads(i)'}
    BY DEF Leading
  <2>4. Leading = {i \in Contents : Leads(i)}
    BY DEF Leading
  <2> HIDE DEF leads
  <2>5. LeadsAs(t) <=> leads /\ t.kind \notin Layout
    BY DEF LeadsAs, leads
  <2> QED BY <1>1, <1>3, <1>4, <2>1, <2>2, <2>3, <2>4, <2>5
<1>6. /\ \A i \in 1 .. Len(out) : MarginOf(i) \in Nat
      /\ m \in Nat
  <2>1. \A p \in Places : p - LineStart(p) \in Nat
    <3> TAKE p \in Places
    <3>1. LineStart(p) \in 1 .. p
      BY LineStartIs DEF StartsAt
    <3>2. p \in Nat
      BY DEF Places
    <3> QED BY <3>1, <3>2
  <2> QED BY <2>1 DEF MarginOf
<1> DEFINE M(i) == MarginOf(i)
           N(i) == MarginOf(i)'
<1>7. /\ Lines = {0} \cup {M(j) : j \in Kept}
      /\ Kept = {j \in Leading : \A k \in Leading : k >= j => M(k) >= M(j)}
      /\ Lines' = {0} \cup {N(j) : j \in Kept'}
      /\ Kept' = {j \in Leading' : \A k \in Leading' : k >= j => N(k) >= N(j)}
  BY DEF Lines, Kept
<1>8. /\ \A i \in 1 .. Len(out) : N(i) = M(i) /\ M(i) \in Nat
      /\ N(n) = m
  BY <1>3, <1>4, <1>6
<1> HIDE DEF M, N, m
<1>9. ASSUME ~ LeadsAs(t) PROVE Lines' = Lines
  <2>1. Leading' = Leading
    BY <1>5, <1>9
  <2>2. Kept' = Kept
    BY <1>5, <1>7, <1>8, <2>1
  <2> QED BY <1>5, <1>7, <1>8, <2>2
<1>10. ASSUME LeadsAs(t) PROVE Lines' = Cut(m)
  <2>1. Leading' = Leading \cup {n}
    BY <1>5, <1>10
  <2>2. Kept' = {j \in Kept : M(j) <= m} \cup {n}
    <3>1. \A j \in Leading : n >= j /\ ~ j >= n /\ N(j) = M(j) /\ M(j) \in Nat
      BY <1>1, <1>5, <1>8
    <3>2. n >= n /\ N(n) = m /\ m \in Nat /\ n \notin Leading
      BY <1>1, <1>5, <1>6, <1>8
    <3>3. ASSUME NEW j \in Leading PROVE j \in Kept' <=> j \in Kept /\ M(j) <= m
      <4>1. M(j) \in Nat /\ n >= j /\ N(j) = M(j)
        BY <3>1
      <4>2. m >= M(j) <=> M(j) <= m
        BY <3>2, <4>1
      <4>3. j \in Kept' <=> \A k \in Leading \cup {n} : k >= j => N(k) >= N(j)
        BY <1>7, <2>1
      <4>4. j \in Kept <=> \A k \in Leading : k >= j => M(k) >= M(j)
        BY <1>7
      <4> QED BY <3>1, <3>2, <4>1, <4>2, <4>3, <4>4
    <3>4. n \in Kept'
      BY <1>7, <2>1, <3>1, <3>2
    <3>5. Kept' \subseteq Leading \cup {n} /\ Kept \subseteq Leading
      BY <1>7, <2>1
    <3> QED BY <3>2, <3>3, <3>4, <3>5
  <2>3. \A j \in Kept : N(j) = M(j) /\ M(j) \in Nat
    BY <1>5, <1>7, <1>8
  <2>4. Lines' = {0} \cup {M(j) : j \in {j \in Kept : M(j) <= m}} \cup {m}
    BY <1>7, <1>8, <2>2, <2>3
  <2>5. Cut(m) = {x \in {0} \cup {M(j) : j \in Kept} : x <= m} \cup {m}
    BY <1>7 DEF Cut
  <2> QED BY <1>6, <2>3, <2>4, <2>5 DEF m
<1> QED BY <1>9, <1>10 DEF m

-----------------------------------------------------------------------------
(* Where a call of next() leaves the lexer.                                *)

LEMMA CharactersDiffer ==
  ASSUME IsText(text)
  PROVE  /\ Newline \notin Blanks /\ Eof \notin Blanks /\ Eof # Newline
         /\ text[Len(text)] = Eof /\ Len(text) \in Places
         /\ \A p \in Places : text[p] # Eof => p + 1 \in Places
<1>1. Newline \notin Blanks /\ Eof \notin Blanks /\ Eof # Newline
  BY DEF Newline, Blanks, Eof
<1>2. text[Len(text)] = Eof /\ Len(text) \in Places
  BY DEF IsText, Places
<1>3. \A p \in Places : text[p] # Eof => p + 1 \in Places
  BY <1>2 DEF Places, IsText
<1> QED BY <1>1, <1>2, <1>3

LEMMA SkipBlanks ==
  ASSUME IsText(text), NEW i \in Places, NEW chars, Eof \notin chars
  PROVE  /\ SkipSet(i, chars) \in i .. Len(text) /\ SkipSet(i, chars) \in Places
         /\ text[SkipSet(i, chars)] \notin chars
         /\ \A k \in i .. SkipSet(i, chars) - 1 : text[k] \in chars
         /\ text[i] \notin chars => SkipSet(i, chars) = i
<1> DEFINE S == {j \in Places : text[j] \in chars}
           e == Skip(i, S)
<1>1. Len(text) \notin S
  BY CharactersDiffer
<1>2. e \in i .. Len(text) /\ e \notin S /\ i .. e - 1 \subseteq S /\ e \in Places
  BY <1>1, SkipIs
<1>3. SkipSet(i, chars) = e
  BY DEF SkipSet
<1> HIDE DEF e
<1>4. text[i] \notin chars => e = i
  <2>1. ASSUME text[i] \notin chars, i # e PROVE FALSE
    <3>1. i \in i .. e - 1
      BY <1>2, <2>1 DEF Places
    <3> QED BY <1>2, <2>1, <3>1
  <2> QED BY <2>1
<1> QED BY <1>2, <1>3, <1>4

LEMMA GiveIs ==
  ASSUME IsText(text), NEW kind, NEW content, NEW start, NEW i \in Places, NEW nested,
         NEW nl \in BOOLEAN, Give(kind, content, start, i, nested, nl)
  PROVE  /\ text' = text /\ nestedParentesys' = nested
         /\ Gives(Token(kind, content, start))
         /\ at' \in i .. Len(text) /\ at' \in Places
         /\ \A k \in i .. at' - 1 : text[k] \in Blanks
         /\ newLine' \in BOOLEAN /\ (newLine' => nl /\ at' = i)
         /\ nl /\ nested = 0 => newLine' /\ at' = i
         /\ ~ nl => ~ newLine'
         /\ nested # 0 \/ ~ nl => text[at'] \notin Blanks
         /\ text[i] \notin Blanks => at' = i /\ newLine' = nl
<1>1. Eof \notin Blanks
  BY CharactersDiffer
<1> DEFINE e == SkipSet(i, Blanks)
<1>2. /\ e \in i .. Len(text) /\ e \in Places /\ text[e] \notin Blanks
      /\ \A k \in i .. e - 1 : text[k] \in Blanks
      /\ text[i] \notin Blanks => e = i
  BY <1>1, SkipBlanks
<1>3. at' = IF nl /\ nested = 0 THEN i ELSE e
  BY DEF Give
<1>4. newLine' = (nl /\ at' = i)
  BY DEF Give
<1>5. text' = text /\ nestedParentesys' = nested /\ Gives(Token(kind, content, start))
  BY DEF Give, Gives
<1> HIDE DEF e
<1>6. i \in i .. Len(text) /\ i .. i - 1 = {}
  BY DEF Places
<1> QED BY <1>2, <1>3, <1>4, <1>5, <1>6

LEMMA SpacesAre ==
  ASSUME IsText(text), at \in Places
  PROVE  /\ AfterSpaces \in at .. Len(text) /\ AfterSpaces \in Places
         /\ AfterSpaces \notin SpacePlaces
         /\ at .. AfterSpaces - 1 \subseteq SpacePlaces
<1>1. Len(text) \notin SpacePlaces
  BY CharactersDiffer DEF SpacePlaces
<1> QED BY <1>1, SkipIs DEF AfterSpaces

LEMMA TokenStartIs ==
  ASSUME IsText(text), at \in Places
  PROVE  /\ TokenStart \in at .. Len(text) /\ TokenStart \in Places
         /\ nestedParentesys = 0 => TokenStart = AfterSpaces
         /\ nestedParentesys # 0 => First \notin Blanks \cup {Newline}
<1>1. Eof \notin Blanks \cup {Newline}
  BY CharactersDiffer
<1>2. CASE nestedParentesys = 0
  BY <1>2, SpacesAre DEF TokenStart
<1>3. CASE nestedParentesys # 0
  BY <1>1, <1>3, SkipBlanks DEF TokenStart, First
<1> QED BY <1>2, <1>3

-----------------------------------------------------------------------------
(* The tokens read from the text.                                          *)

\* A token of this kind is read up to i.
Reads(kind, i, nested) ==
  /\ kind \in Kinds /\ i \in TokenStart + 1 .. Len(text)
  /\ nested = nestedParentesys + Delta(kind)
  /\ \/ kind \notin Layout /\ text[i - 1] \notin Blanks \cup {Newline}
     \/ /\ kind = "Comment"
        /\ text[i] # Newline /\ (text[i] = Eof \/ text[i - 1] = Newline)
     \/ /\ kind = "Newline" /\ First = Newline
        /\ text[i] # Newline /\ text[i - 1] = Newline
Fails(kind, i, nested) ==
  /\ kind = "Error" /\ i \in TokenStart .. Len(text)
  /\ nested \in {nestedParentesys, nestedParentesys + 1}
  /\ nested <= MaxNesting
Scan ==
  \E kind, content, i, nested :
    /\ GiveToken(kind, content, i, nested)
    /\ Reads(kind, i, nested) \/ Fails(kind, i, nested)

LEMMA PlainKinds ==
  /\ \A kind \in {"Comment", "Double", "Int64", "String", "Identifier"} :
       kind \in Kinds /\ kind \notin Layout /\ Delta(kind) = 0
  /\ \A pair \in TwoSymbols :
       /\ pair[3] \in Kinds /\ pair[3] \notin Layout /\ Delta(pair[3]) = 0
       /\ pair[1] # Eof /\ pair[2] \notin Blanks \cup {Newline, Eof}
  /\ \A c \in Symbols \ {Newline} : c \in Kinds /\ c \notin Layout
  /\ Symbols \cap (Blanks \cup {Eof}) = {} /\ Newline \in Symbols
  /\ \A kind \in Kinds \ Symbols : Delta(kind) = 0
  /\ Layout \cap Symbols = {} /\ Layout \subseteq Kinds
<1>1. \A kind \in {"Comment", "Double", "Int64", "String", "Identifier"} :
        kind \in Kinds /\ kind \notin Layout /\ Delta(kind) = 0
  BY DEF Kinds, Layout, Delta, Opening, Closing
<1>2. \A pair \in TwoSymbols :
        /\ pair[3] \in Kinds /\ pair[3] \notin Layout /\ Delta(pair[3]) = 0
        /\ pair[1] # Eof /\ pair[2] \notin Blanks \cup {Newline, Eof}
  <2>1. \A pair \in TwoSymbols : pair[3] \in Kinds
    BY DEF Kinds
  <2>2. \A pair \in TwoSymbols :
          /\ pair[3] \in {"<=", ">=", "==", "!=", "->", "::"}
          /\ pair[1] \in {"<", ">", "=", "!", "-", ":"}
          /\ pair[2] \in {"=", ">", ":"}
    BY DEF TwoSymbols
  <2>3. /\ \A kind \in {"<=", ">=", "==", "!=", "->", "::"} :
             kind \notin Layout /\ Delta(kind) = 0
        /\ Eof \notin {"<", ">", "=", "!", "-", ":"}
        /\ \A c \in {"=", ">", ":"} : c \notin Blanks \cup {Newline, Eof}
    BY DEF Layout, Delta, Opening, Closing, Eof, Blanks, Newline
  <2> QED BY <2>1, <2>2, <2>3
<1>3. \A c \in Symbols \ {Newline} : c \in Kinds /\ c \notin Layout
  BY DEF Kinds, Symbols, Newline, Layout
<1>4. Symbols \cap (Blanks \cup {Eof}) = {} /\ Newline \in Symbols
  BY DEF Symbols, Blanks, Eof, Newline
<1>5. \A kind \in Kinds \ Symbols : Delta(kind) = 0
  BY DEF Symbols, Delta, Opening, Closing
<1>6. Layout \cap Symbols = {} /\ Layout \subseteq Kinds
  BY DEF Kinds, Layout, Symbols, Newline
<1> QED BY <1>1, <1>2, <1>3, <1>4, <1>5, <1>6

LEMMA PlainScan ==
  ASSUME Typed, NEW kind \in Kinds, Delta(kind) = 0, NEW content,
         NEW i \in TokenStart + 1 .. Len(text),
         GiveToken(kind, content, i, nestedParentesys),
         \/ kind \notin Layout /\ text[i - 1] \notin Blanks \cup {Newline}
         \/ /\ kind = "Comment"
            /\ text[i] # Newline /\ (text[i] = Eof \/ text[i - 1] = Newline)
         \/ /\ kind = "Newline" /\ First = Newline
            /\ text[i] # Newline /\ text[i - 1] = Newline
  PROVE  Scan
<1>1. nestedParentesys = nestedParentesys + Delta(kind)
  BY DEF Typed
<1>2. Reads(kind, i, nestedParentesys)
  BY <1>1 DEF Reads
<1> QED BY <1>2, Zenon DEF Scan

LEMMA ScanComment == ASSUME Typed, Comment PROVE Scan
<1>0. IsText(text) /\ at \in Places /\ Len(text) \in Nat
  BY DEF Typed, IsText
<1>1. TokenStart \in Places
  BY <1>0, TokenStartIs
<1> DEFINE s == TokenStart
           S == {j \in Places : text[j] \notin {Newline, Eof}}
           i == SkipSet(LineEnd, {Newline})
<1>2. Len(text) \notin S
  BY <1>0, CharactersDiffer
<1>3. LineEnd \in s .. Len(text) /\ LineEnd \notin S /\ LineEnd \in Places
  BY <1>0, <1>1, <1>2, SkipIs DEF LineEnd
<1>4. text[LineEnd] \in {Newline, Eof}
  BY <1>3
<1>5. LineEnd # s
  BY <1>4 DEF Comment, First, Newline, Eof
<1>6. /\ i \in LineEnd .. Len(text) /\ i \in Places /\ text[i] # Newline
      /\ \A k \in LineEnd .. i - 1 : text[k] = Newline
  BY <1>0, <1>3, SkipBlanks, CharactersDiffer
<1>7. text[i] = Eof \/ text[i - 1] = Newline
  <2>1. CASE i = LineEnd
    BY <2>1, <1>4, <1>6
  <2>2. CASE i # LineEnd
    <3>1. i - 1 \in LineEnd .. i - 1
      BY <2>2, <1>3, <1>6 DEF Places
    <3> QED BY <3>1, <1>6
  <2> QED BY <2>1, <2>2
<1>8. i \in s + 1 .. Len(text)
  BY <1>1, <1>3, <1>5, <1>6 DEF Places
<1>9. PICK content : GiveToken("Comment", content, i, nestedParentesys)
  BY Zenon DEF Comment
<1> HIDE DEF i
<1> QED BY <1>6, <1>7, <1>8, <1>9, PlainKinds, PlainScan

LEMMA ScanNumber == ASSUME Typed, Number PROVE Scan
<1>0. IsText(text) /\ at \in Places /\ Len(text) \in Nat
  BY DEF Typed, IsText
<1>1. TokenStart \in Places
  BY <1>0, TokenStartIs
<1> DEFINE s == TokenStart
           whole == SkipSet(s, Digits)
           end == IF text[whole] = "." THEN SkipSet(whole + 1, Digits) ELSE whole
<1>2. Eof \notin Digits /\ Digits \cap (Blanks \cup {Newline}) = {}
  BY CharacterAssumption, PlainKinds
<1>3. text[s] \in Digits
  BY DEF Number, First
<1>4. /\ whole \in s .. Len(text) /\ whole \in Places /\ text[whole] \notin Digits
      /\ \A k \in s .. whole - 1 : text[k] \in Digits
  BY <1>0, <1>1, <1>2, SkipBlanks
<1>5. whole \in s + 1 .. Len(text) /\ text[whole - 1] \in Digits
  BY <1>1, <1>3, <1>4 DEF Places
<1>6. CASE text[whole] = "."
  <2> DEFINE e == SkipSet(whole + 1, Digits)
  <2>1. whole + 1 \in Places
    BY <1>0, <1>4, <1>6, CharactersDiffer DEF Eof
  <2>2. /\ e \in whole + 1 .. Len(text) /\ e \in Places
        /\ \A k \in whole + 1 .. e - 1 : text[k] \in Digits
    BY <1>0, <1>2, <2>1, SkipBlanks
  <2>3. text[e - 1] \notin Blanks \cup {Newline}
    <3>1. CASE e = whole + 1
      <4>1. e - 1 = whole
        BY <3>1, <1>4 DEF Places
      <4> HIDE DEF e, whole
      <4> QED BY <4>1, <1>6 DEF Blanks, Newline
    <3>2. CASE e # whole + 1
      <4>1. e - 1 \in whole + 1 .. e - 1
        BY <3>2, <1>4, <2>2 DEF Places
      <4> QED BY <4>1, <1>2, <2>2
    <3> QED BY <3>1, <3>2
  <2>4. e \in s + 1 .. Len(text)
    BY <1>1, <1>5, <2>2 DEF Places
  <2>5. PICK content : GiveToken("Double", content, e, nestedParentesys)
    BY <1>6 DEF Number
  <2> HIDE DEF e
  <2> QED BY <2>3, <2>4, <2>5, PlainKinds, PlainScan
<1>7. CASE text[whole] # "."
  <2>1. PICK content : GiveToken("Int64", content, whole, nestedParentesys)
    BY <1>7 DEF Number
  <2> HIDE DEF whole
  <2> QED BY <2>1, <1>2, <1>5, PlainKinds, PlainScan
<1> QED BY <1>6, <1>7

LEMMA ScanString == ASSUME Typed, String \/ Unterminated PROVE Scan
<1>0. IsText(text) /\ at \in Places /\ Len(text) \in Nat
  BY DEF Typed, IsText
<1>1. TokenStart \in Places
  BY <1>0, TokenStartIs
<1> DEFINE s == TokenStart
           S == {j \in Places : text[j] # Eof /\ (text[j] = "\"" => j \in Escaped)}
<1>2. Len(text) \notin S
  BY <1>0, CharactersDiffer
<1>3. text[s] = "\"" /\ s + 1 \in Places
  <2>1. text[s] = "\""
    BY DEF String, Unterminated, First
  <2> QED BY <2>1, <1>0, <1>1, CharactersDiffer DEF Eof
<1>4. LiteralEnd \in s + 1 .. Len(text) /\ LiteralEnd \in Places
  BY <1>0, <1>2, <1>3, SkipIs DEF LiteralEnd
<1>5. CASE String
  <2> DEFINE i == LiteralEnd + 1
  <2>1. text[LiteralEnd] \notin Blanks \cup {Newline, Eof}
    BY <1>5 DEF String, Eof, Blanks, Newline
  <2>2. i \in Places
    BY <1>0, <1>4, <2>1, CharactersDiffer
  <2>3. i \in s + 1 .. Len(text) /\ i - 1 = LiteralEnd
    BY <1>0, <1>1, <1>4, <2>2 DEF Places
  <2>4. GiveToken("String", LiteralText, i, nestedParentesys)
    BY <1>5 DEF String
  <2> HIDE DEF i
  <2> QED BY <2>1, <2>3, <2>4, PlainKinds, PlainScan
<1>6. CASE Unterminated
  <2> DEFINE n == nestedParentesys + (IF LiteralEnd = TokenStart + 1 THEN 0 ELSE 1)
  <2>1. GiveToken("Error", << >>, LiteralEnd, n)
    BY <1>6, Zenon DEF Unterminated
  <2>2. nestedParentesys # MaxNesting /\ MaxNesting \in Nat
    BY <1>6, CharacterAssumption DEF Unterminated, ReadsToken, InText, MayGoOn
  <2>3. n \in {nestedParentesys, nestedParentesys + 1} /\ n <= MaxNesting
    BY <2>2 DEF Typed
  <2>4. LiteralEnd \in s .. Len(text)
    BY <1>1, <1>4 DEF Places
  <2>5. Fails("Error", LiteralEnd, n)
    BY <2>3, <2>4 DEF Fails
  <2> HIDE DEF n
  <2> QED BY <2>1, <2>5, Zenon DEF Scan
<1> QED BY <1>5, <1>6

LEMMA ScanLineBreak == ASSUME Typed, LineBreak PROVE Scan
<1>0. IsText(text) /\ at \in Places /\ Len(text) \in Nat
  BY DEF Typed, IsText
<1>1. TokenStart \in Places
  BY <1>0, TokenStartIs
<1> DEFINE s == TokenStart
           i == SkipSet(s, {Newline})
<1>2. text[s] = Newline
  BY DEF LineBreak, First
<1>3. /\ i \in s .. Len(text) /\ i \in Places /\ text[i] # Newline
      /\ \A k \in s .. i - 1 : text[k] = Newline
  BY <1>0, <1>1, SkipBlanks, CharactersDiffer
<1>4. i \in s + 1 .. Len(text) /\ i - 1 \in s .. i - 1
  BY <1>1, <1>2, <1>3 DEF Places
<1>5. GiveToken("Newline", << >>, i, nestedParentesys)
  BY DEF LineBreak
<1>6. "Newline" \in Kinds /\ Delta("Newline") = 0
  BY DEF Kinds, Layout, Delta, Opening, Closing
<1> HIDE DEF i
<1> QED BY <1>2, <1>3, <1>4, <1>5, <1>6, PlainScan DEF First

LEMMA ScanSymbol == ASSUME Typed, TwoSymbol \/ OneSymbol PROVE Scan
<1>0. IsText(text) /\ at \in Places /\ Len(text) \in Nat
  BY DEF Typed, IsText
<1>1. TokenStart \in Places
  BY <1>0, TokenStartIs
<1> DEFINE s == TokenStart
<1>2. CASE TwoSymbol
  <2>1. PICK pair \in TwoSymbols :
          Starts(pair) /\ GiveToken(pair[3], << >>, s + 2, nestedParentesys)
    BY <1>2, Zenon DEF TwoSymbol
  <2>2. pair[1] # Eof /\ pair[2] \notin Blanks \cup {Newline, Eof}
    BY PlainKinds
  <2>3. s + 1 \in Places /\ text[s + 1] = pair[2]
    BY <1>0, <1>1, <2>1, <2>2, CharactersDiffer DEF Starts, First
  <2>4. s + 1 + 1 \in Places
    BY <1>0, <2>2, <2>3, CharactersDiffer
  <2> DEFINE i == s + 2
  <2>5. i \in s + 1 .. Len(text) /\ i - 1 = s + 1
    BY <1>0, <1>1, <2>4 DEF Places
  <2>6. GiveToken(pair[3], << >>, i, nestedParentesys) /\ text[i - 1] = pair[2]
    BY <2>1, <2>3, <2>5
  <2> HIDE DEF i
  <2> QED BY <2>2, <2>5, <2>6, PlainKinds, PlainScan
<1>3. CASE OneSymbol
  <2> DEFINE i == s + 1
  <2>1. First \in Symbols \ {Newline} /\ GiveToken(First, << >>, i, Nesting(First))
    BY <1>3 DEF OneSymbol
  <2>2. First \notin Blanks \cup {Newline, Eof} /\ First \in Kinds /\ First \notin Layout
    BY <2>1, PlainKinds
  <2>3. i \in Places
    BY <1>0, <1>1, <2>2, CharactersDiffer DEF First
  <2>4. i \in s + 1 .. Len(text) /\ text[i - 1] = First
    BY <1>0, <1>1, <2>3 DEF Places, First
  <2>5. Nesting(First) = nestedParentesys + Delta(First)
    BY DEF Nesting, Delta
  <2> HIDE DEF i
  <2>6. Reads(First, i, Nesting(First))
    BY <2>2, <2>4, <2>5 DEF Reads
  <2> QED BY <2>1, <2>6, Zenon DEF Scan
<1> QED BY <1>2, <1>3

LEMMA ScanWord == ASSUME Typed, Ident \/ Unknown PROVE Scan
<1>0. IsText(text) /\ at \in Places /\ Len(text) \in Nat
  BY DEF Typed, IsText
<1>1. TokenStart \in Places /\ First = text[TokenStart]
  BY <1>0, TokenStartIs DEF First
<1> DEFINE s == TokenStart
           S == {j \in Places : text[j] \notin Blanks \cup Symbols \cup {Eof}}
           end == Skip(s, S)
<1>2. CASE Ident
  <2>1. text[s] \in Letters
    BY <1>1, <1>2 DEF Ident
  <2>2. text[s] \notin Blanks \cup Symbols \cup {Eof} /\ Letters \cap Symbols = {}
    BY <2>1, CharacterAssumption
  <2>3. Len(text) \notin S
    BY <1>0, CharactersDiffer
  <2>4. end \in s .. Len(text) /\ end \notin S /\ s .. end - 1 \subseteq S
    BY <1>0, <1>1, <2>3, SkipIs
  <2>5. end # s
    BY <1>1, <2>2, <2>4
  <2>6. end \in s + 1 .. Len(text) /\ end - 1 \in s .. end - 1
    BY <1>1, <2>4, <2>5 DEF Places
  <2>7. text[end - 1] \notin Blanks \cup {Newline}
    BY <2>4, <2>6, PlainKinds
  <2>8. \/ First \in Keywords /\ GiveToken(First, << >>, end, nestedParentesys)
        \/ GiveToken("Identifier", SubSeq(text, s, end - 1), end, nestedParentesys)
    BY <1>2 DEF Ident
  <2>9. ASSUME First \in Keywords
        PROVE  First \in Kinds /\ First \notin Layout /\ Delta(First) = 0
    <3>1. First \notin Layout
      BY <2>9, CharacterAssumption DEF Layout
    <3>2. First \in Kinds
      BY <2>9 DEF Kinds
    <3> QED BY <1>1, <2>1, <2>2, <3>1, <3>2, PlainKinds
  <2> HIDE DEF end
  <2> QED BY <2>6, <2>7, <2>8, <2>9, PlainKinds, PlainScan
<1>3. CASE Unknown
  <2>1. GiveToken("Error", << >>, s, nestedParentesys)
    BY <1>3 DEF Unknown
  <2>2. s \in s .. Len(text)
    BY <1>1 DEF Places
  <2>3. Fails("Error", s, nestedParentesys)
    BY <2>2 DEF Fails, Typed
  <2> QED BY <2>1, <2>3, Zenon DEF Scan
<1> QED BY <1>2, <1>3

-----------------------------------------------------------------------------
(* The values the variables take.                                          *)

LEMMA NextIs ==
  ASSUME Typed, NextToken
  PROVE  \/ TooNested
         \/ ExtraNewline \/ CloseAtEnd \/ PendingAtEnd \/ End
         \/ Indent \/ MisalignedLine \/ Deindent \/ PendingDeindent
         \/ ReadsToken /\ Scan
<1>1. ASSUME \/ Comment \/ Number \/ String \/ Unterminated
             \/ LineBreak \/ TwoSymbol \/ OneSymbol \/ Ident \/ Unknown
      PROVE  ReadsToken /\ Scan
  <2>1. Scan
    BY <1>1, ScanComment, ScanNumber, ScanString, ScanLineBreak, ScanSymbol, ScanWord
  <2>2. ReadsToken
    BY <1>1 DEF Comment, Number, String, Unterminated, LineBreak, TwoSymbol, OneSymbol,
                Ident, Unknown
  <2> QED BY <2>1, <2>2
<1> QED BY <1>1 DEF NextToken

LEMMA StackShorter ==
  ASSUME NEW s, Stacked(s), NEW i \in 1 .. Len(s)
  PROVE  /\ Stacked(SubSeq(s, 1, i)) /\ Len(SubSeq(s, 1, i)) = i
         /\ \A j \in 1 .. i : SubSeq(s, 1, i)[j] = s[j]
<1>1. Len(s) \in Nat /\ s \in Seq(Nat)
  BY DEF Stacked
<1> DEFINE u == SubSeq(s, 1, i)
<1>2. u \in Seq(Nat) /\ Len(u) = i /\ \A j \in 1 .. i : u[j] = s[j]
  BY <1>1
<1>3. i >= 1
  BY <1>1
<1> HIDE DEF u
<1>4. u # << >> /\ u[1] = 0
  BY <1>1, <1>2, <1>3 DEF Stacked
<1>5. ASSUME NEW j \in 1 .. Len(u), NEW k \in 1 .. Len(u), j < k PROVE u[j] < u[k]
  <2>1. j \in 1 .. Len(s) /\ k \in 1 .. Len(s)
    BY <1>1, <1>2
  <2>2. s[j] < s[k]
    BY <1>5, <2>1 DEF Stacked
  <2> QED BY <1>2, <2>2
<1> QED BY <1>2, <1>4, <1>5 DEF Stacked, u

LEMMA StackLonger ==
  ASSUME NEW s, Stacked(s), NEW m \in Nat, m > s[Len(s)]
  PROVE  /\ Stacked(Append(s, m)) /\ Len(Append(s, m)) = Len(s) + 1
         /\ \A i \in 1 .. Len(s) : Append(s, m)[i] = s[i]
         /\ Append(s, m)[Len(s) + 1] = m
<1>1. Len(s) \in Nat \ {0} /\ s \in Seq(Nat)
  BY DEF Stacked
<1> DEFINE u == Append(s, m)
<1>2. /\ u \in Seq(Nat) /\ Len(u) = Len(s) + 1 /\ u[Len(s) + 1] = m
      /\ \A i \in 1 .. Len(s) : u[i] = s[i]
  BY <1>1
<1> HIDE DEF u
<1>3. u # << >> /\ u[1] = 0
  BY <1>1, <1>2 DEF Stacked
<1>4. \A i \in 1 .. Len(s) : s[i] <= s[Len(s)] /\ s[i] \in Nat
  BY <1>1 DEF Stacked
<1>5. ASSUME NEW i \in 1 .. Len(u), NEW j \in 1 .. Len(u), i < j
      PROVE  u[i] < u[j]
  <2>1. i \in 1 .. Len(s)
    BY <1>1, <1>2, <1>5
  <2>2. CASE j \in 1 .. Len(s)
    BY <1>2, <1>5, <2>1, <2>2 DEF Stacked
  <2>3. CASE j = Len(s) + 1
    BY <1>1, <1>2, <1>4, <2>1, <2>3
  <2> QED BY <1>1, <1>2, <2>2, <2>3
<1> QED BY <1>2, <1>3, <1>5 DEF Stacked, u

\* Fact: what a call gives and where it stops are within the text.
LEMMA TypedToken ==
  ASSUME Typed, NEW kind \in Kinds, NEW content, NEW start \in Places,
         NEW i \in Places, at <= i, NEW nested \in Int, NEW nl \in BOOLEAN,
         Give(kind, content, start, i, nested, nl),
         nl => AtLineStart(i), nested <= MaxNesting, nested >= 1 - i,
         Stacked(indentStack'), deindentToEmit' \in Nat, emittedExtraNewLine' \in BOOLEAN
  PROVE  Typed'
<1>1. IsText(text)
  BY DEF Typed
<1>2. /\ text' = text /\ nestedParentesys' = nested
      /\ Gives(Token(kind, content, start))
      /\ at' \in i .. Len(text) /\ at' \in Places
      /\ newLine' \in BOOLEAN /\ (newLine' => nl /\ at' = i)
  BY <1>1, GiveIs
<1>3. IsText(text') /\ at' \in Places'
  BY <1>1, <1>2 DEF Places
<1>4. newLine' => AtLineStart(at)'
  BY <1>2 DEF AtLineStart
<1>5. nested >= 1 - at'
  <2>1. at' \in Int /\ i \in Int /\ i <= at'
    BY <1>1, <1>2 DEF Places, IsText
  <2>2. \A a, b, c \in Int : a >= 1 - b /\ b <= c => a >= 1 - c
    OBVIOUS
  <2> QED BY <2>1, <2>2
<1>6. /\ \E S : out' \in Seq(S)
      /\ \A k \in 1 .. Len(out') : out'[k].kind \in Kinds /\ out'[k].start \in Places
  <2>1. PICK S : out \in Seq(S)
    BY DEF Typed
  <2> DEFINE t == Token(kind, content, start)
  <2>2. t.kind \in Kinds /\ t.start \in Places
    BY DEF Token
  <2>3. out' = Append(out, t)
    BY <1>2 DEF Gives
  <2> HIDE DEF t
  <2>4. /\ out' \in Seq(S \cup {t}) /\ Len(out') = Len(out) + 1 /\ Len(out) \in Nat
        /\ out'[Len(out) + 1] = t
        /\ \A k \in 1 .. Len(out) : out'[k] = out[k]
    BY <2>1, <2>3
  <2>5. \A k \in 1 .. Len(out') : k \in 1 .. Len(out) \/ k = Len(out) + 1
    BY <2>4
  <2> QED BY <2>2, <2>4, <2>5 DEF Typed
<1>7. Places' = Places
  BY <1>2 DEF Places
<1> QED BY <1>2, <1>3, <1>4, <1>5, <1>6, <1>7 DEF Typed

LEMMA MarginAtLine ==
  ASSUME Typed, newLine
  PROVE  /\ Margin = AfterSpaces - LineStart(AfterSpaces)
         /\ LineStart(AfterSpaces) \in at .. AfterSpaces
         /\ Margin \in Nat
<1>1. IsText(text) /\ at \in Places /\ AtLineStart(at)
  BY DEF Typed
<1>2. AfterSpaces \in Places /\ AfterSpaces \in at .. Len(text)
  BY <1>1, SpacesAre
<1>3. at <= AfterSpaces
  BY <1>2
<1>4. /\ Margin = AfterSpaces - LineStart(AfterSpaces)
      /\ LineStart(AfterSpaces) \in at .. AfterSpaces
  BY <1>1, <1>2, <1>3, MarginIs
<1> QED BY <1>1, <1>2, <1>4 DEF Places

LEMMA TypedInit == ASSUME NEW t \in Texts, LexerInit(t) PROVE Typed
<1>1. /\ text = t /\ at = 1 /\ newLine = TRUE /\ indentStack = <<0>>
      /\ nestedParentesys = 0 /\ deindentToEmit = 0
      /\ emittedExtraNewLine = FALSE /\ out = << >>
  BY DEF LexerInit
<1>2. IsText(text) /\ at \in Places
  BY <1>1, TextAssumption DEF IsText, Places
<1>3. Stacked(<<0>>)
  BY DEF Stacked
<1>4. Len(out) = 0 /\ out \in Seq(Nat)
  BY <1>1
<1>5. AtLineStart(at) /\ Stacked(indentStack)
  BY <1>1, <1>3 DEF AtLineStart
<1>6. /\ nestedParentesys \in Int /\ nestedParentesys <= MaxNesting
      /\ nestedParentesys >= 1 - at
  BY <1>1, CharacterAssumption
<1>7. \A i \in 1 .. Len(out) : out[i].kind \in Kinds /\ out[i].start \in Places
  BY <1>4
<1>8. /\ newLine \in BOOLEAN /\ deindentToEmit \in Nat /\ emittedExtraNewLine \in BOOLEAN
  BY <1>1
<1> QED BY <1>2, <1>4, <1>5, <1>6, <1>7, <1>8 DEF Typed

LEMMA TypedStep == ASSUME Typed, NextToken PROVE Typed'
<1>0. /\ IsText(text) /\ at \in Places /\ Len(text) \in Nat /\ at \in Nat
      /\ Stacked(indentStack) /\ deindentToEmit \in Nat /\ emittedExtraNewLine \in BOOLEAN
      /\ nestedParentesys \in Int /\ nestedParentesys <= MaxNesting
      /\ nestedParentesys >= 1 - at
      /\ newLine \in BOOLEAN /\ (newLine => AtLineStart(at))
  BY DEF Typed, IsText, Places
<1>1. /\ AfterSpaces \in Places /\ at <= AfterSpaces /\ nestedParentesys >= 1 - AfterSpaces
      /\ TokenStart \in Places /\ at <= TokenStart
  BY <1>0, SpacesAre, TokenStartIs DEF Places
<1>2. Layout \subseteq Kinds /\ Layout = {"Newline", "Indent", "Deindent", "End", "Error"}
  BY PlainKinds DEF Layout
<1>3. Len(indentStack) \in Nat \ {0} /\ indentStack \in Seq(Nat)
  BY <1>0 DEF Stacked
<1>4. CASE TooNested
  <2>1. PICK S : out \in Seq(S)
    BY DEF Typed
  <2> DEFINE t == Token("Error", << >>, at)
  <2>2. /\ UNCHANGED <<text, at, newLine, nestedParentesys, indentStack,
                       deindentToEmit, emittedExtraNewLine>>
        /\ out' = Append(out, t)
    BY <1>4 DEF TooNested, SameBlocks
  <2>3. t.kind \in Kinds /\ t.start \in Places
    BY <1>0, <1>2 DEF Token
  <2> HIDE DEF t
  <2>4. /\ out' \in Seq(S \cup {t}) /\ Len(out') = Len(out) + 1 /\ Len(out) \in Nat
        /\ out'[Len(out) + 1] = t
        /\ \A k \in 1 .. Len(out) : out'[k] = out[k]
    BY <2>1, <2>2
  <2>5. \A k \in 1 .. Len(out') : k \in 1 .. Len(out) \/ k = Len(out) + 1
    BY <2>4
  <2>6. \A k \in 1 .. Len(out') : out'[k].kind \in Kinds /\ out'[k].start \in Places
    BY <2>3, <2>4, <2>5 DEF Typed
  <2> QED BY <2>2, <2>4, <2>6 DEF Typed, Places, AtLineStart
<1>5. ASSUME NEW kind \in Layout, GiveAtEnd(kind), Stacked(indentStack'),
             deindentToEmit' \in Nat, emittedExtraNewLine' \in BOOLEAN
      PROVE  Typed'
  <2>1. at <= at
    BY <1>0
  <2> QED BY <1>0, <1>2, <1>5, <2>1, TypedToken DEF GiveAtEnd
<1>6. CASE ExtraNewline
  BY <1>0, <1>2, <1>5, <1>6 DEF ExtraNewline, NewlineGiven
<1>7. CASE CloseAtEnd
  <2>1. Len(indentStack) - 1 \in 1 .. Len(indentStack)
    BY <1>3, <1>7 DEF CloseAtEnd
  <2>2. Stacked(indentStack')
    BY <1>0, <1>7, <2>1, StackShorter DEF CloseAtEnd
  <2> QED BY <1>0, <1>2, <1>5, <1>7, <2>2 DEF CloseAtEnd
<1>8. CASE PendingAtEnd
  <2>1. deindentToEmit' \in Nat
    BY <1>0, <1>8 DEF PendingAtEnd
  <2> QED BY <1>0, <1>2, <1>5, <1>8, <2>1 DEF PendingAtEnd
<1>9. CASE End
  BY <1>0, <1>2, <1>5, <1>9 DEF End, SameBlocks
<1>10. ASSUME NEW kind \in Layout, GiveAfterSpaces(kind), Stacked(indentStack'),
              deindentToEmit' \in Nat, emittedExtraNewLine' \in BOOLEAN
       PROVE  Typed'
  <2> DEFINE A == AfterSpaces
             nl == IF A = at THEN newLine ELSE EndsLine(A)
  <2>1. nl \in BOOLEAN /\ (nl => AtLineStart(A))
    BY <1>0 DEF EndsLine, AtLineStart
  <2>2. Give(kind, << >>, A, A, nestedParentesys, nl)
    BY <1>10 DEF GiveAfterSpaces
  <2> HIDE DEF A, nl
  <2>3. A \in Places /\ at <= A /\ nestedParentesys >= 1 - A
    BY <1>1 DEF A
  <2> QED BY <1>0, <1>2, <1>10, <2>1, <2>2, <2>3, TypedToken
<1>11. CASE Indent
  <2>1. Margin \in Nat /\ Margin > Top
    BY <1>11, MarginAtLine DEF Indent, OpensBlock, AtMargin
  <2>2. Stacked(indentStack')
    BY <1>0, <1>11, <2>1, StackLonger DEF Indent, Top
  <2> QED BY <1>0, <1>2, <1>10, <1>11, <2>2 DEF Indent
<1>12. CASE MisalignedLine
  BY <1>0, <1>2, <1>10, <1>12 DEF MisalignedLine, SameBlocks
<1>13. CASE Deindent
  <2>1. PICK i \in 1 .. Len(indentStack) - 1 :
          /\ indentStack' = SubSeq(indentStack, 1, i)
          /\ deindentToEmit' = deindentToEmit + StillToCome(Len(indentStack) - i)
    BY <1>13 DEF Deindent
  <2>2. i \in 1 .. Len(indentStack) /\ deindentToEmit' \in Nat
    BY <1>0, <1>3, <2>1 DEF StillToCome
  <2>3. Stacked(indentStack')
    BY <1>0, <2>1, <2>2, StackShorter
  <2> QED BY <1>0, <1>2, <1>10, <1>13, <2>2, <2>3 DEF Deindent
<1>14. CASE PendingDeindent
  <2>1. deindentToEmit' \in Nat
    BY <1>0, <1>14 DEF PendingDeindent
  <2> QED BY <1>0, <1>2, <1>10, <1>14, <2>1 DEF PendingDeindent
<1>15. CASE ReadsToken /\ Scan
  <2>1. PICK kind, content, i, nested :
          GiveToken(kind, content, i, nested) /\ (Reads(kind, i, nested) \/ Fails(kind, i, nested))
    BY <1>15, Zenon DEF Scan
  <2>2. nestedParentesys # MaxNesting /\ MaxNesting \in Nat
    BY <1>15, CharacterAssumption DEF ReadsToken, InText, MayGoOn
  <2>3. Delta(kind) \in {-1, 0, 1}
    BY DEF Delta
  <2>4. /\ kind \in Kinds /\ i \in Places /\ at <= i
        /\ nested \in Int /\ nested <= MaxNesting /\ nested >= 1 - i
    <3>1. CASE Reads(kind, i, nested)
      <4>1. i \in TokenStart + 1 .. Len(text) /\ nested = nestedParentesys + Delta(kind)
        BY <3>1 DEF Reads
      <4> HIDE DEF Delta
      <4>2. i \in Places /\ at + 1 <= i
        BY <1>0, <1>1, <4>1 DEF Places
      <4>3. nested \in Int /\ nested <= MaxNesting /\ nested >= nestedParentesys - 1
        BY <1>0, <2>2, <2>3, <4>1
      <4> QED BY <1>0, <3>1, <4>2, <4>3 DEF Reads, Places
    <3>2. CASE Fails(kind, i, nested)
      <4>1. i \in TokenStart .. Len(text) /\ nested \in {nestedParentesys, nestedParentesys + 1}
        BY <3>2 DEF Fails
      <4> QED BY <1>0, <1>1, <1>2, <3>2, <4>1 DEF Fails, Places
    <3> QED BY <2>1, <3>1, <3>2
  <2>5. /\ Give(kind, content, TokenStart, i, nested, EndsLine(i))
        /\ UNCHANGED <<indentStack, deindentToEmit, emittedExtraNewLine>>
    BY <2>1 DEF GiveToken, SameBlocks
  <2>6. EndsLine(i) \in BOOLEAN /\ (EndsLine(i) => AtLineStart(i))
    BY DEF EndsLine, AtLineStart
  <2> QED BY <1>0, <1>1, <2>4, <2>5, <2>6, TypedToken
<1> QED BY <1>4, <1>6, <1>7, <1>8, <1>9, <1>11, <1>12, <1>13, <1>14, <1>15, NextIs

\* The lexer stays within its text, and the margins on its stack increase.
THEOREM LexerTypeCorrect == LexerSpec => []TypeOK
<1>1. (\E t \in Texts : LexerInit(t)) => Typed
  BY TypedInit
<1>2. Typed /\ [NextToken]_lexer => Typed'
  <2>1. ASSUME Typed, UNCHANGED lexer PROVE Typed'
    BY <2>1 DEF Typed, lexer, Places, AtLineStart
  <2> QED BY TypedStep, <2>1
<1>3. Typed => TypeOK
  <2> SUFFICES ASSUME Typed PROVE TypeOK
    OBVIOUS
  <2>1. /\ indentStack \in Seq(Nat) /\ indentStack # << >> /\ indentStack[1] = 0
        /\ \A i \in 2 .. Len(indentStack) : indentStack[i - 1] < indentStack[i]
    BY DEF Typed, Stacked
  <2>2. nestedParentesys \in -Len(text) .. MaxNesting
    BY CharacterAssumption DEF Typed, Places, IsText
  <2> QED BY <2>1, <2>2 DEF Typed, TypeOK
<1> QED BY <1>1, <1>2, <1>3, PTL DEF LexerSpec

-----------------------------------------------------------------------------
(* The layout.                                                             *)

\* Fact: every margin on the stack counts for one.
LEMMA MarginsCount ==
  ASSUME Stacked(indentStack)
  PROVE  Cardinality(Margins) = Len(indentStack)
<1> DEFINE n == Len(indentStack)
           f == [i \in 1 .. n |-> indentStack[i]]
<1>1. n \in Nat /\ \A i \in 1 .. n : indentStack[i] \in Nat
  BY DEF Stacked
<1>2. \A i, j \in 1 .. n : i < j => indentStack[i] < indentStack[j]
  BY DEF Stacked
<1>3. ASSUME NEW i \in 1 .. n, NEW j \in 1 .. n, indentStack[i] = indentStack[j] PROVE i = j
  <2>1. ~ i < j /\ ~ j < i
    BY <1>1, <1>2, <1>3
  <2> QED BY <1>1, <2>1
<1>4. f \in [1 .. n -> Margins]
  BY DEF Margins
<1>5. f \in Injection(1 .. n, Margins)
  BY <1>3, <1>4 DEF Injection, IsInjective
<1>6. f \in Surjection(1 .. n, Margins)
  BY <1>4 DEF Surjection, Margins
<1>7. ExistsBijection(1 .. n, Margins)
  BY <1>5, <1>6 DEF ExistsBijection, Bijection
<1> QED BY <1>1, <1>7, FS_CountingElements

\* Fact: the last margin is the deepest.
LEMMA TopIs ==
  ASSUME Stacked(indentStack)
  PROVE  /\ Len(indentStack) \in Nat \ {0} /\ Top \in Nat /\ Top \in Margins
         /\ Margins \subseteq Nat /\ \A x \in Margins : x <= Top
         /\ \A i \in 1 .. Len(indentStack) - 1 : indentStack[i] < Top
<1> DEFINE n == Len(indentStack)
<1>1. n \in Nat \ {0} /\ n \in 1 .. n /\ \A i \in 1 .. n : indentStack[i] \in Nat
  BY DEF Stacked
<1>2. Top = indentStack[n]
  BY DEF Top
<1>3. \A i \in 1 .. n - 1 : indentStack[i] < Top
  BY <1>1, <1>2 DEF Stacked
<1>4. \A i \in 1 .. n : indentStack[i] <= Top
  <2> TAKE i \in 1 .. n
  <2>1. i \in 1 .. n - 1 \/ i = n
    BY <1>1
  <2> QED BY <1>1, <1>2, <1>3, <2>1
<1> QED BY <1>1, <1>2, <1>3, <1>4 DEF Margins

LEMMA SpacesOfLine ==
  ASSUME Typed, newLine
  PROVE  /\ text[AfterSpaces] \notin Blanks
         /\ \A k \in LineStart(AfterSpaces) .. AfterSpaces - 1 : text[k] \in Blanks
         /\ Margin # 0 \/ (AfterSpaces # at /\ ~ MisreadLine) => text[AfterSpaces] # Newline
<1> DEFINE A == AfterSpaces
           L == LineStart(A)
<1>1. IsText(text) /\ Len(text) \in Nat /\ at \in Places /\ AtLineStart(at)
  BY DEF Typed, IsText
<1>2. /\ A \in at .. Len(text) /\ A \in Places /\ A \notin SpacePlaces
      /\ at .. A - 1 \subseteq SpacePlaces
  BY <1>1, SpacesAre
<1>3. Margin = A - L /\ L \in at .. A
  BY MarginAtLine
<1>4. StartsAt(L, A)
  BY <1>1, <1>2, LineStartIs
<1>5. text[A] \notin Blanks
  BY <1>2 DEF SpacePlaces
<1>6. \A k \in L .. A - 1 : text[k] \in Blanks
  <2> TAKE k \in L .. A - 1
  <2>1. k \in at .. A - 1
    BY <1>1, <1>2, <1>3 DEF Places
  <2> QED BY <1>2, <1>4, <2>1 DEF StartsAt, SpacePlaces
<1>7. ASSUME text[A] = Newline PROVE Margin = 0
  <2>1. ASSUME L # A PROVE FALSE
    <3>1. A - 1 \in L .. A - 1 /\ A > at
      BY <1>1, <1>2, <1>3, <2>1 DEF Places
    <3>2. text[A - 1] \in Blanks
      BY <1>6, <3>1
    <3> QED BY <1>2, <1>7, <3>1, <3>2 DEF SpacePlaces
  <2> QED BY <1>2, <1>3, <2>1 DEF Places
<1>8. ASSUME text[A] = Newline, A # at PROVE MisreadLine
  <2> DEFINE i == A - 2
  <2>1. A \in Nat /\ at \in Nat /\ at >= 1 /\ A > at
    BY <1>1, <1>2, <1>8 DEF Places
  <2>2. A = L
    BY <1>1, <1>2, <1>3, <1>7, <1>8 DEF Places
  <2>3. text[A - 1] = Newline
    BY <1>4, <2>1, <2>2 DEF StartsAt, AtLineStart
  <2>4. A - 1 \in SpacePlaces /\ text[A - 1] \notin Blanks
    BY <1>1, <1>2, <2>1, <2>3, CharactersDiffer
  <2>5. A - 1 > at /\ text[A - 1 - 1] \in Blanks
    BY <2>4 DEF SpacePlaces
  <2>6. A # Len(text)
    BY <1>1, <1>8, CharactersDiffer
  <2>7. /\ i \in Places /\ i \in 1 .. Len(text) - 2 /\ at <= i
        /\ i + 1 = A - 1 /\ i + 2 = A /\ i = A - 1 - 1
    BY <1>1, <1>2, <2>1, <2>5, <2>6 DEF Places
  <2>8. text[i] \in Blanks /\ text[i + 1] = Newline /\ text[i + 2] = Newline
    BY <1>8, <2>3, <2>5, <2>7
  <2>9. StartsAt(LineStart(i), i) /\ LineStart(i) \in at .. i
    BY <1>1, <2>7, LineStartIs, LineStartAfter
  <2>10. ASSUME NEW k \in LineStart(i) .. i PROVE text[k] \in Blanks
    <3>1. k \in at .. A - 1 /\ (k = i \/ k \in LineStart(i) .. i - 1)
      BY <2>1, <2>7, <2>9
    <3>2. k = i \/ text[k] # Newline
      BY <2>9, <3>1 DEF StartsAt
    <3> QED BY <1>2, <2>8, <3>1, <3>2 DEF SpacePlaces
  <2> HIDE DEF i
  <2> QED BY <2>7, <2>8, <2>10 DEF MisreadLine
<1> QED BY <1>5, <1>6, <1>7, <1>8

\* Fact: what is counted after a token is given.
LEMMA AfterToken ==
  ASSUME Typed, NEW t, Gives(t), text' = text, t.start \in Places
  PROVE  /\ Finished' <=> t.kind \in {"End", "Error"}
         /\ LastIsContent' <=> t.kind \notin Layout
         /\ MisreadLine' <=> MisreadLine
         /\ Unclosed \in Int /\ Unclosed' = Unclosed + Delta(t.kind)
         /\ LeadsAs(t) => Lines' = Cut(t.start - LineStart(t.start))
         /\ ~ LeadsAs(t) => Lines' = Lines
<1>1. PICK S : out \in Seq(S)
  BY DEF Typed
<1>2. out' # << >> /\ out'[Len(out')] = t
  BY <1>1 DEF Gives
<1>3. MisreadLine' <=> MisreadLine
  BY DEF MisreadLine, LineStart
<1>4. Unclosed \in Int /\ Unclosed' = Unclosed + Delta(t.kind)
  BY <1>1, UnclosedStep
<1>5. IsText(text) /\ \A i \in 1 .. Len(out) : out[i].start \in Places
  BY DEF Typed
<1>6. /\ LeadsAs(t) => Lines' = Cut(t.start - LineStart(t.start))
      /\ ~ LeadsAs(t) => Lines' = Lines
  BY <1>1, <1>5, LinesStep
<1> QED BY <1>2, <1>3, <1>4, <1>6 DEF Finished, LastIsContent, Layout

LEMMA AfterLayout ==
  ASSUME Typed, NEW kind \in Layout, NEW start \in Places,
         Gives(Token(kind, << >>, start)), text' = text
  PROVE  /\ Finished' <=> kind \in {"End", "Error"}
         /\ ~ LastIsContent' /\ (MisreadLine' <=> MisreadLine)
         /\ Lines' = Lines /\ Unclosed' = Unclosed
<1> DEFINE t == Token(kind, << >>, start)
<1>1. t.kind = kind /\ t.start = start
  BY DEF Token
<1>2. Delta(kind) = 0
  BY PlainKinds
<1>3. ~ LeadsAs(t)
  BY <1>1 DEF LeadsAs
<1> HIDE DEF t
<1>4. Gives(t)
  BY DEF t
<1> QED BY <1>1, <1>2, <1>3, <1>4, AfterToken

LEMMA LaidAtEnd ==
  ASSUME Typed, Laid, ~ Finished, NEW kind \in Layout, text[at] = Eof, GiveAtEnd(kind)
  PROVE  Laid'
<1>1. IsText(text) /\ at \in Places /\ newLine \in BOOLEAN
  BY DEF Typed
<1>2. text[at] \notin Blanks
  BY <1>1, CharactersDiffer
<1>3. /\ text' = text /\ at' = at /\ nestedParentesys' = nestedParentesys
      /\ Gives(Token(kind, << >>, at))
  BY <1>1, <1>2, GiveIs DEF GiveAtEnd
<1>4. ~ LastIsContent' /\ Unclosed' = Unclosed
  BY <1>1, <1>3, AfterLayout
<1> QED BY <1>3, <1>4 DEF Laid

\* Fact: what happens to the state when a token eatSpaces is the cause of is
\* given, the margin of the line being all blanks.
LEMMA LaidAtMargin ==
  ASSUME Typed, Laid, ~ Finished, NEW kind \in Layout, GiveAfterSpaces(kind),
         nestedParentesys = 0,
         ~ MisreadLine =>
           /\ text[AfterSpaces] # Newline
           /\ \A k \in LineStart(AfterSpaces) .. AfterSpaces - 1 : text[k] \in Blanks
           /\ {indentStack'[i] : i \in 1 .. Len(indentStack')}
                = Cut(AfterSpaces - LineStart(AfterSpaces))
           /\ indentStack'[Len(indentStack')] = AfterSpaces - LineStart(AfterSpaces)
  PROVE  Laid'
<1>1. IsText(text) /\ at \in Places /\ newLine \in BOOLEAN
  BY DEF Typed
<1>2. PICK a : a = AfterSpaces
  OBVIOUS
<1>3. a \in Places /\ text[a] \notin Blanks
  BY <1>1, <1>2, SpacesAre DEF SpacePlaces
<1>4. PICK nl \in BOOLEAN : Give(kind, << >>, a, a, 0, nl)
  BY <1>1, <1>2 DEF GiveAfterSpaces, EndsLine
<1>5. text' = text /\ at' = a /\ nestedParentesys' = 0 /\ Gives(Token(kind, << >>, a))
  BY <1>1, <1>3, <1>4, GiveIs
<1>6. /\ ~ LastIsContent' /\ (MisreadLine' <=> MisreadLine)
      /\ Lines' = Lines /\ Unclosed' = Unclosed
  BY <1>3, <1>5, AfterLayout
<1>7. LineStart(at)' = LineStart(a)
  BY <1>5 DEF LineStart
<1>8. Unclosed = 0
  BY DEF Laid
<1>9. ASSUME ~ MisreadLine PROVE Ready'
  <2>1. text'[at'] \notin Blanks \cup {Newline}
    BY <1>2, <1>3, <1>5, <1>9
  <2>2. \A k \in LineStart(at)' .. at' - 1 : text'[k] \in Blanks
    BY <1>2, <1>5, <1>7, <1>9
  <2>3. Margins' = Cut(a - LineStart(a))
    BY <1>2, <1>9 DEF Margins
  <2>4. (at - LineStart(at))' = a - LineStart(a)
    BY <1>5, <1>7
  <2>5. Cut(at - LineStart(at))' = Cut(a - LineStart(a))
    BY <1>6, <2>4 DEF Cut
  <2>6. Top' = a - LineStart(a)
    BY <1>2, <1>9 DEF Top
  <2> QED BY <1>6, <2>1, <2>2, <2>3, <2>4, <2>5, <2>6 DEF Ready
<1> QED BY <1>5, <1>6, <1>8, <1>9 DEF Laid

LEMMA ReadyIs == ASSUME Typed, Ready PROVE AfterSpaces = at
<1>1. IsText(text) /\ at \in Places
  BY DEF Typed
<1>2. at \notin SpacePlaces
  BY DEF Ready, SpacePlaces
<1>3. AfterSpaces \in at .. Len(text) /\ at .. AfterSpaces - 1 \subseteq SpacePlaces
  BY <1>1, SpacesAre
<1>4. at \in at .. AfterSpaces - 1 \/ AfterSpaces = at
  BY <1>1, <1>3 DEF Places
<1> QED BY <1>2, <1>3, <1>4

\* Fact: what a margin opens or closes is told once.
LEMMA ReadyIsAligned ==
  ASSUME Typed, Ready, newLine, nestedParentesys = 0
  PROVE  ~ OpensBlock /\ ~ ClosesBlocks
<1>1. Stacked(indentStack)
  BY DEF Typed
<1>2. AfterSpaces = at
  BY ReadyIs
<1>3. Margin = Top
  BY <1>2, MarginAtLine DEF Ready
<1>4. Top \in Nat /\ \A i \in 1 .. Len(indentStack) - 1 : indentStack[i] < Top
  BY <1>1, TopIs
<1>5. ~ Top > Top /\ \A i \in 1 .. Len(indentStack) - 1 : indentStack[i] # Top
  <2>1. \A i \in 1 .. Len(indentStack) - 1 : indentStack[i] \in Nat
    BY <1>1 DEF Stacked
  <2> QED BY <1>4, <2>1
<1> QED BY <1>3, <1>5 DEF OpensBlock, ClosesBlocks

LEMMA LaidIndent == ASSUME Typed, Laid, ~ Finished, Indent PROVE Laid'
<1> DEFINE A == AfterSpaces
           n == Len(indentStack)
<1>1. newLine /\ nestedParentesys = 0 /\ Margin > Top /\ text[at] # Eof
  BY DEF Indent, OpensBlock, AtMargin, InText
<1>2. /\ Stacked(indentStack) /\ Margin \in Nat /\ Margin = A - LineStart(A)
      /\ Top \in Nat /\ Top \in Margins /\ Margins \subseteq Nat
      /\ (\A x \in Margins : x <= Top)
      /\ n \in Nat \ {0}
  BY <1>1, MarginAtLine, TopIs DEF Typed
<1>3. /\ text[A] \notin Blanks
      /\ \A k \in LineStart(A) .. A - 1 : text[k] \in Blanks
      /\ text[A] # Newline
  <2>1. Margin # 0
    BY <1>1, <1>2
  <2> QED BY <1>1, <2>1, SpacesOfLine
<1>4. /\ indentStack' = Append(indentStack, Margin)
      /\ Len(indentStack') = n + 1 /\ indentStack'[n + 1] = Margin
      /\ \A i \in 1 .. n : indentStack'[i] = indentStack[i]
  BY <1>1, <1>2, StackLonger DEF Indent, Top
<1>5. ASSUME ~ MisreadLine
      PROVE  {indentStack'[i] : i \in 1 .. n + 1} = Cut(Margin)
  <2>1. Margins = Lines
    <3>1. Fresh \/ MidLine \/ Ready
      BY <1>1, <1>5 DEF Laid
    <3>2. Fresh
      BY <1>1, <3>1, ReadyIsAligned DEF MidLine, Indent
    <3> QED BY <3>2 DEF Fresh, Settled
  <2>2. \A x \in Lines : x <= Margin
    BY <1>1, <1>2, <2>1
  <2>3. Cut(Margin) = Margins \cup {Margin}
    BY <2>1, <2>2 DEF Cut
  <2>4. 1 .. n + 1 = (1 .. n) \cup {n + 1}
    BY <1>2
  <2> QED BY <1>4, <2>3, <2>4 DEF Margins
<1> HIDE DEF A
<1> QED BY <1>1, <1>2, <1>3, <1>4, <1>5, LaidAtMargin DEF Indent, Layout, A

LEMMA LaidDeindent == ASSUME Typed, Laid, ~ Finished, Deindent PROVE Laid'
<1> DEFINE A == AfterSpaces
           n == Len(indentStack)
<1>1. newLine /\ nestedParentesys = 0 /\ text[at] # Eof
  BY DEF Deindent, ClosesBlocks, AtMargin, InText
<1>2. /\ Stacked(indentStack) /\ Margin \in Nat /\ Margin = A - LineStart(A)
      /\ Margins \subseteq Nat /\ n \in Nat \ {0}
  BY <1>1, MarginAtLine, TopIs DEF Typed
<1>3. PICK i \in 1 .. n - 1 : indentStack[i] = Margin /\ indentStack' = SubSeq(indentStack, 1, i)
  BY DEF Deindent
<1>4. /\ Len(indentStack') = i /\ i \in 1 .. n
      /\ \A j \in 1 .. i : indentStack'[j] = indentStack[j]
  BY <1>2, <1>3, StackShorter
<1>5. indentStack'[Len(indentStack')] = Margin
  BY <1>3, <1>4
<1>6. text[A] \notin Blanks /\ \A k \in LineStart(A) .. A - 1 : text[k] \in Blanks
  BY <1>1, SpacesOfLine
<1>7. ASSUME ~ MisreadLine
      PROVE  text[A] # Newline /\ {indentStack'[j] : j \in 1 .. i} = Cut(Margin)
  <2>1. Fresh
    <3>1. Fresh \/ MidLine \/ Ready
      BY <1>1, <1>7 DEF Laid
    <3> QED BY <1>1, <3>1, ReadyIsAligned DEF MidLine, Deindent
  <2>2. text[A] # Newline
    <3>1. ASSUME text[A] = Newline PROVE FALSE
      <4>1. A = at
        BY <1>1, <1>7, <3>1, SpacesOfLine
      <4>2. n = 1
        BY <2>1, <3>1, <4>1 DEF Fresh
      <4> QED BY <1>3, <4>2
    <3> QED BY <3>1
  <2>3. \A j \in 1 .. n : indentStack[j] <= Margin <=> j \in 1 .. i
    <3> TAKE j \in 1 .. n
    <3>1. indentStack[j] \in Nat
      BY <1>2 DEF Stacked
    <3>2. CASE j < i
      BY <1>2, <1>3, <1>4, <3>1, <3>2 DEF Stacked
    <3>3. CASE j = i
      BY <1>2, <1>3, <3>3
    <3>4. CASE i < j
      <4>1. Margin < indentStack[j]
        BY <1>2, <1>3, <1>4, <3>4 DEF Stacked
      <4> QED BY <1>2, <1>3, <3>1, <3>4, <4>1
    <3> QED BY <1>2, <1>4, <3>2, <3>3, <3>4
  <2>4. Margins = Lines
    BY <2>1 DEF Fresh, Settled
  <2>5. Cut(Margin) = {x \in Margins : x <= Margin} \cup {Margin}
    BY <2>4 DEF Cut
  <2>6. i \in 1 .. i /\ 1 .. i \subseteq 1 .. n
    BY <1>2, <1>4
  <2>7. {indentStack'[j] : j \in 1 .. i} = {indentStack[j] : j \in 1 .. i}
    BY <1>4
  <2>8. {indentStack[j] : j \in 1 .. i} \subseteq {x \in Margins : x <= Margin}
    BY <2>3, <2>6 DEF Margins
  <2>9. {x \in Margins : x <= Margin} \subseteq {indentStack[j] : j \in 1 .. i}
    BY <2>3 DEF Margins
  <2>10. Margin \in {indentStack[j] : j \in 1 .. i}
    BY <1>3, <2>6
  <2> QED BY <2>2, <2>5, <2>7, <2>8, <2>9, <2>10
<1> HIDE DEF A
<1> QED BY <1>1, <1>2, <1>4, <1>5, <1>6, <1>7, LaidAtMargin DEF Deindent, Layout, A

LEMMA LaidPending == ASSUME Typed, Laid, ~ Finished, PendingDeindent PROVE Laid'
<1>1. /\ nestedParentesys = 0 /\ text[at] # Eof /\ deindentToEmit # 0
      /\ indentStack' = indentStack /\ GiveAfterSpaces("Deindent")
  BY DEF PendingDeindent, InText
<1>2. ASSUME ~ MisreadLine PROVE Ready /\ AfterSpaces = at
  <2>1. Ready
    BY <1>1, <1>2 DEF Laid, Fresh, MidLine, Settled
  <2> QED BY <2>1, ReadyIs
<1>3. ASSUME ~ MisreadLine
      PROVE  /\ text[AfterSpaces] # Newline
             /\ \A k \in LineStart(AfterSpaces) .. AfterSpaces - 1 : text[k] \in Blanks
             /\ Margins = Cut(AfterSpaces - LineStart(AfterSpaces))
             /\ Top = AfterSpaces - LineStart(AfterSpaces)
  BY <1>2, <1>3 DEF Ready
<1>4. /\ {indentStack'[i] : i \in 1 .. Len(indentStack')} = Margins
      /\ indentStack'[Len(indentStack')] = Top
  BY <1>1 DEF Margins, Top
<1>5. "Deindent" \in Layout
  BY DEF Layout
<1> QED BY <1>1, <1>3, <1>4, <1>5, LaidAtMargin

-----------------------------------------------------------------------------
(* The tokens read from the text, and the theorem.                         *)

\* Fact: the token a line starts with brings its margins up to date.
LEMMA ScanSettles ==
  ASSUME Typed, Laid, ~ Finished, ~ MisreadLine, ReadsToken,
         NEW t, Gives(t), text' = text, t.start = TokenStart,
         t.kind \in Layout => First = Newline,
         SameBlocks
  PROVE  Settled'
<1> DEFINE A == AfterSpaces
           L == LineStart(A)
<1>1. /\ IsText(text) /\ at \in Places /\ Stacked(indentStack) /\ newLine \in BOOLEAN
      /\ Len(text) \in Nat
  BY DEF Typed, IsText
<1>2. text[at] # Eof /\ nestedParentesys = Unclosed
  BY DEF ReadsToken, InText, Laid
<1>3. TokenStart \in Places
  BY <1>1, TokenStartIs
<1>4. /\ LeadsAs(t) => Lines' = Cut(t.start - LineStart(t.start))
      /\ ~ LeadsAs(t) => Lines' = Lines
  BY <1>3, AfterToken
<1>5. Margins' = Margins /\ deindentToEmit' = deindentToEmit
  BY DEF SameBlocks, Margins
<1>6. CASE nestedParentesys # 0
  <2>1. Settled
    BY <1>2, <1>6 DEF Laid
  <2>2. ~ LeadsAs(t)
    BY <1>2, <1>6 DEF LeadsAs
  <2> QED BY <1>4, <1>5, <2>1, <2>2 DEF Settled
<1>7. CASE nestedParentesys = 0
  <2>1. deindentToEmit = 0 /\ SameBlock
    BY <1>7 DEF ReadsToken
  <2>2. TokenStart = A /\ First = text[A] /\ A \in at .. Len(text) /\ A \in Places
    BY <1>1, <1>7, SpacesAre, TokenStartIs DEF First
  <2>3. Fresh \/ MidLine \/ Ready
    BY <1>2, <1>7 DEF Laid
  <2>4. CASE Fresh
    <3>1. Margins = Lines
      BY <2>4 DEF Fresh, Settled
    <3>2. Margin = A - L /\ Margin = Top
      BY <1>7, <2>1, <2>4, MarginAtLine DEF Fresh, SameBlock, AtMargin
    <3>3. Cut(Top) = Margins
      BY <1>1, <3>1, TopIs DEF Cut
    <3>4. Lines' = Margins
      BY <1>4, <2>2, <3>1, <3>2, <3>3
    <3> QED BY <1>5, <2>1, <3>4 DEF Settled
  <2>5. CASE MidLine
    <3>1. PICK k \in LineStart(at) .. at - 1 : text[k] \notin Blanks
      BY <2>5 DEF MidLine
    <3>2. \A j \in at .. A - 1 : text[j] \in Blanks
      BY <1>1, <2>5, SpacesAre DEF MidLine, SpacePlaces
    <3>3. LineStart(A) = LineStart(at) /\ LineStart(at) \in 1 .. at
      <4>1. \A j \in at .. A - 1 : text[j] # Newline
        BY <1>1, <3>2, CharactersDiffer
      <4>2. at <= A
        BY <1>1, <2>2 DEF Places
      <4> QED BY <1>1, <2>2, <4>1, <4>2, SameLine
    <3>4. k \in LineStart(A) .. A - 1
      BY <1>1, <2>2, <3>1, <3>3 DEF Places
    <3>5. ~ LeadsAs(t)
      BY <2>2, <3>1, <3>4 DEF LeadsAs
    <3> QED BY <1>4, <1>5, <2>5, <3>5 DEF Settled, MidLine
  <2>6. CASE Ready
    <3>1. A = at
      BY <2>6, ReadyIs
    <3>2. t.kind \notin Layout
      BY <2>2, <2>6, <3>1 DEF Ready
    <3>3. LeadsAs(t)
      BY <1>2, <1>7, <2>2, <2>6, <3>1, <3>2 DEF LeadsAs, Ready
    <3>4. Lines' = Cut(at - LineStart(at))
      BY <1>4, <2>2, <3>1, <3>3
    <3> QED BY <1>5, <2>1, <2>6, <3>4 DEF Ready, Settled
  <2> QED BY <2>3, <2>4, <2>5, <2>6
<1> QED BY <1>6, <1>7

LEMMA LaidScan == ASSUME Typed, Laid, ~ Finished, ReadsToken, Scan PROVE Laid'
<1>1. PICK kind, content, i, nested :
        GiveToken(kind, content, i, nested) /\ (Reads(kind, i, nested) \/ Fails(kind, i, nested))
  BY Zenon DEF Scan
<1> DEFINE t == Token(kind, content, TokenStart)
<1>2. Give(kind, content, TokenStart, i, nested, EndsLine(i)) /\ SameBlocks
  BY <1>1 DEF GiveToken
<1>3. IsText(text) /\ at \in Places /\ Len(text) \in Nat /\ at \in Nat /\ at >= 1
  BY DEF Typed, IsText, Places
<1>4. TokenStart \in at .. Len(text) /\ TokenStart \in Places
  BY <1>3, TokenStartIs
<1>5. i \in Places /\ EndsLine(i) \in BOOLEAN
  BY <1>1, <1>3, <1>4 DEF Reads, Fails, Places, EndsLine
<1>6. /\ text' = text /\ nestedParentesys' = nested /\ Gives(t)
      /\ at' \in i .. Len(text) /\ at' \in Places
      /\ \A k \in i .. at' - 1 : text[k] \in Blanks
      /\ EndsLine(i) /\ nested = 0 => newLine' /\ at' = i
      /\ ~ EndsLine(i) => ~ newLine'
      /\ text[i] \notin Blanks => at' = i
  BY <1>2, <1>3, <1>5, GiveIs
<1>7. t.kind = kind /\ t.start = TokenStart
  BY DEF Token
<1> HIDE DEF t
<1>8. /\ Finished' <=> kind \in {"End", "Error"}
      /\ MisreadLine' <=> MisreadLine
      /\ Unclosed \in Int /\ Unclosed' = Unclosed + Delta(kind)
  BY <1>4, <1>6, <1>7, AfterToken
<1>9. CASE Fails(kind, i, nested)
  BY <1>8, <1>9 DEF Fails, Laid
<1>10. CASE Reads(kind, i, nested)
  <2>1. nestedParentesys' = Unclosed'
    BY <1>6, <1>8, <1>10 DEF Laid, Reads
  <2>2. i \in TokenStart + 1 .. Len(text) /\ i - 1 \in Places /\ at < i
    BY <1>3, <1>4, <1>10 DEF Reads, Places
  <2>3. ASSUME ~ MisreadLine PROVE Settled'
    <3>1. kind \in Layout => First = Newline
      BY <1>10 DEF Reads, Layout
    <3> QED BY <1>2, <1>6, <1>7, <2>3, <3>1, ScanSettles
  <2>4. ASSUME ~ MisreadLine, text'[at'] # Eof, nested = 0 PROVE Fresh' \/ MidLine'
    <3>1. CASE text[i - 1] \notin Blanks \cup {Newline}
      <4>1. ~ newLine'
        BY <1>6, <3>1 DEF EndsLine
      <4>2. \A k \in i - 1 .. at' - 1 : text[k] # Newline
        <5> TAKE k \in i - 1 .. at' - 1
        <5>1. k = i - 1 \/ k \in i .. at' - 1
          BY <2>2
        <5> QED BY <1>3, <1>6, <3>1, <5>1, CharactersDiffer
      <4>3. PICK a : a = at'
        OBVIOUS
      <4>4. a \in Places /\ i - 1 \in Places /\ i - 1 <= a /\ i - 1 <= a - 1
        <5>1. a \in i .. Len(text) /\ i \in Nat /\ a \in Nat
          BY <1>5, <1>6, <4>3 DEF Places
        <5>2. i <= a
          BY <5>1
        <5>3. \A x, y \in Nat : x <= y => x - 1 <= y /\ x - 1 <= y - 1
          OBVIOUS
        <5>4. i - 1 <= a /\ i - 1 <= a - 1
          BY <5>1, <5>2, <5>3
        <5> QED BY <1>6, <2>2, <4>3, <5>4
      <4>5. LineStart(a) = LineStart(i - 1) /\ LineStart(i - 1) \in 1 .. i - 1
        BY <1>3, <4>2, <4>3, <4>4, SameLine
      <4>6. i - 1 \in LineStart(a) .. a - 1
        BY <2>2, <4>4, <4>5 DEF Places
      <4>7. LineStart(at)' = LineStart(a)
        BY <1>6, <4>3 DEF LineStart
      <4>8. \E k \in LineStart(at)' .. at' - 1 : text'[k] \notin Blanks
        BY <1>6, <3>1, <4>3, <4>6, <4>7
      <4> QED BY <2>3, <2>4, <4>1, <4>8 DEF MidLine
    <3>2. CASE text[i] # Newline /\ (text[i] = Eof \/ text[i - 1] = Newline)
      <4>1. text[i] # Eof
        BY <1>3, <1>6, <2>4, <3>2, CharactersDiffer
      <4>2. EndsLine(i)
        BY <2>2, <3>2, <4>1 DEF EndsLine
      <4>3. newLine' /\ at' = i
        BY <1>6, <2>4, <4>2
      <4>4. text'[at'] # Newline
        BY <1>6, <3>2, <4>3
      <4> QED BY <2>3, <2>4, <4>3, <4>4 DEF Fresh
    <3> QED BY <1>10, <3>1, <3>2 DEF Reads
  <2> QED BY <1>6, <1>8, <2>1, <2>3, <2>4 DEF Laid
<1> QED BY <1>1, <1>9, <1>10

LEMMA LaidInit == ASSUME NEW t \in Texts, LexerInit(t) PROVE Laid
<1>1. /\ newLine = TRUE /\ indentStack = <<0>>
      /\ nestedParentesys = 0 /\ deindentToEmit = 0 /\ out = << >>
  BY DEF LexerInit
<1>2. Len(out) = 0 /\ ~ LastIsContent /\ Len(indentStack) = 1
  BY <1>1 DEF LastIsContent
<1>3. Unclosed = 0
  <2>1. \A some : {k \in 1 .. Len(out) + 1 - 1 : out[k].kind \in some} = {}
    BY <1>2
  <2>2. ASSUME NEW some PROVE Brackets(Len(out) + 1, some) = 0
    <3>1. Brackets(Len(out) + 1, some)
            = Cardinality({k \in 1 .. Len(out) + 1 - 1 : out[k].kind \in some})
      BY DEF Brackets
    <3> QED BY <2>1, <3>1, FS_EmptySet
  <2> QED BY <2>2 DEF Unclosed
<1>4. Margins = Lines
  <2>1. Leading = {}
    BY <1>2 DEF Leading, Contents
  <2>2. Kept = {}
    BY <2>1 DEF Kept
  <2>3. Lines = {0}
    BY <2>2 DEF Lines
  <2>4. Margins = {0}
    BY <1>1, <1>2 DEF Margins
  <2> QED BY <2>3, <2>4
<1> QED BY <1>1, <1>2, <1>3, <1>4 DEF Laid, Fresh, Settled

LEMMA LaidStep == ASSUME Typed, Laid, NextToken PROVE Laid'
<1>1. ~ Finished
  BY DEF NextToken
<1>2. CASE TooNested
  <2>1. PICK S : out \in Seq(S)
    BY DEF Typed
  <2>2. out' = Append(out, Token("Error", << >>, at))
    BY <1>2 DEF TooNested
  <2>3. out' # << >> /\ out'[Len(out')].kind = "Error"
    BY <2>1, <2>2 DEF Token
  <2>4. Finished'
    BY <2>3 DEF Finished
  <2> QED BY <2>4 DEF Laid
<1>3. CASE ExtraNewline \/ CloseAtEnd \/ PendingAtEnd \/ End
  <2>1. \E kind \in Layout : text[at] = Eof /\ GiveAtEnd(kind)
    BY <1>3 DEF ExtraNewline, CloseAtEnd, PendingAtEnd, End, AtEnd, Layout
  <2> QED BY <1>1, <2>1, LaidAtEnd
<1>4. CASE Indent \/ Deindent \/ PendingDeindent
  BY <1>1, <1>4, LaidIndent, LaidDeindent, LaidPending
<1>5. CASE MisalignedLine
  <2>1. PICK S : out \in Seq(S)
    BY DEF Typed
  <2>2. out' = Append(out, Token("Error", << >>, AfterSpaces))
    BY <1>5 DEF MisalignedLine, GiveAfterSpaces, Give
  <2>3. out' # << >> /\ out'[Len(out')].kind = "Error"
    BY <2>1, <2>2 DEF Token
  <2>4. Finished'
    BY <2>3 DEF Finished
  <2> QED BY <2>4 DEF Laid
<1>6. CASE ReadsToken /\ Scan
  BY <1>1, <1>6, LaidScan
<1> QED BY <1>2, <1>3, <1>4, <1>5, <1>6, NextIs

\* A line that holds something, outside brackets, is in one block for every
\* margin that a line before it has and no line since has come back from.
THEOREM LayoutTheorem == LexerSpec => []LayoutByMargin
<1> DEFINE IInv == Typed /\ Laid /\ Inv
<1>1. (\E t \in Texts : LexerInit(t)) => IInv
  BY TypedInit, LaidInit, InvInit
<1>2. IInv /\ [NextToken]_lexer => IInv'
  <2>1. ASSUME IInv, UNCHANGED lexer PROVE IInv'
    <3>1. Typed' /\ Inv'
      BY <2>1 DEF Typed, lexer, Places, AtLineStart, Inv, Balanced, Depth, Given, Finished
    <3>2. UNCHANGED <<text, at, newLine, indentStack, nestedParentesys, deindentToEmit, out>>
      BY <2>1 DEF lexer
    <3>3. /\ Unclosed' = Unclosed /\ (MisreadLine' <=> MisreadLine)
          /\ (LastIsContent' <=> LastIsContent) /\ (Finished' <=> Finished)
          /\ Margins' = Margins /\ Top' = Top /\ LineStart(at)' = LineStart(at)
      BY <3>2 DEF Unclosed, Brackets, MisreadLine, LineStart, LastIsContent, Finished,
                  Margins, Top
    <3>4. Lines' = Lines
      BY <3>2 DEF Lines, Kept, Leading, Leads, Contents, Outside, Brackets, MarginOf, LineStart
    <3>5. Cut(at - LineStart(at))' = Cut(at - LineStart(at))
      BY <3>2, <3>3, <3>4 DEF Cut
    <3>6. /\ Settled' <=> Settled
          /\ Fresh' <=> Fresh
          /\ MidLine' <=> MidLine
          /\ Ready' <=> Ready
      BY <3>2, <3>3, <3>4, <3>5 DEF Settled, Fresh, MidLine, Ready
    <3>7. Laid'
      BY <2>1, <3>2, <3>3, <3>6 DEF Laid
    <3> QED BY <3>1, <3>7
  <2> QED BY <2>1, TypedStep, LaidStep, InvStep
<1>3. IInv => LayoutByMargin
  <2> SUFFICES ASSUME IInv, LastIsContent, ~ MisreadLine
               PROVE  Depth = Cardinality(Lines) - 1
    BY DEF LayoutByMargin, Lines, Kept
  <2>1. ~ Finished
    BY DEF Finished, LastIsContent, Layout
  <2>2. Margins = Lines /\ deindentToEmit = 0
    BY <2>1 DEF Laid, Settled
  <2>3. Depth = Len(indentStack) - 1 + deindentToEmit
    BY DEF Inv, Balanced
  <2>4. Len(indentStack) \in Nat /\ Cardinality(Margins) = Len(indentStack)
    BY MarginsCount DEF Typed, Stacked
  <2> QED BY <2>2, <2>3, <2>4
<1> QED BY <1>1, <1>2, <1>3, PTL DEF LexerSpec
=============================================================================
