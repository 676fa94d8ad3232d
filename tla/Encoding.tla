------------------------------ MODULE Encoding ------------------------------
(***************************************************************************)
(* The four ways the library writes a value down, each a walk over its      *)
(* type: bytes (to_byte_vector.rl), text (string.rl), a tensor of zeros and *)
(* ones for a learner, and its place in the list of all values (action.rl). *)
(* What a reader takes and answers, and numbers, are in Numbers.            *)
(*                                                                         *)
(* A Bool is its truth. A text is a sequence of symbols, a number in it one *)
(* symbol, as sprintf and sscanf of the runtime write and read it.          *)
(***************************************************************************)
EXTENDS Numbers

-----------------------------------------------------------------------------
(* Types. Hidden, Owned (HiddenInformation) and Bounded (BoundedVector) are *)
(* classes of the library with a treatment of their own here and there; a   *)
(* Linear is a LinearlyDistributedInt.                                      *)

Scalar(kind) == [kind |-> kind]
Within(kind, lo, hi) == [kind |-> kind, lo |-> lo, hi |-> hi]
EnumOf(names) == [kind |-> "Enum", names |-> names]
ClassOf(name, names, types) ==
    [kind |-> "Class", name |-> name, names |-> names, types |-> types]
Repeated(kind, t, n) == [kind |-> kind, of |-> t, n |-> n]
Wrapper(kind, t) == [kind |-> kind, of |-> t]
AnyOf(types) == [kind |-> "Alternative", types |-> types]

Copies(t, n) == [i \in 1..n |-> t]
Int64 == Scalar("Int")

(* What a for over the fields of a class visits.                           *)
Members(t) ==
    CASE t.kind = "Class" -> t.types
      [] t.kind = "Array" -> Copies(t.of, t.n)
      [] t.kind = "Owned" -> <<t.of, Int64>>

RECURSIVE Default(_)
Default(t) ==
    CASE t.kind \in {"Int", "Byte", "Enum"} -> 0
      [] t.kind = "Bool" -> FALSE
      [] t.kind \in {"BInt", "Linear"} -> t.lo
      [] t.kind \in {"Vector", "Bounded"} -> <<>>
      [] t.kind = "Hidden" -> Default(t.of)
      [] t.kind = "Alternative" -> <<1, Default(t.types[1])>>
      [] OTHER -> [i \in DOMAIN Members(t) |-> Default(Members(t)[i])]

-----------------------------------------------------------------------------
(* Bytes.                                                                  *)

RECURSIVE Bytes(_, _)
Bytes(t, v) ==
    CASE t.kind \in {"Int", "Enum"} -> ToArray(v)
      [] t.kind = "Byte" -> <<v>>
      [] t.kind = "Bool" -> <<IF v THEN 1 ELSE 0>>
      [] t.kind \in {"BInt", "Linear"} -> WithinBytes(t, v)
      [] t.kind \in {"Vector", "Bounded"} ->
           ToArray(Len(v)) \o FlattenSeq([i \in DOMAIN v |-> Bytes(t.of, v[i])])
      [] t.kind = "Hidden" -> Bytes(t.of, v)
      [] t.kind = "Alternative" -> ToArray(v[1] - 1) \o Bytes(t.types[v[1]], v[2])
      [] OTHER -> FlattenSeq([i \in DOMAIN v |-> Bytes(Members(t)[i], v[i])])

-----------------------------------------------------------------------------
(* Reading bytes.                                                          *)

RECURSIVE Parse(_, _, _, _), ParseEach(_, _, _, _), ParseMore(_, _, _, _, _)

(* One after the other until one fails; those behind it are left alone.    *)
ParseEach(types, v, input, index) ==
    IF types = <<>> THEN Read(TRUE, v, index)
    ELSE LET first == Parse(Head(types), Head(v), input, index)
             rest == ParseEach(Tail(types), Tail(v), input, first.index)
         IN IF ~first.ok THEN Read(FALSE, <<first.value>> \o Tail(v), first.index)
            ELSE Read(rest.ok, <<first.value>> \o rest.value, rest.index)

ParseMore(t, n, v, input, index) ==
    IF n <= 0 THEN Read(TRUE, v, index)
    ELSE LET r == Parse(t, Default(t), input, index)
         IN IF ~r.ok THEN Read(FALSE, v, r.index)
            ELSE ParseMore(t, n - 1, Append(v, r.value), input, r.index)

Parse(t, v, input, index) ==
    CASE t.kind = "Int" -> ReadInt(v, input, index)
      [] t.kind = "Byte" -> ReadByte(v, input, index)
      [] t.kind = "Bool" -> LET r == ReadByte(0, input, index)
                            IN Read(r.ok, IF r.ok THEN r.value # 0 ELSE v, r.index)
      [] t.kind = "Enum" -> LET r == ReadInt(0, input, index)
                            IN With(r, Rem(r.value, Len(t.names)))
      [] t.kind \in {"BInt", "Linear"} -> ReadWithin(t, v, input, index)
      [] t.kind \in {"Vector", "Bounded"} ->
           LET size == ReadInt(0, input, index)
           IN IF ~size.ok THEN Read(FALSE, v, size.index)
              ELSE ParseMore(t.of, size.value, v, input, size.index)
      [] t.kind = "Hidden" -> Parse(t.of, v, input, index)
      [] t.kind = "Alternative" ->
           LET field == ReadInt(0, input, index)
               i == field.value + 1
           IN IF ~field.ok \/ i \notin DOMAIN t.types THEN Read(FALSE, v, field.index)
              ELSE LET r == Parse(t.types[i], Default(t.types[i]), input, field.index)
                   IN Read(r.ok, IF r.ok THEN <<i, r.value>> ELSE v, r.index)
      [] OTHER -> ParseEach(Members(t), v, input, index)

-----------------------------------------------------------------------------
(* Text.                                                                   *)

Blank == {" ", "\n", "\t"}
Numerals == {ToString(n) : n \in -(Base ^ IntBytes)..Base ^ IntBytes}
Marks == Blank \cup {"{", "}", "[", "]", ",", ":", "#"}
Symbol(text, index) == IF index < Len(text) THEN text[index + 1] ELSE "end"

(* What a type is called in a text: an action class by its act.            *)
TypeName(t) ==
    CASE t.kind = "Class" -> t.name
      [] t.kind \in {"BInt", "Linear"} -> <<t.kind, ToString(t.lo), ToString(t.hi)>>
      [] OTHER -> <<t.kind>>

NamesOf(t) == IF t.kind = "Owned" THEN <<<<"value">>, <<"owner">>>> ELSE t.names

Commas(texts) ==
    FlattenSeq([i \in DOMAIN texts |->
        IF i = Len(texts) THEN texts[i] ELSE texts[i] \o <<",", " ">>])

(* The last comma becomes the bracket, the blank behind it is dropped.     *)
Braced(text) == IF text = <<"{">> THEN <<"{", "}">> ELSE SubSeq(text, 1, Len(text) - 2) \o <<"}">>

RECURSIVE Text(_, _)
Text(t, v) ==
    CASE t.kind \in {"Int", "Byte", "BInt", "Linear"} -> <<ToString(v)>>
      [] t.kind = "Bool" -> <<IF v THEN "true" ELSE "false">>
      [] t.kind = "Enum" -> t.names[v + 1]
      [] t.kind \in {"Array", "Vector", "Bounded"} ->
           <<"[">> \o Commas([i \in DOMAIN v |-> Text(t.of, v[i])]) \o <<"]">>
      [] t.kind = "Hidden" -> Text(t.of, v)
      [] t.kind = "Alternative" ->
           TypeName(t.types[v[1]]) \o <<" ">> \o Text(t.types[v[1]], v[2])
      [] OTHER -> Braced(<<"{">> \o
           FlattenSeq([i \in DOMAIN v |-> NamesOf(t)[i] \o <<":", " ">>
                                            \o Text(Members(t)[i], v[i]) \o <<",", " ">>]))

-----------------------------------------------------------------------------
(* Reading text.                                                           *)

RECURSIVE AfterSpace(_, _)
AfterSpace(text, index) ==
    IF Symbol(text, index) \in Blank THEN AfterSpace(text, index + 1) ELSE index

Matches(text, literal, index) ==
    index < Len(text) /\ SubSeq(text, index + 1, index + Len(literal)) = literal

Literal(text, literal, index) ==
    LET start == AfterSpace(text, index)
    IN IF Matches(text, literal, start) THEN Read(TRUE, 0, start + Len(literal))
       ELSE Read(FALSE, 0, start)

(* A name that goes on behind the one looked for is another name.          *)
GoesOn(symbol) == symbol \notin Marks \cup {"end"}
\* Fault: nothing is asked of what follows the name.
LiteralTokenPrefix(text, literal, index) == Literal(text, literal, index)
LiteralToken(text, literal, index) ==
    LET start == AfterSpace(text, index)
        end == start + Len(literal)
    IN IF Matches(text, literal, start) /\ ~GoesOn(Symbol(text, end)) THEN Read(TRUE, 0, end)
       ELSE Read(FALSE, 0, start)

(* The first of the names that is there; the blanks before it are read.    *)
FirstName(names, text, index) ==
    LET found == {i \in DOMAIN names : LiteralToken(text, names[i], index).ok}
    IN IF found = {} THEN Read(FALSE, 0, AfterSpace(text, index))
       ELSE Read(TRUE, Min(found), LiteralToken(text, names[Min(found)], index).index)

ScanNumber(v, text, index) ==
    LET start == AfterSpace(text, index)
    IN IF Symbol(text, start) \in Numerals
       THEN Read(TRUE, CHOOSE n \in -(Base ^ IntBytes)..Base ^ IntBytes :
                         ToString(n) = Symbol(text, start), start + 1)
       ELSE Read(FALSE, v, start)

RECURSIVE FromText(_, _, _, _), FieldsFromText(_, _, _, _, _), ElementsFromText(_, _, _, _, _)

FieldsFromText(types, names, v, text, index) ==
    IF types = <<>> THEN Read(Literal(text, <<"}">>, index).ok, v, Literal(text, <<"}">>, index).index)
    ELSE LET name == LiteralToken(text, Head(names), index)
             colon == Literal(text, <<":">>, name.index)
             field == FromText(Head(types), Head(v), text, colon.index)
             comma == Literal(text, <<",">>, field.index)
             rest == FieldsFromText(Tail(types), Tail(names), Tail(v), text, comma.index)
         IN IF ~(name.ok /\ colon.ok) THEN Read(FALSE, v, colon.index)
            ELSE IF ~field.ok THEN Read(FALSE, <<field.value>> \o Tail(v), field.index)
            ELSE Read(rest.ok, <<field.value>> \o rest.value, rest.index)

(* The elements up to the closing bracket; n counts down for an array and   *)
(* is negative for a vector, which goes on as long as there are commas. A   *)
(* bounded vector keeps no more than it has room for.                       *)
ElementsFromText(t, n, v, text, index) ==
    LET old == IF t.kind = "Array" THEN v[t.n - n + 1] ELSE Default(t.of)
        element == FromText(t.of, old, text, AfterSpace(text, index))
        after == AfterSpace(text, element.index)
        now == CASE t.kind = "Array" -> [v EXCEPT ![t.n - n + 1] = element.value]
                 [] t.kind = "Bounded" /\ Len(v) >= t.n -> v
                 [] OTHER -> Append(v, element.value)
        more == IF t.kind = "Array" THEN n # 1 ELSE Symbol(text, after) = ","
    IN IF ~element.ok
       THEN Read(FALSE, IF t.kind = "Array" THEN now ELSE v, element.index)
       ELSE IF more /\ Symbol(text, after) = ","
            THEN ElementsFromText(t, n - 1, now, text, after + 1)
            ELSE IF ~more /\ Symbol(text, after) = "]" THEN Read(TRUE, now, after + 1)
            ELSE Read(FALSE, now, after)

FromText(t, v, text, index) ==
    CASE t.kind \in {"Int", "Byte"} -> ScanNumber(v, text, index)
      [] t.kind \in {"BInt", "Linear"} ->
           LET r == ScanNumber(v, text, index)
           IN Read(r.ok /\ r.value >= t.lo /\ r.value < t.hi, r.value, r.index)
      [] t.kind = "Bool" ->
           LET start == AfterSpace(text, index)
           IN IF Matches(text, <<"true">>, start) THEN Read(TRUE, TRUE, start + 1)
              ELSE IF Matches(text, <<"false">>, start) THEN Read(TRUE, FALSE, start + 1)
              ELSE Read(FALSE, v, start)
      [] t.kind = "Enum" ->
           LET r == FirstName(t.names, text, index)
           IN Read(r.ok, IF r.ok THEN r.value - 1 ELSE v, r.index)
      [] t.kind = "Hidden" -> FromText(t.of, v, text, index)
      [] t.kind \in {"Array", "Vector", "Bounded"} ->
           LET start == AfterSpace(text, index)
               first == AfterSpace(text, start + 1)
               empty == IF t.kind = "Array" THEN v ELSE <<>>
           IN IF Symbol(text, start) # "[" THEN Read(FALSE, empty, start)
              ELSE IF t.kind # "Array" /\ Symbol(text, first) = "]" THEN Read(TRUE, <<>>, first + 1)
              ELSE ElementsFromText(t, IF t.kind = "Array" THEN t.n ELSE -1, empty, text, first)
      [] t.kind = "Alternative" ->
           LET name == FirstName([i \in DOMAIN t.types |-> TypeName(t.types[i])], text, index)
           IN IF ~name.ok THEN Read(FALSE, v, name.index)
              ELSE LET type == t.types[name.value]
                       r == FromText(type, Default(type), text, name.index)
                   IN Read(r.ok, IF r.ok THEN <<name.value, r.value>> ELSE v, r.index)
      [] OTHER ->
           LET brace == Literal(text, <<"{">>, index)
           IN IF ~brace.ok THEN Read(FALSE, v, brace.index)
              ELSE FieldsFromText(Members(t), NamesOf(t), v, text, brace.index)

-----------------------------------------------------------------------------
(* The list of all values of a type, and what a learner observes.          *)

(* The first field goes slowest.                                           *)
RECURSIVE Enumerate(_), Rows(_)
Rows(types) ==
    IF types = <<>> THEN <<<<>>>>
    ELSE LET first == Enumerate(Head(types))
             rest == Rows(Tail(types))
         IN FlattenSeq([i \in DOMAIN first |->
                [j \in DOMAIN rest |-> <<first[i]>> \o rest[j]]])

Enumerate(t) ==
    CASE t.kind = "Bool" -> <<TRUE, FALSE>>
      [] t.kind \in {"BInt", "Linear"} -> [i \in 1..(t.hi - t.lo) |-> t.lo + i - 1]
      [] t.kind = "Enum" -> [i \in DOMAIN t.names |-> i - 1]
      [] t.kind = "Hidden" -> Enumerate(t.of)
      [] t.kind = "Alternative" ->
           FlattenSeq([i \in DOMAIN t.types |->
               LET fields == Enumerate(t.types[i])
               IN [j \in DOMAIN fields |-> <<i, fields[j]>>]])
      [] OTHER -> Rows(Members(t))

Zeros(n) == [i \in 1..n |-> 0]

RECURSIVE TensorSize(_)
TensorSize(t) ==
    CASE t.kind \in {"Int", "Hidden", "Vector"} -> 0
      [] t.kind \in {"Bool", "Linear"} -> 1
      [] t.kind = "Byte" -> Base
      [] t.kind = "BInt" -> t.hi - t.lo
      [] t.kind = "Enum" -> Len(t.names)
      [] t.kind \in {"Array", "Bounded"} -> TensorSize(t.of) * t.n
      [] t.kind = "Owned" -> TensorSize(t.of)
      [] t.kind = "Alternative" ->
           Max({TensorSize(t.types[i]) : i \in DOMAIN t.types} \cup {0}) + Len(t.types)
      [] OTHER -> FoldSeq(LAMBDA u, n : n + TensorSize(u), 0, t.types)

(* A Linear is written as one number between the ends of its range; here    *)
(* the numerator of it over twice the width of the range.                   *)
RECURSIVE Tensor(_, _, _)
Tensor(t, v, observer) ==
    CASE t.kind \in {"Int", "Hidden", "Vector"} -> <<>>
      [] t.kind = "Bool" -> <<IF v THEN 1 ELSE 0>>
      [] t.kind = "Linear" -> <<2 * v - (t.hi - t.lo)>>
      [] t.kind = "Byte" -> OneHot(v, -(Base \div 2), Base \div 2 - 1)
      [] t.kind = "BInt" -> OneHot(v, t.lo, t.hi)
      [] t.kind = "Enum" -> OneHot(v, 0, Len(t.names))
      [] t.kind \in {"Array", "Bounded"} ->
           FlattenSeq([i \in DOMAIN v |-> Tensor(t.of, v[i], observer)])
      [] t.kind = "Owned" ->
           IF v[2] \in {observer, -1} THEN Tensor(t.of, v[1], observer) ELSE <<>>
      [] t.kind = "Alternative" ->
           LET field == t.types[v[1]]
               largest == TensorSize(t) - Len(t.types)
           IN OneHot(v[1], 1, Len(t.types) + 1) \o Tensor(field, v[2], observer)
                \o Zeros(largest - TensorSize(field))
      [] OTHER -> FlattenSeq([i \in DOMAIN v |-> Tensor(Members(t)[i], v[i], observer)])

=============================================================================
