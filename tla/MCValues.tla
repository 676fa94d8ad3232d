------------------------------ MODULE MCValues ------------------------------
(* Small instances of Values: the variables of a program, chosen so that   *)
(* vectors grow, hold vectors, sit in classes, arrays and alternatives. A  *)
(* vector grows when the fourth element comes.                             *)
EXTENDS Values

Pair == Class(<<Number, Number>>)
Pairs == Array(Number, 2)
Holder == Class(<<Number, Vector(Number)>>)
Either == Alternative(<<Vector(Number), Number>>)

SmallRoom ==
    <<Vector(Number)>> :> 6 @@
    <<Vector(Number), Vector(Number)>> :> 5 @@
    <<Vector(Vector(Number))>> :> 4 @@
    <<Vector(Vector(Number)), Vector(Number)>> :> 3 @@
    <<Vector(Holder), Holder>> :> 2 @@
    <<Holder, Holder>> :> 2 @@
    <<Array(Holder, 2), Vector(Number)>> :> 2 @@
    <<Vector(Pairs), Pairs>> :> 3 @@
    <<BoundedVector(Number, 2), BoundedVector(Number, 2)>> :> 4 @@
    <<BoundedVector(Holder, 2)>> :> 3 @@
    <<Alternative(<<Number, Pair, Pairs>>), Pair, Pairs>> :> 0 @@
    <<Alternative(<<Number, Pairs>>), Alternative(<<Number, Pairs>>)>> :> 0 @@
    <<Either, Either, Vector(Number)>> :> 2

OneLiteral == {1}

(* The number of a block tells the program nothing. Two states are the     *)
(* same when they differ in such numbers only: when memory, read from the  *)
(* variables down to the last slot, holds the same, there are as many      *)
(* blocks, and as many of them are held by vectors.                        *)
RECURSIVE Unfolded(_, _)
Unfolded(t, a) ==
    LET inside == Constructed(mem, t, a)
        word == CASE t.kind = "number" -> Load(mem, a)
                  [] t.kind = "alternative" -> Load(mem, ActiveAt(t, a))
                  [] Collection(t) -> Load(mem, SizeAt(a))
                  [] OTHER -> 0
    IN <<word, [i \in DOMAIN inside |-> Unfolded(inside[i].type, inside[i].at)]>>

UpToBlocks ==
    IF mem.fault \/ ~AllSound THEN <<types, mem>>
    ELSE <<types, [v \in 1..Depth |-> Unfolded(types[v], At(v, 1))],
           Cardinality(DOMAIN mem.block), Cardinality({Load(mem, DataAt(a)) : a \in AllOwners})>>

(* An alternative whose second field owns memory.                          *)
OwnerRoom == <<Alternative(<<Number, Vector(Number)>>), Vector(Number)>> :> 2

=============================================================================
