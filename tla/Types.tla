------------------------------- MODULE Types --------------------------------
(***************************************************************************)
(* The types a variable has: a number stands for every builtin type, a     *)
(* class is its members in order, an array a type and a length, an         *)
(* alternative (A | B) its fields in order; Vector and BoundedVector are   *)
(* the classes of stdlib/collections/vector.rl.                            *)
(***************************************************************************)
EXTENDS Naturals, Sequences, SequencesExt

Number == [kind |-> "number", of |-> <<>>, n |-> 1]
Class(ts) == [kind |-> "class", of |-> ts, n |-> 1]
Array(t, n) == [kind |-> "array", of |-> <<t>>, n |-> n]
Alternative(ts) == [kind |-> "alternative", of |-> ts, n |-> 1]
Vector(t) == [kind |-> "vector", of |-> <<t>>, n |-> 1]
BoundedVector(t, n) == [kind |-> "bounded", of |-> <<Vector(t)>>, n |-> n]

Collection(t) == t.kind \in {"vector", "bounded"}

Elem(t) == IF t.kind = "bounded" THEN t.of[1].of[1] ELSE t.of[1]

(* The place of a type among the fields of an alternative.                 *)
FieldOf(t, u) == SelectInSeq(t.of, LAMBDA v : v = u)

(* The members of a class, or as many elements as an array has.            *)
Members(t) == IF t.kind = "array" THEN [i \in 1..t.n |-> Elem(t)] ELSE t.of

=============================================================================
