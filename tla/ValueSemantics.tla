--------------------------- MODULE ValueSemantics ---------------------------
(***************************************************************************)
(* What a program may rely on when it assigns, copies and changes values:  *)
(* every variable in scope is a value of its own. A number is a number, a  *)
(* class or an array the tuple of its parts, a vector the sequence of its  *)
(* elements, an alternative the place of its active field and the value of *)
(* it. A call changes the value at one place and nothing else, and no      *)
(* value is shared, lost or left over.                                     *)
(*                                                                         *)
(* call is what the program just did: the operation, the place it is about *)
(* (a variable and the steps that lead into it), the value it was given    *)
(* and the answer it got.                                                  *)
(***************************************************************************)
EXTENDS Types

VARIABLES vals, call

RECURSIVE Default(_)
Default(t) ==
    CASE t.kind = "number" -> 0
      [] Collection(t) -> <<>>
      [] t.kind = "alternative" -> <<1, Default(t.of[1])>>
      [] OTHER -> [i \in DOMAIN Members(t) |-> Default(Members(t)[i])]

RECURSIVE Get(_, _)
Get(v, path) == IF path = <<>> THEN v ELSE Get(v[Head(path)], Tail(path))

RECURSIVE Put(_, _, _)
Put(v, path, w) ==
    IF path = <<>> THEN w ELSE [v EXCEPT ![Head(path)] = Put(@, Tail(path), w)]

(* An expression is a place or a number in the text.                       *)
Meant(vs, e) == IF e.literal THEN e.number ELSE Get(vs, e.path)

(* A value of one of its fields is made a value of the alternative.        *)
Cast(t, u, w) == IF t.kind = "alternative" /\ t # u THEN <<FieldOf(t, u), w>> ELSE w

Extended(s, n, t) == [i \in 1..n |-> IF i <= Len(s) THEN s[i] ELSE Default(Elem(t))]
AtMost(t, n) == IF t.kind = "bounded" /\ n > t.n THEN t.n ELSE n

(* What becomes of a value, and what was given to the call.                *)
Changed(v, c, given) ==
    CASE c.op = "assign"    -> Cast(c.type, c.value.type, given)
      [] c.op = "append"    -> IF AtMost(c.type, Len(v) + 1) > Len(v) THEN Append(v, given) ELSE v
      [] c.op = "pop"       -> Front(v)
      [] c.op = "clear"     -> <<>>
      [] c.op = "erase"     -> RemoveAt(v, c.n)
      [] c.op = "drop_back" -> SubSeq(v, 1, Len(v) - c.n)
      [] c.op = "resize"    -> Extended(v, AtMost(c.type, c.n), c.type)

Outcome(vs, c) ==
    CASE c.op = "declare" -> Append(vs, Default(c.type))
      [] c.op = "leave"   -> Front(vs)
      [] OTHER -> Put(vs, c.path, Changed(Get(vs, c.path), c, Meant(vs, c.value)))

Answer(vs, c) == IF c.op = "pop" THEN Last(Get(vs, c.path)) ELSE <<>>

Init == vals = <<>>
Next == vals' = Outcome(vals, call') /\ call'.answer = Answer(vals, call')
Spec == Init /\ [][Next]_<<vals, call>>

=============================================================================
