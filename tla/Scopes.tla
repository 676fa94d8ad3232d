------------------------------- MODULE Scopes -------------------------------
(***************************************************************************)
(* The body of a function between type checking and its control flow graph *)
(* is a tree: an operation has regions, and a region is a sequence of      *)
(* operations whose last one is its terminator. This module has the tree,  *)
(* the analysis of the definitions that may reach an operation             *)
(* (ReachingDefinitions.hpp) and the pass that writes the destruction of   *)
(* the values of a scope where the scope ends                              *)
(* (EmitImplicitDestructorInvocationsPass.cpp).                            *)
(*                                                                         *)
(* kind       regions                    value                             *)
(* construct                             the memory it initialises         *)
(* call                                  its result, built by the callee   *)
(* use                                                                     *)
(* decl       initialiser                the variable                      *)
(* exp, list  body                                                         *)
(* if         condition, true, else                                        *)
(* while      condition, body                                              *)
(* and, or    left, right                the boolean                       *)
(* act                                   the action                        *)
(* actions    one per alternative                                          *)
(* return     expression                                                   *)
(* break, continue   what runs on leaving    the statement itself          *)
(* yield                                                                   *)
(* destroy                               what it destroys                  *)
(***************************************************************************)
EXTENDS Naturals, Sequences, FiniteSets, SequencesExt

NoValue == 0

(* An operand is a value, or a reference to something inside a value. *)
Value(x) == [of |-> x, ref |-> FALSE]
Inside(x) == [of |-> x, ref |-> TRUE]

(* Types as far as destruction can tell them apart. *)
Plain == [kind |-> "builtin", of |-> <<>>, drop |-> FALSE]
Reference == [kind |-> "reference", of |-> <<>>, drop |-> FALSE]
OwningPtr(t) == [kind |-> "owning_ptr", of |-> <<t>>, drop |-> FALSE]
Class(members, drop) == [kind |-> "class", of |-> members, drop |-> drop]
Array(t) == [kind |-> "array", of |-> <<t>>, drop |-> FALSE]
Alternative(ts) == [kind |-> "alternative", of |-> ts, drop |-> FALSE]

(* live is what the analysis says reaches the operation; end is the region *)
(* of a yield that runs before control leaves.                             *)
Op(kind, v, type, args, regions) ==
    [k |-> kind, v |-> v, t |-> type, a |-> args, r |-> regions,
     end |-> <<>>, live |-> {}]

Yield(args) == Op("yield", NoValue, Plain, args, <<>>)
Destroy(x) == Op("destroy", x, Plain, <<Value(x)>>, <<>>)

Ends(region) == Last(region).k = "yield"

(***************************************************************************)
(* Which values have to be destroyed.                                      *)
(***************************************************************************)
RECURSIVE RequiresDestructor(_)
RequiresDestructor(type) ==
    \/ type.kind = "class" /\ type.drop
    \/ /\ type.kind \in {"class", "array", "alternative"}
       /\ \E i \in DOMAIN type.of : RequiresDestructor(type.of[i])

(* Fault: what a call returns is left to whoever stores it.                *)
CollectedDeclarations(op) ==
    op.k = "decl" /\ op.t.kind # "reference" /\ RequiresDestructor(op.t)

(* A declaration that is not of a reference, a call that returns a value. *)
Collected(op) ==
    /\ op.k \in {"decl", "call"}
    /\ op.t.kind # "reference"
    /\ RequiresDestructor(op.t)

(***************************************************************************)
(* The analysis. `in` is what may have been defined when control reaches   *)
(* an operation; an act forgets everything, and so does an actions         *)
(* statement, at its entry too. The edges between regions are those of     *)
(* getSuccessorRegions. A return, a break or a continue ends its block     *)
(* without a yield, so what reaches it is handed to nobody. Entering or    *)
(* leaving an operation with regions applies the operation's own transfer  *)
(* function, which is why a declaration reaches its initialiser.           *)
(***************************************************************************)
RECURSIVE Flow(_, _)

FlowRegion(ops, in) ==
    FoldLeft(LAMBDA f, op : LET flow == Flow(op, f.out)
                            IN [ops |-> Append(f.ops, flow.op), out |-> flow.out],
             [ops |-> <<>>, out |-> in], ops)

(* The first region, then each of the others from what it left.            *)
InTurn(op, in) ==
    LET first == FlowRegion(op.r[1], in)
    IN FoldLeft(LAMBDA done, r : Append(done, FlowRegion(r, first.out)),
                <<first>>, Tail(op.r))

Enters(op, in) ==
    CASE op.k = "decl" -> in \cup {op.v}
      [] op.k = "actions" -> {}
      [] OTHER -> in

(* From the body of a loop control goes back to its condition.             *)
Around(op, in) ==
    IF op.k = "while" THEN in \cup InTurn(op, in)[2].out ELSE in

Through(op, in) ==
    CASE op.r = <<>> -> <<>>
      [] op.k = "actions" ->
           FoldLeft(LAMBDA done, r : Append(done, FlowRegion(r, in)), <<>>, op.r)
      [] OTHER -> InTurn(op, Around(op, in))

Leaves(op, in, inner) ==
    CASE op.k = "call" -> in \cup {op.v}
      [] op.k = "decl" -> inner[1].out \cup {op.v}
      [] op.k \in {"act", "actions", "return", "break", "continue"} -> {}
      [] op.k \in {"exp", "list", "while"} -> inner[1].out
      [] op.k = "if" -> inner[2].out \cup inner[3].out
      [] op.k \in {"and", "or"} -> inner[1].out \cup inner[2].out
      [] OTHER -> in

Flow(op, in) ==
    LET inner == Through(op, Enters(op, in))
    IN [op |-> [op EXCEPT !.live = in,
                          !.r = FoldLeft(LAMBDA rs, f : Append(rs, f.ops), <<>>, inner)],
        out |-> Leaves(op, in, inner)]

Analysed(body) == FlowRegion(body, {}).ops

(***************************************************************************)
(* The pass. A value dies where control leaves the region it is defined    *)
(* in: at the yield of the region, unless the yield returns it; at every   *)
(* return in it; at every break and continue of a loop around the region;  *)
(* and before every act and actions statement in it, whichever comes       *)
(* first. Of these the analysis keeps the ones it reaches.                 *)
(*                                                                         *)
(*  exit    what also dies at the yield of this region (it is the region   *)
(*          of a return, a break or a continue)                            *)
(*  ret     values that die at a return here                               *)
(*  loop    values that die at a break or continue here                    *)
(*  scope   values of the regions around, before or after this one         *)
(***************************************************************************)
DefinedIn(ops, upTo) == {ops[i].v : i \in {j \in 1..upTo : Collected(ops[j])}}

IncreasingFrom(S) ==
    IF S = {} THEN <<>>
    ELSE SelectSeq([n \in 1..Max(S) |-> n], LAMBDA n : n \in S)

DestroyAll(values) ==
    LET inOrder == IncreasingFrom(values)
    IN [i \in DOMAIN inOrder |-> Destroy(inOrder[i])]

(* Fault: what the yield returns dies with the rest.                       *)
ReturnedNowhere(yield) == {}

ReturnedBy(yield) == {yield.a[i].of : i \in {j \in DOMAIN yield.a : ~yield.a[j].ref}}

EndOfLifeAt(yield, values) ==
    [yield EXCEPT !.end = DestroyAll((values \cap yield.live) \ ReturnedBy(yield))]

RECURSIVE Destroying(_, _, _, _, _)

Descend(op, exit, ret, loop, scope) ==
    [op EXCEPT !.r = [i \in DOMAIN op.r |->
                        Destroying(op.r[i], exit, ret, loop, scope)]]

Destroying(ops, exit, ret, loop, scope) ==
    LET all == scope \cup DefinedIn(ops, Len(ops))
        At(i) ==
            LET op == ops[i]
                here == DefinedIn(ops, i - 1)
                gone == ret \cup here
            IN CASE op.k = "yield" -> <<EndOfLifeAt(op, exit \cup here)>>
                 [] op.k = "return" -> <<Descend(op, gone, gone, {}, all)>>
                 [] op.k \in {"break", "continue"} ->
                        <<Descend(op, loop \cup here, gone, {}, all)>>
                 [] op.k = "while" -> <<Descend(op, {}, gone, {}, all)>>
                 [] op.k \in {"act", "actions"} ->
                        Append(DestroyAll(all \cap op.live),
                               Descend(op, {}, gone, loop \cup here, all))
                 [] OTHER -> <<Descend(op, {}, gone, loop \cup here, all)>>
    IN FlattenSeq([i \in DOMAIN ops |-> At(i)])

Destructed(body) == Destroying(Analysed(body), {}, {}, {}, {})

=============================================================================
