------------------------------ MODULE Flatten ------------------------------
(***************************************************************************)
(* LowerToCf.cpp takes the tree of Scopes to a control flow graph, one     *)
(* statement at a time; ActionStatementsToCoro.cpp cuts the graph of an    *)
(* action function at its acts and makes one copy of it per act, in which  *)
(* execution starts behind the act.                                        *)
(*                                                                         *)
(* A function under translation is a record: code gives the operations of  *)
(* a block, order is the order of the blocks in the region, leave is where *)
(* a break or a continue goes, name is the value a declared variable or a  *)
(* short circuiting operation stands for.                                  *)
(*                                                                         *)
(* Terminators of the graph: br and cbr with their blocks in to, alts (the *)
(* flat actions statement, a block per alternative), suspend (what an act  *)
(* became), yield.                                                         *)
(***************************************************************************)
EXTENDS Scopes

Entry == 1

Jump(kind, args, blocks) == [k |-> kind, v |-> NoValue, a |-> args, to |-> blocks]
Br(b) == Jump("br", <<>>, <<b>>)
CondBr(arg, whenTrue, whenFalse) == Jump("cbr", <<arg>>, <<whenTrue, whenFalse>>)
Alts(blocks) == Jump("alts", <<>>, blocks)
Assign(x, arg) == Op("assign", x, Plain, <<arg>>, <<>>)

Start(body) == [code |-> (Entry :> body), order |-> <<Entry>>,
                leave |-> <<>>, name |-> <<>>]

Fresh(fun, i) == Max(DOMAIN fun.code) + i

(* What is left of a region when its yield is erased: the operations that  *)
(* run at its end take the yield's place.                                  *)
Unyielded(ops) == Front(ops) \o Last(ops).end
YieldedBy(ops) == Last(ops).a[1]

(***************************************************************************)
(* The operations of a block before and after position i.                  *)
(***************************************************************************)
Before(fun, b, i) == SubSeq(fun.code[b], 1, i - 1)
After(fun, b, i) == SubSeq(fun.code[b], i + 1, Len(fun.code[b]))

Behind(order, b, blocks) ==
    LET p == SelectInSeq(order, LAMBDA c : c = b)
    IN SubSeq(order, 1, p) \o blocks \o SubSeq(order, p + 1, Len(order))

(* mergeYieldsIntoSplittedBlock: the operations after a statement follow   *)
(* the only region that falls through, or are a block all of them jump to, *)
(* or are erased when none does.                                           *)
MergeYields(fun, blocks, rest) ==
    LET through == SelectSeq(blocks, LAMBDA b : Ends(fun.code[b]))
        after == Fresh(fun, 1)
        ToAfter(b) == Append(Unyielded(fun.code[b]), Br(after))
    IN CASE Len(through) = 0 -> fun
         [] Len(through) = 1 ->
              [fun EXCEPT !.code[through[1]] = Unyielded(@) \o rest]
         [] OTHER ->
              [fun EXCEPT
                 !.code = [b \in DOMAIN @ |-> IF b \in ToSet(through)
                                              THEN ToAfter(b) ELSE @[b]]
                          @@ (after :> rest),
                 !.order = Behind(@, Last(blocks), <<after>>)]

(* A list, an expression: the region goes where the statement was.         *)
FlattenBody(fun, b, i) ==
    MergeYields([fun EXCEPT !.code[b] = Before(fun, b, i) \o @[i].r[1]],
                <<b>>, After(fun, b, i))

FlattenIf(fun, b, i) ==
    LET op == fun.code[b][i]
        whenFalse == Fresh(fun, 1)
        whenTrue == Fresh(fun, 2)
        condition == Before(fun, b, i) \o Unyielded(op.r[1])
                     \o <<CondBr(YieldedBy(op.r[1]), whenTrue, whenFalse)>>
    IN MergeYields(
         [fun EXCEPT !.code = [@ EXCEPT ![b] = condition]
                              @@ (whenTrue :> op.r[2]) @@ (whenFalse :> op.r[3]),
                     !.order = Behind(@, b, <<whenFalse, whenTrue>>)],
         <<whenFalse, whenTrue>>, After(fun, b, i))

(* The break and continue statements of a loop, not of the loops in it.    *)
RECURSIVE LeavesOf(_, _)
LeavesOf(ops, kind) ==
    UNION {IF ops[i].k = kind THEN {ops[i].v}
           ELSE IF ops[i].k = "while" THEN {}
           ELSE UNION {LeavesOf(ops[i].r[j], kind) : j \in DOMAIN ops[i].r}
           : i \in DOMAIN ops}

FlattenWhile(fun, b, i) ==
    LET op == fun.code[b][i]
        condition == Fresh(fun, 1)
        body == Fresh(fun, 2)
        after == Fresh(fun, 3)
        Leaving(kind) == LeavesOf(op.r[1], kind) \cup LeavesOf(op.r[2], kind)
        test == Append(Unyielded(op.r[1]), CondBr(YieldedBy(op.r[1]), body, after))
        again == IF Ends(op.r[2]) THEN Append(Unyielded(op.r[2]), Br(condition))
                 ELSE op.r[2]
    IN [fun EXCEPT
          !.code = [@ EXCEPT ![b] = Append(Before(fun, b, i), Br(condition))]
                   @@ (condition :> test) @@ (body :> again)
                   @@ (after :> After(fun, b, i)),
          !.order = Behind(@, b, <<condition, body, after>>),
          !.leave = [x \in Leaving("break") |-> after]
                    @@ [x \in Leaving("continue") |-> condition] @@ @]

FlattenActions(fun, b, i) ==
    LET op == fun.code[b][i]
        block == [j \in DOMAIN op.r |-> Fresh(fun, j)]
    IN MergeYields(
         [fun EXCEPT
            !.code = [@ EXCEPT ![b] = Append(Before(fun, b, i), Alts(block))]
                     @@ [c \in ToSet(block) |-> op.r[SelectInSeq(block, LAMBDA d : d = c)]],
            !.order = Behind(@, b, block)],
         block, After(fun, b, i))

(* A short circuiting operation. Its result is a boolean both sides assign *)
(* before the values of that side are destroyed; the right side runs when  *)
(* the left one does not decide.                                           *)

(* Fault: the result is stored behind the destructions.                    *)
SidedLate(op, region) ==
    Unyielded(region) \o <<Assign(op.v, YieldedBy(region))>>

Sided(op, region) ==
    Front(region) \o <<Assign(op.v, YieldedBy(region))>> \o Last(region).end

(* Fault: the left side decides as in a conjunction.                       *)
AlwaysAnd(op, right, after) == CondBr(Value(op.v), right, after)

Short(op, right, after) ==
    IF op.k = "and" THEN CondBr(Value(op.v), right, after)
    ELSE CondBr(Value(op.v), after, right)

FlattenShort(fun, b, i) ==
    LET op == fun.code[b][i]
        right == Fresh(fun, 1)
        after == Fresh(fun, 2)
    IN [fun EXCEPT
          !.code = [@ EXCEPT ![b] = Before(fun, b, i) \o Sided(op, op.r[1])
                                    \o <<Short(op, right, after)>>]
                   @@ (right :> Append(Sided(op, op.r[2]), Br(after)))
                   @@ (after :> After(fun, b, i)),
          !.order = Behind(@, b, <<right, after>>)]

(* A declaration: the variable is the value its initialiser yields.        *)
FlattenDeclaration(fun, b, i) ==
    LET op == fun.code[b][i]
    IN [fun EXCEPT !.code[b] = Before(fun, b, i) \o Unyielded(op.r[1])
                               \o After(fun, b, i),
                   !.name = (op.v :> YieldedBy(op.r[1]).of) @@ @]

(* A return ends its block; the yield of its region is the function's.     *)
FlattenReturn(fun, b, i) ==
    [fun EXCEPT !.code[b] = Before(fun, b, i) \o After(fun, b, i) \o @[i].r[1]]

(* A break or a continue: what is destroyed on leaving, and the jump.      *)
FlattenLeave(fun, b, i) ==
    LET op == fun.code[b][i]
    IN [fun EXCEPT !.code[b] = Before(fun, b, i) \o Unyielded(op.r[1])
                               \o <<Br(fun.leave[op.v])>> \o After(fun, b, i)]

(* squashCF asks for the first statement of each kind, in this order, and  *)
(* starts over as long as a round found one.                               *)
Kinds == <<"return", "if", "list", "exp", "decl", "while", "actions",
           "and", "or", "break", "continue">>

Holding(fun, kind) ==
    SelectSeq(fun.order, LAMBDA b : \E i \in DOMAIN fun.code[b] :
                                        fun.code[b][i].k = kind)

Squashed(fun, kind) ==
    LET b == Head(Holding(fun, kind))
        i == Min({j \in DOMAIN fun.code[b] : fun.code[b][j].k = kind})
    IN CASE kind = "return" -> FlattenReturn(fun, b, i)
         [] kind = "if" -> FlattenIf(fun, b, i)
         [] kind \in {"list", "exp"} -> FlattenBody(fun, b, i)
         [] kind = "decl" -> FlattenDeclaration(fun, b, i)
         [] kind = "while" -> FlattenWhile(fun, b, i)
         [] kind = "actions" -> FlattenActions(fun, b, i)
         [] kind \in {"and", "or"} -> FlattenShort(fun, b, i)
         [] kind \in {"break", "continue"} -> FlattenLeave(fun, b, i)

(***************************************************************************)
(* The graph.                                                              *)
(***************************************************************************)
Successors(ops) == IF "to" \in DOMAIN Last(ops) THEN ToSet(Last(ops).to) ELSE {}

RECURSIVE ReachedFrom(_, _, _)
ReachedFrom(code, without, found) ==
    LET next == (UNION {Successors(code[b]) : b \in found \ without}) \ without
    IN IF next \subseteq found THEN found
       ELSE ReachedFrom(code, without, found \cup next)

(* pruneUnrechableBlocks, for a function entered at any block of entries.  *)
Pruned(code, entries) ==
    [b \in ReachedFrom(code, {}, entries) |-> code[b]]

(* cleanupYields: what the function returns is copied, then its locals are *)
(* destroyed, then it returns.                                             *)
CleanedUp(code) ==
    [b \in DOMAIN code |->
       IF Ends(code[b]) /\ Last(code[b]).end # <<>>
       THEN LET out == Last(code[b])
            IN Front(code[b])
               \o [j \in DOMAIN out.a |-> Op("copy", NoValue, Plain, <<out.a[j]>>, <<>>)]
               \o out.end \o <<Yield(SelectSeq(out.a, LAMBDA x : ~x.ref))>>
       ELSE code[b]]

(* splitActionBlocks: a block is cut behind each act in it; the act is a   *)
(* suspension, the block behind it where the act resumes.                  *)
RECURSIVE SplitAtActs(_)
SplitAtActs(split) ==
    LET ActsIn(b) == {i \in DOMAIN split.code[b] : split.code[b][i].k = "act"}
        cut == {b \in DOMAIN split.code : ActsIn(b) # {}}
    IN IF cut = {} THEN split
       ELSE LET b == Min(cut)
                i == Min(ActsIn(b))
                resume == Fresh(split, 1)
                ops == split.code[b]
            IN SplitAtActs(
                 [code |-> [split.code EXCEPT
                              ![b] = SubSeq(ops, 1, i - 1)
                                     \o <<[ops[i] EXCEPT !.k = "suspend"]>>]
                           @@ (resume :> SubSeq(ops, i + 1, Len(ops))),
                  resume |-> split.resume @@ (ops[i].v :> resume)])

Split(code) == SplitAtActs([code |-> code, resume |-> <<>>])

(* The value an operand stands for.                                        *)
Named(name, x) == IF x \in DOMAIN name THEN name[x] ELSE x
MemoryOf(name, arg) == Named(name, arg.of)

(* dropUselessDestructors: a call goes when an operand of it is not defined*)
(* on every path to the call.                                              *)
Definitions(code, x) ==
    {d \in UNION {{<<b, i>> : i \in DOMAIN code[b]} : b \in DOMAIN code} :
        code[d[1]][d[2]].k \in {"construct", "call"} /\ code[d[1]][d[2]].v = x}

Dominated(code, entries, x, b, i) ==
    \E d \in Definitions(code, x) :
       \/ d[1] = b /\ d[2] < i
       \/ d[1] # b /\ b \notin ReachedFrom(code, {d[1]}, entries \ {d[1]})

Calls == {"destroy", "use", "call"}

WithoutUseless(code, entries, name) ==
    LET Kept(b, i) ==
            \/ code[b][i].k \notin Calls
            \/ \A j \in DOMAIN code[b][i].a :
                  Dominated(code, entries, MemoryOf(name, code[b][i].a[j]), b, i)
        KeptIn(b) == {i \in DOMAIN code[b] : Kept(b, i)}
    IN [b \in DOMAIN code |->
          LET at == IncreasingFrom(KeptIn(b))
          IN [j \in DOMAIN at |-> code[b][at[j]]]]

(* createDispatcher: the copy that resumes behind an act has one way in. A *)
(* synthetic act has no copy: the function itself is entered, through a    *)
(* switch that goes to every resume point.                                 *)
EntriesOf(split, act, synthetic) ==
    LET all == {Entry} \cup {split.resume[a] : a \in DOMAIN split.resume}
    IN CASE act = NoValue -> {Entry}
         [] act \in synthetic -> all
         [] OTHER -> {split.resume[act]}

=============================================================================
