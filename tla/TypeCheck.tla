----------------------------- MODULE TypeCheck -----------------------------
(***************************************************************************)
(* The passes that give a parsed module its types (TypeCheck.cpp). Classes *)
(* are declared in the order of their dependencies, then the types of the  *)
(* functions are known, then every action function is checked, because     *)
(* what its acts are called with is in its body and its class is what its  *)
(* variables are, and at last the bodies of the functions.                 *)
(*                                                                         *)
(* A body is checked one operation at a time, in the order the parser made *)
(* them. Checking a call whose result is the class of an action checks     *)
(* that action on the spot, with a builder of its own: the stack has one   *)
(* frame for every body whose check has begun.                             *)
(***************************************************************************)
EXTENDS Overloads, ActionChecks

CONSTANT Programs

VARIABLES verdict,    \* why it was rejected, or "none", or "accepted"
          order,      \* classes and aliases, sorted by what they use
          bodies,     \* what the ones that are deduced are made of
          mains,      \* the inputs of the actions checked for their own sake
          module,     \* the bodies that are checked, and their calls
          bound       \* what every use of a name was bound to

tables == <<listed, calls>>
checking == <<tables, stack, mains, checked, module, bound>>

-----------------------------------------------------------------------------
(* Classes and aliases.                                                    *)

Names(decls) == {decls[i].name : i \in DOMAIN decls}
Decl(n) == LET d == program.classes IN d[CHOOSE i \in DOMAIN d : d[i].name = n]
BuiltinNames == {"Int", "Bool", "Float", "Byte", "Void"}

(* collectClassUsedTyepNames: the size of an array is not looked at. *)
RECURSIVE Collected(_)
Collected(w) ==
    (IF w.k = "use" THEN {w.n} ELSE {}) \cup
    UNION {Collected(w.sub[i]) : i \in {i \in DOMAIN w.sub : w.k # "array" \/ i = 1}}

UsedBy(d) ==
    Names(program.classes) \cap
        ((UNION {Collected(w) : w \in ToSet(d.uses)}) \ {p.n : p \in ToSet(d.params)})

Remaining == Names(program.classes) \ ToSet(order)
Ready == {n \in Remaining : UsedBy(Decl(n)) \cap Remaining = {}}

Give(why) ==
    /\ verdict' = why
    /\ phase' = "done"
    /\ UNCHANGED <<program, order, bodies, checking>>

Go(next) ==
    /\ phase' = next
    /\ UNCHANGED <<program, verdict>>

(* findClassDecls, declareActionEntities: one meaning for every name. *)
OneMeaning ==
    /\ Cardinality(Names(program.classes)) = Len(program.classes)
    /\ Cardinality(ActionClasses) = Len(program.acts)
    /\ ActionClasses \cap (Names(program.classes) \cup BuiltinNames) = {}

DeclareClasses ==
    /\ phase = "declare"
    /\ IF OneMeaning THEN Go("sort") /\ UNCHANGED <<order, bodies, checking>>
       ELSE Give("clash")

(* getClassDeclarationSortedByDependencies: in a round, the ones that use  *)
(* nothing that remained when it began, in the order of their pointers.    *)
Emit ==
    /\ phase = "sort" /\ Ready # {}
    /\ \E round \in SetToSeqs(Ready) : order' = order \o round
    /\ UNCHANGED <<program, phase, verdict, bodies, checking>>

MutualDependency ==
    /\ phase = "sort" /\ Remaining # {} /\ Ready = {}
    /\ Give("mutual")

Sorted ==
    /\ phase = "sort" /\ Remaining = {}
    /\ Go("deduce")
    /\ UNCHANGED <<order, bodies, checking>>

(* makeTypeTable. What an alias stands for is written until it is checked. *)
Meaning(d) ==
    CASE ~d.alias -> Class(d.name, d.params)
      [] d.name \in DOMAIN bodies -> Alias(bodies[d.name][1])
      [] OTHER -> Alias(d.uses[1])

TypeTable ==
    [n \in BuiltinNames |-> <<Builtin(n)>>]
    @@ [n \in ActionClasses |-> <<Class(n, <<>>)>>]
    @@ [n \in Names(program.classes) |-> <<Meaning(Decl(n))>>]

TraitTable == [n \in DOMAIN Traits |-> <<Type("trait", n, <<>>)>>]
ParamTable(params) == [n \in {p.n : p \in ToSet(params)} |-> SelectSeq(params, LAMBDA p : p.n = n)]

(* deduceClassBody, TypeAliasOp::typeCheck. No trait has a type yet. *)
Fields(d) ==
    UNION {ConvertedAll(<<TypeTable, ParamTable(params)>>, d.uses) :
              params \in ConvertedAll(<<TypeTable>>, d.params)}

NextClass == Decl(order[Cardinality(DOMAIN bodies) + 1])

DeduceBody ==
    /\ phase = "deduce" /\ Cardinality(DOMAIN bodies) < Len(order)
    /\ \E fields \in Fields(NextClass) : bodies' = (NextClass.name :> fields) @@ bodies
    /\ UNCHANGED <<program, phase, verdict, order, checking>>

UnknownField ==
    /\ phase = "deduce" /\ Cardinality(DOMAIN bodies) < Len(order)
    /\ Fields(NextClass) = {}
    /\ Give("unknown type")

-----------------------------------------------------------------------------
(* The types of functions and actions.                                     *)

ModuleTypes == <<TypeTable @@ TraitTable>>

(* typeCheckFunctionDeclaration *)
Signatures(d) ==
    UNION {{[f |-> f, params |-> params] : f \in
               {f \in ConvertedFunction(Append(ModuleTypes, ParamTable(params)), d.f) :
                   \A t \in ToSet(f.ins) \cup ToSet(f.out) : t.k \notin {"frm", "ctx"}}} :
              params \in ConvertedAll(ModuleTypes, d.params)}

Signature(i) == CHOOSE s \in Signatures(program.funs[i]) : TRUE

(* deduceActionsMainFunctionType *)
ActionInputs(a) == ConvertedAll(ModuleTypes, program.acts[a].ins)
Inputs(a) == CHOOSE ins \in ActionInputs(a) : TRUE
ClassOf(a) == Class(program.acts[a].cls, <<>>)

DeclareFunctions ==
    /\ phase = "deduce" /\ Cardinality(DOMAIN bodies) = Len(order)
    /\ IF /\ \A i \in DOMAIN program.funs : Signatures(program.funs[i]) # {}
          /\ \A a \in Acts : ActionInputs(a) # {}
       THEN Go("actions") /\ UNCHANGED <<order, bodies, checking>>
       ELSE Give("unknown type")

-----------------------------------------------------------------------------
(* The table of the module: its functions, and for every operation that is *)
(* listed the action, is_done and, once it is checked, its acts.           *)

FunctionSymbol(i) ==
    LET s == Signature(i) IN
    Callable("fun", <<"fun", i>>, s.f, s.params, program.funs[i].member, program.funs[i].file)

(* distinctActionStatements: one function for a name. *)
Distinct(acts) ==
    SelectSeq([i \in DOMAIN acts |-> [acts[i] EXCEPT !.at = i]],
              LAMBDA s : ~\E j \in 1..(s.at - 1) : acts[j].name = s.name)

Entries(op, acts) ==
    LET a == op[2]
        Entry(n, f) == [name |-> n,
                        symbol |-> Callable("act", op, f, <<>>, FALSE, program.acts[a].file)]
    IN  <<Entry(program.acts[a].name, Function(Inputs(a), <<ClassOf(a)>>)),
          Entry("is_done", Function(<<ClassOf(a)>>, <<BoolType>>))>>
        \o [i \in DOMAIN Distinct(acts) |->
               Entry(Distinct(acts)[i].name, Function(<<ClassOf(a)>> \o Distinct(acts)[i].ts, <<>>))]

EntriesNow(op) == Entries(op, IF op[3] = Checked THEN checked[op[2]] ELSE <<>>)

AddEntries(table, op) == FoldLeft(LAMBDA t, e : Add(t, e.name, e.symbol), table, EntriesNow(op))

(* makeValueTable, addActionToRootTable *)
Root ==
    FoldLeft(AddEntries,
             FoldLeft(LAMBDA t, i : Add(t, program.funs[i].name, FunctionSymbol(i)),
                      NoScope, [i \in DOMAIN program.funs |-> i]),
             listed)

(* ModuleBuilder without a parent. *)
NewRoot == [a \in Acts |-> Current(a)]

(* removeActionFromRootTable *)
\* Fault: the table keeps what is about to be replaced.
EraseNothing(op) == listed

Without(op) == SelectSeq(listed, LAMBDA o : o # op)

-----------------------------------------------------------------------------
(* Bodies. A statement and what it is taken apart into are operations; an  *)
(* operand that was computed waits in vals.                                *)

Operand(t) == [t |-> t, name |-> {}, test |-> {}]
ValueSymbol(id, t, as) == [kind |-> "value", id |-> <<"value", id>>, t |-> t, as |-> as]
NotNarrowed == Type("none", "", <<>>)

Enter(names, guard, loop, links) ==
    [o |-> "enter", names |-> names, guard |-> guard, loop |-> loop, links |-> links]
EnterPlain == Enter(NoScope, {}, FALSE, <<>>)
Leave == [o |-> "leave"]
Block(stmts) == <<EnterPlain>> \o stmts \o <<Leave>>

ArgumentScope(args, ts) ==
    FoldLeft(LAMBDA t, i : Add(t, args[i].n, ValueSymbol(args[i].id, ts[i], NotNarrowed)),
             NoScope, [i \in DOMAIN args |-> i])

(* FunctionBase::typeCheck: the body, then the precondition, each with the *)
(* arguments in a scope of its own.                                        *)
Regions(d, ts) ==
    LET In(stmts) == <<Enter(ArgumentScope(d.args, ts), {}, FALSE, <<>>)>> \o stmts \o <<Leave>>
    IN  In(d.body) \o In(d.pre)

Frame(id, d, types, outermost, todo) ==
    [id |-> id, file |-> d.file, types |-> types, scopes |-> <<outermost>>,
     inside |-> <<[guard |-> {}, loop |-> FALSE]>>, todo |-> todo, vals |-> <<>>,
     links |-> <<>>, acts |-> <<>>, actionOf |-> ActionsNow]

ActionFrame(a) ==
    Frame(Op(a, Unchecked), program.acts[a], ModuleTypes, NoScope, Regions(program.acts[a], Inputs(a)))

(* addTraitToAviableOverloads: what the traits of the parameters promise   *)
(* are functions of the scope.                                             *)
TraitSymbol(trait, i, file) ==
    Callable("trait", <<"trait", trait, i>>, Traits[trait][i].f, <<>>, FALSE, file)

AddTrait(table, trait, file) ==
    FoldLeft(LAMBDA t, i : Add(t, Traits[trait][i].name, TraitSymbol(trait, i, file)),
             table, [i \in DOMAIN Traits[trait] |-> i])

ParamScope(params, file) ==
    FoldLeft(LAMBDA t, p : CASE HasTrait(p) -> AddTrait(t, p.sub[1].n, file)
                             [] p.sub # <<>> -> Add(t, p.n, ValueSymbol(p.n, IntegerType, NotNarrowed))
                             [] OTHER -> t,
             NoScope, params)

FunctionFrame(i) ==
    LET d == program.funs[i]
        s == Signature(i)
    IN  Frame(<<"fun", i>>, d, Append(ModuleTypes, ParamTable(s.params)),
              ParamScope(s.params, d.file), Regions(d, s.f.ins))

Top == Last(stack)
Now == Head(Top.todo)
TopSite == Site(Top.file, <<Root>> \o Top.scopes)

Checks(kind) == stack # <<>> /\ Top.todo # <<>> /\ Now.o = kind

(* What is left to do after an operation, and the operands it took. *)
After(more, taken, given) ==
    [Top EXCEPT !.todo = more \o Tail(@),
                !.vals = SubSeq(@, 1, Len(@) - taken) \o given]

Replaced(frame) == Append(Front(stack), frame)

Step(frame) ==
    /\ stack' = Replaced(frame)
    /\ UNCHANGED <<program, phase, verdict, order, bodies, tables, mains, checked, module, bound>>

Operands(n) == SubSeq(Top.vals, Len(Top.vals) - n + 1, Len(Top.vals))
OperandTypes(n) == [i \in 1..n |-> Operands(n)[i].t]

-----------------------------------------------------------------------------
(* Expressions, operand by operand.                                        *)

RECURSIVE Flat(_)
Flat(e) ==
    CASE e.o \in {"call", "list"} -> FlattenSeq([i \in DOMAIN e.args |-> Flat(e.args[i])]) \o <<e>>
      [] e.o = "is" -> Flat(e.of) \o <<e>>
      [] e.o = "can" /\ e.of.o = "call" -> Front(Flat(e.of)) \o <<[o |-> "ask"], e.of, e>>
      [] e.o = "can" -> Flat(e.of) \o <<e>>
      [] e.o = "both" -> Flat(e.left) \o <<[o |-> "left"]>> \o Flat(e.right) \o <<e>>
      [] OTHER -> <<e>>

(* Constant, ConstructOp *)
Value ==
    /\ Checks("value")
    /\ LET ts == Converted(Top.types, Now.t)
       IN  IF ts = {} THEN Give("unknown type")
           ELSE \E t \in ts : Step(After(<<>>, 0, <<Operand(t)>>))

Unwrapped(t) == IF t.k \in {"frm", "ctx"} THEN t.sub[1] ELSE t

(* UnresolvedReference: the newest of the names, whatever else has it; a   *)
(* function is a value of the type of functions.                           *)
FunctionType == Type("function", "", <<>>)

Ref ==
    /\ Checks("ref")
    /\ LET found == Get(TopSite.scopes, Now.n)
       IN  CASE found = <<>> -> Give("unknown name")
             [] found # <<>> /\ found[1].kind # "value" ->
                    Step(After(<<>>, 0, <<Operand(FunctionType)>>))
             [] OTHER ->
                /\ stack' = Replaced(After(<<>>, 0, <<[t |-> Unwrapped(found[1].t),
                                                       name |-> {Now.n}, test |-> {}]>>))
                /\ bound' = (Now.id :> [decl |-> found[1].id, as |-> found[1].as]) @@ bound
                /\ UNCHANGED <<program, phase, verdict, order, bodies, tables, mains, checked, module>>

(* UncheckedIsOp *)
Is ==
    /\ Checks("is")
    /\ LET ts == Converted(Top.types, Now.t)
       IN  IF ts = {} THEN Give("unknown type")
           ELSE \E t \in ts :
                   Step(After(<<>>, 1, <<[t |-> BoolType, name |-> {},
                                          test |-> {[t |-> Last(Top.vals).t, tested |-> t,
                                                     name |-> Last(Top.vals).name]}]>>))

(* ShortCircuitingAnd, ShortCircuitingOr: what they test narrows nothing. *)
Left ==
    /\ Checks("left")
    /\ IF Last(Top.vals).t = BoolType THEN Step(After(<<>>, 0, <<>>)) ELSE Give("condition")

Both ==
    /\ Checks("both")
    /\ IF Last(Top.vals).t = BoolType THEN Step(After(<<>>, 2, <<Operand(BoolType)>>))
       ELSE Give("condition")

(* InitializerListOp *)
RECURSIVE OfBuiltins(_)
OfBuiltins(t) ==
    \/ t.k = "builtin"
    \/ t.k = "array" /\ OfBuiltins(t.sub[1])

InitializerList ==
    /\ Checks("list")
    /\ LET ts == OperandTypes(Len(Now.args))
       IN  IF \A i \in DOMAIN ts : ts[i] = ts[1] /\ OfBuiltins(ts[1])
           THEN Step(After(<<>>, Len(ts), <<Operand(Array(ts[1], Literal(ToString(Len(ts)))))>>))
           ELSE Give("list")

-----------------------------------------------------------------------------
(* Calls. A link is the function a call goes to; for a template it is open *)
(* until the template has an instance.                                     *)

Open == <<"open">>
Link(s, f, guards, file) ==
    [kind |-> s.kind, of |-> s.id, f |-> f, guards |-> guards, file |-> file,
     to |-> IF IsTemplateFunction(s.f) THEN Open ELSE s.id]

GuardsOf(frame) == UNION {frame.inside[i].guard : i \in DOMAIN frame.inside}

(* instantiateOverload *)
LinksAt(site, guards, member, name, ts) ==
    UNION {{Link(s, f, guards, site.file) :
               f \in IF IsTemplateFunction(s.f) THEN CallType(site, s, ts) ELSE {s.f}} :
              s \in Overload(site, member, name, ts)}
Links(member, name, ts) == LinksAt(TopSite, GuardsOf(Top), member, name, ts)

Called(l, taken, more) ==
    [After(more, taken, <<Operand(ResultOrVoid(l.f))>>) EXCEPT !.links = Append(@, l)]

(* maybeInstantiateAction. *)
ReturnsAction(l) == l.f.out # <<>> /\ l.f.out[1].n \in DOMAIN Top.actionOf /\ l.f.out[1].k = "class"
ActionOf(l) == Top.actionOf[l.f.out[1].n]
ReservedNames == {"init", "drop", "assign"}

Numbers == {Builtin("Int"), Builtin("Float"), Builtin("Bool"), Builtin("Byte")}
Casts == [n \in {"int", "float", "bool", "byte"} |->
             Builtin(CASE n = "int" -> "Int" [] n = "float" -> "Float" [] n = "bool" -> "Bool" [] OTHER -> "Byte")]
IsCast(op) == op.f \in DOMAIN Casts /\ Len(op.args) = 1 /\ Last(Top.vals).t \in Numbers

Cast ==
    /\ Checks("call") /\ IsCast(Now)
    /\ Step(After(<<>>, 1, <<Operand(Casts[Now.f])>>))

CalledLinks == Links(Now.member, Now.f, OperandTypes(Len(Now.args)))

NoFunction ==
    /\ Checks("call") /\ ~IsCast(Now) /\ CalledLinks = {}
    /\ Give("no function")

CallFunction ==
    /\ Checks("call") /\ ~IsCast(Now)
    /\ \E l \in CalledLinks :
          /\ ~ReturnsAction(l)
          /\ Step(Called(l, Len(Now.args), <<>>))

\* Fault: an action whose check is under way passes for checked.
NeedsCheckOnce(op) == op[3] = Unchecked /\ ~Under(op[2])

NeedsCheck(op) == op[3] = Unchecked

CallAction ==
    /\ Checks("call") /\ ~IsCast(Now)
    /\ \E l \in CalledLinks :
          /\ ReturnsAction(l) /\ ~Erased(ActionOf(l))
          /\ LET op == ActionOf(l)
                 called == Called(l, Len(Now.args), <<>>)
             IN  CASE ~NeedsCheck(op) ->
                        /\ listed' = Append(Without(op), op)
                        /\ calls' = calls \cup Gives(op)
                        /\ stack' = Replaced(called)
                        /\ UNCHANGED <<program, phase, verdict, order, bodies, mains, checked, module, bound>>
                   [] NeedsCheck(op) /\ program.acts[op[2]].name \in ReservedNames -> Give("reserved")
                   [] NeedsCheck(op) /\ Under(op[2]) -> Give("recursive")
                   [] OTHER ->
                        /\ listed' = Without(op)
                        /\ calls' = calls \cup Gives(op)
                        /\ stack' = Append(Replaced([called EXCEPT !.actionOf =
                                       [c \in DOMAIN @ \ {l.f.out[1].n} |-> @[c]]]), ActionFrame(op[2]))
                        /\ UNCHANGED <<program, phase, verdict, order, bodies, mains, checked, module, bound>>

(* getActionOf gives an operation that was erased when it was replaced. *)
CallErased ==
    /\ Checks("call") /\ ~IsCast(Now)
    /\ \E l \in CalledLinks : ReturnsAction(l) /\ Erased(ActionOf(l))
    /\ Give("undefined")

(* UncheckedCanOp: can refers to a call, and a cast is none. *)
Ask ==
    /\ Checks("ask")
    /\ IF IsCast(Top.todo[2]) THEN Give("can") ELSE Step(After(<<>>, 0, <<>>))

Can ==
    /\ Checks("can")
    /\ IF Now.of.o = "call" THEN Step(After(<<>>, 1, <<Operand(BoolType)>>)) ELSE Give("can")

-----------------------------------------------------------------------------
(* Statements.                                                             *)

RECURSIVE HasAct(_)
HasAct(stmts) ==
    \E s \in ToSet(stmts) :
        \/ s.o = "act"
        \/ s.o \in {"while", "for", "list of statements"} /\ HasAct(s.body)
        \/ s.o = "if" /\ (HasAct(s.then) \/ HasAct(s.else))
        \/ s.o = "actions" /\ \E alt \in ToSet(s.alts) : HasAct(alt)

ActInForLoop ==
    /\ Checks("for") /\ HasAct(Now.body)
    /\ Give("act in a for loop")

(* ActionsStatement *)
MisplacedActions ==
    /\ Checks("actions") /\ (Top.id[1] = "fun" \/ Now.alts = <<>>)
    /\ Give("actions")

Expand ==
    /\ stack # <<>> /\ Top.todo # <<>>
    /\ LET op == Now
           Taken(ops) == Step(After(ops, 0, <<>>))
       IN  CASE op.o = "exp" -> Taken(Flat(op.e) \o <<[o |-> "drop"]>>)
             [] op.o = "declare" -> Taken(<<[op EXCEPT !.o = "fresh"]>> \o Flat(op.e) \o <<[op EXCEPT !.o = "let"]>>)
             [] op.o = "if" -> Taken(Flat(op.cond) \o <<[op EXCEPT !.o = "branch"]>>)
             [] op.o = "while" -> Taken(Flat(op.cond) \o <<[op EXCEPT !.o = "loop"]>>)
             [] op.o = "for" -> ~HasAct(op.body) /\ Taken(Flat(op.e) \o <<[op EXCEPT !.o = "range"]>>)
             [] op.o = "list of statements" -> Taken(Block(op.body))
             [] op.o = "actions" /\ Top.id[1] = "act" /\ op.alts # <<>> ->
                    Taken(FlattenSeq([i \in DOMAIN op.alts |-> Block(op.alts[i])]))
             [] op.o = "assert" -> Taken(Flat(op.e) \o <<[o |-> "asserted"]>>)
             [] op.o = "subaction" /\ Top.id[1] = "act" ->
                    Taken(FlattenSeq([i \in DOMAIN op.fwd |-> Flat(op.fwd[i])])
                          \o FlattenSeq([i \in DOMAIN op.of |-> Flat(op.of[i])])
                          \o <<[op EXCEPT !.o = "nest"]>>)
             [] op.o = "return" -> Taken((IF op.e = <<>> THEN <<>> ELSE Flat(op.e[1]))
                                         \o <<[op EXCEPT !.o = "returned"]>>)
             [] OTHER -> FALSE

Drop ==
    /\ Checks("drop")
    /\ Step(After(<<>>, 1, <<>>))

EnterScope ==
    /\ Checks("enter")
    /\ Step([After(<<>>, 0, <<>>) EXCEPT
               !.scopes = Append(@, Now.names),
               !.inside = Append(@, [guard |-> Now.guard, loop |-> Now.loop]),
               !.links = @ \o Now.links])

LeaveNames ==
    /\ Checks("leave")
    /\ Step([After(<<>>, 0, <<>>) EXCEPT !.inside = Front(@)])

LeaveScope ==
    /\ Checks("leave")
    /\ Step([After(<<>>, 0, <<>>) EXCEPT !.scopes = Front(@), !.inside = Front(@)])

(* DeclarationStatement: the name must be new where the statement begins. *)
Fresh ==
    /\ Checks("fresh")
    /\ IF Now.n \in DOMAIN Last(Top.scopes) THEN Give("redeclared")
       ELSE Step(After(<<>>, 0, <<>>))

WithName(frame, n, symbol) ==
    [frame EXCEPT !.scopes = Append(Front(@), Add(Last(@), n, symbol))]

Let ==
    /\ Checks("let")
    /\ LET t == Last(Top.vals).t
       IN  IF Now.frm /\ Top.id[1] = "fun" THEN Give("frm")
           ELSE Step(WithName(After(<<>>, 1, <<>>), Now.n,
                              ValueSymbol(Now.id, IF Now.frm THEN Frm(t) ELSE t, NotNarrowed)))

(* promoteArgumentOfIsOp: where x is a T, the name x is a T; where x has a *)
(* trait, what the trait asks for is there.                                *)
Promoted(test, guard) ==
    LET trait == test.tested.n
        Asked(i) == ReplaceIn(Traits[trait][i].f, TraitParam, test.t)
        Promise(i) == [Link(TraitSymbol(trait, i, Top.file), Asked(i), GuardsOf(Top) \cup guard, Top.file)
                          EXCEPT !.to = Open]
        Via(i) == Callable("via", <<"via", Len(Top.links) + i>>, Asked(i), <<>>, FALSE, Top.file)
    IN  IF test.tested.k = "trait"
        THEN Enter(FoldLeft(LAMBDA t, i : Add(t, Traits[trait][i].name, Via(i)), NoScope,
                            [i \in DOMAIN Traits[trait] |-> i]),
                   guard, FALSE, [i \in DOMAIN Traits[trait] |-> Promise(i)])
        ELSE Enter([n \in test.name |-> <<[Get(TopSite.scopes, n)[1] EXCEPT !.t = test.tested,
                                                                            !.as = test.tested]>>],
                   guard, FALSE, <<>>)

Guard(test, holds) == [t |-> test.t, tested |-> test.tested, holds |-> holds]

Branch ==
    /\ Checks("branch")
    /\ LET tests == Last(Top.vals).test
           Side(holds) == {Guard(test, holds) : test \in tests}
           true == IF tests = {} THEN EnterPlain
                   ELSE Promoted(CHOOSE test \in tests : TRUE, Side(TRUE))
       IN  IF Last(Top.vals).t # BoolType THEN Give("condition")
           ELSE Step(After(<<true>> \o Now.then \o <<Leave, Enter(NoScope, Side(FALSE), FALSE, <<>>)>>
                             \o Now.else \o <<Leave>>, 1, <<>>))

(* AssertOp *)
Asserted ==
    /\ Checks("asserted")
    /\ IF Last(Top.vals).t = BoolType THEN Step(After(<<>>, 1, <<>>)) ELSE Give("condition")

Loop ==
    /\ Checks("loop")
    /\ IF Last(Top.vals).t # BoolType THEN Give("condition")
       ELSE Step(After(<<Enter(NoScope, {}, TRUE, <<>>)>> \o Now.body \o <<Leave>>, 1, <<>>))

(* ForLoopStatement, ForLoopVarDeclOp: what is looped over has a size and  *)
(* gives its elements.                                                     *)
HasSize(t) == \E s \in Overload(TopSite, TRUE, "size", <<t>>) : s.f.out = <<IntegerType>>
HasGet(t) == \E s \in Overload(TopSite, TRUE, "get", <<t, IntegerType>>) : ResultOrVoid(s.f) # VoidType

Ranged ==
    /\ Checks("range")
    /\ LET t == Last(Top.vals).t
           Variable(l) == [n \in {Now.n} |-> <<ValueSymbol(Now.id, l.f.out[1], NotNarrowed)>>]
       IN  IF HasSize(t) /\ HasGet(t)
           THEN \E l \in Links(TRUE, "get", <<t, IntegerType>>) :
                   Step([After(<<Enter(Variable(l), {}, TRUE, <<>>)>> \o Now.body \o <<Leave>>, 1, <<>>)
                            EXCEPT !.links = Append(@, l)])
           ELSE Give("not a range")

Jump ==
    /\ Checks("jump")
    /\ IF \E i \in DOMAIN Top.inside : Top.inside[i].loop THEN Step(After(<<>>, 0, <<>>))
       ELSE Give("no loop")

(* ReturnStatement: last of its block, and of the type of the function. *)
Return ==
    /\ Checks("returned")
    /\ LET n == Len(Now.e)
           t == IF n = 0 THEN VoidType ELSE Last(Top.vals).t
       IN  CASE Top.todo[2].o # "leave" -> Give("not last")
             [] Top.id[1] = "fun" /\ t # ResultOrVoid(Signature(Top.id[2]).f) -> Give("return type")
             [] OTHER -> Step(After(<<>>, n, <<>>))

(* ActionStatement: the ctx arguments of the action come before its own,   *)
(* the precondition has a scope with all of them, and what was passed is   *)
(* in scope from here on.                                                  *)
CtxInputs(a) == SelectSeq(Inputs(a), LAMBDA t : t.k = "ctx")
CtxArgs(a) ==
    LET at == SelectSeq([i \in DOMAIN Inputs(a) |-> i], LAMBDA i : Inputs(a)[i].k = "ctx")
    IN  [j \in DOMAIN at |-> program.acts[a].args[at[j]]]

Act ==
    /\ Checks("act")
    /\ IF Top.id[1] = "fun" THEN Give("act in a function")
       ELSE LET given == ConvertedAll(Top.types, Now.ins)
                a == Top.id[2]
            IN  IF given = {} THEN Give("unknown type")
                ELSE \E own \in given :
                        LET ts == CtxInputs(a) \o own
                            args == CtxArgs(a) \o Now.args
                            pre == <<Enter(ArgumentScope(args, ts), {}, FALSE, <<>>)>> \o Now.pre \o <<Leave>>
                            after == [o |-> "given", args |-> args, ts |-> ts]
                        IN  Step([After(Append(pre, after), 0, <<>>) EXCEPT
                                    !.acts = Append(@, [name |-> Now.name, ts |-> ts, at |-> 0])])

Given ==
    /\ Checks("given")
    /\ Step(FoldLeft(LAMBDA fr, i : WithName(fr, Now.args[i].n,
                                             ValueSymbol(Now.args[i].id, Now.ts[i], NotNarrowed)),
                     After(<<>>, 0, <<>>), [i \in DOMAIN Now.args |-> i]))

-----------------------------------------------------------------------------
(* Sub-actions. The acts of the actions the frames belong to become acts   *)
(* of this one, the ctx arguments of this action before their own and      *)
(* without what is forwarded, and each calls the act it stands for. They   *)
(* are written as they have to be and are not checked again: what they are *)
(* passed has no name, and an action that was not checked yet offers       *)
(* nothing. Whether they are in a loop (subaction-star) or chosen by the   *)
(* alternative the frame holds changes nothing here.                       *)

NestInFunction ==
    /\ Checks("subaction") /\ Top.id[1] = "fun"
    /\ Give("subaction in a function")

IsFrame(t) == t.k = "class" /\ t.n \in DOMAIN Top.actionOf
NestedFrames == OperandTypes(Len(Now.of))
Forwarded == SubSeq(OperandTypes(Len(Now.fwd) + Len(Now.of)), 1, Len(Now.fwd))

NotAnAction ==
    /\ Checks("nest")
    /\ \E t \in ToSet(NestedFrames) : ~IsFrame(t) /\ t.k # "alternative"
    /\ Give("not an action")

(* One frame that is an alternative has the acts of each of its types,     *)
(* unless the sub-action has a name, which makes it a frm of one.          *)
Entered(frames) ==
    IF Len(frames) = 1 /\ Now.n = "" /\ frames[1].k = "alternative" THEN frames[1].sub ELSE frames

(* getActionOf of another class, or of an action that was replaced. *)
Stale(t) == IsFrame(t) => Erased(Top.actionOf[t.n])

NestUndefined ==
    /\ Checks("nest")
    /\ \A t \in ToSet(NestedFrames) : IsFrame(t) \/ t.k = "alternative"
    /\ \E t \in ToSet(Entered(NestedFrames)) : Stale(t)
    /\ Give("undefined")

(* ActionFunction::getActions: one for a name, once they are known. *)
ActsOf(t) ==
    LET op == Top.actionOf[t.n]
    IN  IF op[3] = Checked THEN Distinct(checked[op[2]]) ELSE <<>>

OffersOf(t, given) ==
    [i \in DOMAIN ActsOf(t) |-> [o |-> "offer", frame |-> t, act |-> ActsOf(t)[i], fwd |-> given]]

(* The name of a sub-action is not looked for in the scope it is added to. *)
Nest ==
    /\ Checks("nest")
    /\ LET frames == Entered(NestedFrames)
           offers == FlattenSeq([i \in DOMAIN frames |-> OffersOf(frames[i], Forwarded)])
           after == After(offers, Len(Now.fwd) + Len(Now.of), <<>>)
       IN  /\ ~\E t \in ToSet(frames) : Stale(t)
           /\ Step(IF Now.n = "" THEN after
                   ELSE WithName(after, Now.n, ValueSymbol(Now.id, Frm(NestedFrames[1]), NotNarrowed)))

Unframed(t) == IF t.k = "frm" THEN t.sub[1] ELSE t

Offer ==
    /\ Checks("offer")
    /\ LET n == Len(Now.fwd)
           taken == Now.act.ts
           own == [i \in 1..(Len(taken) - n) |-> Unframed(taken[n + i])]
           op == Top.actionOf[Now.frame.n]
           passed == Function(<<Now.frame>> \o Now.fwd \o own, <<>>)
           s == Callable("act", op, passed, <<>>, FALSE, program.acts[op[2]].file)
       IN  IF n > Len(taken) \/ \E i \in 1..n : Now.fwd[i] # Unwrapped(taken[i])
           THEN Give("forwarded")
           ELSE Step([After(<<>>, 0, <<>>) EXCEPT
                        !.acts = Append(@, [name |-> Now.act.name, ts |-> CtxInputs(Top.id[2]) \o own, at |-> 0]),
                        !.links = Append(@, Link(s, passed, GuardsOf(Top), Top.file))])

-----------------------------------------------------------------------------
(* Actions, in the order of the module until all are checked.              *)

\* Fault: an action checked from within another is checked again.
NextNotStarted == {a \in Acts :
                      /\ program.acts[a].name \notin DOMAIN mains
                      /\ \A b \in 1..(a - 1) : program.acts[b].name \in DOMAIN mains}

NextToCheck == {a \in Acts :
                   /\ a \notin DOMAIN checked
                   /\ \A b \in 1..(a - 1) : b \in DOMAIN checked}

(* typeCheckActions: a table of the module as it is now. *)
StartAction ==
    /\ phase = "actions" /\ stack = <<>>
    /\ \E a \in NextToCheck :
          IF program.acts[a].name \in ReservedNames THEN Give("reserved")
          ELSE /\ listed' = NewRoot
               /\ stack' = <<ActionFrame(a)>>
               /\ UNCHANGED <<program, phase, verdict, order, bodies, calls, mains, checked, module, bound>>

(* getFunctionsTypesGeneratedByAction *)
OneTypePerName(acts) ==
    \A i, j \in DOMAIN acts : acts[i].name = acts[j].name => acts[i].ts = acts[j].ts

BodyOf(frame, id, f, params) ==
    [id |-> id, f |-> f, params |-> params, file |-> frame.file, links |-> frame.links]

(* checkForActionRedefinitions *)
Redefines(a) ==
    LET n == program.acts[a].name
    IN  n \in DOMAIN mains /\ mains[n] = Inputs(a)

(* deduceActionType: the action is replaced by another operation, in the   *)
(* calls of its main function too, and the builder that asked for it knows *)
(* the new one from now on.                                                *)
Replacing(a, in) ==
    LET old(l) == l.to = Op(a, Unchecked) /\ l.f.out = <<ClassOf(a)>>
    IN  [i \in DOMAIN in |-> [in[i] EXCEPT
            !.links = [j \in DOMAIN @ |-> IF old(@[j]) THEN [@[j] EXCEPT !.to = Op(a, Checked)] ELSE @[j]]]]

FinishAction ==
    /\ stack # <<>> /\ Top.todo = <<>> /\ Top.id[1] = "act"
    /\ LET a == Top.id[2]
           rest == Replacing(a, Front(stack))
           new == Op(a, Checked)
           Ends == /\ stack' = rest
                   /\ mains' = (program.acts[a].name :> Inputs(a)) @@ mains
                   /\ UNCHANGED listed
           Answers == /\ stack' = Append(Front(rest), [Last(rest) EXCEPT
                                        !.actionOf = (program.acts[a].cls :> new) @@ @])
                      /\ listed' = Append(listed, new)
                      /\ UNCHANGED mains
       IN  CASE Top.acts = <<>> \/ ~OneTypePerName(Top.acts) -> Give("acts")
             [] rest = <<>> /\ Redefines(a) -> Give("redefined")
             [] OTHER -> /\ checked' = (a :> Top.acts) @@ checked
                         /\ module' = Append(Replacing(a, module),
                                             BodyOf(Top, new, Function(Inputs(a), <<ClassOf(a)>>), <<>>))
                         /\ IF rest = <<>> THEN Ends ELSE Answers
                         /\ UNCHANGED <<program, phase, verdict, order, bodies, calls, bound>>

ActionsChecked ==
    /\ phase = "actions" /\ stack = <<>> /\ NextToCheck = {}
    /\ listed' = NewRoot
    /\ Go("functions")
    /\ UNCHANGED <<order, bodies, calls, stack, mains, checked, module, bound>>

-----------------------------------------------------------------------------
(* Functions.                                                              *)

NextFunction == Cardinality({b \in ToSet(module) : b.id[1] = "fun"}) + 1

StartFunction ==
    /\ phase = "functions" /\ stack = <<>> /\ NextFunction <= Len(program.funs)
    /\ LET s == FunctionSymbol(NextFunction)
       IN  IF \E other \in ToSet(Get(<<Root>>, program.funs[NextFunction].name)) :
                 other.f = s.f /\ other.id # s.id
           THEN Give("redefined")
           ELSE /\ stack' = <<FunctionFrame(NextFunction)>>
                /\ UNCHANGED <<program, phase, verdict, order, bodies, tables, mains, checked, module, bound>>

RECURSIVE TerminatedOnce(_)
TerminatedOnce(stmts) ==
    \E s \in ToSet(stmts) :
        \/ s.o = "return"
        \/ s.o = "if" /\ (TerminatedOnce(s.then) \/ TerminatedOnce(s.else))

(* isControlFlowTerminated: some statement no path goes behind. A loop can *)
(* always be left at its condition.                                        *)
RECURSIVE Terminated(_)
Terminated(stmts) ==
    \E s \in ToSet(stmts) :
        \/ s.o = "return"
        \/ s.o = "if" /\ Terminated(s.then) /\ Terminated(s.else)
        \/ s.o = "list of statements" /\ Terminated(s.body)

FinishFunction ==
    /\ stack # <<>> /\ Top.todo = <<>> /\ Top.id[1] = "fun"
    /\ LET s == Signature(Top.id[2])
       IN  IF ResultOrVoid(s.f) # VoidType /\ ~Terminated(program.funs[Top.id[2]].body)
           THEN Give("no return")
           ELSE /\ module' = Append(module, BodyOf(Top, Top.id, s.f, s.params))
                /\ stack' = <<>>
                /\ UNCHANGED <<program, phase, verdict, order, bodies, tables, mains, checked, bound>>

FunctionsChecked ==
    /\ phase = "functions" /\ stack = <<>> /\ NextFunction > Len(program.funs)
    /\ listed' = NewRoot
    /\ Go("lower is")
    /\ UNCHANGED <<order, bodies, calls, stack, mains, checked, module, bound>>

-----------------------------------------------------------------------------
CheckInit ==
    /\ program \in Programs
    /\ phase = "declare" /\ verdict = "none"
    /\ order = <<>> /\ bodies = <<>>
    /\ listed = <<>> /\ calls = {} /\ stack = <<>> /\ mains = <<>> /\ checked = <<>> /\ module = <<>> /\ bound = <<>>

CheckClasses ==
    DeclareClasses \/ Emit \/ MutualDependency \/ Sorted \/ DeduceBody \/ UnknownField \/ DeclareFunctions

CheckOperation ==
    \/ Value \/ Ref \/ Is \/ Left \/ Both \/ InitializerList
    \/ Cast \/ NoFunction \/ CallFunction \/ CallAction \/ CallErased \/ Ask \/ Can
    \/ ActInForLoop \/ MisplacedActions \/ Expand \/ Drop \/ EnterScope \/ LeaveScope \/ Fresh \/ Let \/ Branch \/ Asserted \/ Loop \/ Ranged
    \/ Jump \/ Return \/ Act \/ Given
    \/ NestInFunction \/ NotAnAction \/ NestUndefined \/ Nest \/ Offer

CheckBodies ==
    StartAction \/ FinishAction \/ ActionsChecked \/ StartFunction \/ FinishFunction \/ FunctionsChecked

=============================================================================
