------------------------------ MODULE Templates ------------------------------
(***************************************************************************)
(* What becomes of the calls to templates once everything has a type: the  *)
(* tests of types that can be answered are, and their dead branches go     *)
(* (LowerIsOperationsPass.cpp); then, in rounds, every call whose inputs   *)
(* are known gets the function a trait stands for and an instance of its   *)
(* template, until a round makes none, and the templates are erased        *)
(* (InstantiateTemplatesPass.cpp).                                         *)
(***************************************************************************)
EXTENDS TypeCheck

VARIABLES agenda,     \* the calls of this round that are still to do
          replaced,   \* the instance of a template for a type
          again       \* this round made an instance

instances == <<agenda, replaced, again>>

RootSite(file) == Site(file, <<Root>>)
Gone == <<"gone">>

-----------------------------------------------------------------------------
(* lowerIsOperations, eraseIfStatementIfConstant *)

Decidable(g) ==
    /\ ~IsTemplate(g.t) /\ ~IsTemplate(g.tested)
    /\ g.t.k = "alternative" => g.tested.k = "trait"

Holds(g, file) ==
    IF g.tested.k = "trait" THEN Respects(RootSite(file), g.t, g.tested.n)
    ELSE g.t = g.tested

Dead(l) == \E g \in l.guards : Decidable(g) /\ Holds(g, l.file) # g.holds

Pruned(body) ==
    [body EXCEPT !.links = [i \in DOMAIN @ |-> IF Dead(@[i]) THEN [@[i] EXCEPT !.to = Gone] ELSE @[i]]]

LowerIs ==
    /\ phase = "lower is"
    /\ Go("templates")
    /\ module' = [i \in DOMAIN module |-> Pruned(module[i])]
    /\ UNCHANGED <<order, bodies, tables, stack, mains, checked, bound, instances>>

-----------------------------------------------------------------------------
(* A call is found by the body it is in and its place there.               *)

At(place) ==
    LET body == CHOOSE b \in ToSet(module) : b.id = place.id
    IN  body.links[place.i]

IsDetermined(l) == l.to = Open /\ \A t \in ToSet(l.f.ins) : ~IsTemplate(t)

Places(body) ==
    SelectSeq([i \in DOMAIN body.links |-> [id |-> body.id, i |-> i]],
              LAMBDA place : IsDetermined(body.links[place.i]))

Round ==
    /\ phase = "templates" /\ agenda = <<>> /\ again
    /\ agenda' = FlattenSeq([b \in DOMAIN module |-> Places(module[b])])
    /\ again' = FALSE
    /\ UNCHANGED <<program, phase, verdict, order, bodies, checking, replaced>>

Working == phase = "templates" /\ agenda # <<>>
Calling == At(Head(agenda))

(* replaceTraitInstantiationWithUnderlyingFunctionInstantiation: the       *)
(* function of the module that has the name the trait asks for.            *)
Asked(l) == Traits[l.of[2]][l.of[3]].name
Underlying ==
    LET l == Calling
    IN  IF l.kind = "trait" THEN LinksAt(RootSite(l.file), l.guards, FALSE, Asked(l), l.f.ins) ELSE {l}

KeyOfAny(l) == <<l.of>>
Key(l) == <<l.of, l.f>>

(* The call is of to from now on. *)
Linked(in, l, to) ==
    LET place == Head(agenda)
    IN  /\ module' = [b \in DOMAIN in |->
                         IF in[b].id = place.id THEN [in[b] EXCEPT !.links[place.i] = [l EXCEPT !.to = to]]
                         ELSE in[b]]
        /\ agenda' = Tail(agenda)
        /\ UNCHANGED <<program, phase, verdict, order, bodies, tables, stack, mains, checked, bound>>

NoOverload ==
    /\ Working /\ Underlying = {}
    /\ Give("aborted")
    /\ UNCHANGED instances

(* The trait stood for a function that is no template. *)
Plain ==
    /\ Working
    /\ \E l \in Underlying : l.to # Open /\ Linked(module, l, l.to)
    /\ UNCHANGED <<replaced, again>>

Reuse ==
    /\ Working
    /\ \E l \in Underlying :
          l.to = Open /\ Key(l) \in DOMAIN replaced /\ Linked(module, l, replaced[Key(l)])
    /\ UNCHANGED <<replaced, again>>

(* What was promised where a type was tested is a call of its own. *)
Promise ==
    /\ Working
    /\ \E l \in Underlying : l.to = Open /\ l.kind = "via" /\ Linked(module, l, l.of)
    /\ again' = TRUE
    /\ UNCHANGED replaced

(* instantiate: an input that cannot be deduced is passed over, and what   *)
(* it would have bound stays a parameter.                                  *)
Substitution(l, template) ==
    LET Parts(f) == f.ins \o f.out
        Deduce(sub, i) ==
            LET subs == Deduced(RootSite(l.file), Parts(template.f)[i], Parts(l.f)[i], sub)
            IN  IF subs = {} THEN sub ELSE CHOOSE s \in subs : TRUE
    IN  FoldLeft(Deduce, <<>>, [i \in DOMAIN Parts(l.f) |-> i])

Instance(template, id, sub, o) ==
    LET R(t) == ReplaceEach(t, o, [i \in DOMAIN o |-> sub[o[i]]])
        InFunction(f) == [part \in {"ins", "out"} |-> [i \in DOMAIN f[part] |-> R(f[part][i])]]
    IN  Pruned([template EXCEPT
                   !.id = id, !.f = InFunction(@),
                   !.params = [i \in DOMAIN @ |-> R(@[i])],
                   !.links = [i \in DOMAIN @ |->
                       [@[i] EXCEPT !.f = InFunction(@),
                                    !.guards = {[g EXCEPT !.t = R(@), !.tested = R(@)] : g \in @}]]])

Instantiate ==
    /\ Working
    /\ \E l \in Underlying :
          /\ l.to = Open /\ l.kind # "via" /\ Key(l) \notin DOMAIN replaced
          /\ LET at == CHOOSE b \in DOMAIN module : module[b].id = l.of
                 sub == Substitution(l, module[at])
                 id == <<"inst", l.of[2], Cardinality(DOMAIN replaced) + 1>>
             IN  /\ \E o \in SetToSeqs(DOMAIN sub) :
                       Linked(InsertAt(module, at, Instance(module[at], id, sub, o)), l, id)
                 /\ replaced' = (Key(l) :> id) @@ replaced
    /\ again' = TRUE

(* FunctionOp::isTemplate *)
IsTemplateBody(body) ==
    IsTemplateFunction(body.f) \/ \E p \in ToSet(body.params) : IsTemplate(p)

EraseTemplates ==
    /\ phase = "templates" /\ agenda = <<>> /\ ~again
    /\ phase' = "done" /\ verdict' = "accepted"
    /\ module' = SelectSeq(module, LAMBDA body : ~IsTemplateBody(body))
    /\ UNCHANGED <<program, order, bodies, tables, stack, mains, checked, bound, instances>>

-----------------------------------------------------------------------------
Init ==
    /\ CheckInit
    /\ agenda = <<>> /\ replaced = <<>> /\ again = TRUE

Typing == (CheckClasses \/ CheckOperation \/ CheckBodies) /\ UNCHANGED instances

Instantiation == LowerIs \/ Round \/ NoOverload \/ Plain \/ Reuse \/ Promise \/ Instantiate \/ EraseTemplates

vars == <<program, phase, verdict, order, bodies, checking, instances>>
Settled == phase = "done" /\ UNCHANGED vars

Next == Typing \/ Instantiation \/ Settled
Spec == Init /\ [][Next]_vars

=============================================================================
