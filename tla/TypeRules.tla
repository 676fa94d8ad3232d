------------------------------ MODULE TypeRules ------------------------------
(***************************************************************************)
(* What the type checker promises: the rules of the language, written over *)
(* the program as a whole, and the properties that hold the passes of      *)
(* TypeCheck and Templates to them.                                        *)
(***************************************************************************)
EXTENDS Templates

-----------------------------------------------------------------------------
(* Scopes: the declaration a use of a name means, from the nesting of the  *)
(* program alone. An environment says what every name means.               *)

Meant(decl, as) == [decl |-> <<"value", decl>>, as |-> as]
Declares(args) ==
    FoldLeft(LAMBDA env, a : (a.n :> Meant(a.id, NotNarrowed)) @@ env, <<>>, args)

RECURSIVE UsesIn(_, _)
UsesIn(e, env) ==
    CASE e.o = "ref" -> {[id |-> e.id, means |-> env[n]] : n \in {e.n} \cap DOMAIN env}
      [] e.o \in {"call", "list"} -> UNION {UsesIn(a, env) : a \in ToSet(e.args)}
      [] e.o \in {"is", "can"} -> UsesIn(e.of, env)
      [] e.o = "both" -> UsesIn(e.left, env) \cup UsesIn(e.right, env)
      [] OTHER -> {}

(* Where x is a T, x is a T; the names of types are what they are.         *)
Narrowed(cond, env) ==
    IF cond.o = "is" /\ cond.t.n \notin DOMAIN Traits /\ cond.of.o = "ref" /\ cond.of.n \in DOMAIN env
    THEN [env EXCEPT ![cond.of.n].as = CHOOSE t \in Converted(ModuleTypes, cond.t) : TRUE]
    ELSE env

RECURSIVE Lexical(_, _)
LexicalOf(s, env) ==
    CASE s.o \in {"exp", "declare", "assert"} -> UsesIn(s.e, env)
      [] s.o = "subaction" -> UNION {UsesIn(e, env) : e \in ToSet(s.fwd \o s.of)}
      [] s.o = "return" -> UNION {UsesIn(e, env) : e \in ToSet(s.e)}
      [] s.o = "if" -> UsesIn(s.cond, env) \cup Lexical(s.then, Narrowed(s.cond, env)) \cup Lexical(s.else, env)
      [] s.o = "while" -> UsesIn(s.cond, env) \cup Lexical(s.body, env)
      [] s.o = "for" -> UsesIn(s.e, env) \cup Lexical(s.body, Declares(<<s>>) @@ env)
      [] s.o = "list of statements" -> Lexical(s.body, env)
      [] s.o = "actions" -> UNION {Lexical(alt, env) : alt \in ToSet(s.alts)}
      [] s.o = "act" -> Lexical(s.pre, Declares(s.args) @@ env)
      [] OTHER -> {}
Lexical(stmts, env) ==
    IF stmts = <<>> THEN {}
    ELSE LET s == Head(stmts)
             after == CASE s.o = "declare" \/ (s.o = "subaction" /\ s.n # "") -> Declares(<<s>>) @@ env
                        [] s.o = "act" -> Declares(s.args) @@ env
                        [] OTHER -> env
         IN  LexicalOf(s, env) \cup Lexical(Tail(stmts), after)

NumberNames(d) ==
    [n \in {p.n : p \in {p \in ToSet(d.params) : p.sub # <<>> /\ ~HasTrait(p)}} |-> Meant(n, NotNarrowed)]
RuleOf(d, env) == Lexical(d.body, env) \cup Lexical(d.pre, env)
Rule ==
    UNION {RuleOf(d, Declares(d.args) @@ NumberNames(d)) : d \in ToSet(program.funs)}
    \cup UNION {RuleOf(d, Declares(d.args)) : d \in ToSet(program.acts)}

(* A name means its nearest enclosing declaration, and the type the        *)
(* nearest test of it gave it, however the scopes were entered and left    *)
(* before (SymbolTable.h, UnresolvedReference::typeCheck,                  *)
(* promoteArgumentOfIsOp).                                                 *)
FollowsScopes ==
    phase = "done" => \A id \in DOMAIN bound : \E use \in Rule : use.id = id /\ use.means = bound[id]

-----------------------------------------------------------------------------
(* Verdicts.                                                               *)

RECURSIVE Reached(_, _)
Reached(next, from) ==
    LET more == from \cup UNION {next[x] : x \in from}
    IN  IF more = from THEN from ELSE Reached(next, more)
Cyclic(next) == \E x \in DOMAIN next : x \in Reached(next, next[x])

ClassGraph == [n \in Names(program.classes) |-> UsedBy(Decl(n))]

(* The actions a body calls, in order. *)
RECURSIVE CallsIn(_)
CallsIn(stmts) ==
    FoldLeft(LAMBDA found, s :
                found \o CASE s.o \in {"exp", "declare"} /\ s.e.o = "call" -> <<s.e.f>>
                           [] s.o = "subaction" ->
                                  LET made == SelectSeq(s.of, LAMBDA e : e.o = "call")
                                  IN  [i \in DOMAIN made |-> made[i].f]
                           [] s.o \in {"while", "for", "list of statements"} -> CallsIn(s.body)
                           [] s.o = "if" -> CallsIn(s.then) \o CallsIn(s.else)
                           [] s.o = "actions" -> FlattenSeq([i \in DOMAIN s.alts |-> CallsIn(s.alts[i])])
                           [] OTHER -> <<>>,
             <<>>, stmts)

ActionNames == Names(program.acts)
ActionCalls(a) == SelectSeq(CallsIn(program.acts[a].body), LAMBDA f : f \in ActionNames)
CallGraph == [n \in ActionNames |-> UNION {ToSet(ActionCalls(a)) :
                                              a \in {a \in Acts : program.acts[a].name = n}}]

(* An action calls another that an earlier of its calls reaches.           *)
Rejoins(a) ==
    \E i, j \in DOMAIN ActionCalls(a) :
        i < j /\ ActionCalls(a)[j] \in Reached(CallGraph, CallGraph[ActionCalls(a)[i]])

(* It has a sub-action of what none of its calls has made. *)
RECURSIVE NestsOther(_)
NestsOther(stmts) ==
    \E s \in ToSet(stmts) :
        \/ s.o = "subaction" /\ \E e \in ToSet(s.of) : e.o # "call"
        \/ s.o \in {"while", "for", "list of statements"} /\ NestsOther(s.body)
        \/ s.o = "if" /\ (NestsOther(s.then) \/ NestsOther(s.else))
        \/ s.o = "actions" /\ \E alt \in ToSet(s.alts) : NestsOther(alt)

(* Some path leads behind the last statement. *)
RECURSIVE FallsThrough(_)
FallsThrough(stmts) ==
    \A s \in ToSet(stmts) :
        CASE s.o = "return" -> FALSE
          [] s.o = "if" -> FallsThrough(s.then) \/ FallsThrough(s.else)
          [] s.o = "list of statements" -> FallsThrough(s.body)
          [] OTHER -> TRUE

MustReturn(d) == d.f.out # <<>> /\ d.f.out # <<Use("Void", <<>>)>>

(* A function fits if its parameters can be chosen so that it takes just   *)
(* these types, and the ones with a trait have it.                         *)
RECURSIVE Parts(_)
Parts(t) == {t} \cup UNION {Parts(t.sub[i]) : i \in DOMAIN t.sub}
ParamsIn(f) == {p \in UNION {Parts(t) : t \in ToSet(f.ins)} : p.k = "param"}

RECURSIVE Chosen(_, _)
Chosen(t, sub) ==
    IF t \in DOMAIN sub THEN sub[t]
    ELSE [t EXCEPT !.sub = [i \in DOMAIN @ |-> Chosen(@[i], sub)]]

RECURSIVE Fits(_, _, _)
HasTheTrait(site, t, trait) ==
    \A i \in DOMAIN Traits[trait] :
        \E s \in ToSet(Get(site.scopes, Traits[trait][i].name)) :
            Fits(site, s, [j \in DOMAIN Traits[trait][i].f.ins |->
                              Chosen(Traits[trait][i].f.ins[j], TraitParam :> t)])
Fits(site, s, ts) ==
    /\ s.kind # "value"
    /\ Len(s.f.ins) = Len(ts)
    /\ \E sub \in [ParamsIn(s.f) -> UNION {Parts(t) : t \in ToSet(ts)}] :
          /\ \A i \in DOMAIN ts : Chosen(s.f.ins[i], sub) = ts[i]
          /\ \A p \in DOMAIN sub : HasTrait(p) => HasTheTrait(site, sub[p], p.sub[1].n)
          /\ \A p \in ToSet(s.params) : p \in DOMAIN sub

CallFits ==
    \E s \in ToSet(Get(TopSite.scopes, Now.f)) :
        /\ Reachable(TopSite, Now.member, Now.f, s)
        /\ Fits(TopSite, s, OperandTypes(Len(Now.args)))

(* A program is rejected for what is wrong with it, and accepted only if   *)
(* nothing of the kind is: classes that contain each other, actions that   *)
(* call each other in a circle, a function some path of which gives no     *)
(* result, a call no function fits (TypeCheck.cpp, OverloadResolver.cpp).  *)
(* The use of an erased action happens only where an action calls again    *)
(* what one of its calls already reached, or has a sub-action of it.       *)
Wrong(why) ==
    CASE why = "mutual" -> Cyclic(ClassGraph)
      [] why = "recursive" -> Cyclic(CallGraph)
      [] why = "undefined" -> \E a \in Acts : Rejoins(a) \/ NestsOther(program.acts[a].body)
      [] why = "no return" -> \E d \in ToSet(program.funs) : MustReturn(d) /\ FallsThrough(d.body)
      [] OTHER -> FALSE

RejectedExactly ==
    /\ verdict \in {"mutual", "recursive", "undefined", "no return"} => Wrong(verdict)
    /\ verdict = "no function" => ~CallFits
    /\ verdict = "accepted" => \A why \in {"mutual", "recursive", "no return"} : ~Wrong(why)

(* What the passes do to the table of the module and to the builders of    *)
(* the checks is what ActionChecks says nested checks do, and nothing else *)
(* (maybeInstantiateAction, typeCheckAction, deduceActionType).            *)
ImplementsChecks == ChecksSpec

-----------------------------------------------------------------------------
(* Instances.                                                              *)

Target(body, l) == IF l.to[1] = "via" THEN body.links[l.to[2]].to ELSE l.to
Taken(f) == [i \in DOMAIN f.ins |-> Unwrapped(f.ins[i])]
SameFunction(f, g) == Taken(f) = Taken(g) /\ ResultOrVoid(f) = ResultOrVoid(g)

Exists(target, f) ==
    IF target[1] = "act"
    THEN /\ target = Current(target[2])
         /\ \E i \in DOMAIN EntriesNow(target) : SameFunction(EntriesNow(target)[i].symbol.f, f)
    ELSE \E body \in ToSet(module) : body.id = target /\ SameFunction(body.f, f)

(* In the end every call that is left is of a function that is left, of    *)
(* the types of the call, the calls a sub-action writes for itself too,    *)
(* and no two instances of a template are alike                            *)
(* (InstantiateTemplatesPass.cpp, emitSubActionsInvocations).              *)
CallsFit ==
    verdict = "accepted" =>
        /\ \A body \in ToSet(module) : \A i \in DOMAIN body.links :
              LET l == body.links[i] IN Target(body, l) = Gone \/ Exists(Target(body, l), l.f)
        /\ \A b, c \in ToSet(module) :
              b.id[1] = "inst" /\ c.id[1] = "inst" /\ b.id[2] = c.id[2] /\ b.f = c.f => b = c

=============================================================================
