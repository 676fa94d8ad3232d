----------------------------- MODULE Overloads -----------------------------
(***************************************************************************)
(* Types, the tables that give names a meaning, and which function a call  *)
(* means: the written type a type is converted from (SymbolTable.cpp), the *)
(* template parameters a call binds and the choice among the functions of  *)
(* a name (OverloadResolver.cpp).                                          *)
(*                                                                         *)
(* Something that is found or not is a set of at most one element. Where   *)
(* the code walks a hash table in the order of its pointers, the result is *)
(* the set of what any order gives.                                        *)
(***************************************************************************)
EXTENDS Naturals, Sequences, FiniteSets, TLC, SequencesExt

CONSTANT Traits    \* the functions a trait asks for: a name, inputs, outputs

-----------------------------------------------------------------------------
(* A type is a tree: a kind, a name and the types it is made of.           *)

Type(k, n, sub) == [k |-> k, n |-> n, sub |-> sub]
Builtin(n) == Type("builtin", n, <<>>)
Class(n, args) == Type("class", n, args)
Array(of, size) == Type("array", "", <<of, size>>)
Literal(n) == Type("literal", n, <<>>)
Alternative(fields) == Type("alternative", "", fields)
Frm(t) == Type("frm", "", <<t>>)
Param(n) == Type("param", n, <<>>)
Constrained(trait, n) == Type("param", n, <<Type("trait", trait, <<>>)>>)
NumberParam(n) == Type("param", n, <<Literal("any")>>)
TraitParam == Param("TraitTypeT")
Use(n, args) == Type("use", n, args)
Alias(t) == Type("alias", "", <<t>>)
BoolType == Builtin("Bool")
IntegerType == Builtin("Int")
VoidType == Builtin("Void")

(* A function takes inputs and gives no output or one. *)
Function(ins, out) == [ins |-> ins, out |-> out]
ResultOrVoid(f) == IF f.out = <<>> THEN VoidType ELSE f.out[1]

HasTrait(t) == t.k = "param" /\ \E i \in DOMAIN t.sub : t.sub[i].k = "trait"

RECURSIVE IsTemplate(_)
IsTemplate(t) == t.k = "param" \/ \E i \in DOMAIN t.sub : IsTemplate(t.sub[i])

IsTemplateFunction(f) == \E t \in ToSet(f.ins) \cup ToSet(f.out) : IsTemplate(t)

RECURSIVE Replace(_, _, _)
Replace(t, p, by) ==
    IF t = p THEN by
    ELSE [t EXCEPT !.sub = [i \in DOMAIN t.sub |-> Replace(t.sub[i], p, by)]]

ReplaceIn(f, p, by) ==
    [part \in {"ins", "out"} |-> [i \in DOMAIN f[part] |-> Replace(f[part][i], p, by)]]

(* One parameter after the other, so that a parameter that is put in the   *)
(* place of an earlier one is replaced in its turn.                        *)
ReplaceEach(t, params, by) ==
    FoldLeft(LAMBDA r, i : Replace(r, params[i], by[i]), t, [i \in DOMAIN params |-> i])

InSomeOrder(t, sub) ==
    {ReplaceEach(t, o, [i \in DOMAIN o |-> sub[o[i]]]) : o \in SetToSeqs(DOMAIN sub)}

-----------------------------------------------------------------------------
(* SymbolTable: the innermost scope that has the name has all there is to  *)
(* say of it, the newest first.                                            *)

NoScope == <<>>

Add(scope, n, symbol) ==
    IF n \in DOMAIN scope THEN [scope EXCEPT ![n] = <<symbol>> \o @]
    ELSE scope @@ (n :> <<symbol>>)

Erase(scope, n, symbol) ==
    IF n \in DOMAIN scope THEN [scope EXCEPT ![n] = SelectSeq(@, LAMBDA s : s # symbol)]
    ELSE scope

Having(scopes, n) == {i \in DOMAIN scopes : n \in DOMAIN scopes[i]}

Get(scopes, n) ==
    IF Having(scopes, n) = {} THEN <<>>
    ELSE scopes[CHOOSE i \in Having(scopes, n) : \A j \in Having(scopes, n) : j <= i][n]

GetOne(scopes, n) == IF Len(Get(scopes, n)) = 1 THEN {Get(scopes, n)[1]} ELSE {}

-----------------------------------------------------------------------------
(* The type a written type means.                                          *)

Instantiated(t, args) ==
    CASE args = <<>> -> IF t.k = "class" /\ IsTemplate(t) THEN {} ELSE {t}
      [] t.k = "class" /\ Len(t.sub) = Len(args) -> {ReplaceEach(t, t.sub, args)}
      [] OTHER -> {}

Unaliased(t) == IF t.k = "alias" THEN t.sub[1] ELSE t

RECURSIVE Converted(_, _)
ConvertedAll(types, written) ==
    FoldLeft(LAMBDA sofar, w : {Append(ts, t) : ts \in sofar, t \in Converted(types, w)},
             {<<>>}, written)
Converted(types, w) ==
    CASE w.k = "use" -> UNION {Instantiated(Unaliased(t), args) :
                                  t \in GetOne(types, w.n), args \in ConvertedAll(types, w.sub)}
      [] w.k = "class" -> {w}
      [] HasTrait(w) -> {w : t \in {t \in GetOne(types, w.sub[1].n) : t.k = "trait"}}
      [] OTHER -> {[w EXCEPT !.sub = sub] : sub \in ConvertedAll(types, w.sub)}

ConvertedFunction(types, f) ==
    {Function(ins, out) : ins \in ConvertedAll(types, f.ins), out \in ConvertedAll(types, f.out)}

-----------------------------------------------------------------------------
(* A symbol is a function of the module, of a trait or of an action, or a  *)
(* value. Only the first kind knows its template parameters and whether it *)
(* is a member.                                                            *)

Callable(kind, id, f, params, member, file) ==
    [kind |-> kind, id |-> id, f |-> f, params |-> params, member |-> member, file |-> file]

(* A site is the file and the scopes a call is in. *)
Site(file, scopes) == [file |-> file, scopes |-> scopes]

Private(name) == name = "_hidden"

RECURSIVE Matching(_, _, _, _)

(* typeRespectsTrait: some function of that name takes the arguments and   *)
(* gives the result, asked where the call is.                              *)
Respects(site, t, trait) ==
    \A i \in DOMAIN Traits[trait] :
        LET asked == ReplaceIn(Traits[trait][i].f, TraitParam, t)
        IN  \E s \in ToSet(Matching(site, FALSE, Traits[trait][i].name, asked.ins)) :
                ResultOrVoid(s.f) = ResultOrVoid(asked)

Bind(site, p, t, sub) ==
    CASE HasTrait(p) /\ ~Respects(site, t, p.sub[1].n) -> {}
      [] p \in DOMAIN sub /\ sub[p] # t -> {}
      [] OTHER -> {(p :> t) @@ sub}

(* The size of an array is bound to whatever it is here, bound or not. *)
BindSize(p, t, sub) ==
    CASE p = t -> {sub}
      [] p.k = "param" -> {(p :> t) @@ sub}
      [] OTHER -> {}

RECURSIVE Deduced(_, _, _, _)
DeducedAll(site, callee, given, sub) ==
    FoldLeft(LAMBDA subs, i : UNION {Deduced(site, callee[i], given[i], s) : s \in subs},
             {sub}, [i \in 1..(IF Len(callee) < Len(given) THEN Len(callee) ELSE Len(given)) |-> i])
Deduced(site, callee, given, sub) ==
    CASE callee.k \in {"frm", "ctx"} -> Deduced(site, callee.sub[1], given, sub)
      [] ~IsTemplate(callee) -> IF callee = given THEN {sub} ELSE {}
      [] callee.k = "param" -> Bind(site, callee, given, sub)
      [] callee.k # given.k \/ callee.n # given.n -> {}
      [] callee.k = "array" -> UNION {Deduced(site, callee.sub[1], given.sub[1], s) :
                                         s \in BindSize(callee.sub[2], given.sub[2], sub)}
      [] callee.k \in {"class", "owning_ptr"} -> DeducedAll(site, callee.sub, given.sub, sub)
      [] OTHER -> {}

(* deduceTemplateCallSiteType: the function the call would be of. *)
Result(t, sub) == IF t.k = "param" THEN {sub[t]} ELSE InSomeOrder(t, sub)

CallType(site, symbol, args) ==
    UNION {IF symbol.f.out = <<>> THEN {Function(args, <<>>)}
           ELSE {Function(args, <<t>>) : t \in Result(symbol.f.out[1], sub)} :
              sub \in {s \in DeducedAll(site, symbol.f.ins, args, <<>>) :
                          ToSet(symbol.params) \subseteq DOMAIN s}}

Reachable(site, member, name, s) ==
    /\ s.kind # "value"
    /\ Private(name) => s.file = site.file
    /\ s.kind = "fun" => s.member = member

Matching(site, member, name, args) ==
    SelectSeq(Get(site.scopes, name),
              LAMBDA s : /\ Reachable(site, member, name, s)
                         /\ Len(s.f.ins) = Len(args)
                         /\ CallType(site, s, args) # {})

ArgScore(callee, given) ==
    CASE callee = given -> 10
      [] callee.k = "class" /\ callee.n = given.n -> 1
      [] OTHER -> 0

Score(s, args) == FoldLeft(LAMBDA n, i : n + ArgScore(s.f.ins[i], args[i]), 0, [i \in DOMAIN args |-> i])

(* findBestMatch: the only function that is no template, or the template   *)
(* with the most of its inputs written out.                                *)
Best(candidates, args) ==
    LET templates == SelectSeq(candidates, LAMBDA s : IsTemplateFunction(s.f))
        plain == SelectSeq(candidates, LAMBDA s : ~IsTemplateFunction(s.f))
        Ahead(i) == \A j \in DOMAIN templates :
                        \/ Score(templates[i], args) > Score(templates[j], args)
                        \/ Score(templates[i], args) = Score(templates[j], args) /\ i <= j
    IN  CASE Len(plain) = 1 -> {plain[1]}
          [] Len(plain) > 1 -> {}
          [] OTHER -> {templates[i] : i \in {i \in DOMAIN templates : Ahead(i)}}

Overload(site, member, name, args) == Best(Matching(site, member, name, args), args)

=============================================================================
