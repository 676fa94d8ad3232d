------------------------------- MODULE Values -------------------------------
(***************************************************************************)
(* Values and the memory they are made of. A value of a type is a run of   *)
(* words: a number is one, a class is its members, an array its elements,  *)
(* an alternative the longest of its fields and the index of the active    *)
(* one, a Vector a pointer, a size and a capacity. What an initialisation, *)
(* an assignment and a destruction do is a function the compiler writes    *)
(* for every type (EmitImplicitInitPass.cpp, EmitImplicitAssignPass.cpp,   *)
(* EmitImplicitDestructorInvocationsPass.cpp), except for Vector, which    *)
(* has its own (stdlib/collections/vector.rl).                             *)
(*                                                                         *)
(* A program declares variables, assigns one thing to another, calls the   *)
(* methods of its vectors and leaves the scope of a variable. It sees the  *)
(* behaviour of ValueSemantics: every variable is a value of its own.      *)
(***************************************************************************)
EXTENDS Types, FiniteSets

CONSTANTS Room,            \* programs: their variables, a sequence of types,
                           \* and the bound: elements in all vectors together
          Literals,        \* numbers in the text
          Raw,             \* a word nobody has written
          SwitchToOwners   \* is an alternative made to hold another field,
                           \* one that owns memory

VARIABLES types, mem, call,
          seen             \* what the program reads in its variables

vars == <<types, mem, call, seen>>

-----------------------------------------------------------------------------
(* What the compiler asks of a type.                                       *)

RECURSIVE Size(_)
Size(t) ==
    CASE t.kind = "number" -> 1
      [] t.kind = "vector" -> 3
      [] t.kind = "alternative" -> 1 + Max({Size(t.of[i]) : i \in DOMAIN t.of})
      [] t.kind = "array" -> t.n * Size(Elem(t))
      [] OTHER -> LET upTo[i \in 0..Len(t.of)] == IF i = 0 THEN 0 ELSE upTo[i - 1] + Size(t.of[i])
                  IN upTo[Len(t.of)]

(* isTriviallyCopiable and isTriviallConstructible: no class in it. *)
RECURSIVE Trivial(_)
Trivial(t) ==
    /\ t.kind \notin {"class", "vector", "bounded"}
    /\ \A i \in DOMAIN t.of : Trivial(t.of[i])

RECURSIVE RequiresDestructor(_)
RequiresDestructor(t) ==
    t.kind = "vector" \/ \E i \in DOMAIN t.of : RequiresDestructor(t.of[i])

-----------------------------------------------------------------------------
(* Memory: blocks of words. A variable is a block as long as it is in      *)
(* scope, and so is a block of malloc until it is freed. fault: something  *)
(* was done that has no meaning, a use of a word nobody has written or of  *)
(* a block that is not there.                                              *)

FirstTemporary == 50
LiteralBlock(n) == 20 + n
FirstHeapBlock == 100

At(b, i) == [block |-> b, at |-> i]
Plus(a, n) == [a EXCEPT !.at = @ + n]

Exists(m, a) == a.block \in DOMAIN m.block /\ a.at \in DOMAIN m.block[a.block]
Load(m, a) == IF Exists(m, a) THEN m.block[a.block][a.at] ELSE Raw

(* One operation after another: the memory m is computed, then Step of it. *)
Then(m, Step(_)) == CHOOSE r \in {Step(acc) : acc \in {m}} : TRUE

Faulty(m) == [m EXCEPT !.fault = TRUE]
Store(m, a, w) == Then(m, LAMBDA now :
    IF Exists(now, a) /\ w # Raw THEN [now EXCEPT !.block[a.block][a.at] = w] ELSE Faulty(now))

(* A loop that counts from 0 to n - 1. *)
Repeat(m, n, Step(_, _)) ==
    LET after[i \in 0..n] ==
          IF i = 0 THEN m ELSE Then(after[i - 1], LAMBDA acc : Step(acc, i - 1))
    IN after[n]

(* One step for every part or field, in their order. *)
ForEach(m, s, Step(_, _)) == Repeat(m, Len(s), LAMBDA acc, i : Step(acc, s[i + 1]))

MemSetZero(m, a, n) == Repeat(m, n, LAMBDA acc, i : Store(acc, Plus(a, i), 0))

(* What is not initialised may be moved: it is not looked at. *)
MemMove(m, a, b, n) ==
    IF Exists(m, a) /\ Exists(m, b)
    THEN [m EXCEPT !.block[a.block] =
            [i \in DOMAIN @ |-> IF i \in a.at..(a.at + n - 1)
                                THEN m.block[b.block][b.at + (i - a.at)] ELSE @[i]]]
    ELSE Faulty(m)

RawWords(n) == [i \in 1..n |-> Raw]
WithBlock(m, b, n) == [m EXCEPT !.block = (b :> RawWords(n)) @@ @]
Without(m, b) == [m EXCEPT !.block = [c \in DOMAIN @ \ {b} |-> @[c]]]

Heap(m) == {b \in DOMAIN m.block : b >= FirstHeapBlock}

(* malloc answers a block nothing in memory is the number of. *)
Unused(m, first) ==
    LET taken == DOMAIN m.block \cup UNION {ToSet(m.block[b]) : b \in DOMAIN m.block}
        candidates == first..(first + Cardinality(taken))
    IN Min({b \in candidates : b \notin taken})

Free(m, b) == Then(m, LAMBDA now : IF b \in Heap(now) THEN Without(now, b) ELSE Faulty(now))

-----------------------------------------------------------------------------
(* Where the parts of a value are.                                         *)

Part(t, a) == [type |-> t, at |-> a]

PartsOf(t, a) ==
    LET ts == Members(t)
        before[i \in DOMAIN ts] == IF i = 1 THEN 0 ELSE before[i - 1] + Size(ts[i - 1])
    IN [i \in DOMAIN ts |-> Part(ts[i], Plus(a, before[i]))]

ActiveAt(t, a) == Plus(a, Size(t) - 1)
Is(m, t, a, i) == Load(m, ActiveAt(t, a)) = i - 1
SetActiveEntry(m, t, a, i) == Store(m, ActiveAt(t, a), i - 1)

DataAt(a) == a
SizeAt(a) == Plus(a, 1)
CapacityAt(a) == Plus(a, 2)
Slot(m, t, a, i) == At(Load(m, DataAt(a)), 1 + i * Size(Elem(t)))

(* A number the program computes with: a word nobody has written is none.  *)
Loaded(m, a, Use(_)) == IF Load(m, a) = Raw THEN Faulty(m) ELSE Use(Load(m, a))

-----------------------------------------------------------------------------
(* init, drop and assign of every type, and the methods of a vector. They  *)
(* call each other by name, as emitCall and instantiateOverload find them: *)
(* a function f of the value of type t at a, given a value of type u at b, *)
(* a number b, or a place b for what it returns.                           *)

RECURSIVE Call(_, _, _, _, _, _)
InitAt(m, t, a) == Call(m, "init", t, a, t, a)
DropAt(m, t, a) == Call(m, "drop", t, a, t, a)
AssignAt(m, t, a, u, b) == Call(m, "assign", t, a, u, b)
GrowAt(m, t, a, target) == Call(m, "_grow", t, a, Number, target)
AppendAt(m, t, a, u, b) == Call(m, "append", t, a, u, b)
PopAt(m, t, a, answer) == Call(m, "pop", t, a, Elem(t), answer)

FirstCapacity == 4

InitVector(m, t, a) ==
    Then(Store(Store(m, SizeAt(a), 0), CapacityAt(a), FirstCapacity), LAMBDA empty :
      LET data == Unused(empty, FirstHeapBlock)
          allocated == WithBlock(empty, data, FirstCapacity * Size(Elem(t)))
      IN Repeat(Store(allocated, DataAt(a), data), FirstCapacity,
                LAMBDA acc, i : InitAt(acc, Elem(t), Slot(acc, t, a, i))))

InitOf(m, t, a) ==
    CASE t.kind = "vector" -> InitVector(m, t, a)
      [] Trivial(t) -> MemSetZero(m, a, Size(t))
      [] t.kind = "alternative" -> InitAt(SetActiveEntry(m, t, a, 1), t.of[1], a)
      [] OTHER -> ForEach(m, PartsOf(t, a), LAMBDA acc, p : InitAt(acc, p.type, p.at))

(* A mutant: only the slots that hold an element are destroyed. *)
DropElements(m, t, a, n) ==
    Repeat(m, Load(m, SizeAt(a)), LAMBDA acc, i : DropAt(acc, Elem(t), Slot(acc, t, a, i)))

DropSlots(m, t, a, n) ==
    Repeat(m, n, LAMBDA acc, i : DropAt(acc, Elem(t), Slot(acc, t, a, i)))

DropVector(m, t, a) ==
    Loaded(m, CapacityAt(a), LAMBDA capacity :
      LET emptied == DropSlots(m, t, a, capacity)
          freed == IF capacity # 0 THEN Free(emptied, Load(m, DataAt(a))) ELSE emptied
      IN Store(Store(freed, SizeAt(a), 0), CapacityAt(a), 0))

DropAlternative(m, t, a) ==
    Loaded(m, ActiveAt(t, a), LAMBDA active :
      Repeat(m, Len(t.of), LAMBDA acc, i :
        IF Is(acc, t, a, i + 1) THEN DropAt(acc, t.of[i + 1], a) ELSE acc))

DropOf(m, t, a) ==
    CASE ~RequiresDestructor(t) -> m
      [] t.kind = "vector" -> DropVector(m, t, a)
      [] t.kind = "alternative" -> DropAlternative(m, t, a)
      [] OTHER -> ForEach(m, PartsOf(t, a), LAMBDA acc, p : DropAt(acc, p.type, p.at))

(* A value copied to a variable of its own: constructed, then assigned to. *)
Copied(m, t, a, b) == AssignAt(InitAt(m, t, a), t, a, t, b)
(* A mutant: the new slots are assigned to without being constructed. *)
GrowRaw(m, t, a, target) ==
    IF Load(m, CapacityAt(a)) > target THEN m
    ELSE LET new == Unused(m, FirstHeapBlock)
             allocated == WithBlock(m, new, 2 * target * Size(Elem(t)))
             copied == Repeat(allocated, Load(m, SizeAt(a)), LAMBDA acc, i :
                 AssignAt(acc, Elem(t), At(new, 1 + i * Size(Elem(t))), Elem(t), Slot(acc, t, a, i)))
             freed == Free(DropSlots(copied, t, a, Load(m, CapacityAt(a))), Load(m, DataAt(a)))
         IN Store(Store(freed, CapacityAt(a), 2 * target), DataAt(a), new)

Grow(m, t, a, target) ==
    IF Load(m, CapacityAt(a)) > target THEN m
    ELSE LET new == Unused(m, FirstHeapBlock)
             capacity == 2 * target
             To(i) == At(new, 1 + i * Size(Elem(t)))
             allocated == WithBlock(m, new, capacity * Size(Elem(t)))
             made == Repeat(allocated, capacity, LAMBDA acc, i : InitAt(acc, Elem(t), To(i)))
             copied == Repeat(made, Load(m, SizeAt(a)),
                 LAMBDA acc, i : AssignAt(acc, Elem(t), To(i), Elem(t), Slot(acc, t, a, i)))
             freed == Free(DropSlots(copied, t, a, Load(m, CapacityAt(a))), Load(m, DataAt(a)))
         IN Store(Store(freed, CapacityAt(a), capacity), DataAt(a), new)

VectorAppend(m, t, a, u, b) ==
    LET size == Load(m, SizeAt(a))
        assigned == Then(GrowAt(m, t, a, size + 1),
                         LAMBDA grown : AssignAt(grown, Elem(t), Slot(grown, t, a, size), u, b))
    IN Store(assigned, SizeAt(a), size + 1)

(* A mutant: the slot is destroyed and left so. *)
Unmade(m, t, a, i) == DropAt(m, Elem(t), Slot(m, t, a, i))

Remade(m, t, a, i) ==
    InitAt(DropAt(m, Elem(t), Slot(m, t, a, i)), Elem(t), Slot(m, t, a, i))

(* A mutant: the copy is made when the element is destroyed already. *)
PopDestroyed(m, t, a, answer) ==
    LET last == Load(m, SizeAt(a)) - 1
    IN Then(Remade(Store(m, SizeAt(a), last), t, a, last), LAMBDA acc :
         Copied(acc, Elem(t), answer, Slot(acc, t, a, last)))

(* What pop answers is a copy in a temporary of the caller. *)
VectorPop(m, t, a, answer) ==
    LET last == Load(m, SizeAt(a)) - 1
        copied == Copied(m, Elem(t), answer, Slot(m, t, a, last))
    IN Then(Store(copied, SizeAt(a), last), LAMBDA acc : Remade(acc, t, a, last))

(* A value that lives in a temporary ends with it. *)
Ended(m, t, b) == Without(DropAt(m, t, At(b, 1)), b)

Discarded(m, t, a) ==
    LET b == Unused(m, FirstTemporary)
    IN Ended(PopAt(WithBlock(m, b, Size(Elem(t))), t, a, At(b, 1)), Elem(t), b)

VectorAssign(m, t, a, b) ==
    Then(InitVector(DropVector(m, t, a), t, a), LAMBDA empty :
      Loaded(empty, SizeAt(b), LAMBDA size :
        Repeat(empty, size, LAMBDA acc, i :
          AppendAt(acc, t, a, Elem(t), Slot(acc, t, b, i)))))

(* A field assigned to an alternative that holds another: what it held is   *)
(* dropped, and a field that is not a builtin is assigned a fresh value of *)
(* its type, that nothing destroys, where nothing was constructed.         *)
SwitchTo(m, t, a, i) ==
    Then(SetActiveEntry(DropAt(m, t, a), t, a, i), LAMBDA active :
      LET u == t.of[i]
          fresh == Unused(active, FirstTemporary)
          constructed == InitAt(WithBlock(active, fresh, Size(u)), u, At(fresh, 1))
      IN IF u.kind = "number" THEN active
         ELSE Without(AssignAt(constructed, u, a, u, At(fresh, 1)), fresh))

AssignField(m, t, a, u, b) ==
    Loaded(m, ActiveAt(t, a), LAMBDA active :
      LET i == FieldOf(t, u)
      IN AssignAt(IF active = i - 1 THEN m ELSE SwitchTo(m, t, a, i), u, a, u, b))

AssignAlternative(m, t, a, b) ==
    Loaded(m, ActiveAt(t, b), LAMBDA active :
      ForEach(m, t.of, LAMBDA acc, u :
        IF Is(acc, t, b, FieldOf(t, u)) THEN AssignField(acc, t, a, u, b) ELSE acc))

AssignOf(m, t, a, u, b) ==
    CASE t # u -> AssignField(m, t, a, u, b)
      [] t.kind = "number" -> Store(m, a, Load(m, b))
      [] t.kind = "vector" -> VectorAssign(m, t, a, b)
      [] Trivial(t) -> MemMove(m, a, b, Size(t))
      [] t.kind = "alternative" -> AssignAlternative(m, t, a, b)
      [] OTHER -> LET from == PartsOf(t, b)
                      to == PartsOf(t, a)
                  IN Repeat(m, Len(to), LAMBDA acc, i :
                       AssignAt(acc, to[i + 1].type, to[i + 1].at,
                                from[i + 1].type, from[i + 1].at))

Body(m, f, t, a, u, b) ==
    CASE f = "init" -> InitOf(m, t, a)
      [] f = "drop" -> DropOf(m, t, a)
      [] f = "assign" -> AssignOf(m, t, a, u, b)
      [] f = "_grow" -> Grow(m, t, a, b)
      [] f = "append" -> VectorAppend(m, t, a, u, b)
      [] f = "pop" -> VectorPop(m, t, a, b)

Call(m, f, t, a, u, b) ==
    Then(<<m, t, a, u, b>>, LAMBDA c : Body(c[1], f, c[2], c[3], c[4], c[5]))

VectorClear(m, t, a) == Repeat(m, Load(m, SizeAt(a)), LAMBDA acc, i : Discarded(acc, t, a))

VectorErase(m, t, a, index) ==
    LET size == Load(m, SizeAt(a))
        shifted == Repeat(m, size - 1 - index, LAMBDA acc, i :
            AssignAt(acc, Elem(t), Slot(acc, t, a, index + i),
                     Elem(t), Slot(acc, t, a, index + i + 1)))
    IN Discarded(shifted, t, a)

VectorDropBack(m, t, a, quantity) ==
    LET left == Load(m, SizeAt(a)) - quantity
    IN Store(Repeat(m, quantity, LAMBDA acc, i : Remade(acc, t, a, left + i)), SizeAt(a), left)

VectorResize(m, t, a, n) ==
    LET size == Load(m, SizeAt(a))
        x == Unused(m, FirstTemporary)
        made == InitAt(WithBlock(GrowAt(m, t, a, n), x, Size(Elem(t))), Elem(t), At(x, 1))
    IN IF n > size
       THEN Ended(Repeat(made, n - size, LAMBDA acc, i : AppendAt(acc, t, a, Elem(t), At(x, 1))),
                  Elem(t), x)
       ELSE Repeat(m, size - n, LAMBDA acc, i : Discarded(acc, t, a))

-----------------------------------------------------------------------------
(* The places a program can name, with the steps that lead there: members, *)
(* elements and what an alternative holds.                                 *)

Place(t, a, path) == [type |-> t, at |-> a, path |-> path, literal |-> FALSE, number |-> 0]

(* The elements a vector has room for, or those below its size. *)
Slots(m, t, a, n) == [i \in 1..n |-> Part(Elem(t), Slot(m, t, a, i - 1))]

Inside(m, t, a) ==
    CASE t.kind = "number" -> <<>>
      [] Collection(t) -> Slots(m, t, a, Load(m, SizeAt(a)))
      [] t.kind = "alternative" -> [i \in {2} |-> Part(t.of[Load(m, ActiveAt(t, a)) + 1], a)]
      [] OTHER -> PartsOf(t, a)

RECURSIVE PlacesIn(_, _, _, _)
PlacesIn(m, t, a, path) ==
    LET inside == Inside(m, t, a)
    IN {Place(t, a, path)} \cup
       UNION {PlacesIn(m, inside[i].type, inside[i].at, Append(path, i)) : i \in DOMAIN inside}

DepthOf(m) == Cardinality(DOMAIN m.block \cap DOMAIN types)
Depth == DepthOf(mem)
PlacesOf(m, v) == PlacesIn(m, types[v], At(v, 1), <<v>>)
Places == UNION {PlacesOf(mem, v) : v \in 1..Depth}
Numbers == {[Place(Number, At(LiteralBlock(n), 1), <<>>) EXCEPT !.literal = TRUE, !.number = n]
              : n \in Literals}
Collections == {p \in Places : Collection(p.type)}

(* Neither is inside the other: what is read stays what it was while the   *)
(* other is changed.                                                       *)
Apart(p, q) == q.literal \/ ~(IsPrefix(p.path, q.path) \/ IsPrefix(q.path, p.path))

RECURSIVE ValueAt(_, _, _)
ValueAt(m, t, a) ==
    LET inside == Inside(m, t, a)
    IN CASE t.kind = "number" -> Load(m, a)
         [] t.kind = "alternative" ->
              <<Load(m, ActiveAt(t, a)) + 1, ValueAt(m, inside[2].type, inside[2].at)>>
         [] OTHER -> [i \in DOMAIN inside |-> ValueAt(m, inside[i].type, inside[i].at)]

-----------------------------------------------------------------------------
(* The program. What follows a fault has no meaning and is left out.       *)

Elements(m) ==
    LET collections == UNION {PlacesOf(m, v) : v \in 1..DepthOf(m)}
    IN MapThenSumSet(LAMBDA p : Load(m, SizeAt(p.at)), {p \in collections : Collection(p.type)})

ReadIn(m) ==
    IF m.fault THEN <<"torn">>
    ELSE [v \in 1..DepthOf(m) |-> ValueAt(m, types[v], At(v, 1))]

Did(op, p, e, n, answer) ==
    /\ ~mem.fault
    /\ Elements(mem') <= Room[types]
    /\ call' = [op |-> op, type |-> p.type, path |-> p.path, n |-> n, answer |-> answer,
                value |-> [x \in {"type", "path", "literal", "number"} |-> e[x]]]
    /\ seen' = ReadIn(mem')
    /\ UNCHANGED types

Nothing == Place(Number, At(0, 1), <<>>)

Init ==
    /\ types \in DOMAIN Room
    /\ mem = [block |-> [b \in {LiteralBlock(n) : n \in Literals} |-> <<b - LiteralBlock(0)>>],
              fault |-> FALSE]
    /\ call = [op |-> "none"]
    /\ seen = <<>>

Declare ==
    /\ Depth < Len(types)
    /\ LET t == types[Depth + 1]
           b == Depth + 1
       IN /\ mem' = InitAt(WithBlock(mem, b, Size(t)), t, At(b, 1))
          /\ Did("declare", Place(t, At(b, 1), <<b>>), Nothing, 0, <<>>)

Leave ==
    /\ Depth > 0
    /\ mem' = Without(DropAt(mem, types[Depth], At(Depth, 1)), Depth)
    /\ Did("leave", Place(types[Depth], At(Depth, 1), <<Depth>>), Nothing, 0, <<>>)

Assignable(t, u) == t = u \/ (t.kind = "alternative" /\ \E i \in DOMAIN t.of : t.of[i] = u)

(* An alternative is made to hold a field that owns memory, and holds      *)
(* another.                                                                *)
RECURSIVE Switches(_, _, _, _)
Switches(t, a, u, b) ==
    CASE t # u -> ~Is(mem, t, a, FieldOf(t, u)) /\ RequiresDestructor(u)
      [] t.kind = "alternative" ->
           LET field == t.of[Load(mem, ActiveAt(t, b)) + 1]
           IN Switches(t, a, field, b)
      [] Collection(t) -> FALSE
      [] OTHER -> \E i \in DOMAIN t.of :
                    Switches(t.of[i], PartsOf(t, a)[i].at, t.of[i], PartsOf(t, b)[i].at)

Assign ==
    \E p \in Places, e \in Places \cup Numbers :
        /\ Assignable(p.type, e.type)
        /\ Apart(p, e)
        /\ SwitchToOwners \/ ~Switches(p.type, p.at, e.type, e.at)
        /\ mem' = AssignAt(mem, p.type, p.at, e.type, e.at)
        /\ Did("assign", p, e, 0, <<>>)

(* A bounded vector that is full takes no more, and is not made larger.    *)
Full(p) == p.type.kind = "bounded" /\ ~(p.type.n > Load(mem, SizeAt(p.at)))
Clamped(p, n) == IF p.type.kind = "bounded" /\ n > p.type.n THEN p.type.n ELSE n

AppendTo ==
    \E p \in Collections, e \in Places \cup Numbers :
        /\ e.type = Elem(p.type)
        /\ Apart(p, e)
        /\ mem' = IF Full(p) THEN mem ELSE AppendAt(mem, p.type, p.at, e.type, e.at)
        /\ Did("append", p, e, 0, <<>>)

Pop ==
    \E p \in Collections :
        /\ Load(mem, SizeAt(p.at)) > 0
        /\ LET t == Elem(p.type)
               b == Unused(mem, FirstTemporary)
               popped == PopAt(WithBlock(mem, b, Size(t)), p.type, p.at, At(b, 1))
           IN /\ mem' = Ended(popped, t, b)
              /\ Did("pop", p, Nothing, 0, ValueAt(popped, t, At(b, 1)))

Erase ==
    \E p \in Collections : \E i \in 1..Load(mem, SizeAt(p.at)) :
        /\ mem' = VectorErase(mem, p.type, p.at, i - 1)
        /\ Did("erase", p, Nothing, i, <<>>)

Resize ==
    \E p \in Collections, n \in 0..Room[types] :
        /\ mem' = VectorResize(mem, p.type, p.at, Clamped(p, n))
        /\ Did("resize", p, Nothing, n, <<>>)

DropBack ==
    \E p \in Collections : \E n \in 0..Load(mem, SizeAt(p.at)) :
        /\ mem' = VectorDropBack(mem, p.type, p.at, n)
        /\ Did("drop_back", p, Nothing, n, <<>>)

Clear ==
    \E p \in Collections :
        /\ mem' = VectorClear(mem, p.type, p.at)
        /\ Did("clear", p, Nothing, 0, <<>>)

Next ==
    \/ Declare \/ Leave \/ Assign
    \/ AppendTo \/ Pop \/ Erase \/ Resize \/ DropBack \/ Clear

Spec == Init /\ [][Next]_vars

-----------------------------------------------------------------------------
(* Properties.                                                             *)

(* No operation touches memory that is not there or computes with a word   *)
(* nobody wrote: what init constructs, assign and drop may rely on.        *)
MemorySafe == ~mem.fault

(* Every place a destructor would visit: also the slots of a vector beyond *)
(* its size, up to its capacity.                                           *)
Constructed(m, t, a) ==
    IF Collection(t) THEN Slots(m, t, a, Load(m, CapacityAt(a))) ELSE Inside(m, t, a)

RECURSIVE Sound(_, _, _)
Sound(m, t, a) ==
    /\ CASE t.kind = "number" -> Load(m, a) # Raw
         [] t.kind = "alternative" -> Load(m, ActiveAt(t, a)) \in 0..(Len(t.of) - 1)
         [] Collection(t) ->
              /\ Load(m, DataAt(a)) \in Heap(m)
              /\ Load(m, CapacityAt(a)) * Size(Elem(t)) = Len(m.block[Load(m, DataAt(a))])
              /\ Load(m, SizeAt(a)) \in 0..Load(m, CapacityAt(a))
         [] OTHER -> TRUE
    /\ LET inside == Constructed(m, t, a)
       IN \A i \in DOMAIN inside : Sound(m, inside[i].type, inside[i].at)

RECURSIVE Owners(_, _, _)
Owners(m, t, a) ==
    LET inside == Constructed(m, t, a)
    IN (IF Collection(t) THEN {a} ELSE {}) \cup
       UNION {Owners(m, inside[i].type, inside[i].at) : i \in DOMAIN inside}

AllSound == \A v \in 1..Depth : Sound(mem, types[v], At(v, 1))
AllOwners == UNION {Owners(mem, types[v], At(v, 1)) : v \in 1..Depth}

(* Between two operations every value is constructed, down to the slots of *)
(* a vector that hold no element: append assigns to them, drop and the     *)
(* growth of a vector destroy them, and neither looks at the size.         *)
EverySlotConstructed == ~mem.fault => AllSound

(* A block of the heap belongs to one vector, and none is left when its    *)
(* vector is gone: the copies assign makes are deep, the temporaries of    *)
(* pop, erase and resize are destroyed, growth frees what it leaves.       *)
OwnedOnce ==
    AllSound => /\ \A b \in Heap(mem) : \E a \in AllOwners : Load(mem, DataAt(a)) = b
                /\ \A a, b \in AllOwners :
                      Load(mem, DataAt(a)) = Load(mem, DataAt(b)) => a = b
                /\ DOMAIN mem.block = Heap(mem) \cup 1..Depth \cup
                                      {LiteralBlock(n) : n \in Literals}

(* What the program reads in its variables behaves like values that are    *)
(* its own: no operation changes a variable it is not about.               *)
Abstract == INSTANCE ValueSemantics WITH vals <- seen

ImplementsValues == Abstract!Spec

=============================================================================
