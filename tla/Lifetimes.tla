----------------------------- MODULE Lifetimes -----------------------------
(***************************************************************************)
(* From the tree of a function to a run of the code it becomes: the        *)
(* destructions are written, the statements are flattened one at a time,   *)
(* the graph of an action function is copied per act, and an activation    *)
(* executes one operation a step. Memory knows which values have been      *)
(* constructed and not yet destroyed; a second activation has a stack of   *)
(* its own, so what the first one left there is gone.                      *)
(*                                                                         *)
(* todo is what the source still has to do: a sequence of operations of    *)
(* the tree, read as a procedure, with nothing said of destruction.        *)
(***************************************************************************)
EXTENDS Flatten

CONSTANTS Programs,     \* bodies of functions
          Synthetic     \* acts written by the sub-action pass

VARIABLES source, phase, fun, turn, found, copies, copy, at, mem, waiting, todo

translating == <<fun, turn, found, copies>>
running == <<copy, at, mem, waiting, todo>>
vars == <<source, phase, translating, running>>

RECURSIVE AllOps(_)
AllOps(ops) ==
    ToSet(ops) \cup UNION {UNION {AllOps(ops[i].r[j]) : j \in DOMAIN ops[i].r}
                           : i \in DOMAIN ops}

(* What a value of a type is made of, and so what it may hold.             *)
RECURSIVE PartsOf(_)
PartsOf(type) ==
    {type} \cup IF type.kind \in {"owning_ptr", "reference"} THEN {}
                ELSE UNION {PartsOf(type.of[i]) : i \in DOMAIN type.of}

Holds(type) == \E part \in PartsOf(type) : part.drop

Owners(body) ==
    {op.v : op \in {o \in AllOps(body) : o.k \in {"construct", "call"} /\ Holds(o.t)}}

(***************************************************************************)
(* The source as a procedure. Markers stand for what a statement still has *)
(* to do when its first region is over.                                    *)
(***************************************************************************)
Marked(op, kind) == [op EXCEPT !.k = kind]

UpTo(todoing, kind) == SelectInSeq(todoing, LAMBDA op : op.k = kind)

(* The same work, with something that can be seen to happen at its head.   *)
RECURSIVE Unfold(_)
Unfold(work) ==
    IF work = <<>> THEN work
    ELSE LET op == Head(work)
             rest == Tail(work)
             loop == UpTo(rest, "again")
         IN CASE op.k \in {"decl", "exp", "list"} -> Unfold(op.r[1] \o rest)
              [] op.k = "yield" -> Unfold(rest)
              [] op.k = "if" -> Unfold(op.r[1] \o <<Marked(op, "branch")>> \o rest)
              [] op.k \in {"while", "again"} ->
                     Unfold(op.r[1] \o <<Marked(op, "test")>> \o rest)
              [] op.k = "and" -> Unfold(op.r[1] \o <<Marked(op, "both")>> \o rest)
              [] op.k = "or" -> Unfold(op.r[1] \o <<Marked(op, "either")>> \o rest)
              [] op.k = "break" -> Unfold(SubSeq(rest, loop + 1, Len(rest)))
              [] op.k = "continue" -> Unfold(SubSeq(rest, loop, Len(rest)))
              [] op.k = "return" -> Unfold(op.r[1])
              [] OTHER -> work

Decisions == {"branch", "test", "both", "either"}

Decided(op, holds) ==
    CASE op.k = "branch" -> IF holds THEN op.r[2] ELSE op.r[3]
      [] op.k = "test" -> IF holds THEN Append(op.r[2], Marked(op, "again")) ELSE <<>>
      [] op.k = "both" -> IF holds THEN op.r[2] ELSE <<>>
      [] op.k = "either" -> IF holds THEN <<>> ELSE op.r[2]

(* The acts a suspension offers, and what follows each of them.            *)
Offered(op) ==
    CASE op.k = "act" -> {op.v}
      [] op.k = "actions" -> {op.r[i][1].v : i \in DOMAIN op.r}
      [] OTHER -> {}

Following(work, act) ==
    LET op == Head(work)
    IN IF op.k = "act" THEN Tail(work)
       ELSE LET i == CHOOSE j \in DOMAIN op.r : op.r[j][1].v = act
            IN Tail(op.r[i]) \o Tail(work)

(***************************************************************************)
(* Translation.                                                            *)
(***************************************************************************)
Init ==
    /\ source \in Programs
    /\ phase = "squash"
    /\ fun = Start(Destructed(source))
    /\ turn = 1
    /\ found = FALSE
    /\ copies = <<>>
    /\ copy = NoValue
    /\ at = <<Entry, 1>>
    /\ mem = [x \in Owners(source) |-> "raw"]
    /\ waiting = {}
    /\ todo = <<>>

(***************************************************************************)
(* The schedule: which step is next, from the stage alone. The rest of a   *)
(* step is a function of the state, so a step of the translation can be    *)
(* taken exactly when its part of the schedule can.                        *)
(***************************************************************************)
stage == <<phase, turn, found>>

Pending == {j \in turn..Len(Kinds) : Holding(fun, Kinds[j]) # <<>>}

(* One statement, of the next kind of the round that has one.              *)
SquashNext ==
    /\ phase = "squash"
    /\ Pending # {}
    /\ turn' = Min(Pending) + 1
    /\ found' = TRUE
    /\ UNCHANGED phase

(* Fault: a round that found nothing is followed by another one.           *)
SquashForever ==
    /\ phase = "squash"
    /\ Pending = {}
    /\ found
    /\ turn' = 1
    /\ UNCHANGED <<phase, found>>

(* Another round, as long as one found a statement.                        *)
SquashAgain ==
    /\ phase = "squash"
    /\ Pending = {}
    /\ found
    /\ turn' = 1
    /\ found' = FALSE
    /\ UNCHANGED phase

SquashEnds ==
    /\ phase = "squash"
    /\ Pending = {}
    /\ ~found
    /\ phase' = "cut"
    /\ UNCHANGED <<turn, found>>

Pass(from, to) ==
    /\ phase = from
    /\ phase' = to
    /\ UNCHANGED <<turn, found>>

Schedule == \/ SquashNext \/ SquashAgain \/ SquashEnds
            \/ Pass("cut", "copy") \/ Pass("copy", "clean")
            \/ Pass("clean", "drop") \/ Pass("drop", "ready")

Flatten ==
    /\ SquashNext
    /\ fun' = Squashed(fun, Kinds[Min(Pending)])
    /\ UNCHANGED <<source, copies, running>>

NextRound ==
    /\ SquashAgain
    /\ UNCHANGED <<source, fun, copies, running>>

(* Nothing is left to flatten: blocks nobody reaches go.                   *)
Prune ==
    LET flat == Pruned(fun.code, {Entry})
    IN /\ SquashEnds
       /\ fun' = [fun EXCEPT !.code = flat]
       /\ copies' = (NoValue :> flat)
       /\ UNCHANGED <<source, running>>

(* actionsToBraches: an action function is cut at its acts. One without an *)
(* act is left alone here and, by what the next passes do, below.          *)
Cut ==
    LET split == Split(fun.code)
    IN /\ Pass("cut", "copy")
       /\ fun' = [code |-> split.code, resume |-> split.resume, name |-> fun.name]
       /\ UNCHANGED <<source, copies, running>>

(* createDispatchers: a copy for the constructor and one for every act.    *)
Dispatch ==
    /\ Pass("copy", "clean")
    /\ copies' = [act \in {NoValue} \cup DOMAIN fun.resume |->
                    Pruned(fun.code, EntriesOf(fun, act, Synthetic))]
    /\ UNCHANGED <<source, fun, running>>

CleanUp ==
    /\ Pass("clean", "drop")
    /\ copies' = [act \in DOMAIN copies |-> CleanedUp(copies[act])]
    /\ UNCHANGED <<source, fun, running>>

(* dropUselessDestructors, of action functions only.                       *)
DropUseless ==
    /\ Pass("drop", "ready")
    /\ copies' = IF fun.resume = <<>> THEN copies
                  ELSE [act \in DOMAIN copies |->
                          WithoutUseless(copies[act], EntriesOf(fun, act, Synthetic),
                                         fun.name)]
    /\ UNCHANGED <<source, fun, running>>

(***************************************************************************)
(* Execution.                                                              *)
(***************************************************************************)
Current == copies[copy][at[1]][at[2]]
Onward == <<at[1], at[2] + 1>>

Runs(kinds) == phase = "running" /\ Current.k \in kinds

Becomes(arg, state) ==
    LET x == MemoryOf(fun.name, arg)
    IN IF x \in DOMAIN mem THEN [mem EXCEPT ![x] = state] ELSE mem

(* The constructor, or a call of the function.                             *)
Enter ==
    /\ phase = "ready"
    /\ phase' = "running"
    /\ todo' = source
    /\ UNCHANGED <<source, translating, copy, at, mem, waiting>>

(* An operation of the source.                                             *)
Execute ==
    /\ Runs({"construct", "call", "use"})
    /\ mem' = IF Current.k = "use" THEN mem ELSE Becomes(Value(Current.v), "alive")
    /\ todo' = Tail(Unfold(todo))
    /\ at' = Onward
    /\ UNCHANGED <<source, phase, translating, copy, waiting>>

(* An operation the passes wrote.                                          *)
Drop ==
    /\ Runs({"destroy"})
    /\ mem' = Becomes(Current.a[1], "dead")
    /\ at' = Onward
    /\ UNCHANGED <<source, phase, translating, copy, waiting, todo>>

Move ==
    /\ Runs({"copy", "assign"})
    /\ at' = Onward
    /\ UNCHANGED <<source, phase, translating, copy, mem, waiting, todo>>

(* The condition is free: every way through the function is taken.         *)
Decide ==
    /\ Runs({"cbr"})
    /\ \E way \in 1..2 :
         /\ at' = <<Current.to[way], 1>>
         /\ todo' = LET work == Unfold(todo)
                    IN Decided(Head(work), way = 1) \o Tail(work)
    /\ UNCHANGED <<source, phase, translating, copy, mem, waiting>>

(* A branch; a flat actions statement goes to its first alternative.       *)
Go ==
    /\ Runs({"br", "alts"})
    /\ at' = <<Current.to[1], 1>>
    /\ UNCHANGED <<source, phase, translating, copy, mem, waiting, todo>>

Suspend ==
    /\ Runs({"suspend"})
    /\ phase' = "waiting"
    /\ todo' = Unfold(todo)
    /\ waiting' = Offered(Head(Unfold(todo)))
    /\ UNCHANGED <<source, translating, copy, at, mem>>

(* The host calls an action the object waits for.                          *)
Resume ==
    /\ phase = "waiting"
    /\ \E act \in waiting :
         /\ copy' = act
         /\ at' = <<fun.resume[act], 1>>
         /\ todo' = Following(todo, act)
    /\ phase' = "running"
    /\ mem' = [x \in DOMAIN mem |-> "raw"]
    /\ waiting' = {}
    /\ UNCHANGED <<source, translating>>

Return ==
    /\ Runs({"yield"})
    /\ phase' = "done"
    /\ UNCHANGED <<source, translating, running>>

Translate == \/ Flatten \/ NextRound \/ Prune
             \/ Cut \/ Dispatch \/ CleanUp \/ DropUseless

Next == \/ Translate \/ Enter
        \/ Execute \/ Drop \/ Move \/ Decide \/ Go \/ Suspend \/ Resume \/ Return

(* The compiler does not stop in the middle of a function.                 *)
Spec == Init /\ [][Next]_vars /\ WF_stage(Schedule)

(***************************************************************************)
(* Properties.                                                             *)
(***************************************************************************)
Here == phase = "running"

(* The values an operation reads, directly or through a reference into     *)
(* them, of those whose memory matters.                                    *)
Reads(op) == {MemoryOf(fun.name, op.a[i]) : i \in DOMAIN op.a} \cap DOMAIN mem

Alive == {x \in DOMAIN mem : mem[x] = "alive"}

Given(op) == {MemoryOf(fun.name, Value(x)) : x \in ReturnedBy(op)}

(* The translation is a function of known shape at every step: what order  *)
(* lists is what code defines, only a terminator names other blocks, and   *)
(* those exist; execution is at an operation of the graph.                 *)
TypeOK ==
    /\ phase \in {"squash", "cut", "copy", "clean", "drop", "ready",
                  "running", "waiting", "done"}
    /\ phase = "squash" =>
         /\ ToSet(fun.order) = DOMAIN fun.code
         /\ Len(fun.order) = Cardinality(DOMAIN fun.code)
         /\ \A b \in DOMAIN fun.code : Successors(fun.code[b]) \subseteq DOMAIN fun.code
    /\ turn \in 1..(Len(Kinds) + 1)
    /\ found \in BOOLEAN
    /\ \A x \in DOMAIN mem : mem[x] \in {"raw", "alive", "dead"}
    /\ phase = "waiting" <=> waiting # {}
    /\ Here => /\ at[1] \in DOMAIN copies[copy]
               /\ at[2] \in DOMAIN copies[copy][at[1]]

(* What an activation destroys is something it constructed and has not     *)
(* destroyed before, on every path: no destructor runs twice, and none on  *)
(* memory that was never initialised.                                      *)
DestroyedOnce ==
    Here /\ Current.k = "destroy" => Reads(Current) \cap Alive # {}

(* Nothing is read after the value it belongs to is destroyed, be it the   *)
(* value itself, a reference into a temporary, the condition of a branch   *)
(* or what a function returns.                                             *)
ReadAlive ==
    Here /\ Current.k # "destroy" => Reads(Current) \subseteq Alive

(* Every value that holds a resource is destroyed before it goes: before   *)
(* the same variable is constructed again (the next iteration of a loop),  *)
(* before the activation suspends, and before the function returns, unless *)
(* it is what the function returns.                                        *)
NothingLost ==
    Here => /\ Current.k \in {"construct", "call"} => Current.v \notin Alive
            /\ Current.k = "suspend" => Alive = {}
            /\ Current.k = "yield" => Alive \subseteq Given(Current)

(* The graph does what the tree says, in the tree's order, and nothing     *)
(* else: the next thing it does that can be seen is the next thing the     *)
(* source does, whatever the conditions were, and it returns exactly when  *)
(* the source is over.                                                     *)
FollowsSource ==
    Here =>
      LET work == Unfold(todo)
      IN /\ Current.k \in {"construct", "call", "use"} =>
              /\ work # <<>>
              /\ Head(work).k = Current.k
              /\ Head(work).v = Current.v
              /\ Head(work).a = Current.a
         /\ Current.k = "cbr" => work # <<>> /\ Head(work).k \in Decisions
         /\ Current.k = "suspend" =>
              work # <<>> /\ Current.v \in Offered(Head(work))
         /\ Current.k = "yield" => work = <<>>

(* squashCF ends: no statement leaves another of its own to be flattened   *)
(* for ever, and every function gets through the passes.                *)
TranslationEnds == <>(phase = "ready")

=============================================================================
