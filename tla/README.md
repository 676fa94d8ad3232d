# Verification of the Rulebook compiler (rlc)

rlc compiles the Rulebook language. What sets the language apart is the *action
function*: a procedure that suspends at `act` statements and is compiled to a
class with one method per action, a `can_` method for each, and `is_done`. The
object is a plain value: it can be copied, saved, restored and driven by
anybody. The correctness of everything a user builds on it (games, learning
environments, fuzzers, state search) rests on the class behaving as the
procedure it was written as. That is what this project models first; around it
are the stages a program goes through before (lexer, parser, formatter, type
checking, destruction of values, flattening), the values it computes with
(vectors, dictionaries, what the compiler writes for a type), and the tables
through which a learner or a fuzzer drives it.

## 1. Inventory

| Component | Code | State | Operations | Interacts with |
|---|---|---|---|---|
| Action functions | `lib/dialect/src/LowerActionPass.cpp`, `ActionStatementsToCoro.cpp`, `AddPreconditionsCheckPass.cpp`, `ExtractPreconditionPass.cpp`, `assignActionIndicies` in `Operations.cpp` | per object: `resume_index`, the `frm` variables; per activation: hidden frame, locals | constructor, one wrapper per action name, `can_`, `is_done`, copy; the implementation with its resume switch | the host program calls it; reads the control flow graph of LowerToCf and the identifiers of type checking |
| Hidden frame | `LowerActionPass.cpp` 141-268 and 572-620, `getFrameLists`, `setFramesBody` | one slot per ctx and local parameter or argument | filled by constructor and wrappers, read by the implementation | the argument order type checking produces |
| Storage qualifier validation | `ActionLiveness.cpp` | a lattice per program point, the solver's work list, the diagnostics | visit of a point; verdict | decides which programs reach the lowering; follows the region graph of `Operations.cpp` |
| Flattening | `LowerToCf.cpp` | the blocks of a function | `while`, `if`, `actions`, `break`, `continue`, pruning | produces the graph the lowering works on |
| Sub-actions | `SubActionStatement` and `emitSubActionsInvocations` in `Operations.cpp`, `LowerSubActionStatements` | the objects a function nests | `subaction`, `subaction*`: writes a loop, an `actions` statement and synthetic acts | written in terms of action functions |
| Destruction of values | `EmitImplicitDestructorInvocationsPass.cpp`, `ReachingDefinitions.hpp`, `dropUselessDestructors` in `ActionStatementsToCoro.cpp` | the definitions that reach a point; the destructors written | end of a block, of a statement, of a turn; before an act | before flattening, and again in the copies of an implementation |
| Functions written for a type | `EmitImplicitInitPass.cpp`, `EmitImplicitAssignPass.cpp`, `emitImplicitDestructors` | none of their own: the memory of a value | `init`, `assign`, `drop` | every other operation on values |
| Dictionary | `stdlib/collections/dictionary.rl` | Robin Hood table: slots, size, capacity | insert, get, contains, remove, clear, grow | user hash and equality |
| Vector, BoundedVector | `stdlib/collections/vector.rl` | buffer, size, capacity | append, pop, erase, resize, drop_back | used by most of the library |
| Serialization, strings, bounded arguments | `stdlib/serialization/*.rl`, `string.rl`, `bounded_arg.rl` | byte vectors, read positions | to and from bytes and text | action tables |
| Action tables | `stdlib/action.rl` | a byte or text input and a position | parse, execute, enumerate, mask, observe | action functions, serialization |
| Lexer | `lib/parser/src/Lexer.cpp` | margins, open brackets, dedents owed | next token | the parser asks for tokens |
| Parser | `lib/parser/src/Parser.cpp` | the token in hand | recursive descent | builds the tree |
| Formatter | `lib/dialect/src/Serialization.cpp`, `SerializeRLPass.cpp` | the margin, what was printed last | `serialize` of each operation | reads the tree of the parser |
| Imports | `MultiFileParser.hpp` | files still to parse | include | parser |
| Type checking | `TypeCheck.cpp`, `Operations.cpp`, `OverloadResolver.cpp`, `SymbolTable.cpp`, `InstantiateTemplatesPass.cpp` and their headers | the symbol tables, the stack of builders, the module | declare, deduce, check an operation, choose an overload, instantiate | actions are checked inside the check of others; everything after it |
| Other passes | the rest of `lib/dialect/src` | the module | tree rewrites | the passes after them |
| Language server | `lib/lsp/src/*.cpp` | open documents, versions | open, change, close, queries | parser and type checker |
| Monte Carlo tree search | `lib/utils/include/rlc/utils/MCTS.hpp` | tree, visit counts, scores | select, expand, roll out, back up | any game state |
| Wrapper generators, driver, runtime | `lib/conversions`, `tool`, `lib/runtime` | none that matters | text generation, command line, I/O | |

There is no thread and no network in the compiled program: the hard behaviour is
*protocol order*. A host calls any method of any object in any order, with any
argument, copies objects between calls, and a checked build stops at the first
illegal call while an optimised build (`-O2`) does not look. Between two calls
everything that is not in the class is gone. What has to hold:

- **Action functions.** The object waits where the procedure waits; a call
  resumes the statement the procedure would resume, with the arguments of that
  call; `frm` variables survive, nothing else is read across a suspension;
  `resume_index` means two different things at different times (an identifier
  while a call runs, a resumption point between calls) and they never mix; a
  finished object is finished for good and says so; an activation returns.
- **Hidden frame.** What an activation reads under a name is what the caller of
  that very call passed for it.
- **Storage validation.** It stops, independent of the order of its visits it
  finds the least solution, and its silence means no local is read across an
  act.
- **Flattening.** The graph has the runs of the structured source and no more.
- **Destruction.** On every path what was constructed is destroyed once, not
  before its last use, and not later than its block, its turn or the next act.
- **Functions of a type.** Memory is constructed before it is assigned to and
  given back once; a copy shares nothing with what it was copied from.
- **Sub-actions.** Advancing a nested object through the outer one is advancing
  the nested object.
- **Dictionary, Vector.** They are the map and the sequence; no entry is lost by
  a growth, a displacement or a backward shift.
- **Serialization, action tables.** What is written reads back; a bad input ends
  the parse.
- **Lexer, parser, formatter.** Dedents match indents and follow the margins;
  the tree follows the precedence of operators; formatting a file changes
  neither the program nor loses a comment.
- **Type checking.** A name means its nearest declaration, whatever was checked
  in between; a program is rejected for what is wrong with it and no other is
  accepted; a call that is left is of a function that is left.
- **Imports, language server, search.** Every file is parsed once; answers
  belong to the current version; counts add up.

`PROJECT.json` lists the hazards behind these, each at its line.

## 2. Plan

Done, in this order:

1. `ActionProgram`, `ActionFunction`, `ActionCoro`: the action function, its
   abstract specification, and the refinement.
2. `HiddenFrame`: the layout below the abstraction of `ActionCoro` (there a
   hidden frame is a set of names; here it is slots and indices).
3. `ActionLiveness`: the analysis whose verdict `ActionCoro` assumes.
4. `Dict` and `DictMap`: the Robin Hood table against an abstract map.
5. `Lexer`, `Parser`, `Printer`, `FrontEnd`: from text to the tree and back,
   with the proofs about the lexer.
6. `Scopes`, `Flatten`, `Lifetimes`: from the tree to the graph an action
   function is cut out of, with the destructors on the way, and the runs of that
   graph against the source.
7. `Types`, `ValueSemantics`, `Values`: `init`, `assign`, `drop` and the vectors
   of the library, word by word, against values.
8. `Numbers`, `Encoding`, `ActionTable`: bytes, text, tensors and the list of all actions,
   and the loops of `action.rl` over them.
9. `Overloads`, `TypeCheck`, `Templates`, `TypeRules`: from the parsed module to
   its types, the rules of the language on the other side; with what a
   sub-action checks and writes.
10. Proofs: the action functions and the refinement, the storage analysis, the
    hidden frame, the tokens of the lexer; then the table invariant of `Dict`
    for every capacity and hash, that it refines the map, and the layout the
    lexer gives a text.
11. `ActionChecks`: how the checks of actions nest, as an abstract specification
    that `TypeCheck` implements, with its proofs for every program. No recursive
    definition is needed to state it.

Left, in the order of what it would add:

12. `SubActions`: what a sub-action writes as a composition of two
    `ActionFunction`s; and the graphs of `Flatten` as the programs of
    `ActionCoro`, in place of those written by hand.
13. The memory of `Values` under `Dict`.
14. `Imports` (work list), `LanguageServer` (documents and versions), `Search`
    (visit counts).

## 3. The modules

```
ActionProgram ── ActionFunction          (what the source says)
      │  │            ▲ INSTANCE Source
      │  └──── ActionCoro ── MCActionCoro
      │             └── ActionCoro_proofs
      └──── ActionLiveness ── MCActionLiveness, ActionLiveness_proofs
HiddenFrame ── MCHiddenFrame, HiddenFrame_proofs
Lexer ─┬─ FrontEnd ── MCFrontEnd         Lexer ── Lexer_proofs ── Lexer_layout
Parser ┤
Printer┘
Scopes ── Flatten ── Lifetimes ── MCLifetimes
Types ─┬─ Values ── MCValues
       └─ ValueSemantics ◀── INSTANCE Abstract ── Values
DictMap ◀── INSTANCE Map ── Dict ─┬─ MCDict
                                  └─ Dict_proofs
Numbers ─┬─ Encoding ── ActionTable ── MCActionTable
         └─ Numbers_proofs
Overloads ───┬─ TypeCheck ── Templates ── TypeRules ── MCTypeCheck
ActionChecks ┴─ (TypeCheck implements it)    ActionChecks ── ActionChecks_proofs
```

**ActionProgram** has no state. A program is its control flow graph, points
numbered in source order, and the constants say what the data does: `Exec` gives
the possible outcomes of a plain point, `Admits` the precondition written at an
act. On it are defined the identifiers and resumption points of
`assignActionIndicies`, the pruning of unreachable blocks, and the liveness of
locals twice: along the edges control takes (`LiveBefore`) and along those the
analysis follows (`SeenLive`), which differ at `break` and `continue`. Its
assumptions are what the parser and the type checker guarantee; TLC evaluates
them on each program.

**ActionFunction** is the promise: an object is absent, running, waiting at a
set of acts, or done. The host constructs, calls, misuses and copies; the
procedure continues, waits or finishes. There is no index and no dispatch.

**ActionCoro** is the compiled class. `frames[h]` is the object of handle `h`
(`resume_index` and the `frm` variables); `self`, `pc`, `bound` are the
activation in progress (which object, where, which locals and hidden slots it
has set); `aborted` is a failed assertion. `checked` is whether the build checks
preconditions: it is picked from `Builds` in `Init` and no action changes it, so
that one run covers both builds.

| Action | Code |
|---|---|
| `Construct` | `emitActionWrapperCalls`, first wrapper: `init`, assignment of the frm arguments, precondition check, entry at block 0 |
| `Call` | `emitSingleActionStatementWrapper`, `emitDispatchToImpl`: check of `can_`, the first branch whose resumption point matches, argument copied into the class, identifier stored, hidden frame filled, switch entered |
| `CallIgnored` | the else-less end of that chain in a build without checks |
| `Abort` | the assertion of `AddPreconditionsCheckPass` |
| `Copy` | `assign` of the class (external: generated for every class) |
| `Yield` | the `Yield` an act or a return became, with the store before it (`splitActionBlocks`, `insertTerminatorResumptionIndexStore`) |
| `FallIntoAlternatives` | the branch an `actions` statement is erased to (`FlatActionStatementEraser`) |
| `Plain` | any other statement |

A call whose act is synthetic (written by the sub-action pass) reads the
identifier through the switch, every other enters a copy of the implementation
with the switch resolved; `Enter` has both.

**HiddenFrame** takes the layout seriously: a slot is an index, computed one way
where it is stored and another where it is read. The action functions themselves
(`params`, `acts`) are chosen in `Init`, so one run covers them all.

**ActionLiveness** is the analysis: `before` is the content of the lattices,
`pending` the solver's work list, `judged` and `reported` the verdict. `Visit`
is one visit with `joinAndMark`, including its habit of answering `Change` when
a variable is alive after its own declaration. The solver itself is MLIR's; it
is modelled by how the analysis uses it (each point visited once, then again
when something it depends on answered `Change`, in any order).

**Lexer** is `Lexer::next`: `text` and `at` are the input, `indentStack`,
`newLine`, `nestedParentesys`, `deindentToEmit` and `emittedExtraNewLine` the
members of the class under their names, `out` what was given so far. `NextToken`
is one call. **Parser** has no state that outlives a call: each function of the
recursive descent is a rule over the sequence of tokens, `Tree` and `Accepted`
are its answer. **Printer** is `serialize` of each operation (`Printed`).
**FrontEnd** composes them: the lexer takes steps until it is finished, `Format`
writes the tree out and hands the text to the lexer again. `Faithful` lists what
the formatter is known to lose.

**Scopes** is where a value lives: the tree with the destructors
`EmitImplicitDestructorInvocations` writes (`Destructed`) and the definitions
that reach a point. **Flatten** is `LowerToCf` on that tree (`Start`,
`Squashed`, one statement at a time, `Pruned`), then what
`ActionStatementsToCoro` does to the graph (`Split`, `EntriesOf`, `CleanedUp`,
`WithoutUseless`). **Lifetimes** runs both:

| Action | Code |
|---|---|
| `Flatten`, `NextRound`, `Prune` | `squashCF`: one statement of the next kind that has one; another round when one found something; the blocks nobody reaches |
| `Cut`, `Dispatch`, `CleanUp` | `actionsToBraches`, `createDispatchers`, the clean-up of a copy |
| `DropUseless` | `dropUselessDestructors` in each copy |
| `Enter`, `Suspend`, `Resume`, `Return` | a call of the compiled function, a yield at an act, the call that resumes it, the end |
| `Execute`, `Drop`, `Move`, `Decide`, `Go` | the operations of a block, a destructor, a copy or assignment, a conditional branch (both ways), a branch |

`mem` says of every value that holds a resource whether its memory is raw, alive
or dead; `todo` is what the source has left to do, and takes a step with every
operation of the source that the graph runs.

**Types** and **ValueSemantics** are the promise made to a program: a variable
is a value of its own, a call changes the value at one place. **Values** is
memory: blocks of words, a literal word `Raw` for one nobody wrote, and the
functions `InitAt`, `AssignAt`, `DropAt` that the compiler writes for a type,
with those `vector.rl` writes by hand (`Vector...`, `AppendAt`, `PopAt`). An
action is one whole statement of the program (`Declare`, `Leave` for the end of
a scope, `Assign`, and the methods `AppendTo`, `Pop`, `Erase`, `Resize`,
`DropBack`, `Clear`), with every load and store it makes; `fault` is set by one
that has no meaning (a block that is not there, a word nobody wrote used as a
number or a pointer, a block freed twice). There is no other actor, so nothing
could come between two loads of a statement. `seen` is what the program would
read.

**Dict** is the dictionary of the standard library, `DictMap` the map it
promises to be. One iteration of a loop is one action, so the states between two
iterations, in which an entry is in hand, in two slots, or in the table that is
being replaced, are states of the model. `cursor` is the probe (the entry in
hand, index, distance, `probe_count`), `old` and `counter` the growth in
progress, `request` the call.

| Action | Code |
|---|---|
| `Insert` | `insert`: the load factor, the new table of `_grow` |
| `Reinsert` | the copying loop of `_grow`, and its end |
| `Place`, `Replace`, `Displace`, `Pass` | the branches of `_insert` (`Pass` also of the other probes) |
| `Look`, `Found`, `NotFound`, `AssertionFails` | `get` and `contains`; the assertions of `get` and of every probe that runs out |
| `Remove`, `NothingToRemove`, `RemoveFound`, `Shift` | `remove`: its probe, and the backward shift one entry at a time |
| `Clear` | `clear` |

In the refinement a call takes its effect on the map when it is made (`AsMap`),
and its answer is fixed then; the steps of the table stutter until the answer is
given. `AsMap` collects the entries wherever they are.

**Numbers** is what those walks end in: a number as bytes and as a tensor, and
what is read of an `Int`, a `Byte` and a number within a range. It is a module
of its own because the walks are recursive and the prover loses its SMT backend
next to a recursive operator.

**Encoding** is the four ways a value is written, each a walk over its type:
`Bytes` and `Parse`, `Text` and `FromText`, `Tensor`, `Enumerate`. A reader
takes what the destination holds and answers what it holds then, because the
code reads by side effect, also when it fails. **ActionTable** is a host: it
plays what the mask admits, saves, replays, lists, writes the list and reads it
back.

| Action | Code |
|---|---|
| `Play` | an index the mask of `get_valid_actions` admits; `apply` of the alternative of all actions |
| `Save` | `as_byte_vector` of every action, onto a fresh frame |
| `ExecuteOne`, `ExecuteEnd` | the loop of `parse_and_execute` |
| `ListOne`, `ListEnd` | the loop of `parse_actions` on bytes, which has a guard of its own; the text of the list |
| `ReadOne` | one line of `parse_actions` on text, with `_consume_comment` |
| `ApplyAll` | `apply` of a vector, up to the first action that is not possible |

**Overloads** has types, the tables that give a name its meanings, and which
function a call means; where the code walks a hash table in the order of
pointers, the result is the set of what any order gives. **TypeCheck** is
`TypeCheck.cpp`: classes are sorted and declared, functions and actions
declared, actions checked, then functions. A body is checked one operation at a
time on a `stack` of builders: a call that makes an action object checks that
action on the spot, inside the check of its caller, and every builder around it
keeps the map it had. **ActionChecks** is that nesting on its own: which builders
there are and what each knows, which actions are checked, how often the table of
the module has each operation, and which call led from which action to which;
what a body is, which function a call means and when it is wrong are left open.
`TypeCheck` extends it, so the two share the variables, and `ImplementsChecks`
says that the passes do nothing else to them. **Templates** answers type tests and makes one instance
of a template per round and call. **TypeRules** is the promise: the declaration
a use means, what is wrong with a program, when a function fits a call, read off
the program as a whole.

| Action | Code |
|---|---|
| `DeclareClasses`, `Emit`, `MutualDependency`, `Sorted` | `declareEntities`, the rounds of `getClassDeclarationSortedByDependencies` |
| `DeduceBody`, `UnknownField`, `DeclareFunctions` | `deduceClassBody`, `deduceFunctionTypes` and what an action takes |
| `StartAction`, `CallAction`, `FinishAction`, `ActionsChecked` | `typeCheckActions`; `maybeInstantiateAction`, the nested check; `typeCheckAction` and `deduceActionType`, which replaces the operation and the entries of the tables |
| `StartFunction`, `FinishFunction`, `FunctionsChecked` | `deduceOperationTypes`, `checkReturnsPath` |
| `CallFunction`, `NoFunction`, `CallErased`, `Cast`, `Ref`, `Is`, `Let`, `Branch`, `Act`, `Return`, ... | `typeCheck` of the operation, in the table of its scope; `Expand`, `EnterScope` and `LeaveScope` walk its regions |
| `Nest`, `Offer`, `NotAnAction`, `NestUndefined`, `NestInFunction` | `SubActionStatement::typeCheck`; one `Offer` for an act and the call it writes |
| `StartCheck`, `FinishStarted` (`ActionChecks`) | one turn of the loop of `typeCheckActions`, with the table of the module made new |
| `CallChecked`, `CheckNested`, `FinishNested` | the three ways through `maybeInstantiateAction`: `Forgets` is `removeAction`, `Learns` is `registerAction`, `listings` what `removeActionFromRootTable` and `addActionToRootTable` change |
| `StartFunctions`, `CheckFunction`, `FinishFunctionCheck`, `OtherPass` | `deduceOperationTypes`; the passes before and after |
| `LowerIs` | the tests of types that can be answered |
| `Round`, `Plain`, `Reuse`, `Promise`, `Instantiate`, `NoOverload`, `EraseTemplates` | `InstantiateTemplatesPass`, a call at a time |

## 4. Runs

| Run | Instance | Shows |
|---|---|---|
| `coro` | a loop with one action name at two places, an `actions` statement between with a `frm` argument and a synthetic act, a `break`, a pruned act, a precondition on the function, a `ctx` variable; 2 objects; with and without precondition checks | refinement of the source, also call for call; no unbound read, index discipline, the switch is in range, the admitted act runs, activations return |
| `hidden_ctx_first` | all functions with up to 3 parameters and 2 acts of up to 2 arguments | a read reaches what this call passed, if `ctx` comes first |
| `liveness_forgotten` | a loop with `break`, one local used across acts and two that are not; all visit orders | least solution, exact report, termination |
| `front_end` | every raw text of 4 characters, every layout of 4 lines under a function, every expression of two operators, a file for each construct | dedents follow the margins, precedence (but for the side of a chain of products), formatting is faithful and reads back, lexing ends |
| `lifetimes` | about 4000 functions: loops in loops with a jump or an act at each place, branches, short circuits, alternatives | one destruction on every path, no read of the dead, no leak, the order of the source, translation ends |
| `values` | 13 programs whose variables are vectors, of vectors, of classes, of arrays, bounded, alternatives | memory safety, every slot constructed, no block shared or leaked, refinement of values |
| `dict_map` | 4 keys that collide, 2 values, tables of 4 and 8 | refinement of the map with every call returning, the Robin Hood order, the size |
| `action_table` | games of up to three of 25 actions, and every input of up to five bytes | a game is the same however it is passed on, text reads back, the list is complete, the tensor shows every change, a frame is restored, the loops end |
| `type_check` | about 4000 modules: classes that use each other, actions that call each other, scopes, overloads, templates, sub-actions | a name means its nearest declaration, the verdict is right, the table of the module is current, calls between actions are ordered, the checks nest as `ActionChecks` says, what is left fits together |
| `restore_ints` | the same games, one action longer | *violated*: an integer of the frame is restored as another when a byte of it has its highest bit set |
| `product_chains` | every expression of two operators | *violated*: in a chain of products the second is the right operand of the first |
| `coro_twins` | `subaction*` over two objects of one type | *violated*: `can_` admits the call for the second, the first is advanced |

The programs are those of the repository's tests and manual where one fits, each
quoted at its definition. Each property of a passing run is broken by a mutant
of the code it is about, which `PROJECT.json` lists. The type invariants the
runs leave out (`TypeOK` of `ActionTable` and of `Lifetimes`) hold in them too.

**Bounds.** Two handles are enough for what objects can do to each other (copy
over a waiting, running or finished one; interleave calls). Values are 0, 1 (2
where a comparison needs it): preconditions only have to tell an admitted
argument from another. In `coro` the act that no path reaches is the last one;
an earlier one is the defect of section 6. The loops make sequences of calls unbounded; nothing in
these models counts, so the state spaces are complete without a cut. In
`hidden_ctx_first` two acts and three parameters give each clash of two slot
formulas: the index of a value depends on how many hidden values precede it, by
kind. The programs of the violated runs are the smallest that show them.

In `action_table` a byte has 8 values and an integer 2 bytes, so that every
sign, carry and width is met by numbers a game of three actions reaches; the 25
actions come from acts without arguments, of small and wide bounded integers, a
`Bool` and an enumeration, one with a `ctx` argument; the frame has a field of
every kind of type. Five bytes are two actions and a rest, or one with two
arguments. Three actions (`MaxActions`) keep the counter of the frame where the
bytes of an integer read back; with the fourth it needs the highest bit of a
byte, which is `restore_ints`.

In `type_check` a program is a member of one of these families: three classes or
aliases, each with one of six lists of fields; three actions, each with one of
nine lists of callees (729 programs: every circle, chain and rejoining of
three); bodies of two statements, nested two levels, with two endings; every
subset of seven functions of one name under calls with four types of arguments;
statements on their own; games with acts, `ctx` arguments, alternatives and a
watcher; and matches whose sub-actions are made, held, given or alternatives,
with forwarded arguments. Nothing repeats without a bound: a check has as many
steps as its program has operations.

In `front_end` four raw characters are enough for any two adjacent tokens with
what separates them; four lines for a margin that grows, shrinks by two levels
and is reset by an empty line or a comment; `MaxNesting` is 3 where the code has
a constant, so that the limit is met; `MaxTokens` is never reached by these
texts and cuts only a lexer that would not stop.

In `lifetimes` a function is built from at most two loops, or three nested
statements, which is where a destructor can meet a jump, a turn and an act at
once. Conditions are free, so every path is taken, and turns are unbounded.

In `values` `Room` bounds the elements a program may have at a time: as many as
make a vector grow once (the fourth element) where memory is the question, and
fewer where the question is the type. The run has a `VIEW`: two states are one
when they differ only in the numbers of heap blocks, of which nothing but
equality is ever asked, so every property has the same value in both, and each
step of one has its like from the other. A state with a fault, or with a slot
that is not constructed, is kept whole.

In `dict_map` the keys are chosen by their hashes (7, 15, 0, 8): in a table of 4
they make two pairs that start in the last and in the first slot, in one of 8 as
well, so every cluster that matters wraps around the end and displaces. The
fourth key makes a table of three grow. The state space is complete, so the
sequences of calls are of any length; only one size of growth is seen.

**Deadlock.** The runs that let the program end for good (an abort, a function
that returned, a file that is formatted, or a single object with nothing left to
do) say `CHECK_DEADLOCK FALSE`.

**Fairness.** `WF_vars(Body)`: an activation is sequential code on the caller's
stack; once entered, it takes its next step. The host is under no obligation to
call. `Plain` may take any of its outcomes for ever, so `ActivationReturns` is
only asked of a program whose loops all contain an act. `WF_vars(Step)` in
`Dict` is the same: a call that was made runs on. In `ActionLiveness` the whole
next-state relation is weakly fair: the solver is a `while` over its work list.
In `FrontEnd` it is the next token: the parser asks until it is given the end or
an error. In `Lifetimes` it is `Schedule`, the part of a step of the translation
that says which pass is next, which is enabled exactly when the translation is:
the compiler does not stop in the middle of a function. Nothing makes the
compiled function run.

## 5. What is proved

Every theorem is for every value of the constants: all programs that meet the
named assumptions of `ActionProgram`, any set of handles and values, any text
over any characters that meet `CharacterAssumption`, any keys, values and hashes
that meet `DictAssumption`.

- `ActionCoro_proofs`: `TypeCorrect`. `IdInjective` and
  `ResumePointIdentifiesSuspension`, from counting: an identifier is the number
  of acts up to it, a resumption point the number of leaders, and a proper
  subset of a finite set is smaller. `NoUnboundReadTheorem`: the property is not
  inductive; `LiveIsBound` (everything live where the implementation stands was
  set in this activation) is, because a live variable flows backwards along the
  edge just taken, and at an entry whatever is live is in the hidden frame or
  the pass would have reported it. It needs `FlowSound`, that the analysis sees
  what control does; `StraightFlowIsSound` gives it for functions without
  `break` and `continue`. It cannot be dropped: the program `HiddenUseCode` of
  `MCActionCoro`, which reads a local behind the loop it breaks out of, passes
  the analysis and violates the property (section 6).
  `IndexIsResumptionPointTheorem` (if some act survives pruning), from
  `RestingIndices`, which says what the index of every object that is not
  running can be, and `RunsReachable`: no activation comes to a pruned
  statement, so what it stores is the resumption point of an act that is left.
  `SwitchInRangeTheorem` (if no act is pruned).
  `DoneIsFinalTheorem`. `AdmittedActRunsTheorem` (if the alternatives of one
  `actions` have distinct names; see `coro_twins`).
  `ImplementsSourceSafety`: the initial state and every step of the compiled
  class map to the source's or stutter; `ImplementsCallsTheorem`: the same with
  the labels and arguments of the calls.
  The mapping reads the waiting set off `resume_index`, so the heart is that the
  acts with that resumption point are exactly the acts the procedure suspended
  at (`WaitingAt`).
- `ActionLiveness_proofs`: `TypeCorrect`, `NeverTooMuchTheorem`,
  `ExactWhenDoneTheorem`, `ReportedExactlyTheorem`. `ExactWhenDone` needs
  `NoneMissing`: at a point that is not pending the content already holds what a
  visit would add. With nothing pending the content is then closed under the
  liveness rule, and the least closed set is below it. `SilenceIsAccepted` is
  the link to `ActionCoro`.
- `Lexer_proofs`, about `LexerSpec`, the lexer alone: `BalancedTheorem` and
  `NestingBounded`. `Balanced` speaks of the sequence of tokens given, so the
  invariant adds what the lexer owes: the depth of the tokens is the number of
  margins pushed plus the dedents pending, and after the end nothing is given. A
  depth is the difference of two cardinalities, and `Counted` says what a token
  that is given adds to them. `NestingBounded` is there because the limit on
  brackets is tested with `==` alone.
- `Lexer_layout`: `LexerTypeCorrect` (no call reads past the text, and the
  margins on the stack increase) and `LayoutTheorem`: a line outside brackets is
  in one block for every margin that a line before it has and no line since has
  come back from. That is about all lines read so far, and the lexer knows only
  its stack, so the invariant says what the stack is: outside brackets, the set
  of its margins is the set of margins of the lines that are open (`Lines`). It
  is so at the end of a line (`Fresh`) and once the first token of a line was
  given (`MidLine`); between the two the stack is ahead of the tokens, by the
  margin just read, and `Ready` says what it is then: the open margins up to
  this one, and this one. The step from the one to the other is a lemma about
  each way a margin is read (`LaidIndent`, `LaidDeindent`, `LaidPending`), and
  one (`ScanSettles`) for the token that brings the lines up to date
  (`LinesStep`). All of it holds unless a line is one the lexer misreads
  (`MisreadLine`, section 6). That a place is on one line, and that the margin
  is counted from its start, needs the least place of a set, by well-founded
  induction.
- `Dict_proofs`: `DictInvariant`, from which `DictTypeCorrect`,
  `RobinHoodTheorem` and `NoProbeRunsOut`, for every capacity a table can have.
  `RobinHood` is not inductive: that an entry may be put where the probe stands
  depends on what the probe has passed. `IInv` has `Ordered` (before every
  entry, from its home on, are entries at least as far from theirs), `OnPath`
  (the same of the entry in hand, so that `Place` and `Displace` keep the
  order), `Unique` (no key twice, counting the entry in hand, the old table of a
  growth and the slot a backward shift is about to overwrite), `Phased` (what a
  phase says of the call), and `Roomy`: how many slots are taken, with the
  entries of a growth still to come. `Roomy` gives a free slot, a free slot ends
  every probe, and so no probe goes all around (`NeverAround`): the assertion at
  its end never fails. The arithmetic is that the distances of a key number the
  slots of the circle (`Distances`, `BehindAfter`), stated once, with the
  remainder hidden. `ImplementsMapSafety`: the initial state and every step of
  the table map to the map's or stutter. A call takes its effect when it is
  made; then the entries stored, wherever they are (`StoredIs`: in the table, in
  the one that is being replaced, in hand; not in the hole of a shift), do not
  change but for the key of the call (`Quiet`), and the answer found is the one
  that was promised (`PromisedIs`, `Returns`).
- `ActionChecks_proofs`: `ChecksInvariant`, from which `TableIsCurrentTheorem` and
  `CallsAreOrderedTheorem`, for every program: any number of actions, any calls,
  in any order. `TableIsCurrent` needs to know that the action whose check ends
  was listed nowhere (`TableInv`, with `UnderCheckInv`: a body under check is of
  an action that is not checked yet, or it is a function's and all actions are).
  That accepted actions are in no circle (`NoCircle`) follows from the order in
  which checks end: `CallsInv` says that what a checked action calls is checked,
  so of the actions of a new circle the one just checked would be the only one
  (`NoCircleWithChecked`), and it cannot be its own, as no body is checked twice
  at a time (`OnceInv`). `ErasedIsReached` is about the map a builder keeps while
  the check it waits for replaces operations it knows: the operation of the
  action it asked for is the only one it is told of (`Learns`), so another that
  is replaced meanwhile is one that calls lead to from there. `ChainInv` (every
  check but the first was asked for by a call of the one around it) and
  `ReachInv` make that chain of calls, and `MapInv` that the class the builder
  forgets is that of the action. That `TypeCheck` implements `ActionChecks` is
  checked by TLC (`ImplementsChecks`), because `TypeCheck` reaches recursive
  operators.
- `Numbers_proofs`: what the library reads of a number within a range, for every
  range, every input and bytes of any even number of values up to 256.
  `NarrowIsWithin`: for a range below a byte any byte gives a value of the range,
  one byte is consumed, and at the end of the input nothing changes.
  `NarrowReadsBack`: every value of such a range is read back, whatever is before
  and behind it. `WideIsBelow` says how far a wider range goes wrong: `%` takes
  the sign of the dividend, so what is read of a negative `Int` may be below the
  start of the range, by less than its size, and is never above its end.
  `OneHotTells`: what a learner observes of a number in a range tells it from the
  others. That an `Int` is read back from its bytes is a fold over them, so TLC
  checks it, and finds that it is not always (run `restore_ints`).
- `HiddenFrame_proofs`: `TypeCorrect` and `CtxFirstReadsTheorem`. The work is in
  the slot arithmetic: with the `ctx` parameters first, the number of hidden
  values before a parameter is its rank among the `ctx` ones, so both formulas
  agree and no two values of one call share a slot.

**Only model-checked**, and why:

- What must eventually happen: `ActivationReturns`, `VerdictIsGiven`,
  `Terminates`, `TranslationEnds`, the fairness part of `ImplementsSource` and
  of `ImplementsMap`. The prover has no `ENABLED`.
- What walks a tree, a type or a value: `FollowsPrecedence`, `RoundTrip`,
  `NothingLost` of `FrontEnd`; all of `Lifetimes`, `Values` and `ActionTable`;
  `FollowsScopes`, `RejectedExactly`, `CallsFit` and `ImplementsChecks` of
  `TypeRules`. Their models are recursive as the code is, and what a
  recursive definition computes for every input is an induction the prover
  cannot make. `FrontEnd` runs the lexer of the proofs, step by step; the
  theorems are about the lexer alone because the parser next to it is recursive.
- That the small programs meet the assumptions: TLC evaluates them.

`DoneIsFinal` and `NeverTooMuch` are proved only; no run repeats them.

## 6. Known defects

Where the code does not do what it should, the passing runs are about the rest,
and the condition that excludes the defect is a named definition. Three runs
are violated, each by a defect:

- `product_chains`: `multyplicativeExpression` calls itself for the right
  operand (`Parser.cpp:597`, 602, 607), so `x / y * z` is read as
  `x / (y * z)`. The comment at 586-589 has the chain on the left, as the code
  of `additiveExpression` has for a rule of the same form. The counterexample is
  a function of one line, `x / y / z`. `FollowsPrecedence` says nothing of this
  side.
- `coro_twins`: of two alternatives of one name the first runs, whichever was
  admitted (`LowerActionPass.cpp:291`).
- `restore_ints`: a byte of 128 or more disturbs those above it when an `Int` is
  put together (`Conversion.cpp:1613`).

The others:

- The storage analysis takes a `break` to go to the statement after it
  (`Operations.cpp:3174`), so a local that is used behind the loop is accepted
  and read unset, although `language-reference.md:347` promises an error.
  `FlowSound` excludes it.
- A `ctx` parameter behind a local one is read in the wrong slot
  (`LowerActionPass.cpp:252`). `CtxFirstReads` assumes the order.
- An act that no path reaches keeps its identifier while the switch is sized by
  those that are left (`ActionStatementsToCoro.cpp:182`, 210): a later act's
  identifier is out of range. A function whose only act is pruned never stores
  -1 (436-439): it ends and is not done. The two theorems about the index say
  so.
- A declaration behind the act of a loop is destroyed twice, once by the turn
  that follows (`EmitImplicitDestructorInvocationsPass.cpp:205`).
- A variable whose declaration an act may follow on one branch only, in a loop,
  is never destroyed: `dropUselessDestructors` drops the destructor. A condition
  that is a reference into a temporary is loaded after the destructor of the
  temporary (`Conversion.cpp:1503-1530`). The families of `lifetimes` leave both
  out.
- The parser appends a yield behind an alternative that ends in `break` or
  `continue` (about `Parser.cpp:1191`).
- The formatter: what `Misprinted` and `Kept` name (an `and` printed as a comma,
  `##` without text, backslashes, an `else` block that starts with an `if`,
  comments in a few places, the `ctx` of an act, and so on), the two lines the
  lexer misreads (`MisreadLine`).
- `v = v` empties a vector; `v.append(v.get(0))` reads freed memory when it
  grows (`vector.rl:16-20` warns of it). `Apart` leaves both out.
- The assignment of an alternative assigns to the field it becomes, which was
  never constructed (`EmitImplicitAssignPass.cpp:279`).
- When an alternative is made to hold a field that owns memory, the temporary
  constructed for it is not given back; its `drop` looks for an overload that
  does not exist when one of its fields is a class or an array that needs none
  (`EmitImplicitDestructorInvocationsPass.cpp:227-251`).
- Action tables: `parse_actions` on bytes stops at `<` where `parse_and_execute`
  has `<=`, so it leaves out a last action without arguments (`LeftOut`). A wide
  `BInt` or an enumeration decodes to a value below its range (`InRange`).
  `parse_from_vector` of a `Vector` appends to what the destination holds, and a
  `BoundedVector` is decoded past its size. Two comment lines in a row, or a
  line that does not parse, end `parse_actions` on text without a word, and
  `load_action_vector_file` answers true. A failing `parse_string` of an integer
  moves the position by a variable nobody set (`Runtime.c:95-106`). Some tensors
  are shorter than announced: a byte writes 255 of 256 (`Full`).
  `enumeration_error` of arrays and vectors calls the function for tensors.
  `parse_action_optimized` takes a signed remainder and constructs the field
  without making it the active one. `defineApplyFunction` pushes the names of
  `ctx` arguments twice.
- Type checking, where the model does what the code does:
  - An action that calls `b` and then `c`, where `b` calls `c` and neither was
    checked, uses an operation that was erased (`Operations.cpp:1908-1912`); so
    does a sub-action of a value of such a class. `Rejoins` and `NestsOther` say
    when. `deduceActionType` replaces the uses of the main function alone.
  - Parameters of a template are replaced one after the other, so names mix
    (`OverloadResolver.cpp:185-196`, `SymbolTable.cpp:139-150`), and the size of
    an array is bound without a look at what it was bound to (89-97).
  - The functions of a trait take any type in the scope of a template that is
    constrained by it, and hide the global ones: a template with a parameter of
    a trait that calls the trait's function with a value of another type is
    accepted and ends in `abort()` (`InstantiateTemplatesPass.cpp:143-151`),
    against `rlc.md:388`; the same of a type test links the call to the wrong
    function.
  - A variable declared by its type is not seen by the check for recursion
    (`Operations.cpp:2201`); an action whose parameter is another's class can
    call its acts only if that one is declared before; a redefined action is
    noticed only if both are checked for their own sake.
  - A trait with an overload constrained by the trait itself, and a template
    that instantiates itself with a larger type, never end. Of templates that
    fit equally, the order of a table decides. A `let` of the name that an `is`
    around it tests is reported as a redeclaration.
  - A sub-action of a value whose action is declared later offers no acts, and
    says nothing (`Operations.cpp:981-985`). A named sub-action of an
    alternative, or an alternative among several objects, reaches an assertion
    (1141-1152). Its name may redeclare another of the scope (1201). In a `for`
    it is not noticed by the check for acts (2076).

## 7. What is left out

Strings and the wording of diagnostics. In the modelled components:
`inlineInCallers` and `removeSwitch` (nothing calls them), the hidden frame's
life time (it is on the caller's stack for the duration of the call), and the
bodies of preconditions, which are the constant `Admits` (they are expressions
without effects). An unbound read is modelled as a state, not by a value:
nothing can be said about what the program does next. In the front end:
character literals, carriage returns, hexadecimal numbers, the value of a
number, source locations, empty lines the formatter keeps, operations only type
checking creates. In `Lifetimes`: the solver of the reaching definitions (its
fixed point is computed), the order of several destructors at one place. In
`Values`: builtin types other than one kind of number, functions the user writes
in place of those of the compiler, `drop_back` of more than there is (see the
hazards), vectors of alternatives whose owning field is not the first, and
everything that follows a fault; `malloc` does not fail. In `Dict`: the
destructor, and the construction and destruction of entries (see the hazards),
so nothing is said about memory that keys and values own; the hash is a number
that is not negative, as `compute_hash_of` of the library answers for its types;
the floating point comparison of the load factor is exact for capacities that
are powers of two.

In `ActionTable`: floating point numbers, the characters of a quoted string,
hashing, the arithmetic of a `BInt`, `parse_action_optimized` and the warnings.
In `TypeCheck`: member access and the operators (their overloads are chosen as
those of calls are), enumerations, lambdas, templates of classes beyond their
names, the errors of a call without a result used as a value and of an action
whose class contains itself, and the loop of `subaction*`, on which no type depends.

**Not modelled.** Imports, the language server and the tree search are in the
plan. The passes that rewrite one operation into others, apart from those named,
work on a whole tree without an order of events to go wrong; what the modelled
passes rely on is in the assumptions of `ActionProgram` and in `Accepted` of
`Parser`. The wrapper generators turn declarations into text of other languages;
the driver, the backend and the runtime are command lines, calls into LLVM and
I/O. The map covers about 30 % of the implementation's lines; most of the rest
is in these.
