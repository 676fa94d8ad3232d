---------------------------- MODULE ActionChecks ----------------------------
(***************************************************************************)
(* How the checks of action functions nest (TypeCheck.cpp, Operations.cpp, *)
(* SymbolTable.cpp). A call that gives the class of an action checks that  *)
(* action on the spot, with a builder of its own, and what is checked is   *)
(* another operation than before. The checks share the table of the        *)
(* module; every builder has a map of its own from classes to operations,  *)
(* made when it was. What a check does to the rest of a body, and which    *)
(* function a call means, is TypeCheck; here is only who knows what.       *)
(***************************************************************************)
EXTENDS Integers, Sequences, FiniteSets

VARIABLES program, phase,
          stack,      \* the bodies being checked, an identifier and a map each
          checked,    \* the actions that are checked, with their acts
          listed,     \* the operations the table of the module has, oldest first
          calls       \* <<a, b>>: a call in the body of a gave the class of b

-----------------------------------------------------------------------------
(* Operations. Replacing one erases it.                                    *)

Acts == DOMAIN program.acts
ActionClasses == {program.acts[a].cls : a \in Acts}

Unchecked == 0
Checked == 1
Op(a, state) == <<"act", a, state>>
Ops == {Op(a, state) : a \in Acts, state \in {Unchecked, Checked}}
Current(a) == Op(a, IF a \in DOMAIN checked THEN Checked ELSE Unchecked)
Erased(op) == op[3] = Unchecked /\ op[2] \in DOMAIN checked

(* ModuleBuilder: every builder registers every action as it is.           *)
ActionsNow == [c \in ActionClasses |-> Current(CHOOSE a \in Acts : program.acts[a].cls = c)]

-----------------------------------------------------------------------------
(* What the steps below are about: the builders, and how often each        *)
(* operation is in the table. The rest of a check, and the order of the    *)
(* table, are left open.                                                   *)

depth == Len(stack)
builders == [i \in 1..depth |-> [id |-> stack[i].id, actionOf |-> stack[i].actionOf]]
listings == [op \in Ops |-> Cardinality({i \in DOMAIN listed : listed[i] = op})]
checks == <<program, phase, depth, builders, checked, listings, calls>>

(* UnderTypeCheckMarker *)
Under(a) == \E i \in 1..depth : builders[i].id = Op(a, Unchecked)
UnderNested(a) == \E i \in 2..depth : builders[i].id = Op(a, Unchecked)

AsTheyAre == [op \in Ops |-> IF op = Current(op[2]) THEN 1 ELSE 0]
Asking == builders[depth]
Gives(op) == IF Asking.id[1] = "act" THEN {<<Asking.id[2], op[2]>>} ELSE {}

Builder(id) == [id |-> id, actionOf |-> ActionsNow]
Forgets(builder, class) ==
    [id |-> builder.id,
     actionOf |-> [c \in DOMAIN builder.actionOf \ {class} |-> builder.actionOf[c]]]
Learns(builder, a) ==
    LET class == program.acts[a].cls
    IN  [id |-> builder.id,
         actionOf |-> [c \in DOMAIN builder.actionOf \cup {class} |->
                          IF c = class THEN Op(a, Checked) ELSE builder.actionOf[c]]]

Finished(a) ==
    /\ DOMAIN checked' = DOMAIN checked \cup {a}
    /\ \A b \in DOMAIN checked : checked'[b] = checked[b]

(* typeCheckActions: a table of the module as it is now. *)
StartCheck ==
    /\ depth = 0 /\ depth' = 1
    /\ \E a \in Acts \ DOMAIN checked : builders'[1] = Builder(Op(a, Unchecked))
    /\ listings' = AsTheyAre
    /\ UNCHANGED <<program, phase, checked, calls>>

(* maybeInstantiateAction of an action that is checked: out of the table   *)
(* and into it again.                                                      *)
CallChecked ==
    /\ depth > 0
    /\ \E c \in DOMAIN Asking.actionOf :
          /\ Asking.actionOf[c][3] = Checked
          /\ calls' = calls \cup Gives(Asking.actionOf[c])
          /\ listings' = [listings EXCEPT ![Asking.actionOf[c]] = 1]
    /\ UNCHANGED <<program, phase, depth, builders, checked>>

(* maybeInstantiateAction of another: out of the table and out of the map, *)
(* and a builder for its check. It is neither erased nor under check.      *)
CheckNested ==
    /\ depth > 0 /\ depth' = depth + 1
    /\ \E c \in DOMAIN Asking.actionOf :
          LET op == Asking.actionOf[c]
          IN  /\ op[3] = Unchecked /\ ~Erased(op) /\ ~Under(op[2])
              /\ calls' = calls \cup Gives(op)
              /\ listings' = [listings EXCEPT ![op] = 0]
              /\ builders'[depth'] = Builder(Op(op[2], Unchecked))
              /\ builders'[depth] = Forgets(Asking, c)
    /\ \A i \in 1..(depth - 1) : builders'[i] = builders[i]
    /\ UNCHANGED <<program, phase, checked>>

(* The rest of maybeInstantiateAction: the new operation into the table,   *)
(* and into the map of the builder that asked for it.                      *)
FinishNested ==
    /\ depth > 1 /\ depth' = depth - 1
    /\ LET a == Asking.id[2]
       IN  /\ Finished(a)
           /\ listings' = [listings EXCEPT ![Op(a, Checked)] = @ + 1]
           /\ builders'[depth'] = Learns(builders[depth - 1], a)
    /\ \A i \in 1..(depth - 2) : builders'[i] = builders[i]
    /\ UNCHANGED <<program, phase, calls>>

(* Nothing is put into a table that the next check does not use. *)
FinishStarted ==
    /\ depth = 1 /\ depth' = 0
    /\ Asking.id[1] = "act" /\ Finished(Asking.id[2])
    /\ UNCHANGED <<program, phase, listings, calls>>

(* Functions are checked when all actions are, with a table made then.     *)
StartFunctions ==
    /\ depth = 0 /\ Acts \subseteq DOMAIN checked
    /\ phase' = "functions"
    /\ listings' = AsTheyAre
    /\ UNCHANGED <<program, depth, builders, checked, calls>>

CheckFunction ==
    /\ phase = "functions" /\ depth = 0 /\ depth' = 1
    /\ \E i \in DOMAIN program.funs : builders'[1] = Builder(<<"fun", i>>)
    /\ UNCHANGED <<program, phase, checked, listings, calls>>

FinishFunctionCheck ==
    /\ depth = 1 /\ depth' = 0
    /\ Asking.id[1] = "fun"
    /\ UNCHANGED <<program, phase, checked, listings, calls>>

(* Any other pass, and an error, which ends the checks where they are. *)
OtherPass ==
    /\ phase' # "functions"
    /\ IF depth = 0 THEN listings' \in {listings, AsTheyAre} ELSE UNCHANGED listings
    /\ UNCHANGED <<program, depth, builders, checked, calls>>

-----------------------------------------------------------------------------
ChecksInit ==
    /\ Len(program.acts) \in Nat /\ Acts = 1..Len(program.acts)
    /\ phase # "functions"
    /\ depth = 0 /\ checked = <<>> /\ calls = {}
    /\ listings = [op \in Ops |-> 0]

ChecksNext ==
    \/ StartCheck \/ CallChecked \/ CheckNested \/ FinishNested \/ FinishStarted
    \/ StartFunctions \/ CheckFunction \/ FinishFunctionCheck \/ OtherPass

(* The passes of TypeCheck and Templates, as far as the checks of actions  *)
(* and what their builders know go, do nothing but this.                   *)
ChecksSpec == ChecksInit /\ [][ChecksNext]_checks

-----------------------------------------------------------------------------
(* The table of the module has every action once, as it is, except that an *)
(* action a nested check is under way for is not in it at all, though      *)
(* every nested check changes the table of the checks around it            *)
(* (maybeInstantiateAction, removeActionFromRootTable,                     *)
(* addActionToRootTable).                                                  *)
TableIsCurrent ==
    depth > 0 =>
        \A op \in Ops : listings[op] = IF op = Current(op[2]) /\ ~UnderNested(op[2]) THEN 1 ELSE 0

(* No action is accepted whose frame would contain itself, through however *)
(* many calls: where some actions each call one of them, not all of them   *)
(* are checked (the "infinite size" of typeCheckAction).                   *)
NoCircle ==
    \A S \in SUBSET DOMAIN checked : S # {} => \E a \in S : \A b \in S : <<a, b>> \notin calls

(* From a, calls lead to b. *)
Reaches(a, b) ==
    \A S \in SUBSET Acts : a \in S /\ (\A e \in calls : e[1] \in S => e[2] \in S) => b \in S

(* A builder whose map has an operation that was erased belongs to an      *)
(* action that called another, which reaches the erased one: only then is  *)
(* getActionOf given what is gone.                                         *)
ErasedIsReached ==
    \A i \in 1..depth : \A c \in DOMAIN builders[i].actionOf :
        LET op == builders[i].actionOf[c]
        IN  Erased(op) => \E d \in Acts : /\ <<builders[i].id[2], d>> \in calls
                                          /\ d # op[2] /\ Reaches(d, op[2])

CallsAreOrdered == NoCircle /\ ErasedIsReached
=============================================================================
