------------------------- MODULE ActionChecks_proofs -------------------------
(***************************************************************************)
(* Proofs about ActionChecks, for every program: what the table of the     *)
(* module and the maps of the builders say, and how the calls between      *)
(* actions are ordered.                                                    *)
(***************************************************************************)
EXTENDS ActionChecks, TLAPS

-----------------------------------------------------------------------------
(* The inductive invariant.                                                *)

FunctionIds == {<<"fun", i>> : i \in DOMAIN program.funs}
NestedOps == {builders[i].id : i \in 2..depth}

ProgramInv ==
    /\ Len(program.acts) \in Nat /\ Acts = 1..Len(program.acts)
    /\ depth \in Nat
    /\ DOMAIN checked \subseteq Acts
    /\ calls \subseteq Acts \X Acts
    /\ DOMAIN listings = Ops

\* A body under check is that of an action which was not checked before, or
\* the only one and that of a function, after all actions.
UnderCheckInv ==
    \A i \in 1..depth :
        \/ \E a \in Acts \ DOMAIN checked : builders[i].id = Op(a, Unchecked)
        \/ depth = 1 /\ Acts \subseteq DOMAIN checked /\ builders[i].id \in FunctionIds

\* No body is checked by two builders.
OnceInv == \A i, j \in 1..depth : builders[i].id = builders[j].id => i = j

\* A builder knows, for a class, an operation of the action it is the class
\* of, and no operation that is still to come.
MapInv ==
    \A i \in 1..depth : \A c \in DOMAIN builders[i].actionOf :
        \E a \in Acts : /\ program.acts[a].cls = c
                        /\ \/ builders[i].actionOf[c] = Op(a, Unchecked)
                           \/ a \in DOMAIN checked /\ builders[i].actionOf[c] = Op(a, Checked)

ListedAsTheyAre ==
    \A op \in Ops : listings[op] = IF op = Current(op[2]) /\ op \notin NestedOps THEN 1 ELSE 0
TableInv ==
    /\ depth > 0 => ListedAsTheyAre
    /\ phase = "functions" => Acts \subseteq DOMAIN checked /\ ListedAsTheyAre

\* What a body made is checked, but for the action whose check it waits for.
CallsInv ==
    \A a, b \in Acts : <<a, b>> \in calls =>
        \/ a \in DOMAIN checked /\ b \in DOMAIN checked
        \/ \E i \in 1..depth :
              /\ builders[i].id = Op(a, Unchecked)
              /\ \/ b \in DOMAIN checked
                 \/ i < depth /\ builders[i + 1].id = Op(b, Unchecked)

\* Every check but the first was asked for by the one around it.
ChainInv ==
    \A i \in 1..depth : i < depth => <<builders[i].id[2], builders[i + 1].id[2]>> \in calls
ReachInv ==
    \A i, j \in 1..depth : i <= j => Reaches(builders[i].id[2], builders[j].id[2])

ChecksInv ==
    /\ ProgramInv /\ UnderCheckInv /\ OnceInv /\ MapInv /\ TableInv
    /\ CallsInv /\ ChainInv /\ ReachInv /\ NoCircle /\ ErasedIsReached

-----------------------------------------------------------------------------
(* Lemmas.                                                                 *)

LEMMA OpParts ==
    \A a, b, s, t : /\ Op(a, s)[1] = "act" /\ Op(a, s)[2] = a /\ Op(a, s)[3] = s
                    /\ Op(a, s) = Op(b, t) => a = b /\ s = t
  BY DEF Op

LEMMA OpIsOp ==
    \A op \in Ops : /\ op[2] \in Acts /\ op[3] \in {Unchecked, Checked}
                    /\ op = Op(op[2], op[3])
  BY OpParts DEF Ops

LEMMA CurrentIsOp == \A a \in Acts : Current(a) \in Ops
  BY DEF Current, Ops

LEMMA FunctionIsNoOp ==
    \A id \in FunctionIds : id[1] = "fun" /\ \A a, s : id # Op(a, s)
  BY DEF FunctionIds, Op

\* The map a builder is made with has the actions as they are.
LEMMA ActionsNowCurrent ==
    \A c \in DOMAIN ActionsNow :
        \E a \in Acts : program.acts[a].cls = c /\ ActionsNow[c] = Current(a)
  <1> SUFFICES ASSUME NEW c \in ActionClasses
               PROVE  \E a \in Acts : program.acts[a].cls = c /\ ActionsNow[c] = Current(a)
    BY DEF ActionsNow
  <1>1. \E a \in Acts : program.acts[a].cls = c
    BY DEF ActionClasses
  <1>2. ActionsNow[c] = Current(CHOOSE a \in Acts : program.acts[a].cls = c)
    BY DEF ActionsNow
  <1> QED
    BY <1>1, <1>2

\* What is reached stays reached while calls are added.
LEMMA ReachesGrows ==
    ASSUME program' = program, calls \subseteq calls',
           NEW a, NEW b, Reaches(a, b)
    PROVE  Reaches(a, b)'
  BY DEF Reaches, Acts

LEMMA ReachesFurther ==
    ASSUME program' = program, calls \subseteq calls',
           NEW a, NEW b, NEW d \in Acts, Reaches(a, b), <<b, d>> \in calls'
    PROVE  Reaches(a, d)'
  BY DEF Reaches, Acts

LEMMA ReachesSelf == \A a : Reaches(a, a)
  BY DEF Reaches

\* Calls of an action that is not checked are in no circle yet.
LEMMA NoCircleWithCalls ==
    ASSUME NoCircle, UNCHANGED checked,
           \A e \in calls' : e \in calls \/ e[1] \notin DOMAIN checked
    PROVE  NoCircle'
  BY DEF NoCircle

\* Nor does one appear when an action is checked whose calls are of actions
\* that were: of the actions of a circle it would be the only one.
LEMMA NoCircleWithChecked ==
    ASSUME ProgramInv, NoCircle, UNCHANGED calls,
           NEW a \in Acts, a \notin DOMAIN checked,
           DOMAIN checked' = DOMAIN checked \cup {a},
           \A b, d : <<b, d>> \in calls /\ b \in DOMAIN checked => d \in DOMAIN checked,
           \A d : <<a, d>> \in calls => d \in DOMAIN checked
    PROVE  NoCircle'
  <1> SUFFICES ASSUME NEW S \in SUBSET (DOMAIN checked \cup {a}), S # {}
               PROVE  \E b \in S : \A d \in S : <<b, d>> \notin calls
    BY DEF NoCircle
  <1> DEFINE Before == S \cap DOMAIN checked
  <1>1. CASE Before = {}
    <2>1. S = {a}
      BY <1>1
    <2> QED
      BY <2>1
  <1>2. CASE Before # {}
    <2>1. PICK b \in Before : \A d \in Before : <<b, d>> \notin calls
      BY <1>2 DEF NoCircle
    <2> QED
      BY <2>1
  <1> QED
    BY <1>1, <1>2

-----------------------------------------------------------------------------
(* The invariant holds at first.                                           *)

LEMMA InitInv == ChecksInit => ChecksInv
  <1> SUFFICES ASSUME ChecksInit
               PROVE  ChecksInv
    OBVIOUS
  <1>1. ProgramInv
    BY DEF ChecksInit, ProgramInv
  <1>2. UnderCheckInv /\ OnceInv /\ MapInv /\ ChainInv /\ ReachInv /\ ErasedIsReached
    BY DEF ChecksInit, UnderCheckInv, OnceInv, MapInv, ChainInv, ReachInv, ErasedIsReached
  <1>3. TableInv /\ CallsInv /\ NoCircle
    BY DEF ChecksInit, TableInv, CallsInv, NoCircle
  <1> QED
    BY <1>1, <1>2, <1>3 DEF ChecksInv

-----------------------------------------------------------------------------
(* It is kept by every step.                                               *)

\* The body under check is that of an action, unless it is a function's and
\* all actions are checked.
LEMMA AskingFacts ==
    ASSUME ChecksInv, depth > 0
    PROVE  \/ \E x \in Acts \ DOMAIN checked :
                 /\ Asking.id = Op(x, Unchecked)
                 /\ Asking.id[1] = "act" /\ Asking.id[2] = x
           \/ depth = 1 /\ Acts \subseteq DOMAIN checked /\ Asking.id[1] = "fun"
  <1>1. depth \in 1..depth
    BY DEF ChecksInv, ProgramInv
  <1> QED
    BY <1>1, OpParts, FunctionIsNoOp DEF ChecksInv, UnderCheckInv, Asking

\* What a checked action calls is checked: it is not under check itself.
LEMMA CheckedCallsChecked ==
    ASSUME ChecksInv, NEW b, NEW d, <<b, d>> \in calls, b \in DOMAIN checked
    PROVE  d \in DOMAIN checked
  <1>1. b \in Acts /\ d \in Acts
    BY DEF ChecksInv, ProgramInv
  <1>2. \A i \in 1..depth : builders[i].id # Op(b, Unchecked)
    BY OpParts, FunctionIsNoOp DEF ChecksInv, UnderCheckInv
  <1> QED
    BY <1>1, <1>2 DEF ChecksInv, CallsInv

\* Of no builder there is nothing to say, and of the first only what
\* ModuleBuilder puts into its map.
LEMMA NoBuilders ==
    ASSUME depth' = 0
    PROVE  (UnderCheckInv /\ OnceInv /\ MapInv /\ ChainInv /\ ReachInv /\ ErasedIsReached)'
  BY DEF UnderCheckInv, OnceInv, MapInv, ChainInv, ReachInv, ErasedIsReached

LEMMA FirstBuilder ==
    ASSUME depth' = 1, UNCHANGED <<program, checked>>,
           NEW id, builders'[1] = Builder(id)
    PROVE  (OnceInv /\ MapInv /\ ChainInv /\ ReachInv /\ ErasedIsReached)'
  <1>1. 1..depth' = {1}
    OBVIOUS
  <1>2. builders'[1].actionOf = ActionsNow
    BY DEF Builder
  <1>3. OnceInv'
    BY <1>1 DEF OnceInv
  <1>4. MapInv'
    BY <1>1, <1>2, ActionsNowCurrent DEF MapInv, Current, Acts
  <1>5. ChainInv'
    BY <1>1 DEF ChainInv
  <1>6. ReachInv'
    BY <1>1 DEF ReachInv, Reaches
  <1>7. \A c \in DOMAIN ActionsNow : ~Erased(ActionsNow[c])
    BY ActionsNowCurrent, OpParts DEF Current, Erased, Checked, Unchecked
  <1>8. ErasedIsReached'
    BY <1>1, <1>2, <1>7 DEF ErasedIsReached, Erased
  <1> QED
    BY <1>3, <1>4, <1>5, <1>6, <1>8

\* With no check under way, or only the first, no operation is missing.
LEMMA NoNestedOps ==
    /\ depth \in {0, 1} => NestedOps = {}
    /\ depth' \in {0, 1} => NestedOps' = {}
  BY DEF NestedOps

LEMMA CallCheckedKeeps ==
    ASSUME ChecksInv, CallChecked
    PROVE  ChecksInv'
  <1> USE DEF ChecksInv
  <1>1. PICK c \in DOMAIN Asking.actionOf :
            /\ Asking.actionOf[c][3] = Checked
            /\ calls' = calls \cup Gives(Asking.actionOf[c])
            /\ listings' = [listings EXCEPT ![Asking.actionOf[c]] = 1]
    BY DEF CallChecked
  <1>2. PICK a \in Acts : a \in DOMAIN checked /\ Asking.actionOf[c] = Op(a, Checked)
    <2>1. depth \in 1..depth
      BY DEF CallChecked, ProgramInv
    <2> QED
      BY <1>1, <2>1, OpParts DEF MapInv, Asking, Checked, Unchecked
  <1>3. UNCHANGED <<program, phase, depth, builders, checked>>
    BY DEF CallChecked
  <1>4. /\ calls \subseteq calls'
        /\ \A e \in calls' : \/ e \in calls
                             \/ \E x \in Acts \ DOMAIN checked :
                                   e = <<x, a>> /\ builders[depth].id = Op(x, Unchecked)
    BY <1>1, <1>2, AskingFacts, OpParts DEF Gives, CallChecked, Asking
  <1>5. ProgramInv'
    <2>1. \A e \in calls' : e \in Acts \X Acts
      BY <1>2, <1>4 DEF ProgramInv
    <2>2. DOMAIN listings' = Ops
      BY <1>1 DEF ProgramInv
    <2> QED
      BY <1>3, <2>1, <2>2 DEF ProgramInv, Acts, Ops
  <1>6. UnderCheckInv' /\ OnceInv' /\ MapInv'
    BY <1>3 DEF UnderCheckInv, OnceInv, MapInv, Acts, FunctionIds
  <1>7. TableInv'
    <2>1. Op(a, Checked) \in Ops /\ Op(a, Checked) = Current(a)
      BY <1>2 DEF Ops, Current
    <2>2. Op(a, Checked) \notin NestedOps
      BY <1>2, OpParts, FunctionIsNoOp DEF NestedOps, UnderCheckInv, ProgramInv, Checked, Unchecked
    <2>3. ListedAsTheyAre
      BY DEF TableInv, CallChecked
    <2>4. \A op \in Ops : listings'[op] = listings[op]
      BY <1>1, <1>2, <2>1, <2>2, <2>3, OpParts DEF ListedAsTheyAre, ProgramInv
    <2> QED
      BY <1>3, <2>3, <2>4 DEF TableInv, ListedAsTheyAre, Ops, Acts, Current, NestedOps
  <1>8. CallsInv'
    <2> SUFFICES ASSUME NEW p \in Acts, NEW q \in Acts, <<p, q>> \in calls'
                 PROVE  \/ p \in DOMAIN checked /\ q \in DOMAIN checked
                        \/ \E i \in 1..depth :
                              /\ builders[i].id = Op(p, Unchecked)
                              /\ \/ q \in DOMAIN checked
                                 \/ i < depth /\ builders[i + 1].id = Op(q, Unchecked)
      BY <1>3 DEF CallsInv, Acts
    <2> QED
      BY <1>2, <1>4 DEF CallsInv, CallChecked, ProgramInv
  <1>9. ChainInv' /\ ReachInv'
    BY <1>3, <1>4, ReachesGrows DEF ChainInv, ReachInv
  <1>10. NoCircle'
    BY <1>3, <1>4, NoCircleWithCalls
  <1>11. ErasedIsReached'
    BY <1>3, <1>4, ReachesGrows DEF ErasedIsReached, Erased, Acts
  <1> QED
    BY <1>5, <1>6, <1>7, <1>8, <1>9, <1>10, <1>11

\* What CheckNested does to the builders.
LEMMA CheckNestedShape ==
    ASSUME ChecksInv, CheckNested
    PROVE  \E x, a \in Acts \ DOMAIN checked, c \in DOMAIN Asking.actionOf :
              /\ Asking.id = Op(x, Unchecked) /\ Asking.actionOf[c] = Op(a, Unchecked)
              /\ \A i \in 1..depth : builders[i].id # Op(a, Unchecked)
              /\ calls' = calls \cup {<<x, a>>}
              /\ listings' = [listings EXCEPT ![Op(a, Unchecked)] = 0]
              /\ builders'[depth + 1] = Builder(Op(a, Unchecked))
              /\ builders'[depth] = Forgets(Asking, c)
  <1>1. PICK c \in DOMAIN Asking.actionOf :
            LET op == Asking.actionOf[c]
            IN  /\ op[3] = Unchecked /\ ~Erased(op) /\ ~Under(op[2])
                /\ calls' = calls \cup Gives(op)
                /\ listings' = [listings EXCEPT ![op] = 0]
                /\ builders'[depth'] = Builder(Op(op[2], Unchecked))
                /\ builders'[depth] = Forgets(Asking, c)
    BY DEF CheckNested
  <1>2. PICK a \in Acts : a \notin DOMAIN checked /\ Asking.actionOf[c] = Op(a, Unchecked)
    <2>1. depth \in 1..depth
      BY DEF CheckNested, ProgramInv, ChecksInv
    <2> QED
      BY <1>1, <2>1, OpParts DEF ChecksInv, MapInv, Asking, Erased, Checked, Unchecked
  <1>3. PICK x \in Acts \ DOMAIN checked :
            /\ Asking.id = Op(x, Unchecked)
            /\ Asking.id[1] = "act" /\ Asking.id[2] = x
    BY <1>2, AskingFacts DEF CheckNested
  <1>4. calls' = calls \cup {<<x, a>>}
    BY <1>1, <1>2, <1>3, OpParts DEF Gives
  <1>5. ~Under(a) /\ depth' = depth + 1 /\ Op(a, Unchecked)[2] = a
    BY <1>1, <1>2, OpParts DEF CheckNested
  <1> QED
    BY <1>1, <1>2, <1>3, <1>4, <1>5 DEF Under

LEMMA CheckNestedKeeps ==
    ASSUME ChecksInv, CheckNested
    PROVE  ChecksInv'
  <1> USE DEF ChecksInv
  <1>1. PICK x, a \in Acts \ DOMAIN checked, c \in DOMAIN Asking.actionOf :
              /\ Asking.id = Op(x, Unchecked) /\ Asking.actionOf[c] = Op(a, Unchecked)
              /\ \A i \in 1..depth : builders[i].id # Op(a, Unchecked)
              /\ calls' = calls \cup {<<x, a>>}
              /\ listings' = [listings EXCEPT ![Op(a, Unchecked)] = 0]
              /\ builders'[depth + 1] = Builder(Op(a, Unchecked))
              /\ builders'[depth] = Forgets(Asking, c)
    BY CheckNestedShape
  <1>2. /\ depth \in Nat /\ depth > 0 /\ depth' = depth + 1
        /\ \A i \in 1..(depth - 1) : builders'[i] = builders[i]
        /\ UNCHANGED <<program, phase, checked>>
    BY DEF CheckNested, ProgramInv
  <1> DEFINE new == depth + 1
  <1>3. /\ \A i \in 1..depth : /\ builders'[i].id = builders[i].id
                               /\ DOMAIN builders'[i].actionOf \subseteq DOMAIN builders[i].actionOf
                               /\ \A d \in DOMAIN builders'[i].actionOf :
                                     builders'[i].actionOf[d] = builders[i].actionOf[d]
        /\ builders'[new].id = Op(a, Unchecked) /\ builders'[new].actionOf = ActionsNow
    <2>1. \A i \in 1..depth : i = depth \/ i \in 1..(depth - 1)
      BY <1>2
    <2> QED
      BY <1>1, <1>2, <2>1 DEF Builder, Forgets, Asking
  <1>4. \A i \in 1..depth' : i \in 1..depth \/ i = new
    BY <1>2
  <1> HIDE DEF new
  <1>5. \A i \in 1..depth : i # new /\ i < depth'
    BY <1>2 DEF new
  <1>6. ProgramInv'
    <2>1. DOMAIN listings' = Ops
      BY <1>1 DEF ProgramInv
    <2>2. calls' \subseteq Acts \X Acts
      BY <1>1 DEF ProgramInv
    <2>3. depth' \in Nat
      BY <1>2
    <2>4. Acts' = Acts /\ Ops' = Ops
      BY <1>2 DEF Acts, Ops
    <2> QED
      BY <1>2, <2>1, <2>2, <2>3, <2>4 DEF ProgramInv
  <1>7. UnderCheckInv'
    BY <1>1, <1>2, <1>3, <1>4 DEF UnderCheckInv, Acts
  <1>8. OnceInv'
    BY <1>1, <1>3, <1>4 DEF OnceInv
  <1>9. MapInv'
    <2>1. \A d \in DOMAIN ActionsNow :
              \E b \in Acts : /\ program.acts[b].cls = d
                              /\ \/ ActionsNow[d] = Op(b, Unchecked)
                                 \/ b \in DOMAIN checked /\ ActionsNow[d] = Op(b, Checked)
      BY ActionsNowCurrent DEF Current
    <2>2. \A i \in 1..depth' : \A d \in DOMAIN builders'[i].actionOf :
              \E b \in Acts : /\ program.acts[b].cls = d
                              /\ \/ builders'[i].actionOf[d] = Op(b, Unchecked)
                                 \/ b \in DOMAIN checked /\ builders'[i].actionOf[d] = Op(b, Checked)
      BY <1>3, <1>4, <2>1 DEF MapInv
    <2> QED
      BY <1>2, <2>2 DEF MapInv, Acts
  <1>10. TableInv'
    <2>1. ListedAsTheyAre /\ ~ Acts \subseteq DOMAIN checked
      BY <1>1, <1>2 DEF TableInv
    <2>2. \A op : op \in NestedOps' <=> op \in NestedOps \/ op = Op(a, Unchecked)
      <3>1. 2..depth' = 2..depth \cup {new} /\ 2..depth \subseteq 1..depth
        BY <1>2 DEF new
      <3> QED
        BY <1>3, <3>1 DEF NestedOps
    <2>3. \A op \in Ops : listings'[op] = IF op = Op(a, Unchecked) THEN 0 ELSE listings[op]
      BY <1>1 DEF ProgramInv
    <2>4. Ops' = Ops /\ \A op : Current(op[2])' = Current(op[2])
      BY <1>2 DEF Ops, Acts, Current
    <2> QED
      BY <1>1, <1>2, <2>1, <2>2, <2>3, <2>4 DEF TableInv, ListedAsTheyAre, Acts
  <1>11. CallsInv'
    <2> SUFFICES ASSUME NEW p \in Acts, NEW q \in Acts, <<p, q>> \in calls'
                 PROVE  \/ p \in DOMAIN checked /\ q \in DOMAIN checked
                        \/ \E i \in 1..depth' :
                              /\ builders'[i].id = Op(p, Unchecked)
                              /\ \/ q \in DOMAIN checked
                                 \/ i < depth' /\ builders'[i + 1].id = Op(q, Unchecked)
      BY <1>2 DEF CallsInv, Acts
    <2>1. CASE <<p, q>> \in calls
      BY <1>2, <1>3, <2>1 DEF CallsInv
    <2>2. CASE p = x /\ q = a
      BY <1>1, <1>2, <1>3, <2>2 DEF Asking, new
    <2> QED
      BY <1>1, <2>1, <2>2
  <1>12. ChainInv'
    <2> SUFFICES ASSUME NEW i \in 1..depth
                 PROVE  <<builders'[i].id[2], builders'[i + 1].id[2]>> \in calls'
      BY <1>2 DEF ChainInv
    <2>1. CASE i < depth
      BY <1>1, <1>2, <1>3, <2>1 DEF ChainInv
    <2>2. CASE i = depth
      BY <1>1, <1>2, <1>3, <2>2, OpParts DEF Asking, new
    <2> QED
      BY <1>2, <2>1, <2>2
  <1>13. ReachInv'
    <2> SUFFICES ASSUME NEW i \in 1..depth', NEW j \in 1..depth', i <= j
                 PROVE  Reaches(builders[i].id[2], builders[j].id[2])'
      BY DEF ReachInv
    <2>1. CASE j \in 1..depth
      <3>1. i \in 1..depth
        BY <1>2, <2>1
      <3> QED
        BY <1>1, <1>2, <1>3, <2>1, <3>1, ReachesGrows DEF ReachInv
    <2>2. CASE i = new
      <3>1. j = new
        BY <1>2, <2>2 DEF new
      <3> QED
        BY <2>2, <3>1, ReachesSelf DEF Reaches
    <2>3. CASE i \in 1..depth /\ j = new
      <3>1. Reaches(builders[i].id[2], x)
        BY <1>1, <1>2, <2>3, OpParts DEF ReachInv, Asking
      <3>2. Reaches(builders[i].id[2], a)'
        BY <1>1, <1>2, <1>3, <2>3, <3>1, ReachesFurther
      <3> QED
        BY <1>3, <2>3, <3>2, OpParts
    <2> QED
      BY <1>4, <2>1, <2>2, <2>3
  <1>14. NoCircle'
    BY <1>1, <1>2, NoCircleWithCalls
  <1>15. ErasedIsReached'
    <2>1. \A d \in DOMAIN ActionsNow : ~Erased(ActionsNow[d])
      BY ActionsNowCurrent, OpParts DEF Current, Erased, Checked, Unchecked
    <2>2. \A op : Erased(op)' = Erased(op)
      BY <1>2 DEF Erased
    <2> SUFFICES ASSUME NEW i \in 1..depth', NEW d \in DOMAIN builders'[i].actionOf,
                        Erased(builders'[i].actionOf[d])
                 PROVE  \E e \in Acts : /\ <<builders'[i].id[2], e>> \in calls'
                                        /\ e # builders'[i].actionOf[d][2]
                                        /\ Reaches(e, builders[i].actionOf[d][2])'
      BY <1>2, <2>2 DEF ErasedIsReached, Acts
    <2>3. i \in 1..depth
      BY <1>3, <1>4, <2>1
    <2>4. /\ d \in DOMAIN builders[i].actionOf
          /\ builders'[i].actionOf[d] = builders[i].actionOf[d]
          /\ builders'[i].id = builders[i].id
      BY <1>3, <2>3
    <2>5. PICK e \in Acts : /\ <<builders[i].id[2], e>> \in calls
                            /\ e # builders[i].actionOf[d][2]
                            /\ Reaches(e, builders[i].actionOf[d][2])
      BY <2>3, <2>4 DEF ErasedIsReached
    <2>6. Reaches(e, builders[i].actionOf[d][2])'
      BY <1>1, <1>2, <2>4, <2>5, ReachesGrows
    <2> QED
      BY <1>1, <2>4, <2>5, <2>6
  <1> QED
    BY <1>6, <1>7, <1>8, <1>9, <1>10, <1>11, <1>12, <1>13, <1>14, <1>15

\* The check that ends is not the last one.
LEMMA FinishNestedKeeps ==
    ASSUME ChecksInv, FinishNested
    PROVE  ChecksInv'
  <1> USE DEF ChecksInv
  <1>1. /\ depth \in Nat /\ depth > 1 /\ depth' = depth - 1
        /\ \A i \in 1..(depth - 2) : builders'[i] = builders[i]
        /\ UNCHANGED <<program, phase, calls>>
    BY DEF FinishNested, ProgramInv
  <1>2. PICK a \in Acts \ DOMAIN checked : Asking.id = Op(a, Unchecked) /\ Asking.id[2] = a
    BY <1>1, AskingFacts
  <1>3. /\ DOMAIN checked' = DOMAIN checked \cup {a}
        /\ listings' = [listings EXCEPT ![Op(a, Checked)] = @ + 1]
        /\ builders'[depth'] = Learns(builders[depth - 1], a)
    BY <1>2 DEF FinishNested, Finished
  <1> DEFINE asker == depth - 1
             class == program.acts[a].cls
  <1>4. /\ asker \in 1..depth /\ asker + 1 = depth /\ depth' = asker /\ depth \in 1..depth
        /\ \A i \in 1..asker : i \in 1..depth /\ i # depth /\ (i = asker \/ i \in 1..(depth - 2))
    BY <1>1
  <1>5. /\ \A i \in 1..asker : builders'[i].id = builders[i].id
        /\ \A i \in 1..asker : i # asker => builders'[i] = builders[i]
        /\ builders'[asker].actionOf =
              [c \in DOMAIN builders[asker].actionOf \cup {class} |->
                  IF c = class THEN Op(a, Checked) ELSE builders[asker].actionOf[c]]
    BY <1>1, <1>3, <1>4 DEF Learns
  <1> HIDE DEF asker, class
  <1>6. \A i \in 1..asker : builders[i].id # Op(a, Unchecked)
    BY <1>2, <1>4 DEF OnceInv, Asking
  <1>7. ProgramInv'
    <2>1. DOMAIN listings' = Ops
      BY <1>3 DEF ProgramInv
    <2>2. depth' \in Nat
      BY <1>1
    <2>3. Acts' = Acts /\ Ops' = Ops
      BY <1>1 DEF Acts, Ops
    <2> QED
      BY <1>1, <1>3, <2>1, <2>2, <2>3 DEF ProgramInv
  <1>8. UnderCheckInv'
    <2> SUFFICES ASSUME NEW i \in 1..asker
                 PROVE  \E b \in Acts \ DOMAIN checked' : builders'[i].id = Op(b, Unchecked)
      BY <1>1, <1>4 DEF UnderCheckInv, Acts
    <2>1. PICK b \in Acts \ DOMAIN checked : builders[i].id = Op(b, Unchecked)
      BY <1>1, <1>4 DEF UnderCheckInv
    <2> QED
      BY <1>3, <1>5, <1>6, <2>1
  <1>9. OnceInv'
    BY <1>4, <1>5 DEF OnceInv
  <1>10. MapInv'
    <2> SUFFICES ASSUME NEW i \in 1..asker, NEW c \in DOMAIN builders'[i].actionOf
                 PROVE  \E b \in Acts : /\ program.acts[b].cls = c
                                        /\ \/ builders'[i].actionOf[c] = Op(b, Unchecked)
                                           \/ /\ b \in DOMAIN checked'
                                              /\ builders'[i].actionOf[c] = Op(b, Checked)
      BY <1>1, <1>4 DEF MapInv, Acts
    <2>1. CASE i # asker
      BY <1>3, <1>4, <1>5, <2>1 DEF MapInv
    <2>2. CASE i = asker /\ c = class
      BY <1>2, <1>3, <1>5, <2>2 DEF class
    <2>3. CASE i = asker /\ c # class
      BY <1>3, <1>4, <1>5, <2>3 DEF MapInv
    <2> QED
      BY <2>1, <2>2, <2>3
  <1>11. TableInv'
    <2>1. ListedAsTheyAre /\ ~ Acts \subseteq DOMAIN checked
      BY <1>1, <1>2 DEF TableInv
    <2>2. \A op : op \in NestedOps <=> op \in NestedOps' \/ op = Op(a, Unchecked)
      <3>1. 2..depth = 2..depth' \cup {depth} /\ 2..depth' \subseteq 1..asker
        BY <1>1, <1>4
      <3> QED
        BY <1>2, <1>5, <3>1 DEF NestedOps, Asking
    <2>3. Op(a, Unchecked) \notin NestedOps'
      <3>1. 2..depth' \subseteq 1..asker
        BY <1>1, <1>4
      <3> QED
        BY <1>5, <1>6, <3>1 DEF NestedOps
    <2>4. Op(a, Checked) \notin NestedOps /\ Op(a, Checked) \in Ops
      <3>1. 2..depth \subseteq 1..depth
        BY <1>1
      <3> QED
        BY <1>1, <1>2, <3>1, OpParts, FunctionIsNoOp DEF NestedOps, UnderCheckInv, Checked, Unchecked, Ops
    <2>5. \A op \in Ops : listings'[op] = IF op = Op(a, Checked) THEN listings[op] + 1 ELSE listings[op]
      BY <1>3 DEF ProgramInv
    <2>6. /\ Ops' = Ops
          /\ \A b : b # a => Current(b)' = Current(b)
          /\ Current(a) = Op(a, Unchecked) /\ Current(a)' = Op(a, Checked)
      BY <1>1, <1>2, <1>3 DEF Ops, Acts, Current
    <2>7. \A op \in Ops : op[2] = a => op = Op(a, Unchecked) \/ op = Op(a, Checked)
      BY OpIsOp
    <2>8. \A op \in Ops : listings'[op] = IF op = Current(op[2])' /\ op \notin NestedOps' THEN 1 ELSE 0
      <3> SUFFICES ASSUME NEW op \in Ops
                   PROVE  listings'[op] = IF op = Current(op[2])' /\ op \notin NestedOps' THEN 1 ELSE 0
        OBVIOUS
      <3>1. listings[op] = IF op = Current(op[2]) /\ op \notin NestedOps THEN 1 ELSE 0
        BY <2>1 DEF ListedAsTheyAre
      <3>2. CASE op[2] # a
        BY <2>2, <2>5, <2>6, <3>1, <3>2, OpParts
      <3>3. CASE op = Op(a, Unchecked)
        BY <2>2, <2>3, <2>5, <2>6, <3>1, <3>3, OpParts DEF Checked, Unchecked
      <3>4. CASE op = Op(a, Checked)
        BY <2>2, <2>4, <2>5, <2>6, <3>1, <3>4, OpParts DEF Checked, Unchecked
      <3> QED
        BY <2>7, <3>2, <3>3, <3>4
    <2> QED
      BY <1>1, <1>3, <2>1, <2>6, <2>8 DEF TableInv, ListedAsTheyAre, Acts
  <1>12. CallsInv'
    <2> SUFFICES ASSUME NEW p \in Acts, NEW q \in Acts, <<p, q>> \in calls
                 PROVE  \/ p \in DOMAIN checked' /\ q \in DOMAIN checked'
                        \/ \E i \in 1..asker :
                              /\ builders'[i].id = Op(p, Unchecked)
                              /\ \/ q \in DOMAIN checked'
                                 \/ i < asker /\ builders'[i + 1].id = Op(q, Unchecked)
      BY <1>1, <1>4 DEF CallsInv, Acts
    <2>1. CASE p \in DOMAIN checked /\ q \in DOMAIN checked
      BY <1>3, <2>1
    <2>2. ASSUME NEW i \in 1..depth, builders[i].id = Op(p, Unchecked),
                 \/ q \in DOMAIN checked
                 \/ i < depth /\ builders[i + 1].id = Op(q, Unchecked)
          PROVE  \/ p \in DOMAIN checked' /\ q \in DOMAIN checked'
                 \/ \E j \in 1..asker :
                       /\ builders'[j].id = Op(p, Unchecked)
                       /\ \/ q \in DOMAIN checked'
                          \/ j < asker /\ builders'[j + 1].id = Op(q, Unchecked)
      <3>1. CASE i = depth
        BY <1>1, <1>2, <1>3, <2>2, <3>1, OpParts DEF Asking
      <3>2. CASE i = asker
        BY <1>2, <1>3, <1>4, <1>5, <2>2, <3>2, OpParts DEF Asking
      <3>3. CASE i < asker
        <4>1. i \in 1..asker /\ i + 1 \in 1..asker
          BY <1>4, <3>3
        <4> QED
          BY <1>3, <1>5, <2>2, <3>3, <4>1
      <3> QED
        BY <1>1, <3>1, <3>2, <3>3 DEF asker
    <2> QED
      BY <2>1, <2>2 DEF CallsInv
  <1>13. ChainInv'
    <2>1. \A i \in 1..asker : i < asker => i + 1 \in 1..asker /\ i \in 1..depth /\ i < depth
      BY <1>1, <1>4
    <2> QED
      BY <1>1, <1>4, <1>5, <2>1 DEF ChainInv
  <1>14. ReachInv'
    BY <1>1, <1>4, <1>5, ReachesGrows DEF ReachInv
  <1>15. NoCircle'
    <2>1. \A d : <<a, d>> \in calls => d \in DOMAIN checked
      BY <1>1, <1>2, <1>4, OpParts DEF CallsInv, ProgramInv, OnceInv, Asking
    <2> QED
      BY <1>1, <1>2, <1>3, <2>1, CheckedCallsChecked, NoCircleWithChecked
  <1>16. ErasedIsReached'
    <2> SUFFICES ASSUME NEW i \in 1..asker, NEW c \in DOMAIN builders'[i].actionOf,
                        Erased(builders[i].actionOf[c])'
                 PROVE  \E d \in Acts : /\ <<builders'[i].id[2], d>> \in calls
                                        /\ d # builders'[i].actionOf[c][2]
                                        /\ Reaches(d, builders[i].actionOf[c][2])'
      BY <1>1, <1>4 DEF ErasedIsReached, Acts
    <2> DEFINE op == builders'[i].actionOf[c]
    <2>1. op[3] = Unchecked /\ op[2] \in DOMAIN checked'
      BY DEF Erased
    <2>2. c \in DOMAIN builders[i].actionOf /\ op = builders[i].actionOf[c] /\ (i = asker => c # class)
      <3>1. CASE i = asker
        BY <1>5, <2>1, <3>1, OpParts DEF Checked, Unchecked
      <3>2. CASE i # asker
        BY <1>5, <3>2
      <3> QED
        BY <3>1, <3>2
    <2>3. CASE op[2] \in DOMAIN checked
      <3>1. Erased(builders[i].actionOf[c])
        BY <2>1, <2>2, <2>3 DEF Erased
      <3>2. PICK d \in Acts : /\ <<builders[i].id[2], d>> \in calls
                              /\ d # builders[i].actionOf[c][2]
                              /\ Reaches(d, builders[i].actionOf[c][2])
        BY <1>4, <2>2, <3>1 DEF ErasedIsReached
      <3> QED
        BY <1>1, <1>5, <2>2, <3>2, ReachesGrows
    <2>4. CASE op[2] = a
      <3>1. i # asker
        BY <1>4, <2>2, <2>4, OpParts DEF MapInv, class
      <3>2. i < depth /\ i + 1 \in 1..asker /\ i + 1 <= depth
        BY <1>1, <1>4, <3>1
      <3> DEFINE d == builders[i + 1].id[2]
      <3>3. <<builders[i].id[2], d>> \in calls
        BY <1>4, <3>2 DEF ChainInv
      <3>4. d \in Acts /\ d # a
        BY <1>1, <1>4, <1>6, <3>2, OpParts DEF UnderCheckInv
      <3>5. Reaches(d, a)
        BY <1>2, <1>4, <3>2 DEF ReachInv, Asking
      <3> QED
        BY <1>1, <1>5, <2>2, <2>4, <3>3, <3>4, <3>5, ReachesGrows
    <2> QED
      BY <1>3, <2>1, <2>3, <2>4
  <1> QED
    BY <1>7, <1>8, <1>9, <1>10, <1>11, <1>12, <1>13, <1>14, <1>15, <1>16

LEMMA FinishStartedKeeps ==
    ASSUME ChecksInv, FinishStarted
    PROVE  ChecksInv'
  <1> USE DEF ChecksInv
  <1>1. depth = 1 /\ depth' = 0 /\ UNCHANGED <<program, phase, listings, calls>>
    BY DEF FinishStarted
  <1>2. PICK a \in Acts \ DOMAIN checked : Asking.id = Op(a, Unchecked) /\ Asking.id[2] = a
    BY <1>1, AskingFacts DEF FinishStarted
  <1>3. DOMAIN checked' = DOMAIN checked \cup {a}
    BY <1>2 DEF FinishStarted, Finished
  <1>4. ProgramInv'
    BY <1>1, <1>2, <1>3 DEF ProgramInv, Acts, Ops
  <1>5. TableInv'
    BY <1>1, <1>2 DEF TableInv
  <1>6. CallsInv'
    <2> SUFFICES ASSUME NEW p \in Acts, NEW q \in Acts, <<p, q>> \in calls
                 PROVE  p \in DOMAIN checked' /\ q \in DOMAIN checked'
      BY <1>1 DEF CallsInv, Acts
    <2>1. CASE p \in DOMAIN checked /\ q \in DOMAIN checked
      BY <1>3, <2>1
    <2>2. CASE builders[1].id = Op(p, Unchecked) /\ q \in DOMAIN checked
      BY <1>1, <1>2, <1>3, <2>2, OpParts DEF Asking
    <2> QED
      BY <1>1, <2>1, <2>2 DEF CallsInv
  <1>7. NoCircle'
    <2>1. \A d : <<a, d>> \in calls => d \in DOMAIN checked
      BY <1>1, <1>2 DEF CallsInv, ProgramInv
    <2> QED
      BY <1>1, <1>2, <1>3, <2>1, CheckedCallsChecked, NoCircleWithChecked
  <1> QED
    BY <1>1, <1>4, <1>5, <1>6, <1>7, NoBuilders

\* No function is under check yet: there is an action left to check.
LEMMA StartCheckKeeps ==
    ASSUME ChecksInv, StartCheck
    PROVE  ChecksInv'
  <1> USE DEF ChecksInv
  <1>1. /\ depth = 0 /\ depth' = 1
        /\ listings' = AsTheyAre
        /\ UNCHANGED <<program, phase, checked, calls>>
    BY DEF StartCheck
  <1>2. PICK a \in Acts \ DOMAIN checked : builders'[1] = Builder(Op(a, Unchecked))
    BY DEF StartCheck
  <1>3. builders'[1].id = Op(a, Unchecked) /\ 1..depth' = {1}
    BY <1>1, <1>2 DEF Builder
  <1>4. ProgramInv'
    BY <1>1 DEF ProgramInv, Acts, Ops, AsTheyAre
  <1>5. UnderCheckInv'
    BY <1>1, <1>2, <1>3 DEF UnderCheckInv, Acts
  <1>6. TableInv'
    <2>1. phase' # "functions"
      BY <1>1, <1>2 DEF TableInv
    <2>2. NestedOps' = {}
      BY <1>1, NoNestedOps
    <2> QED
      BY <1>1, <2>1, <2>2 DEF TableInv, ListedAsTheyAre, AsTheyAre, Ops, Acts, Current
  <1>7. CallsInv'
    BY <1>1 DEF CallsInv, Acts
  <1>8. NoCircle'
    BY <1>1 DEF NoCircle
  <1> QED
    BY <1>1, <1>2, <1>4, <1>5, <1>6, <1>7, <1>8, FirstBuilder

LEMMA StartFunctionsKeeps ==
    ASSUME ChecksInv, StartFunctions
    PROVE  ChecksInv'
  <1> USE DEF ChecksInv
  <1>1. /\ depth = 0 /\ depth' = 0 /\ Acts \subseteq DOMAIN checked
        /\ listings' = AsTheyAre
        /\ UNCHANGED <<program, checked, calls>>
    BY DEF StartFunctions
  <1>2. ProgramInv'
    BY <1>1 DEF ProgramInv, Acts, Ops, AsTheyAre
  <1>3. TableInv'
    <2>1. NestedOps' = {}
      BY <1>1, NoNestedOps
    <2> QED
      BY <1>1, <2>1 DEF TableInv, ListedAsTheyAre, AsTheyAre, Ops, Acts, Current
  <1>4. CallsInv' /\ NoCircle'
    BY <1>1 DEF CallsInv, NoCircle, Acts
  <1> QED
    BY <1>1, <1>2, <1>3, <1>4, NoBuilders

\* The table made for the functions stays as it was made.
LEMMA CheckFunctionKeeps ==
    ASSUME ChecksInv, CheckFunction
    PROVE  ChecksInv'
  <1> USE DEF ChecksInv
  <1>1. /\ phase = "functions" /\ depth = 0 /\ depth' = 1
        /\ UNCHANGED <<program, phase, checked, listings, calls>>
    BY DEF CheckFunction
  <1>2. PICK f \in DOMAIN program.funs : builders'[1] = Builder(<<"fun", f>>)
    BY DEF CheckFunction
  <1>3. builders'[1].id = <<"fun", f>> /\ 1..depth' = {1}
    BY <1>1, <1>2 DEF Builder
  <1>4. Acts \subseteq DOMAIN checked /\ ListedAsTheyAre
    BY <1>1 DEF TableInv
  <1>5. ProgramInv'
    BY <1>1 DEF ProgramInv, Acts, Ops
  <1>6. UnderCheckInv'
    BY <1>1, <1>3, <1>4 DEF UnderCheckInv, Acts, FunctionIds
  <1>7. TableInv'
    <2>1. NestedOps = {} /\ NestedOps' = {}
      BY <1>1, NoNestedOps
    <2> QED
      BY <1>1, <1>4, <2>1 DEF TableInv, ListedAsTheyAre, Ops, Acts, Current
  <1>8. CallsInv' /\ NoCircle'
    BY <1>1 DEF CallsInv, NoCircle, Acts
  <1> QED
    BY <1>1, <1>2, <1>5, <1>6, <1>7, <1>8, FirstBuilder

LEMMA FinishFunctionCheckKeeps ==
    ASSUME ChecksInv, FinishFunctionCheck
    PROVE  ChecksInv'
  <1> USE DEF ChecksInv
  <1>1. /\ depth = 1 /\ depth' = 0
        /\ UNCHANGED <<program, phase, checked, listings, calls>>
    BY DEF FinishFunctionCheck
  <1>2. Acts \subseteq DOMAIN checked
    BY <1>1, AskingFacts, OpParts DEF FinishFunctionCheck
  <1>3. ProgramInv'
    BY <1>1 DEF ProgramInv, Acts, Ops
  <1>4. TableInv'
    <2>1. NestedOps = {} /\ NestedOps' = {}
      BY <1>1, NoNestedOps
    <2> QED
      BY <1>1, <2>1 DEF TableInv, ListedAsTheyAre, Ops, Acts, Current
  <1>5. CallsInv'
    <2>1. \A p, q \in Acts : <<p, q>> \in calls => p \in DOMAIN checked /\ q \in DOMAIN checked
      BY <1>2
    <2> QED
      BY <1>1, <2>1 DEF CallsInv, Acts
  <1>6. NoCircle'
    BY <1>1 DEF NoCircle
  <1> QED
    BY <1>1, <1>3, <1>4, <1>5, <1>6, NoBuilders

\* What the other passes, and a step of none of these, leave as it is.
LEMMA BuildersStay ==
    ASSUME ChecksInv, UNCHANGED <<program, depth, builders, checked, calls>>
    PROVE  /\ (UnderCheckInv /\ OnceInv /\ MapInv /\ CallsInv)'
           /\ (ChainInv /\ ReachInv /\ NoCircle /\ ErasedIsReached)'
           /\ NestedOps' = NestedOps /\ Ops' = Ops /\ Acts' = Acts
           /\ \A a : Current(a)' = Current(a)
  <1> USE DEF ChecksInv
  <1>1. Acts' = Acts /\ Ops' = Ops /\ FunctionIds' = FunctionIds
    BY DEF Acts, Ops, FunctionIds
  <1>2. UnderCheckInv' /\ OnceInv' /\ MapInv'
    BY <1>1 DEF UnderCheckInv, OnceInv, MapInv
  <1>3. CallsInv' /\ ChainInv' /\ NoCircle'
    BY <1>1 DEF CallsInv, ChainInv, NoCircle
  <1>4. ReachInv'
    BY ReachesGrows DEF ReachInv
  <1>5. ErasedIsReached'
    BY <1>1, ReachesGrows DEF ErasedIsReached, Erased
  <1> QED
    BY <1>1, <1>2, <1>3, <1>4, <1>5 DEF NestedOps, Current

LEMMA OtherPassKeeps ==
    ASSUME ChecksInv, OtherPass
    PROVE  ChecksInv'
  <1> USE DEF ChecksInv
  <1>1. /\ phase' # "functions"
        /\ depth # 0 => UNCHANGED listings
        /\ listings' = listings \/ listings' = AsTheyAre
        /\ UNCHANGED <<program, depth, builders, checked, calls>>
    BY DEF OtherPass
  <1>2. ProgramInv'
    <2>1. Acts' = Acts /\ Ops' = Ops
      BY <1>1, BuildersStay
    <2>2. DOMAIN AsTheyAre = Ops
      BY DEF AsTheyAre
    <2>3. DOMAIN listings' = Ops
      BY <1>1, <2>2 DEF ProgramInv
    <2> QED
      BY <1>1, <2>1, <2>3 DEF ProgramInv
  <1>3. TableInv'
    BY <1>1, BuildersStay DEF TableInv, ListedAsTheyAre, ProgramInv
  <1> QED
    BY <1>1, <1>2, <1>3, BuildersStay

-----------------------------------------------------------------------------
(* Theorems.                                                               *)

\* However the checks nest: what the table and the maps say, that calls are
\* recorded for what is checked or waits, and that the builders under way
\* are a chain of calls (typeCheckActions, maybeInstantiateAction).
THEOREM ChecksInvariant == ChecksSpec => []ChecksInv
  <1>1. ChecksInit => ChecksInv
    BY InitInv
  <1>2. ChecksInv /\ [ChecksNext]_checks => ChecksInv'
    <2> SUFFICES ASSUME ChecksInv, [ChecksNext]_checks
                 PROVE  ChecksInv'
      OBVIOUS
    <2>1. CASE StartCheck
      BY <2>1, StartCheckKeeps
    <2>2. CASE CallChecked
      BY <2>2, CallCheckedKeeps
    <2>3. CASE CheckNested
      BY <2>3, CheckNestedKeeps
    <2>4. CASE FinishNested
      BY <2>4, FinishNestedKeeps
    <2>5. CASE FinishStarted
      BY <2>5, FinishStartedKeeps
    <2>6. CASE StartFunctions
      BY <2>6, StartFunctionsKeeps
    <2>7. CASE CheckFunction
      BY <2>7, CheckFunctionKeeps
    <2>8. CASE FinishFunctionCheck
      BY <2>8, FinishFunctionCheckKeeps
    <2>9. CASE OtherPass
      BY <2>9, OtherPassKeeps
    <2>10. CASE UNCHANGED checks
      <3>1. UNCHANGED <<program, phase, depth, builders, checked, listings, calls>>
        BY <2>10 DEF checks
      <3>2. ProgramInv'
        BY <3>1 DEF ChecksInv, ProgramInv, Acts, Ops
      <3>3. TableInv'
        BY <3>1, BuildersStay DEF ChecksInv, TableInv, ListedAsTheyAre
      <3> QED
        BY <3>1, <3>2, <3>3, BuildersStay DEF ChecksInv
    <2> QED
      BY <2>1, <2>2, <2>3, <2>4, <2>5, <2>6, <2>7, <2>8, <2>9, <2>10 DEF ChecksNext
  <1> QED
    BY <1>1, <1>2, PTL DEF ChecksSpec

\* While a body is checked, the table of the module has every action exactly
\* once, as it is, and not at all while a nested check of it is under way,
\* though every nested check changes the one table of all of them
\* (removeActionFromRootTable, addActionToRootTable).
THEOREM TableIsCurrentTheorem == ChecksSpec => []TableIsCurrent
  <1>1. ChecksInv => TableIsCurrent
    <2> SUFFICES ASSUME ChecksInv, depth > 0, NEW op \in Ops
                 PROVE  listings[op] = IF op = Current(op[2]) /\ ~UnderNested(op[2]) THEN 1 ELSE 0
      BY DEF TableIsCurrent
    <2>1. listings[op] = IF op = Current(op[2]) /\ op \notin NestedOps THEN 1 ELSE 0
      BY DEF ChecksInv, TableInv, ListedAsTheyAre
    <2>2. CASE op[3] = Unchecked
      <3>1. op = Op(op[2], Unchecked)
        BY <2>2, OpIsOp
      <3> QED
        BY <2>1, <3>1 DEF NestedOps, UnderNested
    <2>3. CASE op[3] = Checked /\ op = Current(op[2])
      <3>1. op[2] \in DOMAIN checked /\ op = Op(op[2], Checked)
        BY <2>3, OpIsOp, OpParts DEF Current, Checked, Unchecked
      <3>2. 2..depth \subseteq 1..depth
        BY DEF ChecksInv, ProgramInv
      <3>3. ~UnderNested(op[2])
        BY <3>1, <3>2, OpParts, FunctionIsNoOp DEF ChecksInv, UnderCheckInv, UnderNested
      <3>4. op \notin NestedOps
        BY <3>1, <3>2, OpParts, FunctionIsNoOp
           DEF ChecksInv, UnderCheckInv, NestedOps, Checked, Unchecked
      <3> QED
        BY <2>1, <3>3, <3>4
    <2> QED
      BY <2>1, <2>2, <2>3, OpIsOp
  <1> QED
    BY <1>1, ChecksInvariant, PTL

\* No action is accepted that calls itself through others ("infinite size"
\* of typeCheckAction), and only a call cycle lets a builder find an erased
\* operation in its map (getActionOf after maybeInstantiateAction).
THEOREM CallsAreOrderedTheorem == ChecksSpec => []CallsAreOrdered
  <1>1. ChecksInv => CallsAreOrdered
    BY DEF ChecksInv, CallsAreOrdered
  <1> QED
    BY <1>1, ChecksInvariant, PTL
=============================================================================
