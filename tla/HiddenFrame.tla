----------------------------- MODULE HiddenFrame -----------------------------
(***************************************************************************)
(* The hidden frame of one activation: the structure LowerActionPass fills *)
(* with references to everything the call was given and does not own (the  *)
(* ctx variables and the local arguments), and the slots through which the *)
(* implementation reads them back. A new, uninitialised one is made for    *)
(* every call.                                                             *)
(*                                                                         *)
(* A value is a pair: <<0, i>> is parameter i of the action function,      *)
(* <<a, j>> argument j of act statement a. Type checking gives every act   *)
(* the ctx parameters of the action function as its first arguments.       *)
(***************************************************************************)
EXTENDS Integers, FiniteSets, Sequences

CONSTANTS
  ParamLists,  \* the storage qualifiers of the parameters, in order
  ActLists,    \* for every act, the qualifiers of the arguments it declares
  Unset        \* a slot that was never written

Qualifiers == {"frm", "ctx", "local"}

ASSUME ListsAssumption ==
  /\ ParamLists \subseteq Seq(Qualifiers)
  /\ ActLists \subseteq Seq(Seq({"frm", "local"}))
  /\ Unset \notin Nat \X Nat

VARIABLES
  params, acts,  \* the action function that is compiled
  entered,       \* the call: 0 the constructor, a the wrapper of act a, -1 none
  slots          \* what the slots of its hidden frame refer to

vars == <<params, acts, entered, slots>>

-----------------------------------------------------------------------------
(* The layout, from the order of the declarations.                         *)

CtxParams == {i \in DOMAIN params : params[i] = "ctx"}
NumCtx == Cardinality(CtxParams)

\* The place of ctx parameter i among the arguments of every act.
Rank(i) == Cardinality({k \in CtxParams : k <= i})

HiddenParams == {<<0, i>> : i \in {k \in DOMAIN params : params[k] # "frm"}}
CtxArgs(a) == {<<a, j>> : j \in 1 .. NumCtx}
LocalArgs(a) ==
  {<<a, NumCtx + j>> : j \in {k \in DOMAIN acts[a] : acts[a][k] = "local"}}
HiddenArgs(a) == CtxArgs(a) \cup LocalArgs(a)

Hidden == HiddenParams \cup UNION {HiddenArgs(a) : a \in DOMAIN acts}
Before(u, v) == u[1] < v[1] \/ (u[1] = v[1] /\ u[2] < v[2])
IndexOf(v) == Cardinality({u \in Hidden : Before(u, v)})
Slots == 0 .. Cardinality(Hidden) - 1

\* Fault: ctx arguments are addressed like the others.
SlotInOrder(v) == IndexOf(v)

\* The ctx arguments of an act are addressed by their place in its argument
\* list, everything else by its place in the hidden frame.
Slot(v) == IF v[1] # 0 /\ v[2] <= NumCtx THEN v[2] - 1 ELSE IndexOf(v)

-----------------------------------------------------------------------------
(* Calls.                                                                  *)

Init ==
  /\ params \in ParamLists
  /\ acts \in ActLists
  /\ entered = -1
  /\ slots = [s \in Slots |-> Unset]

\* The values a call stores a reference to, one after the other.
Given(a) == IF a = 0 THEN HiddenParams ELSE HiddenArgs(a)
LastInto(s, a) ==
  {v \in Given(a) : Slot(v) = s /\ \A u \in Given(a) : Slot(u) = s => ~ Before(v, u)}

Filled(a) == [s \in Slots |-> IF LastInto(s, a) = {} THEN Unset
                             ELSE CHOOSE v \in LastInto(s, a) : TRUE]

Enter(a) ==
  /\ entered' = a
  /\ slots' = Filled(a)
  /\ UNCHANGED <<params, acts>>

Construct == entered = -1 /\ Enter(0)
Resume(a) == entered # -1 /\ Enter(a)

Next == Construct \/ \E a \in DOMAIN acts : Resume(a)

Spec == Init /\ [][Next]_vars

-----------------------------------------------------------------------------
(* Properties.                                                             *)

TypeOK ==
  /\ params \in ParamLists
  /\ acts \in ActLists
  /\ entered \in {-1, 0} \cup DOMAIN acts
  /\ slots \in [Slots -> Hidden \cup {Unset}]

\* Every value the implementation may read before it suspends again: what
\* this call was given, and the ctx variables under any of their names (the
\* parameter, or the argument of any act, for instance around a loop).
Readable(a) ==
  IF a = 0 THEN HiddenParams
  ELSE HiddenArgs(a) \cup {<<0, i>> : i \in CtxParams}
       \cup UNION {CtxArgs(b) : b \in DOMAIN acts}

\* The value of this call that a read of v must reach.
Meant(a, v) ==
  IF a = 0 \/ v \in HiddenArgs(a) THEN v
  ELSE IF v[1] = 0 THEN <<a, Rank(v[2])>> ELSE <<a, v[2]>>

\* Every variable read in an activation refers to what the caller passed for
\* it in that very call.
ReadsMeant(a, filled) ==
  \A v \in Readable(a) : Slot(v) \in Slots /\ filled[Slot(v)] = Meant(a, v)
ReadsWhatWasPassed == entered # -1 => ReadsMeant(entered, slots)

\* The ctx parameters come before the local ones ("guaranteed", says
\* LowerActionPass).
CtxFirst == \A i \in CtxParams, k \in DOMAIN params : params[k] = "local" => i < k

\* Where the ctx parameters do come first, every read reaches its argument.
CtxFirstReads == CtxFirst => ReadsWhatWasPassed
==============================================================================
