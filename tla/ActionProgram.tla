---------------------------- MODULE ActionProgram ----------------------------
(***************************************************************************)
(* An action function of the Rulebook language, as the compiler sees it    *)
(* between type checking and ActionStatementsToCoro: a control flow graph  *)
(* whose points are numbered in the order of the source text, and the      *)
(* static facts the compiler derives from it (action identifiers,          *)
(* resumption points, live variables, which statements survive pruning).   *)
(*                                                                         *)
(* An instruction is a record:                                             *)
(*   kind     "act" (ActionStatement), "actions" (ActionsStatement),       *)
(*            "plain" (anything that runs to completion), "end" (return    *)
(*            or the end of the body);                                     *)
(*   succ     the points control may reach next, the alternatives of an    *)
(*            "actions" in the order of the source;                        *)
(*   flow     the points the storage analysis follows next: those of succ, *)
(*            but for break and continue the statement written after it;   *)
(*   group    for an act, the "actions" point it is an alternative of,     *)
(*            0 when it stands alone;                                      *)
(*   name,arg the action an act waits for, and the variable that receives  *)
(*            its argument (NoArg when it has none);                       *)
(*   uses, defines   the non-frm variables a point reads and declares.     *)
(***************************************************************************)
EXTENDS Integers, FiniteSets, Sequences

CONSTANTS
  Code,            \* the instructions, a sequence
  Frm,             \* the frm variables: members of the action's class
  Local,           \* every other variable: it lives for one activation
  NoArg,           \* marks an act without an argument
  Names,           \* the names of the actions
  Values,          \* what a frm variable or an argument may hold
  EntryArgs,       \* the arguments of the action function itself
  Ctx,             \* those the host passes again at every call
  InitFrm,         \* what the class's init() leaves in the frm variables
  EntryAdmits(_),  \* EntryAdmits(frm): the precondition of the action function
  Admits(_, _, _), \* Admits(a, frm, v): the precondition written at act a
  Exec(_, _),      \* Exec(p, frm): how a plain point p may end
  Handles,         \* the host's variables of the action's class
  NoHandle,
  Builds           \* TRUE for one that checks preconditions, FALSE for one
                   \* with --emit-precondition-checks=false or -O2

Points == 1 .. Len(Code)
Of(kind) == {p \in Points : Code[p].kind = kind}
Acts == Of("act")
FrmValues == [Frm -> Values]

SuccOf(p) == {Code[p].succ[i] : i \in 1 .. Len(Code[p].succ)}
FlowOf(p) == {Code[p].flow[i] : i \in 1 .. Len(Code[p].flow)}
Next1(p) == Code[p].succ[1]
Named(n) == {a \in Acts : Code[a].name = n}

-----------------------------------------------------------------------------
(* Identifiers.                                                            *)

\* Fault: lastId starts one too high.
IdFromTwo(a) == 1 + Cardinality({b \in Acts : b <= a})

\* assignActionIndicies numbers every act from 1 in walk order.
Id(a) == Cardinality({b \in Acts : b <= a})

\* The act whose visit allocates the resumption point of a: the first
\* alternative of its "actions" statement, or a itself.
Leader(a) == IF Code[a].group = 0 THEN a ELSE Next1(Code[a].group)

\* Fault: every act allocates a resumption point, those of one "actions" too.
ResumePointPerAct(a) == Id(a)

\* All the alternatives of one "actions" statement share a resumption point.
ResumePoint(a) ==
  Cardinality({b \in Acts : Leader(b) = b /\ b <= Leader(a)})

-----------------------------------------------------------------------------
(* Pruning. LowerToCf drops the blocks no path from the entry reaches.     *)

SuccClosed == {S \in SUBSET Points : \A p \in S : SuccOf(p) \subseteq S}
Reachable == {p \in Points : \A S \in SuccClosed : 1 \in S => p \in S}
SurvivingActs == Acts \cap Reachable

-----------------------------------------------------------------------------
(* Liveness of the variables that are not in the frame. v is live before a *)
(* point that uses it, and before a point that does not declare it when it *)
(* is live before a point that comes next; it is live nowhere else.        *)

Succ == [p \in Points |-> SuccOf(p)]
Flow == [p \in Points |-> FlowOf(p)]

LiveClosed(v, edges) ==
  {S \in SUBSET Points :
     \A p \in Points :
        /\ v \notin Code[p].defines
        /\ v \in Code[p].uses \/ edges[p] \cap S # {}
        => p \in S}
LivePoints(v, edges) == {p \in Points : \A S \in LiveClosed(v, edges) : p \in S}

\* What is live when the program runs, and what the analysis sees.
LiveBefore == [v \in Local |-> LivePoints(v, Succ)]
SeenLive == [v \in Local |-> LivePoints(v, Flow)]

\* ValidateStorageQualifiersPass: outside the frame and the ctx variables,
\* only the argument an act itself declares may be alive where it suspends.
UsedAcrossActions(v) == \E a \in Acts : v # Code[a].arg /\ a \in SeenLive[v]
Accepted == \A v \in Local \ Ctx : ~ UsedAcrossActions(v)

\* The program has no break or continue that hides a use from the analysis.
FlowSound == \A v \in Local : LiveBefore[v] \cap Acts \subseteq SeenLive[v]

-----------------------------------------------------------------------------
(* What the parser and the type checker guarantee of the graph.            *)

Instructions ==
  [kind : {"act", "actions", "plain", "end"}, succ : Seq(Nat), flow : Seq(Nat),
   group : Nat, name : Names \cup {NoArg}, arg : Frm \cup Local \cup {NoArg},
   uses : SUBSET Local, defines : SUBSET Local]

ASSUME StorageAssumption ==
  /\ Frm \cap Local = {}
  /\ NoArg \notin Frm \cup Local \cup Names
  /\ Values # {}
  /\ EntryArgs \subseteq Frm \cup Local
  /\ Ctx \subseteq EntryArgs \cap Local
  /\ InitFrm \in FrmValues

ASSUME HostAssumption ==
  /\ NoHandle \notin Handles
  /\ Builds \subseteq BOOLEAN

ASSUME CodeAssumption ==
  /\ Code \in Seq(Instructions)
  /\ Code # << >>

\* Successors exist; an act and an "actions" have one; the alternatives of
\* an "actions" are the acts that name it as their group, and control enters
\* them through it.
ASSUME ShapeAssumption ==
  \A p \in Points :
    /\ SuccOf(p) \subseteq Points /\ FlowOf(p) \subseteq Points
    /\ p \in Of("act") => Len(Code[p].succ) = 1 /\ Code[p].name \in Names
    /\ p \in Of("actions") =>
         /\ Len(Code[p].succ) >= 1
         /\ SuccOf(p) = {a \in Acts : Code[a].group = p}
         /\ \A s \in SuccOf(p) : Next1(p) <= s
    /\ p \in Acts /\ Code[p].group # 0 => Code[p].group \in Of("actions")
    /\ p \notin Of("actions") =>
         \A s \in SuccOf(p) : s \in Acts => Code[s].group = 0

ASSUME EntryAssumption == 1 \in Acts => Code[1].group = 0

\* A declaration does not use itself, an act declares its own argument,
\* control statements declare nothing, and nothing is used before it is
\* declared (dominance).
ASSUME ScopeAssumption ==
  /\ \A p \in Points : Code[p].uses \cap Code[p].defines = {}
  /\ \A a \in Acts : Code[a].defines = {Code[a].arg} \cap Local
  /\ \A p \in Of("actions") \cup Of("end") : Code[p].defines = {}
  /\ \A v \in Local : 1 \in LiveBefore[v] => v \in EntryArgs

ASSUME ExecAssumption ==
  \A p \in Of("plain"), frm \in FrmValues :
    Exec(p, frm) \subseteq [next : SuccOf(p), vars : FrmValues]

ASSUME AdmitsAssumption ==
  \A frm \in FrmValues :
    /\ EntryAdmits(frm) \in BOOLEAN
    /\ \A a \in Acts, v \in Values : Admits(a, frm, v) \in BOOLEAN
==============================================================================
