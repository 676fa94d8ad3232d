---------------------------- MODULE ActionLiveness ----------------------------
(***************************************************************************)
(* ValidateStorageQualifiersPass: a backward data flow analysis finds the  *)
(* variables that may be read after each point, and the pass reports those *)
(* that are not in the frame and alive where an act suspends. The solver   *)
(* is MLIR's (external): it visits every point once and, whenever a visit  *)
(* answers Change, again the points that depend on it, in no fixed order.  *)
(***************************************************************************)
EXTENDS ActionProgram

VARIABLES
  before,    \* per point: the content of the lattice before it
  pending,   \* the points the solver still has to visit
  judged,    \* the pass has given its verdict
  reported   \* the variables it complains about

vars == <<before, pending, judged, reported>>

TypeOK ==
  /\ before \in [Points -> SUBSET Local]
  /\ pending \subseteq Points
  /\ judged \in BOOLEAN
  /\ reported \subseteq Local

Init ==
  /\ before = [p \in Points |-> {}]
  /\ pending = Points
  /\ judged = FALSE
  /\ reported = {}

-----------------------------------------------------------------------------
After(p) == UNION {before[q] : q \in FlowOf(p)}

JustDefined(p) == Code[p].defines

JustUsed(p) == Code[p].uses

\* joinAndMark: the content, joined with what is alive after the point and
\* what it uses.
Joined(p) == before[p] \cup After(p) \cup JustUsed(p)

\* Faults: only the join counts, not what the point itself uses; every visit
\* answers Change.
JoinChanged(p) == ~ (After(p) \subseteq before[p])
AlwaysChanged(p) == TRUE

\* Whether joinAndMark answers Change. A variable that is alive after its own
\* declaration counts, although it is erased again.
Changed(p) == Joined(p) # before[p] \/ Joined(p) \cap JustDefined(p) # {}

Dependents(p) == {q \in Points : p \in FlowOf(q)}

Visit(p) ==
  /\ p \in pending
  /\ before' = [before EXCEPT ![p] = Joined(p) \ JustDefined(p)]
  /\ pending' = (pending \ {p}) \cup (IF Changed(p) THEN Dependents(p) ELSE {})
  /\ UNCHANGED <<judged, reported>>

\* Fault: asked of the content after the act, where its own argument is alive.
AliveAfterSomeAct(v) == \E a \in Acts : v \in After(a)

\* isUsedAcrossActions, asked of the solver's answer.
AliveAcross(v) == \E a \in Acts : v # Code[a].arg /\ v \in before[a]

Report ==
  /\ pending = {}
  /\ ~ judged
  /\ judged' = TRUE
  /\ reported' = {v \in Local \ Ctx : AliveAcross(v)}
  /\ UNCHANGED <<before, pending>>

Next == Report \/ \E p \in Points : Visit(p)

\* The solver is a sequential loop over its work list, and the pass runs on
\* when it ends.
Spec == Init /\ [][Next]_vars /\ WF_vars(Next)

-----------------------------------------------------------------------------
(* Properties.                                                             *)

\* Whatever the order of the visits, nothing is ever believed alive that is
\* not: content never has to be taken back.
NeverTooMuch == \A p \in Points : \A v \in before[p] : p \in SeenLive[v]

\* With nothing left to visit, the content is the least solution, though a
\* visit only looks at the points that come next.
ExactWhenDone ==
  pending = {} => \A p \in Points, v \in Local : v \in before[p] <=> p \in SeenLive[v]

\* The pass complains about the variables that are used across actions and
\* about no other.
ReportedExactly ==
  judged => reported = {v \in Local \ Ctx : UsedAcrossActions(v)}

\* The solver stops, although some of its visits answer Change for nothing.
VerdictIsGiven == <>judged
==============================================================================
