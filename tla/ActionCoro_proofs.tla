-------------------------- MODULE ActionCoro_proofs --------------------------
(***************************************************************************)
(* Theorems about ActionCoro, for every action function the assumptions of *)
(* ActionProgram allow and any number of objects.                          *)
(***************************************************************************)
EXTENDS ActionCoro, FiniteSetTheorems, TLAPS

-----------------------------------------------------------------------------
(* The graph.                                                              *)

LEMMA CodeType == \A p \in Points : Code[p] \in Instructions
  BY CodeAssumption DEF Points

LEMMA OfType == \A kind : Of(kind) \subseteq Points
  BY DEF Of

LEMMA FirstPoint == 1 \in Points
  BY CodeAssumption DEF Points

\* A point with a successor has a first one, and it is a point.
LEMMA NextType ==
  ASSUME NEW p \in Points, Len(Code[p].succ) >= 1
  PROVE  Next1(p) \in SuccOf(p) /\ Next1(p) \in Points
  <1>1. Code[p].succ \in Seq(Nat)
    BY CodeType DEF Instructions
  <1>2. Next1(p) \in SuccOf(p)
    BY <1>1 DEF Next1, SuccOf
  <1> QED
    BY <1>2, ShapeAssumption

LEMMA ActNext == \A a \in Acts : Next1(a) \in SuccOf(a) /\ Next1(a) \in Points
  <1> SUFFICES ASSUME NEW a \in Acts
               PROVE  Next1(a) \in SuccOf(a) /\ Next1(a) \in Points
    OBVIOUS
  <1>1. a \in Points /\ a \in Of("act")
    BY OfType DEF Acts
  <1>2. Len(Code[a].succ) >= 1
    BY <1>1, ShapeAssumption
  <1> QED
    BY <1>1, <1>2, NextType

-----------------------------------------------------------------------------
(* Identifiers and resumption points.                                      *)

LEMMA ActsFinite == IsFiniteSet(Acts) /\ Acts \subseteq Nat
  <1>1. Len(Code) \in Nat
    BY CodeAssumption
  <1>2. IsFiniteSet(Points) /\ Points \subseteq Nat
    BY <1>1, FS_Interval DEF Points
  <1> QED
    BY <1>2, OfType, FS_Subset DEF Acts

LEMMA ActsNat == \A a \in Acts : a \in Nat
  BY ActsFinite

\* A strictly larger prefix of the walk holds strictly more acts.
LEMMA LargerSubset ==
  ASSUME NEW S, NEW T, IsFiniteSet(T), S \subseteq T, NEW x \in T, x \notin S
  PROVE  Cardinality(S) < Cardinality(T) /\ Cardinality(S) \in Nat /\ Cardinality(T) \in Nat
  <1>1. IsFiniteSet(S) /\ Cardinality(S) <= Cardinality(T) /\ Cardinality(S) # Cardinality(T)
    BY FS_Subset
  <1>2. Cardinality(S) \in Nat /\ Cardinality(T) \in Nat
    BY <1>1, FS_CardinalityType
  <1> QED
    BY <1>1, <1>2

LEMMA IdType == \A a \in Acts : Id(a) \in Nat \ {0}
  <1> SUFFICES ASSUME NEW a \in Acts
               PROVE  Id(a) \in Nat \ {0}
    OBVIOUS
  <1> DEFINE T == {b \in Acts : b <= a}
  <1>1. IsFiniteSet(T) /\ a \in T
    BY ActsFinite, FS_Subset
  <1>2. 0 < Cardinality(T) /\ Cardinality(T) \in Nat
    BY <1>1, LargerSubset, FS_EmptySet
  <1> QED
    BY <1>2 DEF Id

\* assignActionIndicies gives every act statement an identifier of its own.
THEOREM IdInjective == \A a, b \in Acts : Id(a) = Id(b) => a = b
  <1>1. ASSUME NEW a \in Acts, NEW b \in Acts, a < b
        PROVE  Id(a) # Id(b)
    <2> DEFINE S == {c \in Acts : c <= a}
               T == {c \in Acts : c <= b}
    <2>1. IsFiniteSet(T)
      BY ActsFinite, FS_Subset
    <2>2. S \subseteq T /\ b \in T /\ b \notin S
      <3>1. \A c \in Acts : c \in Int
        BY ActsFinite
      <3>2. ASSUME NEW c \in S PROVE c \in T
        BY <1>1, <3>1, <3>2
      <3> QED
        BY <1>1, <3>1, <3>2
    <2>3. Cardinality(S) < Cardinality(T) /\ Cardinality(S) \in Nat /\ Cardinality(T) \in Nat
      BY <2>1, <2>2, LargerSubset
    <2> QED
      BY <2>3 DEF Id
  <1> QED
    BY <1>1, ActsFinite

LEMMA LeaderType == \A a \in Acts : Leader(a) \in Acts /\ Leader(Leader(a)) = Leader(a)
  <1> SUFFICES ASSUME NEW a \in Acts
               PROVE  Leader(a) \in Acts /\ Leader(Leader(a)) = Leader(a)
    OBVIOUS
  <1>1. CASE Code[a].group = 0
    BY <1>1 DEF Leader
  <1>2. CASE Code[a].group # 0
    <2> DEFINE g == Code[a].group
    <2>1. a \in Points /\ g \in Of("actions") /\ g \in Points
      BY <1>2, ShapeAssumption, OfType DEF Acts
    <2>2. Next1(g) \in SuccOf(g)
      BY <2>1, ShapeAssumption, NextType
    <2>3. Next1(g) \in Acts /\ Code[Next1(g)].group = g
      BY <2>1, <2>2, ShapeAssumption
    <2> QED
      BY <1>2, <2>3 DEF Leader
  <1> QED
    BY <1>1, <1>2

LEMMA ResumePointType == \A a \in Acts : ResumePoint(a) \in Nat \ {0}
  <1> SUFFICES ASSUME NEW a \in Acts
               PROVE  ResumePoint(a) \in Nat \ {0}
    OBVIOUS
  <1> DEFINE T == {b \in Acts : Leader(b) = b /\ b <= Leader(a)}
  <1>1. IsFiniteSet(T)
    BY ActsFinite, FS_Subset
  <1>2. Leader(a) \in T
    <2>1. Leader(a) \in Acts /\ Leader(Leader(a)) = Leader(a)
      BY LeaderType
    <2>2. Leader(a) \in Int
      BY <2>1, ActsNat
    <2> QED
      BY <2>1, <2>2
  <1>3. 0 < Cardinality(T) /\ Cardinality(T) \in Nat
    BY <1>1, <1>2, LargerSubset, FS_EmptySet
  <1> QED
    BY <1>3 DEF ResumePoint

\* A resumption point identifies a suspension: two acts share one exactly
\* when they are alternatives of the same "actions" statement.
THEOREM ResumePointIdentifiesSuspension ==
  \A a, b \in Acts : ResumePoint(a) = ResumePoint(b) <=> Leader(a) = Leader(b)
  <1>1. ASSUME NEW a \in Acts, NEW b \in Acts, Leader(a) < Leader(b)
        PROVE  ResumePoint(a) # ResumePoint(b)
    <2> DEFINE S == {c \in Acts : Leader(c) = c /\ c <= Leader(a)}
               T == {c \in Acts : Leader(c) = c /\ c <= Leader(b)}
    <2>1. IsFiniteSet(T)
      BY ActsFinite, FS_Subset
    <2>2. Leader(a) \in Nat /\ Leader(b) \in Nat
      BY ActsFinite, LeaderType
    <2>3. S \subseteq T /\ Leader(b) \in T /\ Leader(b) \notin S
      <3>1. \A c \in Acts : c \in Int
        BY ActsFinite
      <3>2. ASSUME NEW c \in S PROVE c \in T
        BY <1>1, <2>2, <3>1, <3>2
      <3>3. Leader(b) \in Acts /\ Leader(Leader(b)) = Leader(b)
        BY LeaderType
      <3> QED
        BY <1>1, <2>2, <3>2, <3>3
    <2>4. Cardinality(S) < Cardinality(T) /\ Cardinality(S) \in Nat /\ Cardinality(T) \in Nat
      BY <2>1, <2>3, LargerSubset
    <2> QED
      BY <2>4 DEF ResumePoint
  <1>2. \A a \in Acts : Leader(a) \in Nat
    BY ActsFinite, LeaderType
  <1>3. \A a, b \in Acts : Leader(a) = Leader(b) => ResumePoint(a) = ResumePoint(b)
    BY DEF ResumePoint
  <1> QED
    BY <1>1, <1>2, <1>3

-----------------------------------------------------------------------------
(* Types.                                                                  *)

LEMMA SuccessorsType ==
  ASSUME NEW id PROVE Successors(id) \subseteq Points
  BY ActNext, FirstPoint DEF Successors, SurvivingActs

LEMMA ReceiveType ==
  ASSUME NEW a \in Acts, NEW frm \in FrmValues, NEW v \in Values
  PROVE  Receive(a, frm, v) \in FrmValues
  BY DEF Receive, FrmValues

LEMMA StoredIndexType ==
  ASSUME TypeOK, self \in Handles, NEW p \in Points
  PROVE  StoredIndex(p) \in Int
  <1>1. ResumeIndex(self) \in Int
    BY DEF TypeOK, Frames, ResumeIndex
  <1> QED
    BY <1>1, ResumePointType DEF StoredIndex

\* Entering the implementation of h keeps the types.
LEMMA EnterType ==
  ASSUME TypeOK, NEW h \in Handles, h \in constructed', constructed' \subseteq Handles,
         NEW id \in Int, NEW specialised, NEW frm \in FrmValues, NEW args,
         Enter(h, id, specialised, frm, args), UNCHANGED <<aborted, checked>>
  PROVE  TypeOK'
  <1>1. frames' \in [Handles -> Frames]
    BY DEF TypeOK, Enter, Frames
  <1>2. pc' \in Points
    BY SuccessorsType DEF Enter
  <1>3. pc' # 0 /\ self' # NoHandle
    BY <1>2, HostAssumption DEF Enter, Points
  <1>4. self' \in constructed' /\ bound' \subseteq Local
    BY DEF Enter
  <1> QED
    BY <1>1, <1>2, <1>3, <1>4 DEF TypeOK

\* Type correctness of the compiled class.
THEOREM TypeCorrect == Spec => []TypeOK
  <1>1. Init => TypeOK
    <2> SUFFICES ASSUME Init PROVE TypeOK
      OBVIOUS
    <2>1. [resume_index |-> 0, vars |-> InitFrm] \in Frames
      BY StorageAssumption DEF Frames
    <2>2. frames \in [Handles -> Frames]
      BY <2>1 DEF Init
    <2> QED
      BY <2>2 DEF Init, TypeOK
  <1>2. TypeOK /\ [Next]_vars => TypeOK'
    <2> SUFFICES ASSUME TypeOK, [Next]_vars PROVE TypeOK'
      OBVIOUS
    <2>1. ASSUME NEW h \in Handles, Construct(h) PROVE TypeOK'
      <3>1. PICK frm \in InitialFrm : Abort(EntryAdmits(frm)) \/ ConstructFrom(h, frm)
        BY <2>1 DEF Construct
      <3>2. CASE Abort(EntryAdmits(frm))
        BY <3>2 DEF Abort, TypeOK
      <3>3. CASE ConstructFrom(h, frm)
        <4>1. frm \in FrmValues /\ h \in constructed' /\ constructed' \subseteq Handles
          BY <3>3 DEF ConstructFrom, InitialFrm, TypeOK
        <4>2. Enter(h, 0, TRUE, frm, EntryArgs) /\ UNCHANGED <<aborted, checked>>
          BY <3>3 DEF ConstructFrom
        <4>3. 0 \in Int
          OBVIOUS
        <4> QED
          BY <4>1, <4>2, <4>3, EnterType
      <3> QED
        BY <3>1, <3>2, <3>3
    <2>2. ASSUME NEW h \in Handles, NEW n \in Names, NEW v \in Values, Call(h, n, v)
          PROVE  TypeOK'
      <3>1. CASE Abort(CanCall(h, n, v))
        BY <3>1 DEF Abort, TypeOK
      <3>2. CASE CallIgnored(h, n)
        BY <3>2 DEF CallIgnored, TypeOK, vars
      <3>3. CASE CallDispatched(h, n, v)
        <4>1. PICK a \in First(Matching(h, n)) :
                Enter(h, Id(a), a \notin Synthetic,
                      Receive(a, frames[h].vars, v), HiddenFrame(a))
          BY <3>3 DEF CallDispatched
        <4>2. a \in Acts
          BY DEF First, Matching, Named
        <4>3. Id(a) \in Int
          BY <4>2, IdType
        <4>4. frames[h].vars \in FrmValues
          BY DEF TypeOK, Frames
        <4>5. Receive(a, frames[h].vars, v) \in FrmValues
          BY <4>2, <4>4, ReceiveType
        <4>6. h \in constructed' /\ constructed' \subseteq Handles /\ UNCHANGED <<aborted, checked>>
          BY <2>2, <3>3 DEF Call, CallDispatched, TypeOK
        <4> QED
          BY <4>1, <4>3, <4>5, <4>6, EnterType
      <3> QED
        BY <2>2, <3>1, <3>2, <3>3 DEF Call
    <2>3. ASSUME NEW h \in Handles, NEW k \in Handles, Copy(h, k) PROVE TypeOK'
      BY <2>3, HostAssumption DEF Copy, HostTurn, TypeOK
    <2>4. CASE Yield
      <3>1. pc \in Points /\ self \in Handles
        BY <2>4, OfType DEF Yield, Acts, TypeOK, Points
      <3>2. frames' \in [Handles -> Frames]
        BY <2>4, <3>1, StoredIndexType DEF Yield, TypeOK, Frames
      <3> QED
        BY <2>4, <3>2 DEF Yield, TypeOK
    <2>5. CASE FallIntoAlternatives
      <3>1. pc \in Points /\ Len(Code[pc].succ) >= 1
        BY <2>5, OfType, ShapeAssumption DEF FallIntoAlternatives
      <3>2. pc' \in Points /\ pc' # 0 /\ pc # 0
        BY <2>5, <3>1, NextType DEF FallIntoAlternatives, Points
      <3> QED
        BY <2>5, <3>2 DEF FallIntoAlternatives, TypeOK
    <2>6. CASE Plain
      <3>1. pc \in Points /\ pc # 0 /\ self \in Handles /\ self # NoHandle
        BY <2>6, OfType DEF Plain, TypeOK, Points
      <3>2. frames[self] \in Frames
        BY <3>1 DEF TypeOK
      <3>3. PICK e \in Exec(pc, frames[self].vars) :
              /\ pc' = e.next
              /\ frames' = [frames EXCEPT ![self].vars = e.vars]
        BY <2>6 DEF Plain
      <3>4. e \in [next : SuccOf(pc), vars : FrmValues]
        BY <2>6, <3>2, <3>3, ExecAssumption DEF Plain, Frames
      <3>5. frames' \in [Handles -> Frames]
        BY <3>1, <3>3, <3>4 DEF TypeOK, Frames
      <3>6. pc' \in Points /\ pc' # 0
        BY <3>1, <3>3, <3>4, ShapeAssumption DEF Points
      <3>7. bound' \subseteq Local
        BY <2>6, <3>1, CodeType DEF Plain, TypeOK, Instructions
      <3> QED
        BY <2>6, <3>1, <3>5, <3>6, <3>7 DEF Plain, TypeOK
    <2>7. CASE UNCHANGED vars
      BY <2>7 DEF vars, TypeOK
    <2> QED
      BY <2>1, <2>2, <2>3, <2>4, <2>5, <2>6, <2>7 DEF Next, Body
  <1> QED
    BY <1>1, <1>2, PTL DEF Spec

-----------------------------------------------------------------------------
(* Storage: what ValidateStorageQualifiersPass buys.                       *)

\* Live variables flow backwards along the graph (the least set closed under
\* that rule is closed under it).
LEMMA LiveFlow ==
  ASSUME NEW v \in Local, NEW p \in Points, v \notin Code[p].defines,
         v \in Code[p].uses \/ SuccOf(p) \cap LiveBefore[v] # {}
  PROVE  p \in LiveBefore[v]
  <1>1. LiveBefore[v] = {q \in Points : \A S \in LiveClosed(v, Succ) : q \in S}
    BY DEF LiveBefore, LivePoints
  <1>2. ASSUME NEW S \in LiveClosed(v, Succ) PROVE p \in S
    <2>1. v \in Code[p].uses \/ Succ[p] \cap S # {}
      BY <1>1 DEF Succ
    <2> QED
      BY <2>1 DEF LiveClosed
  <1> QED
    BY <1>1, <1>2

\* Where the analysis goes where control goes, it misses nothing: a function
\* without break and continue is sound.
THEOREM StraightFlowIsSound ==
  ASSUME \A p \in Points : FlowOf(p) = SuccOf(p)
  PROVE  FlowSound
  <1>1. Succ = Flow
    BY DEF Succ, Flow
  <1> QED
    BY <1>1 DEF FlowSound, LiveBefore, SeenLive, LivePoints, LiveClosed

\* Whatever is live where the implementation stands was set since the last
\* suspension: the strengthening that makes NoUnboundRead inductive.
LiveIsBound == pc # 0 => \A v \in Local : pc \in LiveBefore[v] => v \in bound

\* What is live after an act is its own argument or a ctx variable, because
\* anything else would be live across the suspension.
LEMMA LiveAfterAct ==
  ASSUME FlowSound, NEW a \in Acts, NEW v \in Local, Next1(a) \in LiveBefore[v]
  PROVE  v \in HiddenFrame(a)
  <1>1. a \in Points /\ Next1(a) \in SuccOf(a)
    BY ActNext, OfType DEF Acts
  <1>2. SUFFICES ASSUME v # Code[a].arg, v \notin Ctx PROVE FALSE
    BY DEF HiddenFrame
  <1>3. v \notin Code[a].defines
    BY <1>2, ScopeAssumption
  <1>4. a \in LiveBefore[v]
    BY <1>1, <1>3, LiveFlow
  <1>5. a \in SeenLive[v]
    BY <1>4 DEF FlowSound
  <1> QED
    BY <1>2, <1>5, AcceptedAssumption DEF Accepted, UsedAcrossActions

LEMMA LiveIsBoundInvariant ==
  ASSUME FlowSound
  PROVE  Spec => []LiveIsBound
  <1>1. Init => LiveIsBound
    BY DEF Init, LiveIsBound
  <1>2. TypeOK /\ LiveIsBound /\ [Next]_vars => LiveIsBound'
    <2> SUFFICES ASSUME TypeOK, LiveIsBound, [Next]_vars, pc' # 0,
                        NEW v \in Local, pc' \in LiveBefore[v]
                 PROVE  v \in bound'
      BY DEF LiveIsBound
    <2>1. ASSUME NEW h \in Handles, Construct(h) PROVE v \in bound'
      <3>1. CASE UNCHANGED <<pc, bound>>
        BY <3>1 DEF LiveIsBound
      <3>2. CASE pc' = 1 /\ bound' = EntryArgs \cap Local
        BY <3>2, ScopeAssumption
      <3> QED
        BY <2>1, <3>1, <3>2 DEF Construct, Abort, ConstructFrom, Enter, Successors
    <2>2. ASSUME NEW h \in Handles, NEW n \in Names, NEW w \in Values, Call(h, n, w)
          PROVE  v \in bound'
      <3>1. CASE Abort(CanCall(h, n, w)) \/ CallIgnored(h, n)
        BY <3>1 DEF Abort, CallIgnored, vars, LiveIsBound
      <3>2. CASE CallDispatched(h, n, w)
        <4>1. PICK a \in First(Matching(h, n)) :
                Enter(h, Id(a), a \notin Synthetic,
                      Receive(a, frames[h].vars, w), HiddenFrame(a))
          BY <3>2 DEF CallDispatched
        <4>2. a \in Acts
          BY DEF First, Matching, Named
        <4>3. pc' \in Successors(Id(a)) /\ bound' = HiddenFrame(a) \cap Local
          <5>1. frames'[h].resume_index = Id(a)
            BY <4>1 DEF Enter, TypeOK
          <5> QED
            BY <4>1, <5>1 DEF Enter
        <4>4. PICK b \in SurvivingActs : Id(b) = Id(a) /\ pc' = Next1(b)
          BY <4>2, <4>3, IdType DEF Successors
        <4>5. b = a
          BY <4>2, <4>4, IdInjective DEF SurvivingActs
        <4> QED
          BY <4>2, <4>3, <4>4, <4>5, LiveAfterAct
      <3> QED
        BY <2>2, <3>1, <3>2 DEF Call
    <2>3. ASSUME NEW h \in Handles, NEW k \in Handles, Copy(h, k) PROVE v \in bound'
      BY <2>3 DEF Copy, LiveIsBound
    <2>4. CASE Yield
      BY <2>4 DEF Yield
    <2>5. CASE FallIntoAlternatives
      <3>1. pc \in Points /\ pc' \in SuccOf(pc) /\ pc # 0
        BY <2>5, OfType, ShapeAssumption, NextType DEF FallIntoAlternatives, Points
      <3>2. v \notin Code[pc].defines
        BY <2>5, ScopeAssumption DEF FallIntoAlternatives
      <3> QED
        BY <2>5, <3>1, <3>2, LiveFlow DEF FallIntoAlternatives, LiveIsBound
    <2>6. CASE Plain
      <3>1. pc \in Points /\ pc # 0 /\ self \in Handles /\ bound' = bound \cup Code[pc].defines
        BY <2>6, OfType DEF Plain, TypeOK, Points
      <3>2. frames[self].vars \in FrmValues
        BY <3>1 DEF TypeOK, Frames
      <3>3. pc' \in SuccOf(pc)
        BY <2>6, <3>2, ExecAssumption DEF Plain
      <3>4. CASE v \in Code[pc].defines
        BY <3>1, <3>4
      <3>5. CASE v \notin Code[pc].defines
        BY <3>1, <3>3, <3>5, LiveFlow DEF LiveIsBound
      <3> QED
        BY <3>4, <3>5
    <2>7. CASE UNCHANGED vars
      BY <2>7 DEF vars, LiveIsBound
    <2> QED
      BY <2>1, <2>2, <2>3, <2>4, <2>5, <2>6, <2>7 DEF Next, Body
  <1> QED
    BY <1>1, <1>2, TypeCorrect, PTL DEF Spec

\* In an accepted program no activation reads a local it did not set, unless
\* a break or a continue hides a use from the storage analysis.
THEOREM NoUnboundReadTheorem ==
  ASSUME FlowSound
  PROVE  Spec => []NoUnboundRead
  <1>1. TypeOK /\ LiveIsBound => NoUnboundRead
    <2> SUFFICES ASSUME TypeOK, LiveIsBound, pc # 0, NEW v \in Code[pc].uses
                 PROVE  v \in bound
      BY DEF NoUnboundRead
    <2>1. pc \in Points /\ v \in Local
      BY CodeType DEF TypeOK, Instructions
    <2>2. v \notin Code[pc].defines
      BY <2>1, ScopeAssumption
    <2> QED
      BY <2>1, <2>2, LiveFlow DEF LiveIsBound
  <1> QED
    BY <1>1, TypeCorrect, LiveIsBoundInvariant, PTL

-----------------------------------------------------------------------------
(* The resume index.                                                       *)

\* What survives pruning is closed under the edges of the graph.
LEMMA ReachableClosed ==
  /\ 1 \in Reachable
  /\ \A p \in Reachable : SuccOf(p) \subseteq Reachable
  <1>1. 1 \in Reachable
    BY FirstPoint DEF Reachable
  <1>2. ASSUME NEW p \in Reachable, NEW q \in SuccOf(p) PROVE q \in Reachable
    <2>1. p \in Points /\ q \in Points
      BY ShapeAssumption DEF Reachable
    <2>2. ASSUME NEW S \in SuccClosed, 1 \in S PROVE q \in S
      BY <2>2 DEF Reachable, SuccClosed
    <2> QED
      BY <2>1, <2>2 DEF Reachable
  <1> QED
    BY <1>1, <1>2

LEMMA SuccessorsReachable == \A id : Successors(id) \subseteq Reachable
  <1> SUFFICES ASSUME NEW id, NEW p \in Successors(id) PROVE p \in Reachable
    OBVIOUS
  <1>1. CASE id = 0
    BY <1>1, ReachableClosed DEF Successors
  <1>2. CASE id # 0
    <2>1. PICK a \in SurvivingActs : p = Next1(a)
      BY <1>2 DEF Successors
    <2>2. a \in Acts /\ a \in Reachable /\ Next1(a) \in SuccOf(a)
      BY <2>1, ActNext DEF SurvivingActs
    <2> QED
      BY <2>1, <2>2, ReachableClosed
  <1> QED
    BY <1>1, <1>2

\* No activation comes to a statement that was pruned.
RunsReachable == pc # 0 => pc \in Reachable

LEMMA RunsReachableInvariant == Spec => []RunsReachable
  <1>1. Init => RunsReachable
    BY DEF Init, RunsReachable
  <1>2. TypeOK /\ RunsReachable /\ [Next]_vars => RunsReachable'
    <2> SUFFICES ASSUME TypeOK, RunsReachable, [Next]_vars
                 PROVE  RunsReachable'
      OBVIOUS
    <2>1. ASSUME NEW h \in Handles, Construct(h) PROVE RunsReachable'
      BY <2>1, SuccessorsReachable
      DEF Construct, Abort, ConstructFrom, Enter, RunsReachable
    <2>2. ASSUME NEW h \in Handles, NEW n \in Names, NEW v \in Values, Call(h, n, v)
          PROVE  RunsReachable'
      BY <2>2, SuccessorsReachable
      DEF Call, Abort, CallIgnored, CallDispatched, Enter, vars, RunsReachable
    <2>3. ASSUME NEW h \in Handles, NEW k \in Handles, Copy(h, k) PROVE RunsReachable'
      BY <2>3 DEF Copy, RunsReachable
    <2>4. CASE Yield
      BY <2>4 DEF Yield, RunsReachable
    <2>5. CASE FallIntoAlternatives
      <3>1. pc' \in SuccOf(pc) /\ pc # 0
        BY <2>5, OfType, ShapeAssumption, NextType DEF FallIntoAlternatives, Points
      <3> QED
        BY <3>1, ReachableClosed DEF RunsReachable
    <2>6. CASE Plain
      <3>1. pc # 0 /\ frames[self].vars \in FrmValues
        BY <2>6, OfType DEF Plain, TypeOK, Points, Frames
      <3>2. pc' \in SuccOf(pc)
        BY <2>6, <3>1, ExecAssumption DEF Plain
      <3> QED
        BY <3>1, <3>2, ReachableClosed DEF RunsReachable
    <2>7. CASE UNCHANGED vars
      BY <2>7 DEF vars, RunsReachable
    <2> QED
      BY <2>1, <2>2, <2>3, <2>4, <2>5, <2>6, <2>7 DEF Next, Body
  <1> QED
    BY <1>1, <1>2, TypeCorrect, PTL DEF Spec

\* Every object at rest holds -1 or the resumption point of an act that is
\* left; only the object whose implementation runs holds an action identifier.
RestIndex == {-1} \cup {ResumePoint(a) : a \in SurvivingActs}
RestingIndices == \A h \in constructed : h # self => ResumeIndex(h) \in RestIndex

LEMMA RestingIndicesInvariant ==
  ASSUME Lowered PROVE Spec => []RestingIndices
  <1>1. Init => RestingIndices
    BY DEF Init, RestingIndices
  <1>2. TypeOK /\ RunsReachable /\ RestingIndices /\ [Next]_vars => RestingIndices'
    <2> SUFFICES ASSUME TypeOK, RunsReachable, RestingIndices, [Next]_vars,
                        NEW k \in constructed', k # self'
                 PROVE  frames'[k].resume_index \in RestIndex
      BY DEF RestingIndices, ResumeIndex, RestIndex
    <2> USE DEF ResumeIndex
    <2>1. ASSUME NEW h \in Handles, Construct(h)
          PROVE  frames'[k].resume_index \in RestIndex
      <3>1. CASE UNCHANGED <<constructed, frames, self>>
        BY <3>1 DEF RestingIndices
      <3>2. CASE \E frm \in InitialFrm : ConstructFrom(h, frm)
        <4>1. k # h /\ k \in constructed /\ self = NoHandle /\ k \in Handles
          BY <2>1, <3>2 DEF Construct, ConstructFrom, Enter, HostTurn, TypeOK
        <4>2. frames'[k] = frames[k] /\ k # self
          BY <3>2, <4>1, HostAssumption DEF ConstructFrom, Enter, TypeOK
        <4> QED
          BY <4>1, <4>2 DEF RestingIndices
      <3> QED
        BY <2>1, <3>1, <3>2 DEF Construct, Abort
    <2>2. ASSUME NEW h \in Handles, NEW n \in Names, NEW v \in Values, Call(h, n, v)
          PROVE  frames'[k].resume_index \in RestIndex
      <3>1. CASE Abort(CanCall(h, n, v)) \/ CallIgnored(h, n)
        BY <3>1 DEF Abort, CallIgnored, vars, RestingIndices
      <3>2. CASE CallDispatched(h, n, v)
        <4>1. k # h /\ k \in constructed /\ self = NoHandle /\ k \in Handles
          BY <2>2, <3>2 DEF Call, CallDispatched, Enter, HostTurn, TypeOK
        <4>2. frames'[k] = frames[k] /\ k # self
          BY <3>2, <4>1, HostAssumption DEF CallDispatched, Enter, TypeOK
        <4> QED
          BY <4>1, <4>2 DEF RestingIndices
      <3> QED
        BY <2>2, <3>1, <3>2 DEF Call
    <2>3. ASSUME NEW h \in Handles, NEW c \in Handles, Copy(h, c)
          PROVE  frames'[k].resume_index \in RestIndex
      <3>1. self = NoHandle /\ h \in constructed /\ h # self /\ k # self
        BY <2>3, HostAssumption DEF Copy, HostTurn
      <3>2. frames' = [frames EXCEPT ![c] = frames[h]] /\ constructed' = constructed \cup {c}
        BY <2>3 DEF Copy
      <3>3. CASE k = c
        BY <3>1, <3>2, <3>3 DEF RestingIndices, TypeOK
      <3>4. CASE k # c
        BY <3>1, <3>2, <3>4 DEF RestingIndices, TypeOK
      <3> QED
        BY <3>3, <3>4
    <2>4. CASE Yield
      <3>1. self \in Handles /\ k \in constructed /\ k \in Handles
        BY <2>4, OfType DEF Yield, Acts, TypeOK, Points
      <3>2. frames' = [frames EXCEPT ![self].resume_index = StoredIndex(pc)]
        BY <2>4 DEF Yield
      <3>3. CASE k = self
        <4>1. frames'[k].resume_index = StoredIndex(pc)
          BY <3>1, <3>2, <3>3 DEF TypeOK, Frames
        <4>2. pc \in Acts => pc \in SurvivingActs
          BY <2>4, OfType DEF RunsReachable, SurvivingActs, Yield, Acts, Points
        <4> QED
          BY <4>1, <4>2 DEF StoredIndex, RestIndex
      <3>4. CASE k # self
        BY <3>1, <3>2, <3>4 DEF RestingIndices, TypeOK
      <3> QED
        BY <3>3, <3>4
    <2>5. CASE FallIntoAlternatives
      BY <2>5 DEF FallIntoAlternatives, RestingIndices
    <2>6. CASE Plain
      <3>1. k # self /\ k \in constructed /\ k \in Handles
        BY <2>6 DEF Plain, TypeOK
      <3>2. frames'[k] = frames[k]
        BY <2>6, <3>1 DEF Plain, TypeOK
      <3> QED
        BY <3>1, <3>2 DEF RestingIndices
    <2>7. CASE UNCHANGED vars
      BY <2>7 DEF vars, RestingIndices
    <2> QED
      BY <2>1, <2>2, <2>3, <2>4, <2>5, <2>6, <2>7 DEF Next, Body
  <1> QED
    BY <1>1, <1>2, TypeCorrect, RunsReachableInvariant, PTL DEF Spec

\* Between calls resume_index is -1 or the resumption point of an act that is
\* left, if there is one, without which the body is not lowered at all.
THEOREM IndexIsResumptionPointTheorem ==
  ASSUME Lowered PROVE Spec => []IndexIsResumptionPoint
  <1>1. TypeOK /\ RestingIndices => IndexIsResumptionPoint
    BY HostAssumption DEF TypeOK, RestingIndices, RestIndex, IndexIsResumptionPoint
  <1> QED
    BY <1>1, TypeCorrect, RestingIndicesInvariant, PTL

\* A finished action stays finished: -1 is no act's resumption point, so no
\* branch of any wrapper is taken.
THEOREM DoneIsFinalTheorem == Spec => DoneIsFinal
  <1>1. ASSUME NEW h \in constructed, NEW n \in Names, NEW v \in Values,
               IsDone(h), Call(h, n, v)
        PROVE  UNCHANGED frames
    <2>1. Matching(h, n) = {}
      <3>1. \A a \in Acts : ResumePoint(a) # ResumeIndex(h)
        BY <1>1, ResumePointType DEF IsDone
      <3> QED
        BY <3>1 DEF Matching, Named
    <2>2. ~ CallDispatched(h, n, v)
      BY <2>1 DEF CallDispatched, First
    <2> QED
      BY <1>1, <2>2 DEF Call, Abort, CallIgnored, vars
  <1>2. [Next]_vars =>
          [\A h \in constructed, n \in Names, v \in Values :
             IsDone(h) /\ Call(h, n, v) => UNCHANGED frames]_vars
    BY <1>1
  <1> QED
    BY <1>2, PTL DEF Spec, DoneIsFinal


-----------------------------------------------------------------------------
(* What the dispatch does when the wrapper's chain is unambiguous.         *)

\* No two alternatives of one "actions" statement wait for the same action.
DistinctAlternatives ==
  \A a, b \in Acts : Leader(a) = Leader(b) /\ Code[a].name = Code[b].name => a = b

LEMMA MatchingUnique ==
  ASSUME DistinctAlternatives, NEW h, NEW n,
         NEW a \in Matching(h, n), NEW b \in Matching(h, n)
  PROVE  a = b
  <1>1. a \in Acts /\ b \in Acts /\ ResumePoint(a) = ResumePoint(b)
    BY DEF Matching, Named
  <1>2. Code[a].name = Code[b].name
    BY DEF Matching, Named
  <1>3. Leader(a) = Leader(b)
    BY <1>1, ResumePointIdentifiesSuspension
  <1> QED
    BY <1>1, <1>2, <1>3 DEF DistinctAlternatives

\* A dispatched call enters the implementation behind the act it matched.
LEMMA DispatchEntersAct ==
  ASSUME TypeOK, NEW h \in Handles, NEW n, NEW v, CallDispatched(h, n, v)
  PROVE  \E a \in Matching(h, n) :
            /\ a \in First(Matching(h, n))
            /\ pc' = Next1(a)
            /\ self' = h
            /\ frames' = [frames EXCEPT ![h] =
                 [resume_index |-> Id(a), vars |-> Receive(a, frames[h].vars, v)]]
            /\ UNCHANGED <<constructed, aborted, checked>>
  <1>1. PICK a \in First(Matching(h, n)) :
          Enter(h, Id(a), a \notin Synthetic,
                Receive(a, frames[h].vars, v), HiddenFrame(a))
    BY DEF CallDispatched
  <1>2. a \in Acts /\ a \in Matching(h, n)
    BY DEF First, Matching, Named
  <1>3. frames'[h].resume_index = Id(a)
    BY <1>1 DEF Enter, TypeOK
  <1>4. pc' \in Successors(Id(a))
    BY <1>1, <1>3 DEF Enter
  <1>5. PICK b \in SurvivingActs : Id(b) = Id(a) /\ pc' = Next1(b)
    BY <1>2, <1>4, IdType DEF Successors
  <1>6. b = a
    BY <1>2, <1>5, IdInjective DEF SurvivingActs
  <1> QED
    BY <1>1, <1>2, <1>5, <1>6 DEF Enter, CallDispatched

\* When the alternatives of every "actions" statement have distinct names,
\* the statement that runs is one whose own precondition admitted the call.
THEOREM AdmittedActRunsTheorem ==
  ASSUME DistinctAlternatives PROVE Spec => AdmittedActRuns
  <1>1. ASSUME TypeOK, NEW h \in constructed, NEW n \in Names, NEW v \in Values,
               Call(h, n, v), CanCall(h, n, v)
        PROVE  \E a \in Matching(h, n) :
                 Admits(a, frames[h].vars, v) /\ pc' = Next1(a)
    <2>1. PICK b \in Matching(h, n) : Admits(b, frames[h].vars, v)
      BY <1>1 DEF CanCall, Matching
    <2>2. CallDispatched(h, n, v)
      BY <1>1, <2>1 DEF Call, Abort, CallIgnored
    <2>3. PICK a \in Matching(h, n) : pc' = Next1(a)
      BY <1>1, <2>2, DispatchEntersAct DEF TypeOK
    <2>4. a = b
      BY <2>1, <2>3, MatchingUnique
    <2> QED
      BY <2>1, <2>3, <2>4
  <1>2. TypeOK /\ [Next]_vars =>
          [\A h \in constructed, n \in Names, v \in Values :
             Call(h, n, v) /\ CanCall(h, n, v) =>
               \E a \in Matching(h, n) :
                 Admits(a, frames[h].vars, v) /\ pc' = Next1(a)]_vars
    BY <1>1
  <1> QED
    BY <1>2, TypeCorrect, PTL DEF Spec, AdmittedActRuns

\* What the running object's index may be: 0 for a construction, the
\* identifier of an act for a call.
EnteredIndex == self # NoHandle => ResumeIndex(self) \in {0} \cup {Id(a) : a \in Acts}

LEMMA EnteredIndexInvariant == Spec => []EnteredIndex
  <1>1. Init => EnteredIndex
    BY DEF Init, EnteredIndex
  <1>2. TypeOK /\ EnteredIndex /\ [Next]_vars => EnteredIndex'
    <2> SUFFICES ASSUME TypeOK, EnteredIndex, [Next]_vars, self' # NoHandle
                 PROVE  frames'[self'].resume_index \in {0} \cup {Id(a) : a \in Acts}
      BY DEF EnteredIndex, ResumeIndex
    <2> USE DEF ResumeIndex
    <2>1. ASSUME NEW h \in Handles, Construct(h)
          PROVE  frames'[self'].resume_index \in {0} \cup {Id(a) : a \in Acts}
      <3>1. CASE UNCHANGED <<frames, self>>
        BY <3>1 DEF EnteredIndex
      <3>2. CASE \E frm \in InitialFrm : ConstructFrom(h, frm)
        BY <3>2 DEF ConstructFrom, Enter, TypeOK
      <3> QED
        BY <2>1, <3>1, <3>2 DEF Construct, Abort
    <2>2. ASSUME NEW h \in Handles, NEW n \in Names, NEW v \in Values, Call(h, n, v)
          PROVE  frames'[self'].resume_index \in {0} \cup {Id(a) : a \in Acts}
      <3>1. CASE Abort(CanCall(h, n, v)) \/ CallIgnored(h, n)
        BY <3>1 DEF Abort, CallIgnored, vars, EnteredIndex
      <3>2. CASE CallDispatched(h, n, v)
        <4>1. PICK a \in Matching(h, n) :
                /\ self' = h
                /\ frames' = [frames EXCEPT ![h] =
                     [resume_index |-> Id(a), vars |-> Receive(a, frames[h].vars, v)]]
          BY <3>2, DispatchEntersAct
        <4>2. frames'[self'].resume_index = Id(a) /\ a \in Acts
          BY <4>1 DEF TypeOK, Matching, Named
        <4> QED
          BY <4>2
      <3> QED
        BY <2>2, <3>1, <3>2 DEF Call
    <2>3. ASSUME NEW h \in Handles, NEW k \in Handles, Copy(h, k) PROVE FALSE
      BY <2>3 DEF Copy, HostTurn
    <2>4. CASE Yield
      BY <2>4 DEF Yield
    <2>5. CASE FallIntoAlternatives
      BY <2>5 DEF FallIntoAlternatives, EnteredIndex
    <2>6. CASE Plain
      <3>1. self \in Handles /\ self' = self
        BY <2>6 DEF Plain, TypeOK
      <3>2. frames'[self].resume_index = frames[self].resume_index
        BY <2>6, <3>1 DEF Plain, TypeOK, Frames
      <3> QED
        BY <3>1, <3>2 DEF EnteredIndex
    <2>7. CASE UNCHANGED vars
      BY <2>7 DEF vars, EnteredIndex
    <2> QED
      BY <2>1, <2>2, <2>3, <2>4, <2>5, <2>6, <2>7 DEF Next, Body
  <1> QED
    BY <1>1, <1>2, TypeCorrect, PTL DEF Spec

\* When no act was pruned, the switch has a successor for every identifier
\* the implementation is entered with.
THEOREM SwitchInRangeTheorem ==
  ASSUME Acts \subseteq Reachable PROVE Spec => []SwitchInRange
  <1>1. SurvivingActs = Acts
    BY DEF SurvivingActs
  <1>2. Cardinality(Acts) \in Nat
    BY ActsFinite, FS_CardinalityType
  <1>3. ASSUME NEW a \in Acts PROVE Id(a) <= Cardinality(Acts)
    <2>1. Cardinality({b \in Acts : b <= a}) <= Cardinality(Acts)
      BY ActsFinite, FS_Subset
    <2> QED
      BY <2>1 DEF Id
  <1>4. ASSUME NEW a \in Acts PROVE Id(a) \in 0 .. NumSuccessors - 1
    BY <1>1, <1>2, <1>3, IdType DEF NumSuccessors
  <1>5. 0 \in 0 .. NumSuccessors - 1
    BY <1>1, <1>2 DEF NumSuccessors
  <1>6. EnteredIndex => SwitchInRange
    BY <1>4, <1>5 DEF EnteredIndex, SwitchInRange
  <1> QED
    BY <1>6, EnteredIndexInvariant, PTL

-----------------------------------------------------------------------------
(* The compiled class implements the source-level action function, for     *)
(* every program whose "actions" statements have distinct alternatives:    *)
(* initial states map to initial states and every step maps to a step of   *)
(* ActionFunction or to a stutter. Fairness is left to TLC.                *)

\* Both levels run the same program.
LEMMA SameProgram ==
  /\ Source!Acts = Acts
  /\ Source!FrmValues = FrmValues
  /\ \A kind : Source!Of(kind) = Of(kind)
  /\ \A n : Source!Named(n) = Named(n)
  /\ \A p : Source!SuccOf(p) = SuccOf(p) /\ Source!Next1(p) = Next1(p)
  /\ Source!InitialFrm = InitialFrm
  /\ \A a, frm, v : Source!Receive(a, frm, v) = Receive(a, frm, v)
  <1>1. \A kind : Source!Of(kind) = Of(kind)
    BY DEF Source!Of, Of, Source!Points, Points
  <1>2. Source!Acts = Acts
    BY <1>1 DEF Source!Acts, Acts
  <1>3. Source!FrmValues = FrmValues
    BY DEF Source!FrmValues, FrmValues
  <1> QED
    BY <1>1, <1>2, <1>3 DEF Source!Named, Named, Source!SuccOf, SuccOf, Source!Next1, Next1,
       Source!InitialFrm, InitialFrm, Source!Receive, Receive

\* The acts an object waits for, for an object that rests at act a.
LEMMA WaitingAt ==
  ASSUME NEW a \in Acts
  PROVE  {b \in Acts : ResumePoint(b) = ResumePoint(a)} =
           IF Code[a].group = 0 THEN {a} ELSE SuccOf(Code[a].group)
  <1>1. {b \in Acts : ResumePoint(b) = ResumePoint(a)} =
          {b \in Acts : Leader(b) = Leader(a)}
    BY ResumePointIdentifiesSuspension
  <1>2. ASSUME NEW b \in Acts, Code[b].group # 0
        PROVE  /\ Code[b].group \in Points
               /\ Leader(b) \in Acts
               /\ Code[Leader(b)].group = Code[b].group
               /\ SuccOf(Code[b].group) = {c \in Acts : Code[c].group = Code[b].group}
    <2> DEFINE g == Code[b].group
    <2>1. b \in Points /\ g \in Of("actions") /\ g \in Points
      BY <1>2, ShapeAssumption, OfType DEF Acts
    <2>2. Len(Code[g].succ) >= 1 /\ SuccOf(g) = {c \in Acts : Code[c].group = g}
      BY <2>1, ShapeAssumption
    <2>3. Next1(g) \in SuccOf(g)
      BY <2>1, <2>2, NextType
    <2> QED
      BY <1>2, <2>1, <2>2, <2>3 DEF Leader
  <1>3. \A b \in Acts : Code[b].group = 0 => Leader(b) = b
    BY DEF Leader
  <1>4. CASE Code[a].group = 0
    BY <1>1, <1>2, <1>3, <1>4
  <1>5. CASE Code[a].group # 0
    <2>1. ASSUME NEW b \in Acts, Leader(b) = Leader(a) PROVE Code[b].group = Code[a].group
      BY <1>2, <1>3, <1>5, <2>1
    <2>2. ASSUME NEW b \in Acts, Code[b].group = Code[a].group PROVE Leader(b) = Leader(a)
      BY <1>5, <2>2 DEF Leader
    <2> QED
      BY <1>1, <1>2, <1>5, <2>1, <2>2
  <1> QED
    BY <1>4, <1>5

\* Control never enters an alternative except through its "actions".
LEMMA PointAfter ==
  ASSUME NEW p \in Points \ Of("actions"), NEW q \in SuccOf(p)
  PROVE  q \in Points /\ ~ (q \in Acts /\ Code[q].group # 0)
  BY ShapeAssumption

LEMMA KindsDisjoint ==
  /\ Acts \cap Of("actions") = {}
  /\ Acts \cap Of("plain") = {}
  /\ Acts \cap Of("end") = {}
  /\ Of("actions") \cap Of("plain") = {}
  BY DEF Acts, Of

\* An object that rests has the acts of its resumption point on offer.
LEMMA WaitingIsMatching ==
  ASSUME TypeOK, HostTurn, NEW h \in constructed, NEW n
  PROVE  Source!Waiting(h, n) = Matching(h, n) /\ Source!HostTurn
  <1>1. h # self /\ h \in Handles
    BY HostAssumption DEF TypeOK, HostTurn
  <1>2. SourceObject[h].waiting = SourceWaiting(h)
    BY <1>1 DEF SourceObject
  <1>3. Source!Waiting(h, n) = SourceWaiting(h) \cap Named(n)
    BY <1>2, SameProgram DEF Source!Waiting
  <1>4. Source!HostTurn
    BY DEF Source!HostTurn, HostTurn
  <1>5. CASE IsDone(h)
    <2>1. SourceWaiting(h) = {}
      BY <1>5 DEF SourceWaiting, SourceStatus
    <2>2. \A a \in Acts : ResumePoint(a) # ResumeIndex(h)
      BY <1>5, ResumePointType DEF IsDone
    <2>3. Matching(h, n) = {}
      BY <2>2 DEF Matching, Named
    <2> QED
      BY <1>3, <1>4, <2>1, <2>3
  <1>6. CASE ~ IsDone(h)
    <2>1. SourceWaiting(h) = {a \in Acts : ResumePoint(a) = ResumeIndex(h)}
      BY <1>1, <1>6 DEF SourceWaiting, SourceStatus
    <2> QED
      BY <1>3, <1>4, <2>1 DEF Matching, Named
  <1> QED
    BY <1>5, <1>6

LEMMA InitRefines == Init => Source!Init
  <1> SUFFICES ASSUME Init PROVE Source!Init
    OBVIOUS
  <1>1. SourceObject = [h \in Handles |-> Source!Absent]
    BY DEF Init, SourceObject, SourceStatus, SourceWaiting, Source!Absent
  <1>2. SourcePoint = 0
    <2>1. 0 \notin Acts
      BY OfType DEF Acts, Points
    <2> QED
      BY <2>1 DEF Init, SourcePoint
  <1> QED
    BY <1>1, <1>2 DEF Init, Source!Init

\* Starting the implementation of h at p with frm is the source's Run.
LEMMA EnterRefines ==
  ASSUME TypeOK, HostTurn, NEW h \in Handles, NEW frm, NEW id, NEW p,
         frames' = [frames EXCEPT ![h] = [resume_index |-> id, vars |-> frm]],
         self' = h, pc' = p, constructed' = constructed \cup {h},
         ~ (p \in Acts /\ Code[p].group # 0), UNCHANGED <<aborted, checked>>
  PROVE  Source!Run(h, p, frm)
  <1>1. self = NoHandle /\ h # NoHandle
    BY HostAssumption DEF HostTurn
  <1>2. SourceObject' = [SourceObject EXCEPT ![h] =
                           [status |-> "running", waiting |-> {}, vars |-> frm]]
    <2>1. ASSUME NEW k \in Handles, k # h
          PROVE  SourceObject'[k] = SourceObject[k]
      <3>1. frames'[k] = frames[k] /\ (k \in constructed' <=> k \in constructed)
        BY <2>1 DEF TypeOK
      <3>2. k # self /\ k # self'
        BY <1>1, <2>1, HostAssumption
      <3>3. SourceStatus(k)' = SourceStatus(k)
        BY <3>1, <3>2 DEF SourceStatus, IsDone, ResumeIndex
      <3>4. SourceWaiting(k)' = SourceWaiting(k)
        BY <3>1, <3>3 DEF SourceWaiting, ResumeIndex
      <3> QED
        BY <3>1, <3>3, <3>4 DEF SourceObject
    <2>2. SourceObject'[h] = [status |-> "running", waiting |-> {}, vars |-> frm]
      <3>1. SourceStatus(h)' = "running"
        BY DEF SourceStatus
      <3>2. SourceWaiting(h)' = {}
        BY <3>1 DEF SourceWaiting
      <3>3. frames'[h].vars = frm
        BY DEF TypeOK
      <3> QED
        BY <3>1, <3>2, <3>3 DEF SourceObject
    <2> QED
      BY <2>1, <2>2 DEF SourceObject
  <1>3. SourcePoint' = p
    BY DEF SourcePoint
  <1> QED
    BY <1>2, <1>3 DEF Source!Run


\* A failed check leaves every object as it was.
LEMMA AbortRefines ==
  ASSUME NEW precondition, Abort(precondition) PROVE Source!Refuse(precondition)
  BY DEF Abort, Source!Refuse, SourceObject, SourceStatus, SourceWaiting,
         IsDone, ResumeIndex, SourcePoint

LEMMA ConstructRefines ==
  ASSUME TypeOK, NEW h \in Handles, Construct(h)
  PROVE  Source!Construct(h)
  <1>1. PICK frm \in InitialFrm : Abort(EntryAdmits(frm)) \/ ConstructFrom(h, frm)
    BY DEF Construct
  <1>2. HostTurn /\ h \notin constructed
    BY DEF Construct
  <1>3. SourceObject[h].status = "absent"
    BY <1>2 DEF SourceObject, SourceStatus
  <1>4. frm \in Source!InitialFrm
    BY SameProgram
  <1>5. Source!HostTurn
    BY <1>2 DEF HostTurn, Source!HostTurn
  <1>6. CASE Abort(EntryAdmits(frm))
    BY <1>3, <1>4, <1>5, <1>6, AbortRefines DEF Source!Construct
  <1>7. CASE ConstructFrom(h, frm)
    <2>1. /\ pc' = 1 /\ self' = h /\ constructed' = constructed \cup {h}
          /\ frames' = [frames EXCEPT ![h] = [resume_index |-> 0, vars |-> frm]]
          /\ UNCHANGED <<aborted, checked>>
      BY <1>7 DEF ConstructFrom, Enter, Successors
    <2>2. ~ (1 \in Acts /\ Code[1].group # 0)
      BY EntryAssumption
    <2>3. Source!Run(h, 1, frm)
      BY <1>2, <2>1, <2>2, EnterRefines
    <2>4. checked => EntryAdmits(frm)
      BY <1>7 DEF ConstructFrom
    <2> QED
      BY <1>3, <1>4, <1>5, <2>3, <2>4 DEF Source!Construct
  <1> QED
    BY <1>1, <1>6, <1>7

LEMMA CallRefines ==
  ASSUME DistinctAlternatives, TypeOK,
         NEW h \in Handles, NEW n \in Names, NEW v \in Values, Call(h, n, v)
  PROVE  Source!Call(h, n, v) \/ Source!Misuse(h, n, v) \/ UNCHANGED vars
  <1>1. h \in constructed /\ HostTurn /\ h # self /\ self = NoHandle
    BY HostAssumption DEF Call, HostTurn
  <1>2. Source!Waiting(h, n) = Matching(h, n) /\ Source!HostTurn
    BY <1>1, WaitingIsMatching
  <1>3. SourceObject[h].vars = frames[h].vars /\ SourceObject[h].status # "absent"
    BY <1>1 DEF SourceObject, SourceStatus
  <1>4. Source!Can(h, n, v) <=> CanCall(h, n, v)
    BY <1>2, <1>3 DEF Source!Can, CanCall, Matching
  <1>5. CASE Abort(CanCall(h, n, v))
    <2>1. Source!Refuse(Source!Can(h, n, v)) /\ ~ CanCall(h, n, v)
      BY <1>4, <1>5, AbortRefines DEF Abort, Source!Refuse
    <2> QED
      BY <1>2, <1>3, <1>4, <2>1 DEF Source!Misuse
  <1>6. CASE CallIgnored(h, n)
    BY <1>6 DEF CallIgnored
  <1>7. CASE CallDispatched(h, n, v)
    <2>1. PICK a \in Matching(h, n) :
            /\ pc' = Next1(a)
            /\ self' = h
            /\ frames' = [frames EXCEPT ![h] =
                 [resume_index |-> Id(a), vars |-> Receive(a, frames[h].vars, v)]]
            /\ UNCHANGED <<constructed, aborted, checked>>
      BY <1>7, DispatchEntersAct
    <2>2. a \in Points \ Of("actions") /\ Next1(a) \in SuccOf(a)
      BY OfType, KindsDisjoint, ActNext DEF Matching, Named, Acts
    <2>3. ~ (Next1(a) \in Acts /\ Code[Next1(a)].group # 0)
      BY <2>2, PointAfter
    <2>4. constructed' = constructed \cup {h}
      BY <1>1, <2>1
    <2>5. Source!Run(h, Next1(a), Receive(a, frames[h].vars, v))
      BY <1>1, <2>1, <2>3, <2>4, EnterRefines
    <2>6. Receive(a, frames[h].vars, v) = Source!Receive(a, SourceObject[h].vars, v)
      BY <1>3, SameProgram
    <2>7. CASE Admits(a, frames[h].vars, v)
      BY <1>2, <1>3, <2>1, <2>5, <2>6, <2>7, SameProgram DEF Source!Call
    <2>8. CASE ~ Admits(a, frames[h].vars, v)
      <3>1. ~ CanCall(h, n, v)
        <4> SUFFICES ASSUME NEW b \in Matching(h, n), Admits(b, frames[h].vars, v)
                     PROVE  FALSE
          BY DEF CanCall, Matching
        <4> QED
          BY <2>8, MatchingUnique
      <3>2. ~ checked
        BY <1>7, <3>1 DEF CallDispatched
      <3> QED
        BY <1>2, <1>3, <1>4, <2>1, <2>5, <2>6, <3>1, <3>2, SameProgram DEF Source!Misuse
    <2> QED
      BY <2>7, <2>8
  <1> QED
    BY <1>5, <1>6, <1>7 DEF Call

LEMMA StutterRefines == UNCHANGED vars => UNCHANGED Source!vars
  BY DEF vars, Source!vars, SourceObject, SourceStatus, SourceWaiting,
         IsDone, ResumeIndex, SourcePoint

LEMMA CopyRefines ==
  ASSUME TypeOK, NEW h \in Handles, NEW k \in Handles, Copy(h, k)
  PROVE  Source!Copy(h, k)
  <1>1. /\ HostTurn /\ h \in constructed /\ constructed' = constructed \cup {k}
        /\ frames' = [frames EXCEPT ![k] = frames[h]]
        /\ UNCHANGED <<self, pc, aborted, checked>>
    BY DEF Copy
  <1>2. self = NoHandle /\ h # self /\ k # self
    BY <1>1, HostAssumption DEF HostTurn
  <1>3. ASSUME NEW j \in Handles, j # k PROVE SourceObject'[j] = SourceObject[j]
    <2>1. frames'[j] = frames[j] /\ (j \in constructed' <=> j \in constructed)
      BY <1>1, <1>3 DEF TypeOK
    <2> QED
      BY <1>1, <2>1 DEF SourceObject, SourceStatus, SourceWaiting, IsDone, ResumeIndex
  <1>4. SourceObject'[k] = SourceObject[h]
    <2>1. frames'[k] = frames[h] /\ k \in constructed'
      BY <1>1 DEF TypeOK
    <2>2. SourceStatus(k)' = SourceStatus(h)
      BY <1>1, <1>2, <2>1 DEF SourceStatus, IsDone, ResumeIndex
    <2> QED
      BY <2>1, <2>2 DEF SourceObject, SourceWaiting, ResumeIndex
  <1>5. SourceObject' = [SourceObject EXCEPT ![k] = SourceObject[h]]
    BY <1>3, <1>4 DEF SourceObject
  <1>6. SourceObject[h].status # "absent" /\ Source!HostTurn
    BY <1>1, <1>2 DEF SourceObject, SourceStatus, HostTurn, Source!HostTurn
  <1>7. UNCHANGED <<self, SourcePoint, aborted, checked>>
    BY <1>1 DEF SourcePoint
  <1> QED
    BY <1>5, <1>6, <1>7 DEF Source!Copy


-----------------------------------------------------------------------------
(* The steps of the implementation.                                        *)

\* Only the running object changes, so only it changes at the source.
LEMMA OnlySelfChanges ==
  ASSUME TypeOK, UNCHANGED constructed, self' \in {self, NoHandle},
         NEW k \in Handles, k # self, frames'[k] = frames[k]
  PROVE  SourceObject'[k] = SourceObject[k]
  <1>1. k # self'
    BY HostAssumption
  <1> QED
    BY <1>1 DEF SourceObject, SourceStatus, SourceWaiting, IsDone, ResumeIndex

\* The suspension at p: the source stops with the status and the acts on
\* offer that the stored index stands for.
LEMMA YieldRefines ==
  ASSUME Lowered, TypeOK, Yield PROVE Source!Wait \/ Source!Finish
  <1>1. self \in Handles /\ self \in constructed /\ self # NoHandle /\ pc \in Points
    BY OfType DEF Yield, Acts, TypeOK, Points
  <1>2. /\ frames' = [frames EXCEPT ![self].resume_index = StoredIndex(pc)]
        /\ self' = NoHandle /\ pc' = 0 /\ UNCHANGED <<constructed, aborted, checked>>
    BY DEF Yield
  <1>3. ASSUME NEW k \in Handles, k # self PROVE SourceObject'[k] = SourceObject[k]
    <2>1. frames'[k] = frames[k]
      BY <1>2, <1>3 DEF TypeOK
    <2> QED
      BY <1>2, <1>3, <2>1, OnlySelfChanges
  <1>4. frames'[self].resume_index = StoredIndex(pc) /\ frames'[self].vars = frames[self].vars
    BY <1>1, <1>2 DEF TypeOK, Frames
  <1>5. SourceObject[self].vars = frames[self].vars
    BY <1>1 DEF SourceObject
  <1>6. UNCHANGED <<aborted, checked>> /\ SourcePoint' = 0
    <2>1. 0 \notin Acts
      BY OfType DEF Acts, Points
    <2> QED
      BY <1>2, <2>1 DEF SourcePoint
  <1>7. ASSUME NEW status, NEW waiting,
               SourceObject'[self] =
                 [status |-> status, waiting |-> waiting, vars |-> frames[self].vars]
        PROVE  Source!Stop(status, waiting)
    <2>1. SourceObject' = [SourceObject EXCEPT ![self] =
             [status |-> status, waiting |-> waiting, vars |-> frames[self].vars]]
      BY <1>3, <1>7 DEF SourceObject
    <2> QED
      BY <1>1, <1>2, <1>5, <1>6, <2>1 DEF Source!Stop
  <1>8. CASE pc \in Acts
    <2> DEFINE offer == IF Code[pc].group = 0 THEN {pc} ELSE SuccOf(Code[pc].group)
    <2>1. StoredIndex(pc) = ResumePoint(pc) /\ StoredIndex(pc) # -1
      BY <1>8, ResumePointType DEF StoredIndex
    <2>2. SourceObject'[self] =
            [status |-> "waiting", waiting |-> offer, vars |-> frames[self].vars]
      <3>1. ASSUME NEW k \in Handles, k = self
            PROVE  SourceStatus(k)' = "waiting" /\ SourceWaiting(k)' = offer
        <4>1. SourceStatus(k)' = "waiting"
          BY <1>1, <1>2, <1>4, <2>1, <3>1 DEF SourceStatus, IsDone, ResumeIndex
        <4>2. SourceWaiting(k)' = {a \in Acts : ResumePoint(a) = ResumePoint(pc)}
          BY <1>4, <2>1, <3>1, <4>1 DEF SourceWaiting, ResumeIndex
        <4> QED
          BY <1>8, <4>1, <4>2, WaitingAt
      <3> QED
        BY <1>1, <1>4, <3>1 DEF SourceObject
    <2>3. Source!Stop("waiting", offer)
      BY <1>7, <2>2
    <2>4. CASE Code[pc].group = 0
      <3>1. SourcePoint = pc
        BY <2>4 DEF SourcePoint
      <3> QED
        BY <1>8, <2>3, <2>4, <3>1, SameProgram DEF Source!Wait
    <2>5. CASE Code[pc].group # 0
      <3>1. SourcePoint = Code[pc].group /\ Code[pc].group \in Of("actions")
        BY <1>1, <1>8, <2>5, ShapeAssumption DEF SourcePoint
      <3> QED
        BY <2>3, <2>5, <3>1, SameProgram DEF Source!Wait
    <2> QED
      BY <2>4, <2>5
  <1>9. CASE pc \notin Acts
    <2>1. StoredIndex(pc) = -1 /\ pc \in Of("end") /\ SourcePoint = pc
      BY <1>9 DEF StoredIndex, Yield, SourcePoint
    <2>2. SourceObject'[self] =
            [status |-> "done", waiting |-> {}, vars |-> frames[self].vars]
      <3>1. ASSUME NEW k \in Handles, k = self
            PROVE  SourceStatus(k)' = "done" /\ SourceWaiting(k)' = {}
        <4>1. SourceStatus(k)' = "done"
          BY <1>1, <1>2, <1>4, <2>1, <3>1 DEF SourceStatus, IsDone, ResumeIndex
        <4> QED
          BY <4>1 DEF SourceWaiting
      <3> QED
        BY <1>1, <1>4, <3>1 DEF SourceObject
    <2> QED
      BY <1>7, <2>1, <2>2, SameProgram DEF Source!Finish
  <1> QED
    BY <1>8, <1>9

LEMMA FallRefines ==
  ASSUME TypeOK, FallIntoAlternatives PROVE UNCHANGED Source!vars
  <1>1. pc \in Points /\ pc \in Of("actions") /\ pc' = Next1(pc)
        /\ UNCHANGED <<constructed, frames, self, aborted, checked>>
    BY OfType DEF FallIntoAlternatives
  <1>2. Next1(pc) \in Acts /\ Code[Next1(pc)].group = pc
    <2>1. Next1(pc) \in SuccOf(pc)
      BY <1>1, ShapeAssumption, NextType
    <2> QED
      BY <1>1, <2>1, ShapeAssumption
  <1>3. UNCHANGED SourceObject
    BY <1>1 DEF SourceObject, SourceStatus, SourceWaiting, IsDone, ResumeIndex
  <1>4. SourcePoint = pc /\ SourcePoint' = pc
    <2>1. pc \notin Acts /\ pc # 0
      BY <1>1, KindsDisjoint DEF Points
    <2> QED
      BY <1>1, <1>2, <2>1 DEF SourcePoint
  <1> QED
    BY <1>1, <1>3, <1>4 DEF Source!vars

LEMMA PlainRefines ==
  ASSUME TypeOK, Plain PROVE Source!Continue
  <1>1. pc \in Of("plain") /\ pc \in Points /\ self \in Handles /\ self # NoHandle
        /\ UNCHANGED <<constructed, self, aborted, checked>>
    BY OfType DEF Plain, TypeOK, Points
  <1>2. frames[self] \in Frames /\ frames[self].vars \in FrmValues
    BY <1>1 DEF TypeOK, Frames
  <1>3. PICK e \in Exec(pc, frames[self].vars) :
          pc' = e.next /\ frames' = [frames EXCEPT ![self].vars = e.vars]
    BY DEF Plain
  <1>4. e.next \in SuccOf(pc)
    BY <1>1, <1>2, <1>3, ExecAssumption
  <1>5. SourcePoint = pc /\ SourcePoint' = e.next
    <2>1. pc \notin Acts /\ pc \notin Of("actions")
      BY <1>1, KindsDisjoint
    <2>2. ~ (e.next \in Acts /\ Code[e.next].group # 0)
      BY <1>1, <1>4, <2>1, PointAfter
    <2> QED
      BY <1>3, <2>1, <2>2 DEF SourcePoint
  <1>6. ASSUME NEW k \in Handles, k # self PROVE SourceObject'[k] = SourceObject[k]
    <2>1. frames'[k] = frames[k]
      BY <1>3, <1>6 DEF TypeOK
    <2> QED
      BY <1>1, <1>6, <2>1, OnlySelfChanges
  <1>7. SourceObject[self] = [status |-> "running", waiting |-> {}, vars |-> frames[self].vars]
    <2>1. SourceStatus(self) = "running"
      BY <1>1 DEF SourceStatus, TypeOK
    <2> QED
      BY <1>1, <2>1 DEF SourceObject, SourceWaiting
  <1>8. SourceObject'[self] = [status |-> "running", waiting |-> {}, vars |-> e.vars]
    <2>1. ASSUME NEW k \in Handles, k = self
          PROVE  SourceStatus(k)' = "running" /\ SourceWaiting(k)' = {}
      <3>1. SourceStatus(k)' = "running"
        BY <1>1, <2>1 DEF SourceStatus, TypeOK
      <3> QED
        BY <3>1 DEF SourceWaiting
    <2>2. frames'[self].vars = e.vars
      BY <1>1, <1>2, <1>3 DEF TypeOK, Frames
    <2> QED
      BY <1>1, <2>1, <2>2 DEF SourceObject
  <1>9. SourceObject' = [SourceObject EXCEPT ![self].vars = e.vars]
    <2>1. [SourceObject[self] EXCEPT !.vars = e.vars] =
            [status |-> "running", waiting |-> {}, vars |-> e.vars]
      BY <1>7
    <2>2. SourceObject' = [SourceObject EXCEPT ![self] =
            [status |-> "running", waiting |-> {}, vars |-> e.vars]]
      BY <1>6, <1>8 DEF SourceObject
    <2> QED
      BY <2>1, <2>2
  <1>10. SourceObject[self].vars = frames[self].vars
    BY <1>7
  <1> QED
    BY <1>1, <1>3, <1>5, <1>9, <1>10, SameProgram DEF Source!Continue

\* Every behaviour of the compiled class is one of the source's, if the
\* alternatives of each "actions" statement have distinct names and some act
\* can be reached.
THEOREM ImplementsSourceSafety ==
  ASSUME DistinctAlternatives, Lowered
  PROVE  Spec => Source!Init /\ [][Source!Next]_(Source!vars)
  <1>1. TypeOK /\ [Next]_vars => [Source!Next]_(Source!vars)
    <2> SUFFICES ASSUME TypeOK, [Next]_vars PROVE [Source!Next]_(Source!vars)
      OBVIOUS
    <2>1. ASSUME NEW h \in Handles, Construct(h) PROVE Source!Next
      BY <2>1, ConstructRefines DEF Source!Next
    <2>2. ASSUME NEW h \in Handles, NEW n \in Names, NEW v \in Values, Call(h, n, v)
          PROVE  [Source!Next]_(Source!vars)
      BY <2>2, CallRefines, StutterRefines DEF Source!Next
    <2>3. ASSUME NEW h \in Handles, NEW k \in Handles, Copy(h, k) PROVE Source!Next
      BY <2>3, CopyRefines DEF Source!Next
    <2>4. CASE Yield
      BY <2>4, YieldRefines DEF Source!Next, Source!Body
    <2>5. CASE FallIntoAlternatives
      BY <2>5, FallRefines
    <2>6. CASE Plain
      BY <2>6, PlainRefines DEF Source!Next, Source!Body
    <2>7. CASE UNCHANGED vars
      BY <2>7, StutterRefines
    <2> QED
      BY <2>1, <2>2, <2>3, <2>4, <2>5, <2>6, <2>7 DEF Next, Body
  <1> QED
    BY <1>1, InitRefines, TypeCorrect, PTL DEF Spec

\* Under the same conditions, each host function does what it does at the
\* source, with the arguments it was given: a construction or a copy is the
\* source's, a call resumes the statement the source resumes (or is refused,
\* or runs where an unchecked build lets it) with that argument.
THEOREM ImplementsCallsTheorem ==
  ASSUME DistinctAlternatives
  PROVE  Spec => ImplementsCalls
  <1> DEFINE Refines ==
        \A h \in Handles :
          /\ Construct(h) => Source!Construct(h)
          /\ \A n \in Names, v \in Values :
               Call(h, n, v) => Source!Call(h, n, v) \/ Source!Misuse(h, n, v)
          /\ \A k \in Handles : Copy(h, k) => Source!Copy(h, k)
  <1>1. TypeOK /\ [Next]_vars => [Refines]_vars
    <2> SUFFICES ASSUME TypeOK, ~ UNCHANGED vars PROVE Refines
      OBVIOUS
    <2> QED
      BY ConstructRefines, CallRefines, CopyRefines
  <1>2. Spec => [][Refines]_vars
    BY <1>1, TypeCorrect, PTL DEF Spec
  <1> QED
    BY <1>2 DEF ImplementsCalls
==============================================================================
