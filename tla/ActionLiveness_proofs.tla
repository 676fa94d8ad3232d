------------------------ MODULE ActionLiveness_proofs ------------------------
(***************************************************************************)
(* The storage analysis is exact for every program and every order of the  *)
(* visits. NoneMissing is the strengthening: at a point nothing is pending *)
(* for, the content holds all that a further visit could add.              *)
(***************************************************************************)
EXTENDS ActionLiveness, TLAPS

LEMMA CodeType == \A p \in Points : Code[p] \in Instructions
  BY CodeAssumption DEF Points

LEMMA FlowType == \A p \in Points : FlowOf(p) \subseteq Points
  BY ShapeAssumption

\* The variables a point uses or declares are local ones.
LEMMA LocalsOfPoint ==
  \A p \in Points : Code[p].uses \subseteq Local /\ Code[p].defines \subseteq Local
  BY CodeType DEF Instructions

\* What is alive after a point is local.
LEMMA AfterType ==
  ASSUME TypeOK, NEW p \in Points
  PROVE  After(p) \subseteq Local
  <1> SUFFICES ASSUME NEW q \in FlowOf(p) PROVE before[q] \subseteq Local
    BY DEF After
  <1> QED
    BY FlowType DEF TypeOK

\* The analysis is well-typed, for every program.
THEOREM TypeCorrect == Spec => []TypeOK
  <1>1. Init => TypeOK
    BY DEF Init, TypeOK
  <1>2. TypeOK /\ [Next]_vars => TypeOK'
    <2> SUFFICES ASSUME TypeOK, [Next]_vars PROVE TypeOK'
      OBVIOUS
    <2>1. CASE Report
      BY <2>1 DEF Report, TypeOK
    <2>2. ASSUME NEW p \in Points, Visit(p) PROVE TypeOK'
      <3>1. Joined(p) \subseteq Local
        BY AfterType, LocalsOfPoint DEF Joined, JustUsed, TypeOK
      <3>2. before' \in [Points -> SUBSET Local]
        BY <2>2, <3>1 DEF Visit, TypeOK
      <3>3. pending' \subseteq Points
        BY <2>2 DEF Visit, TypeOK, Dependents
      <3> QED
        BY <2>2, <3>2, <3>3 DEF Visit, TypeOK
    <2>3. CASE UNCHANGED vars
      BY <2>3 DEF vars, TypeOK
    <2> QED
      BY <2>1, <2>2, <2>3 DEF Next
  <1> QED
    BY <1>1, <1>2, PTL DEF Spec

-----------------------------------------------------------------------------
(* The least solution.                                                     *)

\* It is closed under the rule that defines it.
LEMMA SeenFlow ==
  ASSUME NEW v \in Local, NEW p \in Points, v \notin Code[p].defines,
         v \in Code[p].uses \/ FlowOf(p) \cap SeenLive[v] # {}
  PROVE  p \in SeenLive[v]
  <1>1. SeenLive[v] = {q \in Points : \A S \in LiveClosed(v, Flow) : q \in S}
    BY DEF SeenLive, LivePoints
  <1>2. ASSUME NEW S \in LiveClosed(v, Flow) PROVE p \in S
    <2>1. v \in Code[p].uses \/ Flow[p] \cap S # {}
      BY <1>1 DEF Flow
    <2> QED
      BY <2>1 DEF LiveClosed
  <1> QED
    BY <1>1, <1>2

\* It is part of every closed set.
LEMMA SeenLeast ==
  ASSUME NEW v \in Local, NEW S \in SUBSET Points,
         \A p \in Points :
           v \notin Code[p].defines /\ (v \in Code[p].uses \/ FlowOf(p) \cap S # {})
             => p \in S
  PROVE  SeenLive[v] \subseteq S
  <1>1. S \in LiveClosed(v, Flow)
    BY DEF LiveClosed, Flow
  <1> QED
    BY <1>1 DEF SeenLive, LivePoints

-----------------------------------------------------------------------------
\* Nothing is believed alive that is not, at any moment.
THEOREM NeverTooMuchTheorem == Spec => []NeverTooMuch
  <1>1. Init => NeverTooMuch
    BY DEF Init, NeverTooMuch
  <1>2. TypeOK /\ NeverTooMuch /\ [Next]_vars => NeverTooMuch'
    <2> SUFFICES ASSUME TypeOK, NeverTooMuch, [Next]_vars,
                        NEW q \in Points, NEW v \in before'[q]
                 PROVE  q \in SeenLive[v]
      BY DEF NeverTooMuch
    <2>1. CASE before' = before
      BY <2>1 DEF NeverTooMuch
    <2>2. ASSUME NEW p \in Points, Visit(p) PROVE q \in SeenLive[v]
      <3>1. CASE q # p
        BY <2>2, <3>1 DEF Visit, TypeOK, NeverTooMuch
      <3>2. CASE q = p
        <4>1. v \in Joined(p) /\ v \notin Code[p].defines
          BY <2>2, <3>2 DEF Visit, TypeOK, JustDefined
        <4>2. CASE v \in before[p]
          BY <3>2, <4>2 DEF NeverTooMuch
        <4>3. CASE v \in After(p)
          <5>1. PICK s \in FlowOf(p) : v \in before[s]
            BY <4>3 DEF After
          <5>2. s \in Points /\ v \in Local /\ s \in SeenLive[v]
            BY <5>1, FlowType DEF TypeOK, NeverTooMuch
          <5> QED
            BY <3>2, <4>1, <5>1, <5>2, SeenFlow
        <4>4. CASE v \in Code[p].uses
          BY <3>2, <4>1, <4>4, LocalsOfPoint, SeenFlow
        <4> QED
          BY <4>1, <4>2, <4>3, <4>4 DEF Joined, JustUsed
      <3> QED
        BY <3>1, <3>2
    <2> QED
      BY <2>1, <2>2 DEF Next, Report, vars
  <1> QED
    BY <1>1, <1>2, TypeCorrect, PTL DEF Spec

\* A point that is not pending has taken in all that comes after it.
NoneMissing ==
  \A p \in Points \ pending :
    (After(p) \cup Code[p].uses) \ Code[p].defines \subseteq before[p]

LEMMA NoneMissingInvariant == Spec => []NoneMissing
  <1>1. Init => NoneMissing
    BY DEF Init, NoneMissing
  <1>2. TypeOK /\ NoneMissing /\ [Next]_vars => NoneMissing'
    <2> SUFFICES ASSUME TypeOK, NoneMissing, [Next]_vars PROVE NoneMissing'
      OBVIOUS
    <2>1. CASE UNCHANGED <<before, pending>>
      BY <2>1 DEF NoneMissing, After
    <2>2. ASSUME NEW p \in Points, Visit(p) PROVE NoneMissing'
      <3>1. /\ before'[p] = Joined(p) \ Code[p].defines
            /\ \A q \in Points \ {p} : before'[q] = before[q]
        BY <2>2 DEF Visit, TypeOK, JustDefined
      <3>2. CASE ~ Changed(p)
        <4>1. before'[p] = before[p]
          BY <3>1, <3>2 DEF Changed, JustDefined
        <4>2. before' = before
          BY <2>2, <3>1, <4>1 DEF Visit, TypeOK
        <4>3. (After(p) \cup Code[p].uses) \ Code[p].defines \subseteq before[p]
          BY <3>2 DEF Changed, Joined, JustUsed
        <4>4. pending' = pending \ {p}
          BY <2>2, <3>2 DEF Visit
        <4> QED
          BY <4>2, <4>3, <4>4 DEF NoneMissing, After
      <3>3. CASE Changed(p)
        <4> SUFFICES ASSUME NEW q \in Points, q \notin pending',
                            NEW v \in After(q)' \cup Code[q].uses,
                            v \notin Code[q].defines
                     PROVE  v \in before'[q]
          BY DEF NoneMissing
        <4>1. p \notin FlowOf(q) /\ (q = p \/ q \notin pending)
          BY <2>2, <3>3 DEF Visit, Dependents
        <4>2. After(q)' = After(q)
          <5>1. \A s \in FlowOf(q) : before'[s] = before[s]
            BY <3>1, <4>1, FlowType
          <5> QED
            BY <5>1 DEF After
        <4>3. CASE q = p
          BY <3>1, <4>2, <4>3 DEF Joined, JustUsed
        <4>4. CASE q # p
          BY <3>1, <4>1, <4>2, <4>4 DEF NoneMissing
        <4> QED
          BY <4>3, <4>4
      <3> QED
        BY <3>2, <3>3
    <2> QED
      BY <2>1, <2>2 DEF Next, Report, vars
  <1> QED
    BY <1>1, <1>2, TypeCorrect, PTL DEF Spec

LEMMA DoneIsExact ==
  ASSUME TypeOK, NeverTooMuch, NoneMissing
  PROVE  ExactWhenDone
  <1> SUFFICES ASSUME pending = {}, NEW p \in Points, NEW v \in Local
               PROVE  v \in before[p] <=> p \in SeenLive[v]
    BY DEF ExactWhenDone
  <1> DEFINE S == {q \in Points : v \in before[q]}
  <1>1. ASSUME NEW q \in Points, v \notin Code[q].defines,
               v \in Code[q].uses \/ FlowOf(q) \cap S # {}
        PROVE  q \in S
    <2>1. v \in After(q) \cup Code[q].uses
      BY <1>1 DEF After
    <2> QED
      BY <1>1, <2>1 DEF NoneMissing
  <1>2. SeenLive[v] \subseteq S
    <2> HIDE DEF S
    <2>1. S \in SUBSET Points
      BY DEF S
    <2> QED
      BY <1>1, <2>1, SeenLeast
  <1> QED
    BY <1>2 DEF NeverTooMuch

\* The solver's answer is the least solution, whatever the order of the
\* visits.
THEOREM ExactWhenDoneTheorem == Spec => []ExactWhenDone
  <1>1. TypeOK /\ NeverTooMuch /\ NoneMissing => ExactWhenDone
    BY DoneIsExact
  <1> QED
    BY <1>1, TypeCorrect, NeverTooMuchTheorem, NoneMissingInvariant, PTL

-----------------------------------------------------------------------------
\* The pass reports what is used across actions and nothing else.
THEOREM ReportedExactlyTheorem == Spec => []ReportedExactly
  <1>1. Init => ReportedExactly
    BY DEF Init, ReportedExactly
  <1>2. ExactWhenDone /\ ReportedExactly /\ [Next]_vars => ReportedExactly'
    <2> SUFFICES ASSUME ExactWhenDone, ReportedExactly, [Next]_vars
                 PROVE  ReportedExactly'
      OBVIOUS
    <2>1. CASE Report
      <3>1. ASSUME NEW v \in Local PROVE AliveAcross(v) <=> UsedAcrossActions(v)
        BY <2>1 DEF Report, ExactWhenDone, AliveAcross, UsedAcrossActions, Acts, Of
      <3> QED
        BY <2>1, <3>1 DEF Report, ReportedExactly
    <2>2. CASE UNCHANGED <<judged, reported>>
      BY <2>2 DEF ReportedExactly
    <2> QED
      BY <2>1, <2>2 DEF Next, Visit, vars
  <1> QED
    BY <1>1, <1>2, ExactWhenDoneTheorem, PTL DEF Spec

\* A program the pass lets through meets the assumption ActionCoro compiles
\* under.
THEOREM SilenceIsAccepted == Spec => [](judged /\ reported = {} => Accepted)
  <1>1. ReportedExactly => (judged /\ reported = {} => Accepted)
    BY DEF ReportedExactly, Accepted
  <1> QED
    BY <1>1, ReportedExactlyTheorem, PTL
==============================================================================
