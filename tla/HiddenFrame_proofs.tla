-------------------------- MODULE HiddenFrame_proofs --------------------------
(***************************************************************************)
(* Theorems about HiddenFrame, for any number of parameters and acts: when *)
(* the ctx parameters come first, an activation reads what it was passed.  *)
(***************************************************************************)
EXTENDS HiddenFrame, FiniteSetTheorems, FunctionTheorems, TLAPS

Typed == params \in Seq(Qualifiers) /\ acts \in Seq(Seq({"frm", "local"}))

LEMMA ParamsTyped == TypeOK => Typed
  BY ListsAssumption DEF TypeOK, Typed

-----------------------------------------------------------------------------
(* Ranks of the ctx parameters.                                            *)

LEMMA FiniteRange ==
  ASSUME NEW n \in Nat
  PROVE  IsFiniteSet(1 .. n) /\ \A a : IsFiniteSet({a} \X (1 .. n))
  <1>1. 1 \in Int /\ n \in Int
    OBVIOUS
  <1>2. IsFiniteSet(1 .. n)
    BY ONLY <1>1, FS_Interval
  <1> QED
    BY <1>2, FS_Singleton, FS_Product

LEMMA CtxFinite ==
  ASSUME Typed
  PROVE  IsFiniteSet(CtxParams) /\ CtxParams \subseteq Nat \ {0} /\ NumCtx \in Nat
  <1>1. DOMAIN params = 1 .. Len(params) /\ Len(params) \in Nat
    BY DEF Typed
  <1>2. IsFiniteSet(DOMAIN params) /\ DOMAIN params \subseteq Nat \ {0}
    BY <1>1, FiniteRange
  <1>3. IsFiniteSet(CtxParams)
    BY <1>2, FS_Subset DEF CtxParams
  <1> QED
    BY <1>2, <1>3, FS_CardinalityType DEF CtxParams, NumCtx

\* Rank(i) - 1 parameters precede ctx parameter i.
LEMMA RankType ==
  ASSUME Typed, NEW i \in CtxParams
  PROVE  /\ Rank(i) \in 1 .. NumCtx
         /\ Cardinality({k \in CtxParams : k < i}) = Rank(i) - 1
  <1> DEFINE S == {k \in CtxParams : k < i}
  <1>1. IsFiniteSet(S) /\ i \notin S
    <2>1. i \in Nat
      BY CtxFinite
    <2> QED
      BY <2>1, CtxFinite, FS_Subset
  <1>2. {k \in CtxParams : k <= i} = S \cup {i}
    <2>1. \A k \in CtxParams : k \in Int
      BY CtxFinite
    <2> QED
      BY <2>1
  <1>3. Rank(i) = Cardinality(S) + 1
    BY <1>1, <1>2, FS_AddElement DEF Rank
  <1>4. Cardinality(S) \in Nat
    BY <1>1, FS_CardinalityType
  <1>5. Rank(i) <= NumCtx
    BY CtxFinite, FS_Subset DEF Rank, NumCtx
  <1> QED
    BY <1>3, <1>4, <1>5, CtxFinite

-----------------------------------------------------------------------------
(* The hidden values and their order.                                      *)

LEMMA HiddenType ==
  ASSUME Typed
  PROVE  /\ \A v \in Hidden : v = <<v[1], v[2]>> /\ v[1] \in Nat /\ v[2] \in Nat
         /\ IsFiniteSet(Hidden)
  <1>1. DOMAIN params = 1 .. Len(params) /\ Len(params) \in Nat
        /\ DOMAIN acts = 1 .. Len(acts) /\ Len(acts) \in Nat
    BY DEF Typed
  <1>2. \A a \in DOMAIN acts : DOMAIN acts[a] = 1 .. Len(acts[a]) /\ Len(acts[a]) \in Nat
    BY DEF Typed
  <1>3. HiddenParams \subseteq {0} \X (1 .. Len(params))
    BY <1>1 DEF HiddenParams
  <1>4. ASSUME NEW a \in DOMAIN acts
        PROVE  HiddenArgs(a) \subseteq {a} \X (1 .. NumCtx + Len(acts[a]))
    <2>1. NumCtx \in Nat /\ Len(acts[a]) \in Nat /\ DOMAIN acts[a] = 1 .. Len(acts[a])
      BY <1>2, CtxFinite
    <2>2. CtxArgs(a) \subseteq {a} \X (1 .. NumCtx + Len(acts[a]))
      BY <2>1 DEF CtxArgs
    <2>3. LocalArgs(a) \subseteq {a} \X (1 .. NumCtx + Len(acts[a]))
      BY <2>1 DEF LocalArgs
    <2> QED
      BY <2>2, <2>3 DEF HiddenArgs
  <1>5. \A v \in Hidden : v = <<v[1], v[2]>> /\ v[1] \in Nat /\ v[2] \in Nat
    <2>1. \A a \in DOMAIN acts : a \in Nat /\ NumCtx + Len(acts[a]) \in Nat
      BY <1>1, <1>2, CtxFinite
    <2> QED
      BY <1>1, <1>3, <1>4, <2>1 DEF Hidden
  <1>6. IsFiniteSet(HiddenParams)
    <2>1. IsFiniteSet({0} \X (1 .. Len(params)))
      BY <1>1, FiniteRange
    <2> QED
      BY <1>3, <2>1, FS_Subset
  <1>7. ASSUME NEW a \in DOMAIN acts PROVE IsFiniteSet(HiddenArgs(a))
    <2>1. NumCtx + Len(acts[a]) \in Nat
      BY <1>2, CtxFinite
    <2>2. IsFiniteSet({a} \X (1 .. NumCtx + Len(acts[a])))
      BY <2>1, FiniteRange
    <2> QED
      BY <1>4, <2>2, FS_Subset
  <1>8. IsFiniteSet({HiddenArgs(a) : a \in DOMAIN acts})
    <2> DEFINE T == {HiddenArgs(a) : a \in DOMAIN acts}
               f == [a \in DOMAIN acts |-> HiddenArgs(a)]
    <2>1. f \in Surjection(DOMAIN acts, T)
      BY DEF Surjection
    <2>2. IsFiniteSet(DOMAIN acts)
      BY <1>1, FiniteRange
    <2> QED
      BY <2>1, <2>2, FS_Surjection
  <1>9. IsFiniteSet(UNION {HiddenArgs(a) : a \in DOMAIN acts})
    BY <1>7, <1>8, FS_UNION
  <1> QED
    BY <1>5, <1>6, <1>9, FS_Union DEF Hidden

LEMMA IndexType ==
  ASSUME Typed, NEW v \in Hidden
  PROVE  IndexOf(v) \in Slots /\ IndexOf(v) \in Nat
  <1> DEFINE S == {u \in Hidden : Before(u, v)}
  <1>1. IsFiniteSet(Hidden) /\ IsFiniteSet(S) /\ Cardinality(S) <= Cardinality(Hidden)
    BY HiddenType, FS_Subset
  <1>2. v \notin S
    BY HiddenType DEF Before
  <1>3. Cardinality(S) # Cardinality(Hidden)
    BY <1>1, <1>2, FS_Subset
  <1>4. Cardinality(S) \in Nat /\ Cardinality(Hidden) \in Nat
    BY <1>1, FS_CardinalityType
  <1> QED
    BY <1>1, <1>3, <1>4 DEF IndexOf, Slots

\* The hidden list has no repetitions: an index determines the value.
LEMMA IndexInjective ==
  ASSUME Typed, NEW u \in Hidden, NEW v \in Hidden, Before(u, v)
  PROVE  IndexOf(u) < IndexOf(v)
  <1> DEFINE S(w) == {x \in Hidden : Before(x, w)}
  <1>1. IsFiniteSet(S(u)) /\ IsFiniteSet(S(v))
    BY HiddenType, FS_Subset
  <1>2. S(u) \subseteq S(v)
    BY HiddenType DEF Before
  <1>3. u \in S(v) /\ u \notin S(u)
    BY HiddenType DEF Before
  <1>4. Cardinality(S(u)) <= Cardinality(S(v)) /\ Cardinality(S(u)) # Cardinality(S(v))
    BY <1>1, <1>2, <1>3, FS_Subset
  <1>5. Cardinality(S(u)) \in Nat /\ Cardinality(S(v)) \in Nat
    BY <1>1, FS_CardinalityType
  <1> QED
    BY <1>4, <1>5 DEF IndexOf

LEMMA BeforeTotal ==
  ASSUME Typed, NEW u \in Hidden, NEW v \in Hidden, u # v
  PROVE  Before(u, v) \/ Before(v, u)
  BY HiddenType DEF Before


-----------------------------------------------------------------------------
(* Slots.                                                                  *)

\* A ctx parameter is at the index its rank says, when nothing local is
\* declared in front of it.
LEMMA CtxParamIndex ==
  ASSUME Typed, CtxFirst, NEW i \in CtxParams
  PROVE  IndexOf(<<0, i>>) = Rank(i) - 1
  <1> DEFINE S == {k \in CtxParams : k < i}
             T == {u \in Hidden : Before(u, <<0, i>>)}
             f == [k \in S |-> <<0, k>>]
  <1>1. IsFiniteSet(S)
    BY CtxFinite, FS_Subset
  <1>2. ASSUME NEW u \in T PROVE \E k \in S : u = <<0, k>>
    <2>1. u[1] = 0 /\ u[2] < i /\ u = <<0, u[2]>> /\ u[2] \in Nat /\ i \in Nat
      BY HiddenType, CtxFinite DEF Before
    <2>2. u \in HiddenParams
      <3>1. \A a \in DOMAIN acts : a # 0
        BY DEF Typed
      <3>2. \A a \in DOMAIN acts : \A v \in HiddenArgs(a) : v[1] # 0
        BY <3>1 DEF HiddenArgs, CtxArgs, LocalArgs
      <3> QED
        BY <2>1, <3>2 DEF Hidden
    <2>3. u[2] \in DOMAIN params /\ params[u[2]] # "frm"
      BY <2>2 DEF HiddenParams
    <2>4. params[u[2]] # "local"
      BY <2>1, <2>3 DEF CtxFirst
    <2>5. params[u[2]] = "ctx"
      BY <2>3, <2>4 DEF Typed, Qualifiers
    <2> QED
      BY <2>1, <2>3, <2>5 DEF CtxParams
  <1>3. ASSUME NEW k \in S PROVE <<0, k>> \in T
    BY DEF CtxParams, Hidden, HiddenParams, Before
  <1>4. f \in Surjection(S, T)
    BY <1>2, <1>3 DEF Surjection
  <1>5. f \in Injection(S, T)
    BY <1>3 DEF Injection, IsInjective
  <1>6. Cardinality(T) = Cardinality(S)
    BY <1>1, <1>4, <1>5, FS_Surjection
  <1> QED
    BY <1>6, RankType DEF IndexOf

\* The locals of an act come after the ctx slots.
LEMMA LocalAfterCtx ==
  ASSUME Typed, NEW a \in DOMAIN acts, NEW v \in LocalArgs(a)
  PROVE  NumCtx <= IndexOf(v) /\ IndexOf(v) \in Nat
  <1> DEFINE T == {u \in Hidden : Before(u, v)}
             f == [k \in CtxParams |-> <<0, k>>]
  <1>1. v \in Hidden
    BY DEF Hidden, HiddenArgs
  <1>2. v[1] = a /\ a \in Nat /\ 0 < a
    BY DEF LocalArgs, Typed
  <1>3. ASSUME NEW k \in CtxParams PROVE <<0, k>> \in T
    BY <1>2 DEF CtxParams, Hidden, HiddenParams, Before
  <1>4. f \in Injection(CtxParams, T)
    BY <1>3 DEF Injection, IsInjective
  <1>5. IsFiniteSet(T)
    BY HiddenType, FS_Subset
  <1>6. NumCtx <= Cardinality(T)
    BY <1>4, <1>5, FS_Injection DEF NumCtx
  <1> QED
    BY <1>1, <1>6, IndexType DEF IndexOf

\* Where a call looks a value up is where it was stored.
LEMMA SlotOfCtx ==
  ASSUME Typed, NEW a \in DOMAIN acts, NEW j \in 1 .. NumCtx
  PROVE  Slot(<<a, j>>) = j - 1 /\ j - 1 \in Slots
  <1>1. a # 0 /\ j <= NumCtx
    BY CtxFinite DEF Typed
  <1>2. Slot(<<a, j>>) = j - 1
    BY <1>1 DEF Slot
  <1>3. NumCtx <= Cardinality(Hidden) /\ Cardinality(Hidden) \in Nat
    <2> DEFINE f == [k \in CtxParams |-> <<0, k>>]
    <2>1. f \in Injection(CtxParams, Hidden)
      BY DEF Injection, IsInjective, CtxParams, Hidden, HiddenParams
    <2> QED
      BY <2>1, HiddenType, FS_Injection, FS_CardinalityType DEF NumCtx
  <1> QED
    BY <1>2, <1>3, CtxFinite DEF Slots

LEMMA SlotOfLocal ==
  ASSUME Typed, NEW a \in DOMAIN acts, NEW v \in LocalArgs(a)
  PROVE  Slot(v) = IndexOf(v)
  <1>1. PICK k \in DOMAIN acts[a] : v = <<a, NumCtx + k>>
    BY DEF LocalArgs
  <1>2. k \in Nat /\ k >= 1 /\ NumCtx \in Nat
    BY CtxFinite DEF Typed
  <1>3. v[2] = NumCtx + k
    BY <1>1
  <1>4. ~ (v[2] <= NumCtx)
    BY <1>2, <1>3
  <1> QED
    BY <1>4 DEF Slot

\* No two values one call stores share a slot.
LEMMA GivenDistinct ==
  ASSUME Typed, NEW a \in {0} \cup DOMAIN acts,
         NEW u \in Given(a), NEW v \in Given(a), Slot(u) = Slot(v)
  PROVE  u = v
  <1>1. CASE a = 0
    <2>1. u \in Hidden /\ v \in Hidden /\ u[1] = 0 /\ v[1] = 0
      BY <1>1 DEF Given, Hidden, HiddenParams
    <2>2. IndexOf(u) = IndexOf(v)
      BY <2>1 DEF Slot
    <2>3. IndexOf(u) \in Nat /\ IndexOf(v) \in Nat
      BY <2>1, IndexType
    <2> QED
      BY <2>1, <2>2, <2>3, BeforeTotal, IndexInjective
  <1>2. CASE a # 0
    <2>0. a \in DOMAIN acts
      BY <1>2
    <2>1. u \in Hidden /\ v \in Hidden /\ u \in HiddenArgs(a) /\ v \in HiddenArgs(a)
      BY <1>2, <2>0 DEF Given, Hidden
    <2>2. ASSUME NEW w \in CtxArgs(a)
          PROVE  w = <<a, Slot(w) + 1>> /\ Slot(w) < NumCtx /\ Slot(w) \in Int
      <3>1. PICK j \in 1 .. NumCtx : w = <<a, j>>
        BY DEF CtxArgs
      <3>2. Slot(w) = j - 1
        BY <2>0, <3>1, SlotOfCtx
      <3> QED
        BY <3>1, <3>2, CtxFinite
    <2>3. ASSUME NEW w \in LocalArgs(a)
          PROVE  NumCtx <= Slot(w) /\ Slot(w) = IndexOf(w) /\ Slot(w) \in Nat
      BY <2>0, SlotOfLocal, LocalAfterCtx
    <2>4. CASE u \in CtxArgs(a) /\ v \in CtxArgs(a)
      BY <2>2, <2>4
    <2>5. CASE u \in LocalArgs(a) /\ v \in LocalArgs(a)
      <3>1. IndexOf(u) = IndexOf(v) /\ IndexOf(u) \in Nat
        BY <2>3, <2>5
      <3> QED
        BY <2>1, <3>1, BeforeTotal, IndexInjective
    <2>6. CASE u \in CtxArgs(a) /\ v \in LocalArgs(a)
      BY <2>2, <2>3, <2>6, CtxFinite
    <2>7. CASE u \in LocalArgs(a) /\ v \in CtxArgs(a)
      BY <2>2, <2>3, <2>7, CtxFinite
    <2> QED
      BY <2>1, <2>4, <2>5, <2>6, <2>7 DEF HiddenArgs
  <1> QED
    BY <1>1, <1>2

\* So what a call stores is found where its slot says.
LEMMA StoredIsFound ==
  ASSUME Typed, NEW a \in {0} \cup DOMAIN acts, NEW v \in Given(a), Slot(v) \in Slots
  PROVE  Filled(a)[Slot(v)] = v
  <1>1. ~ Before(v, v)
    <2>1. v \in Hidden
      BY DEF Given, Hidden
    <2> QED
      BY <2>1, HiddenType DEF Before
  <1>2. LastInto(Slot(v), a) = {v}
    BY <1>1, GivenDistinct DEF LastInto
  <1> QED
    BY <1>2 DEF Filled

-----------------------------------------------------------------------------
(* Reads.                                                                  *)

\* A call whose ctx parameters come first leaves every slot it may read
\* referring to the value the read means.
LEMMA FilledMeans ==
  ASSUME Typed, CtxFirst, NEW a \in {0} \cup DOMAIN acts
  PROVE  ReadsMeant(a, Filled(a))
  <1> SUFFICES ASSUME NEW v \in Readable(a)
               PROVE  Slot(v) \in Slots /\ Filled(a)[Slot(v)] = Meant(a, v)
    BY DEF ReadsMeant
  <1>0. \A b \in DOMAIN acts : b # 0
    BY DEF Typed
  <1>1. CASE a = 0
    <2>1. v \in HiddenParams /\ v \in Hidden /\ v \in Given(a) /\ v[1] = 0
      BY <1>1 DEF Readable, Given, Hidden, HiddenParams
    <2>2. Slot(v) \in Slots
      BY <2>1, IndexType DEF Slot
    <2>3. Filled(a)[Slot(v)] = v
      BY <2>1, <2>2, StoredIsFound
    <2> QED
      BY <1>1, <2>2, <2>3 DEF Meant
  <1>2. CASE a # 0
    <2>0. a \in DOMAIN acts /\ Given(a) = HiddenArgs(a)
      BY <1>2 DEF Given
    <2>1. ASSUME NEW w \in HiddenArgs(a)
          PROVE  w[1] = a /\ Slot(w) \in Slots /\ Filled(a)[Slot(w)] = w
      <3>1. CASE w \in CtxArgs(a)
        <4>1. PICK j \in 1 .. NumCtx : w = <<a, j>>
          BY <3>1 DEF CtxArgs
        <4>2. Slot(w) \in Slots
          BY <2>0, <4>1, SlotOfCtx
        <4> QED
          BY <2>0, <4>1, <4>2, StoredIsFound
      <3>2. CASE w \in LocalArgs(a)
        <4>1. w \in Hidden /\ w[1] = a
          BY <2>0, <3>2 DEF Hidden, HiddenArgs, LocalArgs
        <4>2. Slot(w) \in Slots
          BY <2>0, <3>2, <4>1, SlotOfLocal, IndexType
        <4> QED
          BY <2>0, <4>1, <4>2, StoredIsFound
      <3> QED
        BY <3>1, <3>2 DEF HiddenArgs
    <2>2. ASSUME NEW j \in 1 .. NumCtx
          PROVE  /\ <<a, j>> \in HiddenArgs(a)
                 /\ j - 1 \in Slots
                 /\ Filled(a)[j - 1] = <<a, j>>
      <3>1. <<a, j>> \in HiddenArgs(a)
        BY DEF HiddenArgs, CtxArgs
      <3> QED
        BY <2>0, <2>1, <3>1, SlotOfCtx
    <2>3. CASE v \in HiddenArgs(a)
      BY <2>1, <2>3 DEF Meant
    <2>4. CASE v \in {<<0, i>> : i \in CtxParams}
      <3>1. PICK i \in CtxParams : v = <<0, i>>
        BY <2>4
      <3>2. v[1] = 0 /\ v[2] = i
        BY <3>1
      <3>3. Slot(v) = Rank(i) - 1 /\ Rank(i) \in 1 .. NumCtx
        BY <3>1, <3>2, CtxParamIndex, RankType DEF Slot
      <3>4. v \notin HiddenArgs(a)
        BY <1>2, <2>1, <3>2
      <3>5. Meant(a, v) = <<a, Rank(i)>>
        BY <1>2, <3>2, <3>4 DEF Meant
      <3> QED
        BY <2>2, <3>3, <3>5
    <2>5. CASE v \in UNION {CtxArgs(b) : b \in DOMAIN acts} /\ v \notin HiddenArgs(a)
      <3>1. PICK b \in DOMAIN acts, j \in 1 .. NumCtx : v = <<b, j>>
        BY <2>5 DEF CtxArgs
      <3>2. v[1] = b /\ v[2] = j /\ b # 0
        BY <1>0, <3>1
      <3>3. Slot(v) = j - 1
        BY <3>1, SlotOfCtx
      <3>4. Meant(a, v) = <<a, j>>
        BY <1>2, <2>5, <3>2 DEF Meant
      <3> QED
        BY <2>2, <3>3, <3>4
    <2> QED
      BY <1>2, <2>3, <2>4, <2>5 DEF Readable
  <1> QED
    BY <1>1, <1>2

\* The layout is static: the program that is compiled does not change.
LEMMA LayoutStatic ==
  ASSUME params' = params, acts' = acts
  PROVE  /\ (CtxFirst <=> CtxFirst') /\ Slots' = Slots /\ Hidden' = Hidden
         /\ (ReadsMeant(entered, slots)' <=> ReadsMeant(entered', slots'))
  <1>1. CtxParams' = CtxParams /\ (CtxFirst <=> CtxFirst')
    BY DEF CtxParams, CtxFirst
  <1>2. NumCtx' = NumCtx
    BY <1>1 DEF NumCtx
  <1>3. \A a : CtxArgs(a)' = CtxArgs(a) /\ LocalArgs(a)' = LocalArgs(a)
    BY <1>2 DEF CtxArgs, LocalArgs
  <1>4. HiddenParams' = HiddenParams /\ \A a : HiddenArgs(a)' = HiddenArgs(a)
    BY <1>3 DEF HiddenParams, HiddenArgs
  <1>5. Hidden' = Hidden
    BY <1>4 DEF Hidden
  <1>6. Slots' = Slots /\ \A v : IndexOf(v)' = IndexOf(v)
    BY <1>5 DEF Slots, IndexOf
  <1>7. \A v : Slot(v)' = Slot(v)
    BY <1>2, <1>6 DEF Slot
  <1>8. \A i : Rank(i)' = Rank(i)
    BY <1>1 DEF Rank
  <1>9. Readable(entered)' = Readable(entered')
    BY <1>1, <1>3, <1>4 DEF Readable
  <1>10. \A v : Meant(entered, v)' = Meant(entered', v)
    BY <1>4, <1>8 DEF Meant
  <1> QED
    BY <1>1, <1>5, <1>6, <1>7, <1>9, <1>10 DEF ReadsMeant

\* The slots a call fills hold hidden values.
LEMMA FilledType ==
  ASSUME NEW a \in {0} \cup DOMAIN acts
  PROVE  Filled(a) \in [Slots -> Hidden \cup {Unset}]
  <1>1. \A s : LastInto(s, a) \subseteq Hidden
    BY DEF LastInto, Given, Hidden
  <1> QED
    BY <1>1 DEF Filled

\* Every reachable state is well-typed, for every action function: a hidden
\* frame has a slot for each hidden value and refers to nothing else.
THEOREM TypeCorrect == Spec => []TypeOK
  <1>1. Init => TypeOK
    BY DEF Init, TypeOK
  <1>2. TypeOK /\ [Next]_vars => TypeOK'
    <2> SUFFICES ASSUME TypeOK, [Next]_vars PROVE TypeOK'
      OBVIOUS
    <2>1. ASSUME NEW a \in {0} \cup DOMAIN acts, Enter(a) PROVE TypeOK'
      <3>1. params' = params /\ acts' = acts /\ entered' = a /\ slots' = Filled(a)
        BY <2>1 DEF Enter
      <3>2. Slots' = Slots /\ Hidden' = Hidden
        BY <3>1, LayoutStatic
      <3>3. slots' \in [Slots -> Hidden \cup {Unset}]
        BY <3>1, FilledType
      <3> QED
        BY <3>1, <3>2, <3>3 DEF TypeOK
    <2>2. CASE UNCHANGED vars
      <3>1. Slots' = Slots /\ Hidden' = Hidden
        BY <2>2, LayoutStatic DEF vars
      <3> QED
        BY <2>2, <3>1 DEF TypeOK, vars
    <2> QED
      BY <2>1, <2>2 DEF Next, Construct, Resume
  <1> QED
    BY <1>1, <1>2, PTL DEF Spec

\* In every action function whose ctx parameters precede its local ones,
\* whatever an activation reads through its hidden frame is what the caller
\* passed for that variable in that very call.
THEOREM CtxFirstReadsTheorem == Spec => []CtxFirstReads
  <1>1. Init => CtxFirstReads
    BY DEF Init, CtxFirstReads, ReadsWhatWasPassed
  <1>2. TypeOK /\ CtxFirstReads /\ [Next]_vars => CtxFirstReads'
    <2> SUFFICES ASSUME TypeOK, CtxFirstReads, [Next]_vars PROVE CtxFirstReads'
      OBVIOUS
    <2>1. ASSUME NEW a \in {0} \cup DOMAIN acts, Enter(a) PROVE CtxFirstReads'
      <3>1. params' = params /\ acts' = acts /\ entered' = a /\ slots' = Filled(a)
        BY <2>1 DEF Enter
      <3>2. SUFFICES ASSUME CtxFirst PROVE ReadsMeant(entered, slots)'
        BY <3>1, LayoutStatic DEF CtxFirstReads, ReadsWhatWasPassed
      <3>3. ReadsMeant(a, Filled(a))
        BY <3>2, ParamsTyped, FilledMeans
      <3> QED
        BY <3>1, <3>3, LayoutStatic
    <2>2. CASE UNCHANGED vars
      <3>1. params' = params /\ acts' = acts /\ entered' = entered /\ slots' = slots
        BY <2>2 DEF vars
      <3> QED
        BY <3>1, LayoutStatic DEF CtxFirstReads, ReadsWhatWasPassed
    <2> QED
      BY <2>1, <2>2 DEF Next, Construct, Resume
  <1> QED
    BY <1>1, <1>2, TypeCorrect, PTL DEF Spec
==============================================================================
