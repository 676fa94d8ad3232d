----------------------------- MODULE Dict_proofs -----------------------------
(***************************************************************************)
(* Proofs about the dictionary, for every set of keys and values, every    *)
(* hash function and a table of any size.                                  *)
(***************************************************************************)
EXTENDS Dict, FiniteSetTheorems, TLAPS

-----------------------------------------------------------------------------
(* Slots of a table of n, as a circle.                                     *)

\* How far slot i is from the home of k, and from slot s.
From(n, i, k) == (i + n - (HashOf[k] % n)) % n
Behind(n, i, s) == (i + n - s) % n
After(n, i) == (i + 1) % n

\* Fact: what the remainder is for everything the dictionary divides.
LEMMA Wrapped ==
  ASSUME NEW n \in Nat \ {0}, NEW x \in Nat, x < 2 * n
  PROVE  x % n = IF x < n THEN x ELSE x - n
<1>1. CASE x < n
  BY <1>1
<1>2. CASE x >= n
  BY <1>2
<1> QED BY <1>1, <1>2

\* Fact: a home is a slot.
LEMMA HomeIsSlot ==
  ASSUME NEW n \in Nat \ {0}, NEW k \in Keys
  PROVE  HashOf[k] % n \in 0 .. n - 1
<1>1. HashOf[k] \in Nat
  BY DictAssumption
<1> QED BY <1>1

\* Fact: the distances of one key number the slots, from its home on.
LEMMA Distances ==
  ASSUME NEW n \in Nat \ {0}, NEW k \in Keys
  PROVE  /\ \A i \in 0 .. n - 1 : From(n, i, k) \in 0 .. n - 1
         /\ \A i, j \in 0 .. n - 1 : From(n, i, k) = From(n, j, k) => i = j
         /\ From(n, HashOf[k] % n, k) = 0
         /\ \A i \in 0 .. n - 1 :
               From(n, After(n, i), k) = IF From(n, i, k) = n - 1 THEN 0 ELSE From(n, i, k) + 1
<1> DEFINE h == HashOf[k] % n
           F(i) == IF i < h THEN i + n - h ELSE i - h
<1>1. h \in 0 .. n - 1
  BY HomeIsSlot
<1>2. ASSUME NEW i \in 0 .. n - 1 PROVE From(n, i, k) = F(i)
  <2> DEFINE x == i + n - h
  <2>1. x \in Nat /\ x < 2 * n
    BY <1>1
  <2> HIDE DEF x
  <2>2. x % n = IF x < n THEN x ELSE x - n
    BY <2>1, Wrapped
  <2> QED BY <1>1, <2>2 DEF From, x
<1>3. ASSUME NEW i \in 0 .. n - 1 PROVE After(n, i) = IF i = n - 1 THEN 0 ELSE i + 1
  BY Wrapped DEF After
<1> HIDE DEF h
<1>4. \A i \in 0 .. n - 1 : From(n, i, k) \in 0 .. n - 1
  BY <1>1, <1>2
<1>5. \A i, j \in 0 .. n - 1 : From(n, i, k) = From(n, j, k) => i = j
  BY <1>1, <1>2
<1>6. From(n, h, k) = 0
  BY <1>1, <1>2
<1>7. ASSUME NEW i \in 0 .. n - 1
      PROVE  From(n, After(n, i), k) = IF From(n, i, k) = n - 1 THEN 0 ELSE From(n, i, k) + 1
  BY <1>1, <1>2, <1>3
<1> QED BY <1>4, <1>5, <1>6, <1>7 DEF h

\* Fact: a slot forward from i, every slot is one farther behind, but for the
\* slot itself.
LEMMA BehindAfter ==
  ASSUME NEW n \in Nat \ {0}, NEW i \in 0 .. n - 1
  PROVE  /\ After(n, i) \in 0 .. n - 1
         /\ \A s \in 0 .. n - 1 :
              /\ Behind(n, i, s) \in 0 .. n - 1
              /\ Behind(n, i, s) = 0 <=> s = i
              /\ Behind(n, After(n, i), s) = IF Behind(n, i, s) = n - 1 THEN 0
                                             ELSE Behind(n, i, s) + 1
<1>1. ASSUME NEW j \in 0 .. n - 1, NEW s \in 0 .. n - 1
      PROVE  Behind(n, j, s) = IF j < s THEN j + n - s ELSE j - s
  <2> DEFINE x == j + n - s
  <2>1. x \in Nat /\ x < 2 * n
    OBVIOUS
  <2> HIDE DEF x
  <2>2. x % n = IF x < n THEN x ELSE x - n
    BY <2>1, Wrapped
  <2> QED BY <2>2 DEF Behind, x
<1>2. After(n, i) = IF i = n - 1 THEN 0 ELSE i + 1
  BY Wrapped DEF After
<1> QED BY <1>1, <1>2

\* Fact: every slot comes after the one before it.
LEMMA SlotBefore ==
  ASSUME NEW n \in Nat \ {0}, NEW i \in 0 .. n - 1
  PROVE  (i + n - 1) % n \in 0 .. n - 1 /\ After(n, (i + n - 1) % n) = i
<1> DEFINE x == i + n - 1
<1>1. x \in Nat /\ x < 2 * n /\ (x < n <=> i = 0) /\ x - n = i - 1 /\ (i = 0 => x = n - 1)
  OBVIOUS
<1> HIDE DEF x
<1>4. x % n = IF x < n THEN x ELSE x - n
  BY <1>1, Wrapped
<1>2. x % n = IF i = 0 THEN n - 1 ELSE i - 1
  BY <1>1, <1>4
<1>3. After(n, n - 1) = 0 /\ (i # 0 => After(n, i - 1) = i)
  BY Wrapped DEF After
<1> QED BY <1>2, <1>3 DEF x

\* Fact: what is known of the slots up to p behind i, and of i, is known of
\* those up to p + 1 behind the next one; and a slot it is not true of is
\* farther behind than that.
LEMMA NextBehind ==
  ASSUME NEW n \in Nat \ {0}, NEW i \in 0 .. n - 1, NEW p \in Nat, p < n, NEW T, i \in T,
         \A s \in 0 .. n - 1 : Behind(n, i, s) \in 1 .. p => s \in T,
         \E s \in 0 .. n - 1 : s \notin T
  PROVE  /\ p + 1 < n
         /\ \A s \in 0 .. n - 1 : Behind(n, After(n, i), s) \in 1 .. p + 1 => s \in T
<1>1. \A s \in 0 .. n - 1 :
        /\ Behind(n, i, s) \in 0 .. n - 1
        /\ Behind(n, i, s) = 0 <=> s = i
        /\ Behind(n, After(n, i), s) = IF Behind(n, i, s) = n - 1 THEN 0 ELSE Behind(n, i, s) + 1
  BY BehindAfter
<1>2. \A s \in 0 .. n - 1 : Behind(n, i, s) \in 0 .. p => s \in T
  BY <1>1
<1> QED BY <1>1, <1>2

-----------------------------------------------------------------------------
(* Tables.                                                                 *)

IsTable(t) == \E n \in Nat : n >= 4 /\ t \in [0 .. n - 1 -> Entries \cup {Free}]
Taken(t) == {i \in DOMAIN t : t[i] # Free}

\* Fact: the slots of a table are numbered up to its capacity, and as long as
\* fewer are taken than there are, one is free.
LEMMA Tables ==
  ASSUME NEW t, IsTable(t)
  PROVE  /\ Capacity(t) \in Nat /\ Capacity(t) >= 4
         /\ DOMAIN t = 0 .. Capacity(t) - 1
         /\ t \in [0 .. Capacity(t) - 1 -> Entries \cup {Free}]
         /\ IsFiniteSet(Taken(t)) /\ Cardinality(Taken(t)) \in Nat
         /\ Cardinality(Taken(t)) < Capacity(t) => \E i \in DOMAIN t : t[i] = Free
<1>1. PICK n \in Nat : n >= 4 /\ t \in [0 .. n - 1 -> Entries \cup {Free}]
  BY DEF IsTable
<1>2. DOMAIN t = 0 .. n - 1
  BY <1>1
<1>3. IsFiniteSet(DOMAIN t) /\ Cardinality(DOMAIN t) = n
  <2>1. IsFiniteSet(0 .. n - 1) /\ Cardinality(0 .. n - 1) = n
    BY <1>1, FS_Interval
  <2> QED BY <1>2, <2>1
<1>4. Taken(t) \subseteq DOMAIN t
  BY DEF Taken
<1>5. IsFiniteSet(Taken(t))
  BY <1>3, <1>4, FS_Subset
<1>6. Cardinality(Taken(t)) \in Nat
  BY <1>5, FS_CardinalityType
<1>7. ASSUME Cardinality(Taken(t)) < n PROVE \E i \in DOMAIN t : t[i] = Free
  BY <1>3, <1>7 DEF Taken
<1> QED BY <1>1, <1>2, <1>3, <1>5, <1>6, <1>7 DEF Capacity

Write(t, j, x) == [t EXCEPT ![j] = x]

\* Fact: what a table is after one of its slots was written.
LEMMA Written ==
  ASSUME NEW t, IsTable(t), NEW j \in DOMAIN t, NEW x \in Entries \cup {Free}
  PROVE  LET u == Write(t, j, x)
         IN  /\ IsTable(u) /\ DOMAIN u = DOMAIN t /\ Capacity(u) = Capacity(t)
             /\ u[j] = x /\ \A i \in DOMAIN t \ {j} : u[i] = t[i]
             /\ Taken(u) = IF x = Free THEN Taken(t) \ {j} ELSE Taken(t) \cup {j}
             /\ Cardinality(Taken(u)) = Cardinality(Taken(t)) - (IF j \in Taken(t) THEN 1 ELSE 0)
                                          + (IF x = Free THEN 0 ELSE 1)
<1> DEFINE u == Write(t, j, x)
<1>1. DOMAIN u = DOMAIN t /\ u[j] = x /\ \A i \in DOMAIN t \ {j} : u[i] = t[i]
  BY DEF Write
<1>2. IsTable(u)
  BY DEF IsTable, Write
<1> HIDE DEF u
<1>3. Capacity(u) = Capacity(t)
  BY <1>1 DEF Capacity
<1>4. Taken(u) = IF x = Free THEN Taken(t) \ {j} ELSE Taken(t) \cup {j}
  BY <1>1 DEF Taken
<1>5. IsFiniteSet(Taken(t)) /\ Cardinality(Taken(t)) \in Nat
  BY Tables
<1>6. /\ Cardinality(Taken(t) \ {j}) = IF j \in Taken(t) THEN Cardinality(Taken(t)) - 1
                                       ELSE Cardinality(Taken(t))
      /\ Cardinality(Taken(t) \cup {j}) = IF j \in Taken(t) THEN Cardinality(Taken(t))
                                          ELSE Cardinality(Taken(t)) + 1
  BY <1>5, FS_AddElement, FS_RemoveElement
<1>7. Cardinality(Taken(u)) = Cardinality(Taken(t)) - (IF j \in Taken(t) THEN 1 ELSE 0)
                              + (IF x = Free THEN 0 ELSE 1)
  BY <1>4, <1>5, <1>6
<1> QED BY <1>1, <1>2, <1>3, <1>4, <1>7 DEF u

\* Fact: a new table is free everywhere.
LEMMA Blanks ==
  ASSUME NEW n \in Nat, n >= 4
  PROVE  /\ IsTable(Blank(n)) /\ Capacity(Blank(n)) = n /\ DOMAIN Blank(n) = 0 .. n - 1
         /\ Taken(Blank(n)) = {} /\ Cardinality(Taken(Blank(n))) = 0
<1>1. IsTable(Blank(n)) /\ DOMAIN Blank(n) = 0 .. n - 1
  BY DEF Blank, IsTable
<1>2. Capacity(Blank(n)) = n
  BY <1>1, FS_Interval DEF Capacity
<1>3. Taken(Blank(n)) = {}
  BY DEF Taken, Blank
<1> QED BY <1>1, <1>2, <1>3, FS_EmptySet

\* Fact: no table is the empty sequence, which stands for having none.
LEMMA TableOrNone ==
  /\ \A t : IsTable(t) => t # << >>
  /\ DOMAIN << >> = {}
<1>1. DOMAIN << >> = {}
  OBVIOUS
<1>2. ASSUME NEW t, IsTable(t) PROVE 0 \in DOMAIN t
  BY <1>2 DEF IsTable
<1> QED BY <1>1, <1>2

-----------------------------------------------------------------------------
(* The inductive invariant.                                                *)

Outcomes == Values \cup BOOLEAN \cup {Missing}

D(i, k) == From(capacity, i, k)
Remaining == {j \in DOMAIN old : j >= counter /\ old[j] # Free}
Requested == [key |-> request.key, value |-> request.value]
Growing == old # << >>
Probes == phase \in {"inserting", "looking", "removing"}

Typed ==
  /\ IsTable(entries)
  /\ Growing => IsTable(old)
  /\ size \in Nat /\ counter \in Nat /\ phase \in Phases
  /\ request \in [kind : Kinds, key : Keys, value : Values]
  /\ cursor \in [key : Keys, value : Values, index : Nat, distance : Nat, probes : Nat]
  /\ cursor.index \in Slots
  /\ answer \in Outcomes

\* What a phase says of the call, and of the table that is replaced.
Phased ==
  /\ phase \in {"growing", "inserting"} => request.kind = "insert"
  /\ phase = "looking" => request.kind \in {"get", "contains"}
  /\ phase \in {"removing", "shifting"} => request.kind = "remove"
  /\ phase \in {"looking", "removing"} => cursor.key = request.key
  /\ phase = "growing" => Growing
  /\ Growing => /\ phase \in {"growing", "inserting"}
                /\ capacity = 2 * Capacity(old) /\ counter <= Capacity(old)
  /\ ~ Growing => counter = 0

\* There is a free slot, whatever is still to be inserted: while the table
\* grows, one more was looked at in the old table for every entry.
Roomy ==
  LET taken == Cardinality(Occupied)
  IN  /\ size = taken - (IF phase = "shifting" THEN 1 ELSE 0)
      /\ taken < capacity
      /\ phase = "inserting" /\ ~ Growing => taken + 1 < capacity
      /\ Growing => taken + (IF phase = "inserting" THEN 1 ELSE 0) <= counter

\* A probe for k that stands at slot i has met, in every slot from the home of
\* k on, an entry at least as far from its own home.
Passed(k, i) ==
  \A s \in Slots : D(s, k) < D(i, k) =>
     s \in Occupied /\ D(s, k) <= D(s, entries[s].key)

Ordered == \A i \in Occupied : Passed(entries[i].key, i)

\* The probe of the call in progress: it is ahead of the entry it looks for,
\* and every slot it went through is taken, also before a displacement.
OnPath ==
  Probes =>
    /\ cursor.distance = D(cursor.index, cursor.key)
    /\ Passed(cursor.key, cursor.index)
    /\ \A i \in Occupied : entries[i].key = cursor.key => cursor.distance <= D(i, cursor.key)
    /\ cursor.probes < capacity
    /\ \A s \in Slots : Behind(capacity, cursor.index, s) \in 1 .. cursor.probes => s \in Occupied

Hole == IF phase = "shifting" THEN {cursor.index} ELSE {}

\* No key is stored twice, but for the one an insertion gives a new value, and
\* the hole a removal leaves behind.
Unique ==
  /\ \A i, j \in Occupied \ Hole : entries[i].key = entries[j].key => i = j
  /\ \A i, j \in Remaining : old[i].key = old[j].key => i = j
  /\ \A i \in Occupied, j \in Remaining : entries[i].key # old[j].key
  /\ phase = "inserting" =>
       /\ \A j \in Remaining : old[j].key # cursor.key
       /\ \A i \in Occupied : entries[i].key = cursor.key => ~ Growing /\ InHand = Requested
       /\ ~ Growing => InHand = Requested \/ \E i \in Occupied : entries[i] = Requested
  /\ phase = "shifting" =>
       /\ cursor.index \in Occupied
       /\ \A i \in Occupied \ Hole : entries[i].key # request.key

IInv == Typed /\ Phased /\ Roomy /\ Ordered /\ OnPath /\ Unique

-----------------------------------------------------------------------------
(* What a state that satisfies the invariant is like.                      *)

\* Fact: the table of the dictionary, and the one it replaces.
LEMMA Basics ==
  ASSUME Typed
  PROVE  /\ capacity \in Nat /\ capacity >= 4 /\ DOMAIN entries = Slots
         /\ Occupied = Taken(entries) /\ Cardinality(Occupied) \in Nat
         /\ \A i \in Slots : i \in Occupied <=> entries[i] # Free
         /\ \A i \in Occupied : i \in Slots /\ entries[i] \in Entries
         /\ Cardinality(Occupied) < capacity => \E i \in Slots : i \notin Occupied
         /\ Growing => /\ Capacity(old) \in Nat /\ Capacity(old) >= 4
                       /\ DOMAIN old = 0 .. Capacity(old) - 1
         /\ \A j \in Remaining : j \in DOMAIN old /\ old[j] \in Entries
         /\ ~ Growing => Remaining = {}
<1>1. IsTable(entries) /\ (Growing => IsTable(old))
  BY DEF Typed
<1>2. Occupied = Taken(entries)
  BY DEF Occupied, Taken
<1>3. /\ capacity \in Nat /\ capacity >= 4 /\ DOMAIN entries = Slots
      /\ entries \in [Slots -> Entries \cup {Free}]
      /\ Cardinality(Occupied) \in Nat
      /\ Cardinality(Occupied) < capacity => \E i \in Slots : entries[i] = Free
  BY <1>1, <1>2, Tables DEF capacity, Slots
<1>4. \A i \in Slots : i \in Occupied <=> entries[i] # Free
  BY <1>3 DEF Occupied
<1>5. \A i \in Occupied : i \in Slots /\ entries[i] \in Entries
  BY <1>3 DEF Occupied
<1>6. Growing => /\ Capacity(old) \in Nat /\ Capacity(old) >= 4
                 /\ DOMAIN old = 0 .. Capacity(old) - 1
                 /\ old \in [DOMAIN old -> Entries \cup {Free}]
  BY <1>1, Tables
<1>7. ~ Growing => Remaining = {}
  BY TableOrNone DEF Growing, Remaining
<1>8. \A j \in Remaining : j \in DOMAIN old /\ old[j] \in Entries
  BY <1>6, <1>7 DEF Remaining
<1> QED BY <1>2, <1>3, <1>4, <1>5, <1>6, <1>7, <1>8

\* Fact: the slots on the way from a key's home.
LEMMA Ways ==
  ASSUME Typed, NEW k \in Keys
  PROVE  /\ Home(k) \in Slots /\ D(Home(k), k) = 0
         /\ \A i \in Slots :
              /\ D(i, k) \in 0 .. capacity - 1
              /\ NextSlot(i) \in Slots
              /\ D(NextSlot(i), k) = IF D(i, k) = capacity - 1 THEN 0 ELSE D(i, k) + 1
         /\ \A i, j \in Slots : D(i, k) = D(j, k) => i = j
<1>1. capacity \in Nat \ {0}
  BY Basics
<1>2. \A i \in Slots : NextSlot(i) = After(capacity, i) /\ After(capacity, i) \in Slots
  BY <1>1, BehindAfter DEF NextSlot, After, Slots
<1> QED BY <1>1, <1>2, Distances, HomeIsSlot DEF Slots, D, Home

\* Fact: how far an entry is from its home.
LEMMA DistanceIs == \A i : Distance(i) = D(i, entries[i].key)
BY DEF Distance, D, From, Home

\* Fact: a step that keeps the capacity keeps the distances.
LEMMA Same ==
  ASSUME capacity' = capacity
  PROVE  Slots' = Slots /\ \A i, k : D(i, k)' = D(i, k)
BY DEF Slots, D

\* Fact: a probe in a table that has a free slot does not run out.
LEMMA NotAllAround ==
  ASSUME Typed, Roomy, OnPath, Probes, cursor.index \in Occupied
  PROVE  /\ cursor.probes + 1 < capacity
         /\ \A s \in Slots :
              Behind(capacity, NextSlot(cursor.index), s) \in 1 .. cursor.probes + 1 => s \in Occupied
<1>1. /\ capacity \in Nat \ {0} /\ cursor.index \in 0 .. capacity - 1
      /\ cursor.probes \in Nat /\ cursor.probes < capacity
  BY Basics DEF Typed, OnPath, Slots
<1>2. \A s \in 0 .. capacity - 1 :
        Behind(capacity, cursor.index, s) \in 1 .. cursor.probes => s \in Occupied
  BY DEF OnPath, Slots
<1>3. \E s \in 0 .. capacity - 1 : s \notin Occupied
  BY Basics DEF Roomy, Slots
<1>4. After(capacity, cursor.index) = NextSlot(cursor.index)
  BY DEF After, NextSlot
<1>5. /\ cursor.probes + 1 < capacity
      /\ \A s \in 0 .. capacity - 1 :
           Behind(capacity, After(capacity, cursor.index), s) \in 1 .. cursor.probes + 1
             => s \in Occupied
  BY <1>1, <1>2, <1>3, NextBehind
<1> QED BY <1>4, <1>5 DEF Slots

-----------------------------------------------------------------------------
(* Steps that leave the table as it is.                                    *)

\* Fact: what such a step keeps.
LEMMA TableKept ==
  ASSUME UNCHANGED entries
  PROVE  /\ capacity' = capacity /\ Slots' = Slots /\ Occupied' = Occupied
         /\ \A i, k : D(i, k)' = D(i, k)
         /\ \A i, k : Passed(k, i) => Passed(k, i)'
         /\ Ordered => Ordered'
<1>1. capacity' = capacity
  BY DEF capacity
<1>2. Occupied' = Occupied
  BY DEF Occupied
<1>3. Slots' = Slots /\ \A i, k : D(i, k)' = D(i, k)
  BY <1>1, Same
<1>4. ASSUME NEW i, NEW k, Passed(k, i) PROVE Passed(k, i)'
  BY <1>2, <1>3, <1>4 DEF Passed
<1>5. Ordered => Ordered'
  BY <1>2, <1>4 DEF Ordered
<1> QED BY <1>1, <1>2, <1>3, <1>4, <1>5

\* Fact: a probe starts at the home of its key, having passed nothing.
LEMMA ProbeStarts ==
  ASSUME IInv, UNCHANGED entries, NEW k \in Keys, NEW v \in Values, cursor' = Start(k, v)
  PROVE  /\ OnPath'
         /\ cursor' \in [key : Keys, value : Values, index : Nat, distance : Nat, probes : Nat]
         /\ cursor'.index \in Slots'
<1>1. Typed
  BY DEF IInv
<1>2. capacity \in Nat /\ capacity >= 4 /\ \A i \in Occupied : i \in Slots
  BY <1>1, Basics
<1>3. Home(k) \in Slots /\ D(Home(k), k) = 0 /\ \A i \in Slots : D(i, k) \in Nat
  BY <1>1, <1>2, Ways
<1>4. /\ cursor'.key = k /\ cursor'.value = v /\ cursor'.index = Home(k)
      /\ cursor'.distance = 0 /\ cursor'.probes = 0
  BY DEF Start
<1>5. /\ cursor' \in [key : Keys, value : Values, index : Nat, distance : Nat, probes : Nat]
      /\ cursor'.index \in Slots'
  BY <1>2, <1>3, <1>4, TableKept DEF Slots, Start
<1>6. Passed(cursor.key, cursor.index)'
  <2>1. Passed(k, Home(k))
    BY <1>2, <1>3 DEF Passed, Slots
  <2> QED BY <2>1, <1>4, TableKept
<1>7. OnPath'
  BY <1>2, <1>3, <1>4, <1>6, TableKept DEF OnPath, Slots
<1> QED BY <1>5, <1>7

\* Fact: a call that does not make the table grow begins.
LEMMA CallKeeps ==
  ASSUME IInv, NEW k \in Keys, NEW v \in Values,
         (~ MustGrow /\ Insert(k, v)) \/ Remove(k) \/ Look("contains", k) \/ Look("get", k)
  PROVE  IInv'
<1> USE DEF IInv
<1>1. UNCHANGED <<entries, size, old, counter, answer>> /\ phase = "idle"
  BY DEF Insert, Remove, Look
<1>2. ~ Growing /\ ~ Growing'
  BY <1>1 DEF Phased, Growing
<1>3. \E w \in Values : cursor' = Start(k, w)
  BY DEF Insert, Remove, Look, Typed
<1>4. /\ request' \in [kind : Kinds, key : Keys, value : Values] /\ request'.key = k
      /\ CASE phase' = "inserting" -> request'.kind = "insert"
           [] phase' = "removing" -> request'.kind = "remove"
           [] phase' = "looking" -> request'.kind \in {"get", "contains"}
      /\ phase' \in {"inserting", "removing", "looking"}
  <2>1. request \in [kind : Kinds, key : Keys, value : Values]
    BY DEF Typed
  <2>2. CASE ~ MustGrow /\ Insert(k, v)
    BY <2>2 DEF Insert, Kinds
  <2>3. CASE Remove(k)
    BY <2>1, <2>3 DEF Remove, Kinds
  <2>4. ASSUME NEW kind \in {"get", "contains"}, Look(kind, k)
        PROVE  /\ request' \in [kind : Kinds, key : Keys, value : Values] /\ request'.key = k
               /\ request'.kind = kind /\ phase' = "looking"
    BY <2>1, <2>4 DEF Look, Kinds
  <2> QED BY <2>2, <2>3, <2>4
<1>5. Typed'
  <2>1. phase' \in Phases
    BY DEF Insert, Remove, Look, Phases
  <2> QED BY <1>1, <1>2, <1>3, <1>4, <2>1, ProbeStarts DEF Typed
<1>6. Phased'
  <2>1. cursor'.key = k
    BY <1>3 DEF Start
  <2> QED BY <1>1, <1>2, <1>4, <2>1 DEF Phased
<1>7. Roomy'
  <2>1. phase' # "shifting"
    BY DEF Insert, Remove, Look
  <2>2. capacity \in Nat /\ capacity >= 4 /\ Cardinality(Occupied) \in Nat
    BY Basics
  <2>3. phase' = "inserting" => Cardinality(Occupied) + 1 < capacity
    BY <1>1, <2>2 DEF Roomy, Insert, Remove, Look, MustGrow
  <2> QED BY <1>1, <1>2, <2>1, <2>2, <2>3, TableKept DEF Roomy
<1>8. Ordered' /\ OnPath'
  BY <1>1, <1>3, ProbeStarts, TableKept
<1>9. Unique'
  <2>1. Remaining' = {} /\ Occupied' = Occupied
    BY <1>1, <1>2, Basics, TableKept DEF Remaining
  <2>2. Hole' = {} /\ Hole = {} /\ phase' # "shifting"
    BY <1>1 DEF Insert, Remove, Look, Hole
  <2>3. phase' = "inserting" => InHand' = Requested'
    BY <1>1 DEF Insert, Remove, Look, InHand, Requested, Start
  <2> QED BY <1>1, <1>2, <2>1, <2>2, <2>3 DEF Unique
<1> QED BY <1>5, <1>6, <1>7, <1>8, <1>9

\* Fact: no probe ever goes all around the table.
LEMMA NeverAround == ASSUME IInv PROVE ~ Exhausted
<1>1. cursor.probes \in Nat /\ capacity \in Nat
  BY Basics DEF IInv, Typed
<1> QED BY <1>1 DEF IInv, OnPath, Exhausted, Probes

\* Fact: a lookup, or a removal that finds nothing, ends.
LEMMA EndKeeps ==
  ASSUME IInv, Found \/ NotFound \/ NothingToRemove \/ AssertionFails
  PROVE  IInv'
<1> USE DEF IInv
<1>1. /\ UNCHANGED <<entries, size, old, counter, request, cursor>>
      /\ phase \in {"looking", "removing"} /\ phase' \in {"idle", "aborted"}
  BY NeverAround DEF Found, NotFound, NothingToRemove, AssertionFails, Return, Probing, Unsuccessful
<1>2. ~ Growing /\ ~ Growing'
  BY <1>1 DEF Phased, Growing
<1>3. Typed'
  <2>1. answer' \in Outcomes
    <3>1. CASE Found
      <4>1. entries[cursor.index].value \in Values
        BY <3>1, Basics DEF Found, AtKey, AtFree, Typed, Entries
      <4> QED BY <3>1, <4>1 DEF Found, Return, Outcomes
    <3>2. CASE NotFound \/ NothingToRemove \/ AssertionFails
      BY <3>2 DEF NotFound, NothingToRemove, AssertionFails, Return, Outcomes
    <3> QED BY <3>1, <3>2
  <2> QED BY <1>1, <1>2, <2>1, TableKept DEF Typed, Phases
<1>4. Phased'
  BY <1>1, <1>2 DEF Phased
<1>5. Roomy'
  BY <1>1, <1>2, TableKept DEF Roomy
<1>6. Ordered' /\ OnPath'
  BY <1>1, TableKept DEF OnPath, Probes
<1>7. Unique'
  <2>1. Remaining' = {} /\ Occupied' = Occupied /\ Hole = {} /\ Hole' = {}
    BY <1>1, <1>2, Basics, TableKept DEF Remaining, Hole
  <2> QED BY <1>1, <2>1 DEF Unique
<1> QED BY <1>3, <1>4, <1>5, <1>6, <1>7

\* Fact: a removal that finds its key makes the slot a hole.
LEMMA RemoveFoundKeeps == ASSUME IInv, RemoveFound PROVE IInv'
<1> USE DEF IInv
<1>1. /\ UNCHANGED <<entries, old, counter, request, cursor, answer>>
      /\ phase = "removing" /\ phase' = "shifting" /\ size' = size - 1 /\ AtKey
  BY DEF RemoveFound, Probing
<1>2. ~ Growing /\ ~ Growing'
  BY <1>1 DEF Phased, Growing
<1>3. /\ cursor.index \in Occupied /\ entries[cursor.index].key = request.key
      /\ Remaining = {} /\ Remaining' = {} /\ Hole = {} /\ Hole' = {cursor.index}
      /\ Occupied' = Occupied
  BY <1>1, <1>2, Basics, TableKept DEF AtKey, AtFree, Phased, Typed, Hole, Remaining
<1>4. Cardinality(Occupied) \in Nat /\ Cardinality(Occupied) >= 1
  <2>1. IsFiniteSet(Occupied)
    BY Basics, Tables DEF Typed
  <2> QED BY <1>3, <2>1, FS_EmptySet, FS_CardinalityType
<1>5. Typed'
  BY <1>1, <1>2, <1>4, TableKept DEF Typed, Phases, Roomy
<1>6. Phased'
  BY <1>1, <1>2 DEF Phased
<1>7. Roomy'
  BY <1>1, <1>2, <1>4, TableKept DEF Roomy
<1>8. Ordered' /\ OnPath'
  BY <1>1, TableKept DEF OnPath, Probes
<1>9. Unique'
  BY <1>1, <1>3 DEF Unique
<1> QED BY <1>5, <1>6, <1>7, <1>8, <1>9

\* Fact: while the table grows, the next of the old entries is taken in hand,
\* and after the last of them the one the call is about.
LEMMA ReinsertKeeps == ASSUME IInv, Reinsert PROVE IInv'
<1> USE DEF IInv
<1>1. /\ UNCHANGED <<entries, size, request, answer>> /\ phase = "growing" /\ Growing
      /\ request.kind = "insert"
  BY DEF Reinsert, Phased
<1>2. /\ capacity \in Nat /\ capacity = 2 * Capacity(old) /\ Capacity(old) \in Nat
      /\ Capacity(old) >= 4 /\ counter \in 0 .. Capacity(old)
      /\ DOMAIN old = 0 .. Capacity(old) - 1
      /\ Cardinality(Occupied) \in Nat /\ Cardinality(Occupied) <= counter
      /\ \A j \in Remaining : j \in DOMAIN old /\ old[j] \in Entries
  BY <1>1, Basics DEF Phased, Roomy, Typed
<1>3. Hole = {} /\ Hole' = {} /\ Occupied' = Occupied /\ Ordered'
  BY <1>1, TableKept DEF Hole, Reinsert
<1>4. ASSUME counter < Capacity(old), old[counter] = Free
      PROVE  IInv'
  <2>1. counter' = counter + 1 /\ UNCHANGED <<phase, cursor, old>>
    BY <1>4 DEF Reinsert
  <2>2. Remaining' = Remaining
    BY <1>2, <1>4, <2>1 DEF Remaining
  <2>3. Typed'
    BY <1>1, <1>2, <2>1, TableKept DEF Typed, Growing
  <2>4. Phased'
    BY <1>1, <1>2, <1>4, <2>1, TableKept DEF Phased, Growing
  <2>5. Roomy'
    BY <1>1, <1>2, <1>3, <2>1, TableKept DEF Roomy, Growing
  <2>6. OnPath'
    BY <1>1, <2>1 DEF OnPath, Probes
  <2>7. Unique'
    BY <1>1, <1>3, <2>1, <2>2 DEF Unique, Growing
  <2> QED BY <1>3, <2>3, <2>4, <2>5, <2>6, <2>7
<1>5. ASSUME counter < Capacity(old), old[counter] # Free
      PROVE  IInv'
  <2>1. /\ counter' = counter + 1 /\ UNCHANGED old /\ phase' = "inserting" /\ Growing'
        /\ cursor' = Start(old[counter].key, old[counter].value)
    BY <1>1, <1>5 DEF Reinsert, Growing
  <2>2. counter \in Remaining /\ Remaining' = Remaining \ {counter}
    BY <1>2, <1>5, <2>1 DEF Remaining
  <2>3. old[counter].key \in Keys /\ old[counter].value \in Values
    BY <1>2, <2>2 DEF Entries
  <2>4. Typed'
    BY <1>1, <1>2, <2>1, <2>3, TableKept, ProbeStarts DEF Typed, Growing, Phases
  <2>5. Phased'
    BY <1>1, <1>2, <1>5, <2>1, TableKept DEF Phased, Growing
  <2>6. Roomy'
    BY <1>1, <1>2, <1>3, <2>1, TableKept DEF Roomy
  <2>7. OnPath'
    BY <1>1, <2>1, <2>3, ProbeStarts
  <2>8. Unique'
    <3>1. cursor'.key = old[counter].key
      BY <2>1 DEF Start
    <3> QED BY <1>1, <1>3, <2>1, <2>2, <3>1 DEF Unique
  <2> QED BY <1>3, <2>4, <2>5, <2>6, <2>7, <2>8
<1>6. ASSUME ~ (counter < Capacity(old))
      PROVE  IInv'
  <2>1. /\ counter' = 0 /\ old' = << >> /\ phase' = "inserting" /\ ~ Growing'
        /\ cursor' = Start(request.key, request.value)
    BY <1>1, <1>6 DEF Reinsert, Growing
  <2>2. request.key \in Keys /\ request.value \in Values
    BY DEF Typed
  <2>3. Remaining' = {} /\ InHand' = Requested'
    BY <1>1, <2>1, TableOrNone DEF Remaining, InHand, Requested, Start
  <2>4. Typed'
    BY <1>1, <1>2, <2>1, <2>2, TableKept, ProbeStarts DEF Typed, Phases
  <2>5. Phased'
    BY <1>1, <2>1 DEF Phased
  <2>6. Roomy'
    BY <1>1, <1>2, <1>3, <2>1, TableKept DEF Roomy
  <2>7. OnPath'
    BY <1>1, <2>1, <2>2, ProbeStarts
  <2>8. Unique'
    BY <1>1, <1>3, <2>1, <2>3 DEF Unique
  <2> QED BY <1>3, <2>4, <2>5, <2>6, <2>7, <2>8
<1> QED BY <1>4, <1>5, <1>6

\* Fact: a probe goes on past an entry that is as far from its home.
LEMMA PassKeeps == ASSUME IInv, Pass PROVE IInv'
<1> USE DEF IInv
<1> DEFINE j == cursor.index
           k == cursor.key
<1>1. /\ UNCHANGED <<entries, size, old, counter, phase, request, answer>>
      /\ Probes /\ Probes' /\ AtFarther /\ cursor' = Advance
  BY DEF Pass, Probing, Probes
<1>2. /\ cursor'.key = k /\ cursor'.value = cursor.value /\ cursor'.index = NextSlot(j)
      /\ cursor'.distance = cursor.distance + 1 /\ cursor'.probes = cursor.probes + 1
      /\ cursor' = [key |-> k, value |-> cursor.value, index |-> NextSlot(j),
                    distance |-> cursor.distance + 1, probes |-> cursor.probes + 1]
  BY <1>1 DEF Typed, Advance
<1>3. /\ capacity \in Nat /\ j \in Slots /\ k \in Keys /\ j \in Occupied
      /\ entries[j].key # k /\ entries[j].key \in Keys /\ D(j, k) <= D(j, entries[j].key)
      /\ \A i \in Occupied : i \in Slots
  BY <1>1, Basics, DistanceIs DEF Typed, AtFarther, AtKey, AtFree, OnPath, Entries
<1>4. /\ NextSlot(j) \in Slots /\ NextSlot(j) \in Nat
      /\ \A i \in Slots : D(i, k) \in 0 .. capacity - 1 /\ (D(i, k) = D(j, k) => i = j)
      /\ D(NextSlot(j), k) = IF D(j, k) = capacity - 1 THEN 0 ELSE D(j, k) + 1
  BY <1>3, Ways DEF Slots
<1>5. Passed(k, j) /\ cursor.distance = D(j, k)
  BY <1>1 DEF OnPath
<1>6. D(NextSlot(j), k) = D(j, k) + 1
  <2>1. PICK s \in Slots : s \notin Occupied
    BY Basics DEF Roomy
  <2>2. D(s, k) # D(j, k) /\ ~ (D(s, k) < D(j, k))
    BY <1>3, <1>4, <1>5, <2>1 DEF Passed
  <2> QED BY <1>3, <1>4, <2>2
<1>7. Passed(k, NextSlot(j))
  BY <1>3, <1>4, <1>5, <1>6 DEF Passed
<1>8. ASSUME NEW i \in Occupied, entries[i].key = k PROVE D(NextSlot(j), k) <= D(i, k)
  BY <1>1, <1>3, <1>4, <1>6, <1>8 DEF OnPath
<1>9. OnPath'
  <2>1. cursor'.distance = D(cursor.index, cursor.key)' /\ Passed(cursor.key, cursor.index)'
    BY <1>1, <1>2, <1>5, <1>6, <1>7, TableKept
  <2>3. \A i \in Occupied' : entries'[i].key = cursor'.key => cursor'.distance <= D(i, cursor.key)'
    BY <1>1, <1>2, <1>5, <1>6, <1>8, TableKept
  <2>2. /\ cursor'.probes < capacity'
        /\ \A s \in Slots' : Behind(capacity', cursor'.index, s) \in 1 .. cursor'.probes => s \in Occupied'
    BY <1>1, <1>2, <1>3, TableKept, NotAllAround
  <2> QED BY <2>1, <2>2, <2>3 DEF OnPath
<1>10. Typed'
  <2>1. cursor' \in [key : Keys, value : Values, index : Nat, distance : Nat, probes : Nat]
    BY <1>2, <1>4 DEF Typed
  <2> QED BY <1>1, <1>2, <1>4, <2>1, TableKept DEF Typed, Growing
<1>11. Phased'
  BY <1>1, <1>2, TableKept DEF Phased, Growing
<1>12. Roomy' /\ Ordered'
  BY <1>1, TableKept DEF Roomy, Growing
<1>13. Unique'
  <2>1. Remaining' = Remaining /\ Hole = {} /\ Hole' = {} /\ InHand' = InHand
        /\ Requested' = Requested /\ Occupied' = Occupied /\ Growing' = Growing
    BY <1>1, <1>2, TableKept DEF Remaining, Hole, InHand, Requested, Growing, Probes
  <2> QED BY <1>1, <1>2, <2>1 DEF Unique, Probes
<1> QED BY <1>9, <1>10, <1>11, <1>12, <1>13

-----------------------------------------------------------------------------
(* Steps that start a new table.                                           *)

\* Fact: in a table with no entry nothing is out of order.
LEMMA EmptyTable ==
  ASSUME NEW n \in Nat, n >= 4, entries' = Blank(n)
  PROVE  /\ IsTable(entries)' /\ capacity' = n /\ Slots' = 0 .. n - 1
         /\ Occupied' = {} /\ Cardinality(Occupied') = 0 /\ Ordered'
<1>1. IsTable(entries') /\ Capacity(entries') = n /\ Taken(entries') = {} /\ Cardinality(Taken(entries')) = 0
  BY Blanks
<1>2. Occupied' = Taken(entries')
  BY DEF Occupied, Taken
<1> QED BY <1>1, <1>2 DEF capacity, Slots, Ordered

\* Fact: clear replaces the table by one of four.
LEMMA ClearKeeps == ASSUME IInv, Clear PROVE IInv'
<1> USE DEF IInv
<1>1. /\ UNCHANGED <<old, counter, phase, request, answer>> /\ phase = "idle"
      /\ entries' = Blank(4) /\ size' = 0 /\ cursor' = [cursor EXCEPT !.index = 0]
  BY DEF Clear
<1>2. ~ Growing /\ ~ Growing'
  BY <1>1 DEF Phased, Growing
<1>3. /\ IsTable(entries)' /\ capacity' = 4 /\ Slots' = 0 .. 3
      /\ Occupied' = {} /\ Cardinality(Occupied') = 0 /\ Ordered'
  BY <1>1, EmptyTable
<1>4. Typed'
  BY <1>1, <1>2, <1>3 DEF Typed
<1>5. Phased' /\ OnPath'
  BY <1>1, <1>2 DEF Phased, OnPath, Probes
<1>6. Roomy'
  BY <1>1, <1>2, <1>3 DEF Roomy
<1>7. Unique'
  BY <1>1, <1>2, <1>3, TableOrNone DEF Unique, Remaining, Growing
<1> QED BY <1>3, <1>4, <1>5, <1>6, <1>7

\* Fact: an insertion that makes the table grow sets the full one aside.
LEMMA GrowKeeps ==
  ASSUME IInv, MustGrow, NEW k \in Keys, NEW v \in Values, Insert(k, v)
  PROVE  IInv'
<1> USE DEF IInv
<1>1. /\ phase = "idle" /\ phase' = "growing" /\ request' = [kind |-> "insert", key |-> k, value |-> v]
      /\ old' = entries /\ counter' = 0 /\ size' = 0 /\ entries' = Blank(2 * capacity)
      /\ UNCHANGED <<cursor, answer>>
  BY DEF Insert
<1>2. capacity \in Nat /\ capacity >= 4 /\ ~ Growing /\ Growing' /\ Capacity(old') = capacity
  BY <1>1, Basics, TableOrNone DEF Phased, Typed, Growing, capacity
<1>3. /\ IsTable(entries)' /\ capacity' = 2 * capacity /\ Slots' = 0 .. 2 * capacity - 1
      /\ Occupied' = {} /\ Cardinality(Occupied') = 0 /\ Ordered'
  BY <1>1, <1>2, EmptyTable
<1>4. Typed'
  <2>1. cursor.index \in Slots'
    BY <1>2, <1>3 DEF Typed, Slots
  <2>2. request' \in [kind : Kinds, key : Keys, value : Values]
    BY <1>1 DEF Kinds
  <2>3. IsTable(old)'
    BY <1>1 DEF Typed
  <2> QED BY <1>1, <1>3, <2>1, <2>2, <2>3 DEF Typed, Phases
<1>5. Phased' /\ OnPath'
  BY <1>1, <1>2, <1>3 DEF Phased, OnPath, Probes
<1>6. Roomy'
  BY <1>1, <1>2, <1>3 DEF Roomy
<1>7. Unique'
  <2>1. \A i \in Remaining' : i \in Occupied /\ old'[i] = entries[i]
    BY <1>1 DEF Remaining, Occupied
  <2>2. Hole = {} /\ Hole' = {}
    BY <1>1 DEF Hole
  <2> QED BY <1>1, <1>3, <2>1, <2>2 DEF Unique
<1> QED BY <1>3, <1>4, <1>5, <1>6, <1>7

-----------------------------------------------------------------------------
(* Steps that write a slot.                                                *)

\* Fact: the table after the slot of the probe was written.
LEMMA SlotWritten ==
  ASSUME Typed, NEW x \in Entries \cup {Free}, entries' = Write(entries, cursor.index, x)
  PROVE  /\ IsTable(entries)' /\ capacity' = capacity /\ Slots' = Slots
         /\ \A i, k : D(i, k)' = D(i, k)
         /\ entries'[cursor.index] = x
         /\ \A i \in Slots : i # cursor.index => entries'[i] = entries[i]
         /\ Occupied' = IF x = Free THEN Occupied \ {cursor.index} ELSE Occupied \cup {cursor.index}
         /\ Cardinality(Occupied') = Cardinality(Occupied)
              - (IF cursor.index \in Occupied THEN 1 ELSE 0) + (IF x = Free THEN 0 ELSE 1)
<1>1. IsTable(entries) /\ cursor.index \in DOMAIN entries /\ DOMAIN entries = Slots
  BY Basics DEF Typed
<1>2. Occupied = Taken(entries) /\ Occupied' = Taken(entries')
  BY DEF Occupied, Taken
<1>3. /\ IsTable(entries') /\ Capacity(entries') = Capacity(entries)
      /\ entries'[cursor.index] = x
      /\ \A i \in DOMAIN entries \ {cursor.index} : entries'[i] = entries[i]
      /\ Taken(entries') = IF x = Free THEN Taken(entries) \ {cursor.index}
                           ELSE Taken(entries) \cup {cursor.index}
      /\ Cardinality(Taken(entries')) = Cardinality(Taken(entries))
           - (IF cursor.index \in Taken(entries) THEN 1 ELSE 0) + (IF x = Free THEN 0 ELSE 1)
  BY <1>1, Written
<1>4. capacity' = capacity
  BY <1>3 DEF capacity
<1>5. Slots' = Slots /\ \A i, k : D(i, k)' = D(i, k)
  BY <1>4, Same
<1> QED BY <1>1, <1>2, <1>3, <1>4, <1>5

\* Fact: an entry in hand that is put down ends the insertion, or the turn of
\* the loop of the growth.
LEMMA AfterInserted ==
  ASSUME Typed, Phased, phase = "inserting", Inserted, IsTable(entries)', capacity' = capacity, size' \in Nat
  PROVE  Typed' /\ Phased' /\ OnPath' /\ Hole' = {} /\ Hole = {} /\ Growing' = Growing
         /\ Remaining' = Remaining /\ phase' # "inserting" /\ phase' # "shifting"
<1>1. /\ UNCHANGED <<old, counter, request, cursor>> /\ answer' \in Outcomes
      /\ phase' = IF Growing THEN "growing" ELSE "idle"
  BY DEF Inserted, Return, Growing, Outcomes, Typed
<1>2. Growing' = Growing /\ Remaining' = Remaining /\ Slots' = Slots
  BY <1>1, Same DEF Growing, Remaining
<1>3. Typed'
  BY <1>1, <1>2 DEF Typed, Phases
<1>4. Phased'
  BY <1>1, <1>2 DEF Phased
<1>5. OnPath'
  BY <1>1 DEF OnPath, Probes
<1> QED BY <1>1, <1>2, <1>3, <1>4, <1>5 DEF Hole

\* Fact: an insertion that finds its key gives the entry the new value.
LEMMA ReplaceKeeps == ASSUME IInv, Replace PROVE IInv'
<1> USE DEF IInv
<1> DEFINE j == cursor.index
           x == [key |-> entries[j].key, value |-> cursor.value]
<1>1. phase = "inserting" /\ UNCHANGED size /\ Inserted /\ AtKey
  BY DEF Replace, Probing
<1>2. j \in Occupied /\ entries[j] \in Entries /\ entries[j].key = cursor.key /\ size \in Nat
      /\ cursor.value \in Values
  BY <1>1, Basics DEF AtKey, AtFree, Typed
<1>3. x \in Entries /\ [entries[j] EXCEPT !.value = cursor.value] = x
  BY <1>2 DEF Entries
<1>10. entries' = Write(entries, j, x)
  BY <1>3 DEF Replace, Write
<1> HIDE DEF x
<1>4. x # Free
  BY <1>3, DictAssumption
<1>5. /\ IsTable(entries)' /\ capacity' = capacity /\ Slots' = Slots
      /\ \A i, k : D(i, k)' = D(i, k)
      /\ \A i \in Occupied : i \in Slots /\ entries'[i].key = entries[i].key
      /\ Occupied' = Occupied
  <2>1. x.key = entries[j].key
    BY DEF x
  <2> QED BY <1>2, <1>3, <1>4, <1>10, <2>1, SlotWritten, Basics
<1>6. /\ Typed' /\ Phased' /\ OnPath' /\ Hole' = {} /\ Hole = {} /\ Growing' = Growing
      /\ Remaining' = Remaining /\ phase' # "inserting" /\ phase' # "shifting"
  BY <1>1, <1>2, <1>5, AfterInserted
<1>7. Roomy'
  <2>1. ~ Growing
    BY <1>1, <1>2 DEF Unique
  <2> QED BY <1>1, <1>5, <1>6, <2>1 DEF Roomy
<1>8. Ordered'
  BY <1>5 DEF Ordered, Passed
<1>9. Unique'
  <2>1. old' = old
    BY <1>1 DEF Inserted
  <2> QED BY <1>1, <1>5, <1>6, <2>1 DEF Unique
<1> QED BY <1>6, <1>7, <1>8, <1>9

\* Fact: if the way of the entry in hand and those of all others lead over
\* entries that are no closer to their home, no other slot holds its key once
\* the probe meets a free slot or a closer entry.
LEMMA KeyIsNew ==
  ASSUME IInv, Probes, AtFree \/ AtCloser
  PROVE  \A i \in Occupied : entries[i].key # cursor.key
<1> USE DEF IInv
<1> DEFINE j == cursor.index
           k == cursor.key
<1> SUFFICES ASSUME NEW i \in Occupied, entries[i].key = k PROVE FALSE
  OBVIOUS
<1>1. /\ capacity \in Nat /\ j \in Slots /\ k \in Keys /\ i \in Slots
      /\ j \in Occupied <=> entries[j] # Free
  BY Basics DEF Typed
<1>2. /\ D(j, k) \in Nat /\ D(i, k) \in Nat /\ (D(j, k) = D(i, k) => j = i)
      /\ j \in Occupied => D(j, entries[j].key) \in Nat
  BY <1>1, Ways, Basics DEF Entries
<1>3. D(j, k) <= D(i, k) /\ cursor.distance = D(j, k)
  BY DEF OnPath
<1>4. i # j
  BY <1>1 DEF AtFree, AtCloser, AtKey
<1>5. j \in Occupied /\ D(j, k) <= D(j, entries[j].key)
  BY <1>1, <1>2, <1>3, <1>4 DEF Ordered, Passed
<1>6. D(j, entries[j].key) < D(j, k)
  BY <1>1, <1>3, <1>5, DistanceIs DEF AtFree, AtCloser
<1> QED BY <1>2, <1>5, <1>6

\* Fact: an entry in hand is put into a free slot.
LEMMA PlaceKeeps == ASSUME IInv, Place PROVE IInv'
<1> USE DEF IInv
<1> DEFINE j == cursor.index
           k == cursor.key
<1>1. /\ phase = "inserting" /\ Probes /\ size' = size + 1 /\ Inserted /\ AtFree
      /\ entries' = Write(entries, j, InHand)
  BY DEF Place, Probing, Probes, Write
<1>2. /\ j \notin Occupied /\ j \in Slots /\ k \in Keys /\ size \in Nat /\ InHand \in Entries
      /\ Cardinality(Occupied) \in Nat /\ capacity \in Nat
      /\ \A i \in Occupied : i \in Slots /\ i # j
  BY <1>1, Basics DEF Typed, AtFree, InHand, Entries
<1>3. InHand # Free /\ InHand.key = k
  BY <1>2, DictAssumption DEF InHand
<1>4. /\ IsTable(entries)' /\ capacity' = capacity /\ Slots' = Slots
      /\ \A i, q : D(i, q)' = D(i, q)
      /\ entries'[j] = InHand /\ \A i \in Slots : i # j => entries'[i] = entries[i]
      /\ Occupied' = Occupied \cup {j} /\ Cardinality(Occupied') = Cardinality(Occupied) + 1
  BY <1>1, <1>2, <1>3, SlotWritten
<1>5. /\ Typed' /\ Phased' /\ OnPath' /\ Hole' = {} /\ Hole = {} /\ Growing' = Growing
      /\ Remaining' = Remaining /\ phase' # "inserting" /\ phase' # "shifting"
  BY <1>1, <1>2, <1>4, AfterInserted
<1>6. old' = old /\ counter' = counter
  BY <1>1 DEF Inserted
<1>7. Roomy'
  <2>1. Growing => capacity = 2 * Capacity(old) /\ counter <= Capacity(old) /\ Capacity(old) \in Nat
                   /\ Capacity(old) >= 4
    BY Basics DEF Phased
  <2> QED BY <1>1, <1>2, <1>4, <1>5, <1>6, <2>1 DEF Roomy, Typed
<1>8. Ordered'
  <2> SUFFICES ASSUME NEW i \in Occupied', NEW s \in Slots, D(s, entries'[i].key) < D(i, entries'[i].key)
               PROVE  s \in Occupied /\ D(s, entries'[i].key) <= D(s, entries[s].key)
    BY <1>2, <1>4 DEF Ordered, Passed
  <2>1. CASE i = j
    BY <1>1, <1>3, <1>4, <2>1 DEF OnPath, Passed
  <2>2. CASE i # j
    BY <1>2, <1>4, <2>2 DEF Ordered, Passed
  <2> QED BY <2>1, <2>2
<1>9. Unique'
  <2>1. \A i \in Occupied : entries[i].key # k
    BY <1>1, KeyIsNew
  <2>2. \A i \in Occupied : entries'[i] = entries[i]
    BY <1>2, <1>4
  <2> QED BY <1>1, <1>3, <1>4, <1>5, <1>6, <2>1, <2>2 DEF Unique
<1> QED BY <1>5, <1>7, <1>8, <1>9

\* Fact: an entry in hand takes the slot of one that is closer to its home,
\* which is in hand from then on.
LEMMA DisplaceKeeps == ASSUME IInv, Displace PROVE IInv'
<1> USE DEF IInv
<1> DEFINE j == cursor.index
           k == cursor.key
           e == entries[j].key
<1>1. /\ phase = "inserting" /\ Probes /\ Probes' /\ AtCloser /\ cursor.distance = D(j, k)
      /\ entries' = Write(entries, j, InHand)
      /\ UNCHANGED <<size, old, counter, phase, request, answer>>
  BY DEF Displace, Probing, Probes, Write, OnPath
<1>2. /\ j \in Occupied /\ j \in Slots /\ k \in Keys /\ e \in Keys /\ e # k
      /\ entries[j] \in Entries /\ InHand \in Entries /\ InHand # Free /\ InHand.key = k
      /\ Cardinality(Occupied) \in Nat /\ capacity \in Nat
      /\ \A i \in Occupied : i \in Slots /\ entries[i].key \in Keys
  BY <1>1, Basics, DictAssumption DEF Typed, AtCloser, AtKey, AtFree, InHand, Entries
<1>3. /\ cursor'.key = e /\ cursor'.value = entries[j].value /\ cursor'.index = NextSlot(j)
      /\ cursor'.distance = D(j, e) + 1 /\ cursor'.probes = cursor.probes + 1
      /\ cursor' = [key |-> e, value |-> entries[j].value, index |-> NextSlot(j),
                    distance |-> D(j, e) + 1, probes |-> cursor.probes + 1]
  BY DistanceIs DEF Displace, Advance, Typed
<1>4. InHand' = entries[j]
  BY <1>2, <1>3 DEF InHand, Entries
<1>5. /\ IsTable(entries)' /\ capacity' = capacity /\ Slots' = Slots
      /\ \A i, q : D(i, q)' = D(i, q)
      /\ entries'[j] = InHand /\ \A i \in Slots : i # j => entries'[i] = entries[i]
      /\ Occupied' = Occupied /\ Cardinality(Occupied') = Cardinality(Occupied)
  BY <1>1, <1>2, SlotWritten
<1>6. /\ D(j, e) \in Nat /\ D(j, k) \in 0 .. capacity - 1 /\ D(j, e) < D(j, k)
      /\ \A i \in Slots : D(i, e) \in Nat /\ (D(i, e) = D(j, e) => i = j)
      /\ \A i \in Slots : D(i, k) \in Nat /\ (D(i, k) = D(j, k) => i = j)
      /\ NextSlot(j) \in Slots /\ D(NextSlot(j), e) = D(j, e) + 1
  BY <1>1, <1>2, Ways, DistanceIs DEF AtCloser
<1>7. \A i \in Occupied : entries[i].key # k
  BY <1>1, KeyIsNew
<1>8. \A i \in Occupied : i # j => entries[i].key # e
  BY <1>1, <1>2 DEF Unique, Hole
<1>9. Typed'
  <2>1. cursor' \in [key : Keys, value : Values, index : Nat, distance : Nat, probes : Nat]
    BY <1>2, <1>3, <1>6 DEF Typed, Entries, Slots
  <2> QED BY <1>1, <1>3, <1>5, <1>6, <2>1 DEF Typed, Growing
<1>10. Phased'
  BY <1>1, <1>5 DEF Phased, Growing
<1>11. Roomy'
  BY <1>1, <1>5 DEF Roomy, Growing
<1>12. Ordered'
  <2> SUFFICES ASSUME NEW i \in Occupied, NEW s \in Slots, D(s, entries'[i].key) < D(i, entries'[i].key)
               PROVE  s \in Occupied /\ D(s, entries'[i].key) <= D(s, entries'[s].key)
    BY <1>5 DEF Ordered, Passed
  <2>1. CASE i = j
    <3>1. D(s, k) < D(j, k) /\ s # j
      BY <1>2, <1>5, <1>6, <2>1
    <3>2. s \in Occupied /\ D(s, k) <= D(s, entries[s].key)
      BY <1>1, <3>1 DEF OnPath, Passed
    <3> QED BY <1>2, <1>5, <2>1, <3>1, <3>2
  <2>2. CASE i # j
    <3>1. entries'[i] = entries[i]
      BY <1>2, <1>5, <2>2
    <3>2. s \in Occupied /\ D(s, entries[i].key) <= D(s, entries[s].key)
      BY <3>1 DEF Ordered, Passed
    <3>3. CASE s = j
      <4>1. D(j, entries[i].key) \in Nat
        BY <1>2, Ways
      <4> QED BY <1>2, <1>5, <1>6, <3>1, <3>2, <3>3, <4>1
    <3>4. CASE s # j
      BY <1>5, <3>1, <3>2, <3>4
    <3> QED BY <3>3, <3>4
  <2> QED BY <2>1, <2>2
<1>13. OnPath'
  <2>1. cursor'.distance = D(cursor.index, cursor.key)'
    BY <1>3, <1>5, <1>6
  <2>2. Passed(cursor.key, cursor.index)'
    <3> SUFFICES ASSUME NEW s \in Slots, D(s, e) < D(NextSlot(j), e)
                 PROVE  s \in Occupied /\ D(s, e) <= D(s, entries'[s].key)
      BY <1>3, <1>5 DEF Passed
    <3>1. CASE s = j
      BY <1>2, <1>5, <1>6, <3>1
    <3>2. CASE s # j
      <4>1. D(s, e) < D(j, e)
        BY <1>6, <3>2
      <4> QED BY <1>2, <1>5, <3>2, <4>1 DEF Ordered, Passed
    <3> QED BY <3>1, <3>2
  <2>3. \A i \in Occupied' : entries'[i].key = cursor'.key => cursor'.distance <= D(i, cursor.key)'
    BY <1>2, <1>3, <1>5, <1>8
  <2>4. /\ cursor'.probes < capacity'
        /\ \A s \in Slots' : Behind(capacity', cursor'.index, s) \in 1 .. cursor'.probes => s \in Occupied'
    BY <1>1, <1>2, <1>3, <1>5, NotAllAround
  <2> QED BY <2>1, <2>2, <2>3, <2>4 DEF OnPath
<1>14. Unique'
  <2>1. Remaining' = Remaining /\ Hole = {} /\ Hole' = {} /\ Requested' = Requested /\ Growing' = Growing
    BY <1>1 DEF Remaining, Hole, Requested, Growing
  <2>2. \A i, r \in Occupied : entries'[i].key = entries'[r].key => i = r
    BY <1>2, <1>5, <1>7, <2>1 DEF Unique
  <2>3. \A i \in Occupied, r \in Remaining : entries'[i].key # old[r].key
    BY <1>1, <1>2, <1>5 DEF Unique
  <2>4. \A r \in Remaining : old[r].key # e
    BY <1>2 DEF Unique
  <2>5. \A i \in Occupied : entries'[i].key # e
    BY <1>2, <1>5, <1>8
  <2>6. ~ Growing => InHand' = Requested \/ \E i \in Occupied : entries'[i] = Requested
    <3>1. ~ Growing => InHand = Requested \/ \E i \in Occupied : entries[i] = Requested
      BY <1>1 DEF Unique
    <3>2. ASSUME NEW i \in Occupied, entries[i] = Requested
          PROVE  InHand' = Requested \/ entries'[i] = Requested
      BY <1>2, <1>4, <1>5, <3>2
    <3> QED BY <1>2, <1>5, <3>1, <3>2
  <2> QED BY <1>1, <1>3, <1>5, <2>1, <2>2, <2>3, <2>4, <2>5, <2>6 DEF Unique
<1> QED BY <1>9, <1>10, <1>11, <1>12, <1>13, <1>14

\* Fact: the entry after a hole moves back into it, as long as that brings it
\* closer to its home; then the hole is freed.
LEMMA ShiftKeeps == ASSUME IInv, Shift PROVE IInv'
<1> USE DEF IInv
<1> DEFINE h == cursor.index
           f == Follower
<1>1. /\ phase = "shifting" /\ UNCHANGED <<size, old, counter, request>> /\ ~ Growing /\ ~ Growing'
      /\ request.kind = "remove"
  BY DEF Shift, Phased, Growing
<1>2. /\ h \in Occupied /\ h \in Slots /\ f \in Slots /\ capacity \in Nat
      /\ Cardinality(Occupied) \in Nat /\ size \in Nat /\ Remaining = {} /\ Remaining' = {}
      /\ f \in Occupied <=> entries[f] # Free
      /\ \A i \in Occupied : i \in Slots /\ entries[i] \in Entries /\ entries[i].key \in Keys
  <2>1. h \in Occupied /\ h \in Slots
    BY <1>1 DEF Unique, Typed
  <2>2. Home(request.key) \in Slots /\ \A i \in Slots : NextSlot(i) \in Slots
    BY Ways DEF Typed
  <2> QED BY <1>1, <2>1, <2>2, Basics, TableOrNone DEF Typed, Entries, Follower, Remaining, Growing
<1>3. \A i \in Occupied : D(h, entries[i].key) < D(i, entries[i].key) =>
        /\ D(f, entries[i].key) = D(h, entries[i].key) + 1
        /\ D(h, entries[i].key) \in Nat
        /\ D(f, entries[i].key) = D(i, entries[i].key) => i = f
  BY <1>2, Ways DEF Follower
<1>4. \A i, r \in Occupied \ {h} : entries[i].key = entries[r].key => i = r
  BY <1>1 DEF Unique, Hole
<1>5. \A i \in Occupied \ {h} : entries[i].key # request.key
  BY <1>1 DEF Unique, Hole
<1>6. ASSUME Last
      PROVE  IInv'
  <2>1. /\ entries' = Write(entries, h, Free) /\ phase' = "idle" /\ answer' = TRUE /\ UNCHANGED cursor
    BY <1>6 DEF Shift, Return, Write
  <2>2. /\ IsTable(entries)' /\ capacity' = capacity /\ Slots' = Slots
        /\ \A i, q : D(i, q)' = D(i, q)
        /\ \A i \in Slots : i # h => entries'[i] = entries[i]
        /\ Occupied' = Occupied \ {h} /\ Cardinality(Occupied') = Cardinality(Occupied) - 1
    BY <1>2, <2>1, SlotWritten
  <2>3. Typed'
    BY <1>1, <2>1, <2>2 DEF Typed, Phases, Outcomes
  <2>4. Phased' /\ OnPath'
    BY <1>1, <2>1 DEF Phased, OnPath, Probes
  <2>5. Roomy'
    BY <1>1, <1>2, <2>1, <2>2 DEF Roomy
  <2>6. Ordered'
    <3> SUFFICES ASSUME NEW i \in Occupied \ {h}, NEW s \in Slots,
                        D(s, entries[i].key) < D(i, entries[i].key)
                 PROVE  s # h /\ s \in Occupied /\ D(s, entries[i].key) <= D(s, entries[s].key)
      BY <1>2, <2>2 DEF Ordered, Passed
    <3>1. s \in Occupied /\ D(s, entries[i].key) <= D(s, entries[s].key)
      BY DEF Ordered, Passed
    <3>2. s # h
      <4> SUFFICES ASSUME s = h PROVE FALSE
        OBVIOUS
      <4>1. /\ D(f, entries[i].key) = D(h, entries[i].key) + 1 /\ D(h, entries[i].key) \in Nat
            /\ D(f, entries[i].key) = D(i, entries[i].key) => i = f
            /\ D(i, entries[i].key) \in Nat
        BY <1>2, <1>3, Ways
      <4>2. f \in Occupied /\ D(f, entries[f].key) >= D(f, entries[i].key)
        <5>1. CASE D(f, entries[i].key) = D(i, entries[i].key)
          BY <4>1, <5>1
        <5>2. CASE D(f, entries[i].key) < D(i, entries[i].key)
          <6>1. f \in Occupied /\ D(f, entries[i].key) <= D(f, entries[f].key)
            BY <1>2, <5>2 DEF Ordered, Passed
          <6>2. D(f, entries[f].key) \in Nat
            BY <1>2, <6>1, Ways
          <6> QED BY <4>1, <6>1, <6>2
        <5> QED BY <4>1, <5>1, <5>2
      <4>3. D(f, entries[f].key) \in Nat
        BY <1>2, <4>2, Ways
      <4> QED BY <1>2, <1>6, <4>1, <4>2, <4>3, DistanceIs DEF Last
    <3> QED BY <3>1, <3>2
  <2>7. Unique'
    <3>1. Hole' = {}
      BY <2>1 DEF Hole
    <3> QED BY <1>1, <1>2, <1>4, <2>1, <2>2, <3>1 DEF Unique
  <2> QED BY <2>3, <2>4, <2>5, <2>6, <2>7
<1>7. ASSUME ~ Last
      PROVE  IInv'
  <2>1. /\ entries' = Write(entries, h, entries[f]) /\ UNCHANGED <<phase, answer>>
        /\ cursor' = [cursor EXCEPT !.index = f]
    BY <1>7 DEF Shift, Write
  <2>2. /\ f \in Occupied /\ entries[f] # Free /\ entries[f] \in Entries /\ D(f, entries[f].key) # 0
        /\ f \in Nat
    BY <1>2, <1>7, DistanceIs DEF Last, Slots
  <2>3. /\ IsTable(entries)' /\ capacity' = capacity /\ Slots' = Slots
        /\ \A i, q : D(i, q)' = D(i, q)
        /\ entries'[h] = entries[f] /\ \A i \in Slots : i # h => entries'[i] = entries[i]
        /\ Occupied' = Occupied /\ Cardinality(Occupied') = Cardinality(Occupied)
    BY <1>2, <2>1, <2>2, SlotWritten
  <2>4. /\ D(h, entries[f].key) \in Nat /\ D(f, entries[f].key) = D(h, entries[f].key) + 1 /\ f # h
    BY <1>2, <2>2, Ways DEF Follower
  <2>5. Typed'
    BY <1>1, <1>2, <2>1, <2>2, <2>3 DEF Typed
  <2>6. Phased' /\ OnPath'
    BY <1>1, <2>1 DEF Phased, OnPath, Probes
  <2>7. Roomy'
    BY <1>1, <2>1, <2>3 DEF Roomy
  <2>8. Ordered'
    <3> SUFFICES ASSUME NEW i \in Occupied, NEW s \in Slots,
                        D(s, entries'[i].key) < D(i, entries'[i].key)
                 PROVE  s \in Occupied /\ D(s, entries'[i].key) <= D(s, entries'[s].key)
      BY <2>3 DEF Ordered, Passed
    <3>1. CASE i = h
      <4>1. D(s, entries[f].key) < D(h, entries[f].key) /\ D(s, entries[f].key) \in Nat /\ s # h
        BY <1>2, <2>2, <2>3, <2>4, <3>1, Ways
      <4>2. D(s, entries[f].key) < D(f, entries[f].key)
        BY <2>4, <4>1
      <4> QED BY <1>2, <2>2, <2>3, <3>1, <4>1, <4>2 DEF Ordered, Passed
    <3>2. CASE i # h
      <4>1. entries'[i] = entries[i]
        BY <1>2, <2>3, <3>2
      <4>2. s \in Occupied /\ D(s, entries[i].key) <= D(s, entries[s].key)
        BY <4>1 DEF Ordered, Passed
      <4>3. CASE s # h
        BY <2>3, <4>1, <4>2, <4>3
      <4>4. CASE s = h
        <5>1. /\ D(f, entries[i].key) = D(h, entries[i].key) + 1 /\ D(h, entries[i].key) \in Nat
              /\ D(f, entries[i].key) = D(i, entries[i].key) => i = f
              /\ D(i, entries[i].key) \in Nat
          BY <1>2, <1>3, <4>1, <4>4, Ways
        <5>2. D(f, entries[i].key) <= D(f, entries[f].key)
          <6>1. CASE D(f, entries[i].key) = D(i, entries[i].key)
            BY <5>1, <6>1
          <6>2. CASE D(f, entries[i].key) < D(i, entries[i].key)
            BY <1>2, <6>2 DEF Ordered, Passed
          <6> QED BY <4>1, <4>4, <5>1, <6>1, <6>2
        <5> QED BY <1>2, <2>3, <2>4, <4>1, <4>4, <5>1, <5>2
      <4> QED BY <4>3, <4>4
    <3> QED BY <3>1, <3>2
  <2>9. Unique'
    <3>1. Hole' = {f} /\ cursor'.index = f
      BY <1>1, <2>1 DEF Hole, Typed
    <3>2. ASSUME NEW i \in Occupied \ {f}
          PROVE  entries'[i] = entries[IF i = h THEN f ELSE i]
      BY <1>2, <2>3
    <3>3. \A i, r \in Occupied \ {f} : entries'[i].key = entries'[r].key => i = r
      BY <1>4, <2>2, <2>4, <3>2
    <3>4. \A i \in Occupied \ {f} : entries'[i].key # request.key
      BY <1>5, <2>2, <2>4, <3>2
    <3> QED BY <1>1, <1>2, <2>1, <2>2, <2>3, <3>1, <3>3, <3>4 DEF Unique
  <2> QED BY <2>5, <2>6, <2>7, <2>8, <2>9
<1> QED BY <1>6, <1>7

-----------------------------------------------------------------------------
(* Theorems.                                                               *)

\* Fact: a new dictionary.
LEMMA InitIs == ASSUME Init PROVE IInv
<1>1. /\ entries = Blank(4) /\ size = 0 /\ old = << >> /\ counter = 0 /\ phase = "idle" /\ answer = Missing
  BY DEF Init
<1>2. /\ IsTable(entries) /\ capacity = 4 /\ Slots = 0 .. 3 /\ Occupied = {} /\ Cardinality(Occupied) = 0
  <2>1. IsTable(entries) /\ Capacity(entries) = 4 /\ Taken(entries) = {} /\ Cardinality(Taken(entries)) = 0
    BY <1>1, Blanks
  <2>2. Occupied = Taken(entries)
    BY DEF Occupied, Taken
  <2> QED BY <2>1, <2>2 DEF capacity, Slots
<1>3. ~ Growing /\ Remaining = {} /\ Hole = {}
  BY <1>1, TableOrNone DEF Growing, Remaining, Hole
<1>4. PICK k \in Keys, v \in Values :
        request = [kind |-> "insert", key |-> k, value |-> v] /\ cursor = Start(k, v)
  BY DEF Init
<1>5. Home(k) \in Slots /\ Home(k) \in Nat
  BY <1>2, HomeIsSlot DEF Home, Slots
<1>6. Typed
  <2>1. cursor \in [key : Keys, value : Values, index : Nat, distance : Nat, probes : Nat]
        /\ cursor.index \in Slots
    BY <1>4, <1>5 DEF Start
  <2>2. request \in [kind : Kinds, key : Keys, value : Values]
    BY <1>4 DEF Kinds
  <2> QED BY <1>1, <1>2, <1>3, <2>1, <2>2 DEF Typed, Phases, Outcomes
<1>7. Phased /\ Roomy /\ OnPath
  BY <1>1, <1>2, <1>3 DEF Phased, Roomy, OnPath, Probes
<1>8. Ordered /\ Unique
  BY <1>1, <1>2, <1>3 DEF Ordered, Unique
<1> QED BY <1>6, <1>7, <1>8 DEF IInv

\* Fact: every step keeps the invariant.
LEMMA NextKeeps == ASSUME IInv, [Next]_vars PROVE IInv'
<1>1. CASE UNCHANGED vars
  <2>1. /\ UNCHANGED <<entries, size, old, counter, phase, request, cursor, answer>>
    BY <1>1 DEF vars
  <2>2. capacity' = capacity /\ Slots' = Slots /\ Occupied' = Occupied /\ Ordered'
        /\ Growing' = Growing /\ Remaining' = Remaining /\ Hole' = Hole
    BY <2>1, TableKept DEF IInv, Growing, Remaining, Hole
  <2>3. Typed' /\ Phased' /\ Roomy'
    BY <2>1, <2>2 DEF IInv, Typed, Phased, Roomy
  <2>4. OnPath'
    <3>1. (\A i, k : D(i, k)' = D(i, k)) /\ Passed(cursor.key, cursor.index) => Passed(cursor.key, cursor.index)'
      BY <2>1, TableKept
    <3>2. \A i, k : D(i, k)' = D(i, k)
      BY <2>1, TableKept
    <3> QED BY <2>1, <2>2, <3>1, <3>2 DEF IInv, OnPath, Probes
  <2>5. Unique'
    BY <2>1, <2>2 DEF IInv, Unique, InHand, Requested
  <2> QED BY <2>2, <2>3, <2>4, <2>5 DEF IInv
<1>2. CASE Step
  BY <1>2, ReinsertKeeps, PlaceKeeps, ReplaceKeeps, DisplaceKeeps, PassKeeps, EndKeeps,
     RemoveFoundKeeps, ShiftKeeps DEF Step
<1>3. CASE Clear
  BY <1>3, ClearKeeps
<1>4. CASE \E k \in Keys, v \in Values : Insert(k, v)
  BY <1>4, GrowKeeps, CallKeeps
<1>5. CASE \E k \in Keys : Remove(k) \/ Look("contains", k) \/ Look("get", k)
  <2>1. \E v \in Values : TRUE
    BY DEF IInv, Typed
  <2> QED BY <1>5, <2>1, CallKeeps
<1> QED BY <1>1, <1>2, <1>3, <1>4, <1>5 DEF Next

\* The invariant: the table is a table with room left; the way from a key's
\* home to its entry leads over entries that are as far from theirs, and so
\* does that of the entry in hand; no key is stored twice.
THEOREM DictInvariant == Spec => []IInv
<1>1. Init => IInv
  BY InitIs
<1>2. IInv /\ [Next]_vars => IInv'
  BY NextKeeps
<1> QED BY <1>1, <1>2, PTL DEF Spec

\* The fields of a dictionary have the values their types allow.
THEOREM DictTypeCorrect == Spec => []TypeOK
<1>1. IInv => TypeOK
  <2> SUFFICES ASSUME IInv PROVE TypeOK
    OBVIOUS
  <2> USE DEF IInv
  <2>1. /\ capacity \in Nat /\ capacity >= 4 /\ DOMAIN entries = Slots
        /\ \A i \in Slots : entries[i] \in Entries \cup {Free}
    BY Tables DEF Typed, capacity, Slots
  <2>2. size \in 0 .. capacity
    BY Basics DEF Roomy, Typed
  <2>3. /\ \A i \in DOMAIN old : old[i] \in Entries \cup {Free}
        /\ counter \in 0 .. Capacity(old)
    <3>1. CASE Growing
      BY <3>1, Tables DEF Typed, Phased
    <3>2. CASE ~ Growing
      <4>1. DOMAIN old = {}
        BY <3>2, TableOrNone DEF Growing
      <4> QED BY <3>2, <4>1, FS_EmptySet DEF Phased, Capacity
    <3> QED BY <3>1, <3>2
  <2>4. request.kind \in Kinds /\ request.key \in Keys /\ cursor.index \in Slots
        /\ cursor.distance \in Nat /\ cursor.probes \in Nat
    BY DEF Typed
  <2> QED BY <2>1, <2>2, <2>3, <2>4 DEF TypeOK, Typed, Outcomes
<1> QED BY <1>1, DictInvariant, PTL

\* Between calls the table is in Robin Hood order, no key is there twice, and
\* size counts the entries, whatever the keys hash to.
THEOREM RobinHoodTheorem == Spec => []RobinHood
<1>1. IInv => RobinHood
  <2> SUFFICES ASSUME IInv, phase = "idle" PROVE RobinHood
    BY DEF RobinHood
  <2> USE DEF IInv
  <2>1. /\ capacity \in Nat /\ capacity >= 4 /\ Hole = {} /\ size = Cardinality(Occupied)
        /\ \A i \in Occupied : i \in Slots /\ entries[i] \in Entries
        /\ Cardinality(Occupied) \in Nat
    BY Basics DEF Hole, Roomy
  <2>2. \A i, j \in Occupied : entries[i].key = entries[j].key => i = j
    BY <2>1 DEF Unique
  <2>3. ASSUME NEW i \in Occupied, Distance(i) > 0
        PROVE  /\ (i + capacity - 1) % capacity \in Occupied
               /\ Distance((i + capacity - 1) % capacity) >= Distance(i) - 1
    <3> DEFINE b == (i + capacity - 1) % capacity
               k == entries[i].key
    <3>1. b \in Slots /\ NextSlot(b) = i /\ k \in Keys
      <4>1. capacity \in Nat \ {0} /\ i \in 0 .. capacity - 1
        BY <2>1 DEF Slots
      <4>2. b \in 0 .. capacity - 1 /\ After(capacity, b) = i
        BY <4>1, SlotBefore
      <4> QED BY <2>1, <4>2 DEF Slots, NextSlot, After, Entries
    <3> HIDE DEF b
    <3>2. D(i, k) = D(b, k) + 1 /\ D(b, k) \in Nat
      BY <2>1, <2>3, <3>1, Ways, DistanceIs
    <3>3. b \in Occupied /\ D(b, k) <= D(b, entries[b].key)
      BY <2>1, <3>1, <3>2 DEF Ordered, Passed
    <3>4. Distance(b) \in Nat /\ Distance(i) = D(i, k) /\ Distance(b) >= D(b, k)
      <4>1. D(b, entries[b].key) \in Nat
        BY <2>1, <3>1, <3>3, Ways DEF Entries
      <4> QED BY <3>3, <4>1, DistanceIs
    <3> QED BY <3>2, <3>3, <3>4 DEF b
  <2> QED BY <2>1, <2>2, <2>3 DEF RobinHood
<1> QED BY <1>1, DictInvariant, PTL

\* The loops of _insert, get, contains and remove are left before they have
\* gone all around the table: their last assertion never fails, and the only
\* call that stops the program is get of a key that is not there.
THEOREM NoProbeRunsOut == Spec => []~ Exhausted
<1>1. IInv => ~ Exhausted
  BY NeverAround
<1> QED BY <1>1, DictInvariant, PTL


-----------------------------------------------------------------------------
(* The dictionary is a map: every step of the table is one of DictMap, or  *)
(* changes neither the map nor the promised answer.                        *)

-----------------------------------------------------------------------------
(* Looking up a key among entries.                                         *)

Lookup(S, k) ==
  IF \E e \in S : e.key = k THEN (CHOOSE e \in S : e.key = k).value ELSE Missing

\* Fact: a key that one entry has is mapped to its value.
LEMMA LookupOne ==
  ASSUME NEW S, NEW e \in S, \A f \in S : f.key = e.key => f = e
  PROVE  Lookup(S, e.key) = e.value
<1>1. \E f \in S : f.key = e.key
  OBVIOUS
<1> DEFINE c == CHOOSE f \in S : f.key = e.key
<1>2. c \in S /\ c.key = e.key
  BY <1>1
<1>3. c = e
  BY <1>2
<1> QED BY <1>1, <1>3 DEF Lookup

\* Fact: a key that none has is missing.
LEMMA LookupNone ==
  ASSUME NEW S, NEW k, \A e \in S : e.key # k
  PROVE  Lookup(S, k) = Missing
BY DEF Lookup

\* Fact: entries with other keys do not matter.
LEMMA LookupSame ==
  ASSUME NEW S, NEW T, NEW k, \A e, f \in S : e.key = k /\ f.key = k => e = f,
         \A e \in S : e.key = k => e \in T, \A e \in T : e.key = k => e \in S
  PROVE  Lookup(S, k) = Lookup(T, k)
<1>1. CASE \E e \in S : e.key = k
  <2>1. PICK e \in S : e.key = k
    BY <1>1
  <2>2. Lookup(S, e.key) = e.value
    BY <2>1, LookupOne
  <2>3. Lookup(T, e.key) = e.value
    BY <2>1, LookupOne
  <2> QED BY <2>1, <2>2, <2>3
<1>2. CASE \A e \in S : e.key # k
  BY <1>2, LookupNone
<1> QED BY <1>1, <1>2

-----------------------------------------------------------------------------
(* The map the table stands for.                                           *)

\* Fact: where the stored entries are.
LEMMA StoredIs ==
  /\ \A e : e \in Stored <=> \/ \E i \in Occupied \ Hole : e = entries[i]
                             \/ \E j \in Remaining : e = old[j]
                             \/ phase = "inserting" /\ e = InHand
  /\ \A e : e \in Stored' <=> \/ \E i \in Occupied' \ Hole' : e = entries'[i]
                              \/ \E j \in Remaining' : e = old'[j]
                              \/ phase' = "inserting" /\ e = InHand'
BY DEF Stored, Hole, Remaining

Content(k) ==
  IF InCall /\ request.kind = "insert" /\ k = request.key THEN request.value
  ELSE IF InCall /\ request.kind = "remove" /\ k = request.key THEN Missing
  ELSE Lookup(Stored, k)

\* Fact: the map holds, for every key, what is looked up for it.
LEMMA MapIs ==
  /\ AsMap = [k \in Keys |-> Content(k)]
  /\ AsMap' = [k \in Keys |-> Content(k)']
BY DEF AsMap, Content, Lookup

\* Fact: only the key that is being inserted can be stored twice.
LEMMA StoredUnique ==
  ASSUME IInv, NEW e \in Stored, NEW f \in Stored, e.key = f.key
  PROVE  e = f \/ (phase = "inserting" /\ ~ Growing /\ e.key = request.key)
<1> USE DEF IInv
<1>1. /\ \A i, j \in Occupied \ Hole : entries[i].key = entries[j].key => i = j
      /\ \A i, j \in Remaining : old[i].key = old[j].key => i = j
      /\ \A i \in Occupied, j \in Remaining : entries[i].key # old[j].key
  BY DEF Unique
<1>2. InHand.key = cursor.key /\ Requested.key = request.key
  BY DEF InHand, Requested
<1>3. phase = "inserting" =>
        /\ \A j \in Remaining : old[j].key # InHand.key
        /\ \A i \in Occupied : entries[i].key = InHand.key => ~ Growing /\ InHand = Requested
  BY <1>2 DEF Unique
<1> QED BY <1>1, <1>2, <1>3, StoredIs

\* Fact: an entry is one of the table's type.
LEMMA StoredTyped == ASSUME IInv PROVE Stored \subseteq Entries
<1>1. InHand \in Entries
  BY DEF IInv, Typed, InHand, Entries
<1> QED BY <1>1, Basics, StoredIs DEF IInv
-----------------------------------------------------------------------------
(* Steps inside a call, and the end of one.                                *)

\* Fact: what a call will answer.
LEMMA PromisedIs ==
  ASSUME IInv, InCall
  PROVE  /\ request.kind = "insert" => Promised = TRUE
         /\ request.kind = "get" => Promised = Lookup(Stored, request.key)
         /\ request.kind = "contains" => Promised = (Lookup(Stored, request.key) # Missing)
         /\ request.kind = "remove" =>
              Promised = (phase = "shifting" \/ \E e \in Stored : e.key = request.key)
         /\ request.kind \in Kinds /\ request.key \in Keys
         /\ Promised \in Outcomes
         /\ [kind |-> request.kind, promised |-> Promised] # Idle
<1>1. request.kind \in Kinds /\ request.key \in Keys
  BY DEF IInv, Typed
<1>2. Lookup(Stored, request.key) \in Values \cup {Missing}
  <2>1. CASE \E e \in Stored : e.key = request.key
    <3> DEFINE c == CHOOSE e \in Stored : e.key = request.key
    <3>1. c \in Stored
      BY <2>1
    <3>2. c.value \in Values
      BY <3>1, StoredTyped DEF Entries
    <3> QED BY <2>1, <3>2 DEF Lookup
  <2>2. CASE ~ \E e \in Stored : e.key = request.key
    BY <2>2 DEF Lookup
  <2> QED BY <2>1, <2>2
<1>3. request.kind \notin {"insert", "remove"} => AsMap[request.key] = Lookup(Stored, request.key)
  BY <1>1, MapIs DEF Content
<1>4. /\ request.kind = "insert" => Promised = TRUE
      /\ request.kind = "get" => Promised = Lookup(Stored, request.key)
      /\ request.kind = "contains" => Promised = (Lookup(Stored, request.key) # Missing)
      /\ request.kind = "remove" =>
           Promised = (phase = "shifting" \/ \E e \in Stored : e.key = request.key)
  <2>1. CASE request.kind = "insert"
    BY <2>1 DEF Promised
  <2>2. CASE request.kind = "get"
    BY <1>3, <2>2 DEF Promised
  <2>3. CASE request.kind = "contains"
    BY <1>3, <2>3 DEF Promised
  <2>4. CASE request.kind = "remove"
    BY <2>4 DEF Promised
  <2> QED BY <1>1, <2>1, <2>2, <2>3, <2>4 DEF Kinds
<1>5. Promised \in Outcomes
  BY <1>1, <1>2, <1>4 DEF Kinds, Outcomes
<1>6. [kind |-> request.kind, promised |-> Promised] # Idle
  BY <1>1, <1>5, DictAssumption DEF Outcomes
<1> QED BY <1>1, <1>4, <1>5, <1>6

\* Fact: a step inside a call that moves entries around, but for those with
\* the key that is being inserted or removed, is none of the map.
LEMMA Quiet ==
  ASSUME IInv, IInv', InCall, InCall', request' = request, answer' = answer,
         \A k \in Keys : k # request.key \/ request.kind \notin {"insert", "remove"} =>
           Lookup(Stored', k) = Lookup(Stored, k),
         request.kind = "remove" =>
           (phase' = "shifting" \/ \E e \in Stored' : e.key = request.key)
             = (phase = "shifting" \/ \E e \in Stored : e.key = request.key)
  PROVE  UNCHANGED Map!vars
<1>1. request.kind \in Kinds /\ request.key \in Keys
  BY PromisedIs
<1>2. \A k \in Keys : Content(k)' = Content(k)
  BY DEF Content
<1>3. AsMap' = AsMap
  BY <1>2, MapIs
<1>4. Promised' = Promised
  <2>1. CASE request.kind = "insert"
    BY <2>1 DEF Promised
  <2>2. CASE request.kind = "get"
    BY <1>3, <2>2 DEF Promised
  <2>3. CASE request.kind = "contains"
    BY <1>3, <2>3 DEF Promised
  <2>4. CASE request.kind = "remove"
    BY <2>4 DEF Promised
  <2> QED BY <1>1, <2>1, <2>2, <2>3, <2>4 DEF Kinds
<1>5. phase # "aborted" /\ phase' # "aborted"
  BY DEF InCall
<1> QED BY <1>3, <1>4, <1>5 DEF Map!vars

\* Fact: a step that keeps the entries keeps the map.
LEMMA QuietMove ==
  ASSUME IInv, IInv', InCall, InCall', request' = request, answer' = answer, Stored' = Stored,
         phase' = phase \/ request.kind # "remove"
  PROVE  UNCHANGED Map!vars
<1>1. /\ \A k \in Keys : Lookup(Stored', k) = Lookup(Stored, k)
      /\ request.kind = "remove" =>
           (phase' = "shifting" \/ \E e \in Stored' : e.key = request.key)
             = (phase = "shifting" \/ \E e \in Stored : e.key = request.key)
  OBVIOUS
<1> QED BY <1>1, Quiet

\* Fact: a call returns what was promised, and leaves the map.
LEMMA Returns ==
  ASSUME IInv, InCall, phase' = "idle", answer' = Promised, Promised # Missing,
         \A k \in Keys : Lookup(Stored', k) = Content(k)
  PROVE  Map!Return
<1>1. ~ InCall' /\ phase # "aborted"
  BY DEF InCall
<1>2. \A k \in Keys : Content(k)' = Content(k)
  BY <1>1 DEF Content
<1>3. AsMap' = AsMap
  BY <1>2, MapIs
<1> QED BY <1>1, <1>3, PromisedIs DEF Map!Return, Map!NotFound, Map!Answered
-----------------------------------------------------------------------------
(* The steps.                                                              *)

\* Fact: a step that leaves the tables and their holes leaves the entries,
\* but for the one in hand.
LEMMA SameStored ==
  ASSUME UNCHANGED <<entries, old, counter>>, Hole' = Hole
  PROVE  \A e : e \in Stored' <=> \/ \E i \in Occupied \ Hole : e = entries[i]
                                  \/ \E j \in Remaining : e = old[j]
                                  \/ phase' = "inserting" /\ e = InHand'
<1>1. Occupied' = Occupied /\ Remaining' = Remaining
  BY DEF Occupied, Remaining
<1> QED BY <1>1, StoredIs

\* A step of the host: a call, or clear.
LEMMA InsertRefines ==
  ASSUME IInv, IInv', NEW k \in Keys, NEW v \in Values, Insert(k, v)
  PROVE  Map!Insert(k, v)
<1> USE DEF IInv
<1>1. /\ phase = "idle" /\ answer' = answer /\ ~ InCall
      /\ request' = [kind |-> "insert", key |-> k, value |-> v]
      /\ InCall' /\ phase' # "aborted"
  BY DEF Insert, InCall
<1>2. ~ Growing /\ Remaining = {} /\ Hole = {}
  BY <1>1, Basics DEF Phased, Hole
<1>3. \A q \in Keys : q # k => Lookup(Stored', q) = Lookup(Stored, q)
  <2>1. CASE MustGrow
    <3>1. entries' = Blank(2 * capacity) /\ old' = entries /\ counter' = 0 /\ phase' = "growing"
      BY <2>1 DEF Insert
    <3>2. capacity \in Nat /\ capacity >= 4 /\ DOMAIN entries = Slots
      BY Basics
    <3>3. Occupied' = {}
      BY <3>1, <3>2, EmptyTable
    <3>4. Remaining' = Occupied
      BY <3>1, <3>2 DEF Remaining, Occupied, Slots
    <3>5. Stored' = Stored
      BY <1>1, <1>2, <3>1, <3>3, <3>4, StoredIs
    <3> QED BY <3>5
  <2>2. CASE ~ MustGrow
    <3>1. /\ UNCHANGED <<entries, old, counter>> /\ phase' = "inserting" /\ cursor' = Start(k, v)
      BY <2>2 DEF Insert
    <3>2. InHand'.key = k /\ Hole' = Hole
      BY <1>1, <3>1 DEF InHand, Start, Hole
    <3>3. \A e : e.key # k => (e \in Stored' <=> e \in Stored)
      BY <1>1, <3>1, <3>2, SameStored, StoredIs
    <3>4. \A e, f \in Stored : e.key = f.key => e = f
      BY <1>1, StoredUnique
    <3> QED BY <3>3, <3>4, LookupSame
  <2> QED BY <2>1, <2>2
<1>4. \A q \in Keys : Content(q)' = IF q = k THEN v ELSE Content(q)
  BY <1>1, <1>3 DEF Content
<1>5. AsMap' = [AsMap EXCEPT ![k] = v]
  BY <1>4, MapIs
<1>6. Promised' = TRUE
  BY <1>1 DEF Promised
<1> QED BY <1>1, <1>5, <1>6 DEF Map!Insert, Map!Ask

LEMMA LookRefines ==
  ASSUME IInv, IInv', NEW k \in Keys, Look("contains", k) \/ Look("get", k) \/ Remove(k)
  PROVE  Map!Contains(k) \/ Map!Get(k) \/ Map!Remove(k)
<1> USE DEF IInv
<1>1. /\ phase = "idle" /\ answer' = answer /\ ~ InCall
      /\ UNCHANGED <<entries, old, counter>>
      /\ InCall' /\ phase' \in {"looking", "removing"}
  BY DEF Look, Remove, InCall
<1>2. Stored' = Stored
  BY <1>1, SameStored, StoredIs DEF Hole
<1>3. request \in [kind : Kinds, key : Keys, value : Values]
  BY DEF Typed
<1>4. AsMap[k] = Lookup(Stored, k)
  BY <1>1, MapIs DEF Content
<1>5. ASSUME NEW kind \in {"contains", "get"}, Look(kind, k)
      PROVE  /\ request'.kind = kind /\ request'.key = k /\ AsMap' = AsMap
             /\ AsMap'[k] = AsMap[k]
  <2>1. request'.kind = kind /\ request'.key = k
    BY <1>3, <1>5 DEF Look
  <2>2. \A q \in Keys : Content(q)' = Content(q)
    BY <1>1, <1>2, <2>1 DEF Content
  <2> QED BY <2>1, <2>2, MapIs
<1>6. CASE Look("contains", k)
  <2>1. Promised' = (AsMap[k] # Missing)
    BY <1>5, <1>6 DEF Promised
  <2> QED BY <1>1, <1>5, <1>6, <2>1 DEF Map!Contains, Map!Ask, Map!Holds
<1>7. CASE Look("get", k)
  <2>1. Promised' = AsMap[k]
    BY <1>5, <1>7 DEF Promised
  <2> QED BY <1>1, <1>5, <1>7, <2>1 DEF Map!Get, Map!Ask
<1>8. CASE Remove(k)
  <2>1. request'.kind = "remove" /\ request'.key = k /\ phase' = "removing"
    BY <1>3, <1>8 DEF Remove
  <2>2. \A q \in Keys : Content(q)' = IF q = k THEN Missing ELSE Content(q)
    BY <1>1, <1>2, <2>1 DEF Content
  <2>3. AsMap' = [AsMap EXCEPT ![k] = Missing]
    BY <2>2, MapIs
  <2>4. Promised' = (\E e \in Stored : e.key = k)
    BY <1>2, <2>1 DEF Promised
  <2>5. (\E e \in Stored : e.key = k) = (AsMap[k] # Missing)
    <3>1. ASSUME NEW e \in Stored, e.key = k PROVE Lookup(Stored, k) \in Values
      <4>1. \A f \in Stored : f.key = e.key => f = e
        BY <1>1, StoredUnique
      <4>2. e.value \in Values
        BY StoredTyped DEF Entries
      <4> QED BY <3>1, <4>1, <4>2, LookupOne
    <3>2. ASSUME ~ \E e \in Stored : e.key = k PROVE Lookup(Stored, k) = Missing
      BY <3>2, LookupNone
    <3> QED BY <1>4, <3>1, <3>2, DictAssumption
  <2> QED BY <1>1, <2>1, <2>3, <2>4, <2>5 DEF Map!Remove, Map!Ask, Map!Holds
<1> QED BY <1>6, <1>7, <1>8

LEMMA ClearRefines == ASSUME IInv, IInv', Clear PROVE Map!Clear
<1> USE DEF IInv
<1>1. /\ phase = "idle" /\ phase' = "idle" /\ answer' = answer /\ ~ InCall /\ ~ InCall' /\ old' = old
      /\ entries' = Blank(4)
  BY DEF Clear, InCall
<1>2. ~ Growing /\ Occupied' = {}
  BY <1>1, EmptyTable DEF Phased
<1>3. Remaining' = {}
  BY <1>1, <1>2, TableOrNone DEF Remaining, Growing
<1>4. Stored' = {}
  BY <1>1, <1>2, <1>3, StoredIs
<1>5. \A q \in Keys : Content(q)' = Missing
  BY <1>1, <1>4, LookupNone DEF Content
<1>6. AsMap' = [q \in Keys |-> Missing]
  BY <1>5, MapIs
<1> QED BY <1>1, <1>6 DEF Map!Clear
\* Steps of a call that the map does not see.
LEMMA ReinsertRefines == ASSUME IInv, IInv', Reinsert PROVE UNCHANGED Map!vars
<1> USE DEF IInv
<1>1. /\ phase = "growing" /\ InCall /\ InCall' /\ request' = request /\ answer' = answer
      /\ entries' = entries /\ request.kind = "insert" /\ Growing /\ Hole = {} /\ Hole' = {}
      /\ Occupied' = Occupied
  BY DEF Reinsert, InCall, Phased, Hole, Occupied
<1>2. /\ Capacity(old) \in Nat /\ DOMAIN old = 0 .. Capacity(old) - 1 /\ counter \in Nat
      /\ \A j \in Remaining : j \in DOMAIN old /\ old[j] \in Entries
  BY <1>1, Basics DEF Typed
<1>3. CASE counter < Capacity(old)
  <2>1. old' = old /\ counter' = counter + 1
    BY <1>3 DEF Reinsert
  <2>2. CASE old[counter] = Free
    <3>1. phase' = "growing" /\ Remaining' = Remaining
      BY <1>1, <1>2, <1>3, <2>1, <2>2 DEF Reinsert, Remaining
    <3>2. Stored' = Stored
      BY <1>1, <2>1, <3>1, StoredIs
    <3> QED BY <1>1, <3>2, QuietMove
  <2>3. CASE old[counter] # Free
    <3>1. /\ counter \in Remaining /\ Remaining' = Remaining \ {counter} /\ phase' = "inserting"
          /\ cursor' = Start(old[counter].key, old[counter].value)
      BY <1>1, <1>2, <1>3, <2>1, <2>3 DEF Reinsert, Remaining
    <3>2. InHand' = old[counter]
      BY <1>2, <3>1 DEF InHand, Start, Entries
    <3>3. Stored' = Stored
      BY <1>1, <2>1, <3>1, <3>2, StoredIs
    <3> QED BY <1>1, <3>3, QuietMove
  <2> QED BY <2>2, <2>3
<1>4. CASE ~ (counter < Capacity(old))
  <2>1. phase' = "inserting" /\ old' = << >> /\ cursor' = Start(request.key, request.value)
    BY <1>4 DEF Reinsert
  <2>2. Remaining = {} /\ Remaining' = {} /\ InHand'.key = request.key
    BY <1>2, <1>4, <2>1, TableOrNone DEF Remaining, InHand, Start
  <2>3. \A e : e.key # request.key => (e \in Stored' <=> e \in Stored)
    BY <1>1, <2>1, <2>2, StoredIs
  <2>4. \A e, f \in Stored : e.key = f.key => e = f
    BY <1>1, StoredUnique
  <2>5. \A k \in Keys : k # request.key => Lookup(Stored', k) = Lookup(Stored, k)
    BY <2>3, <2>4, LookupSame
  <2> QED BY <1>1, <2>5, Quiet
<1> QED BY <1>3, <1>4

LEMMA PassRefines == ASSUME IInv, IInv', Pass PROVE UNCHANGED Map!vars
<1>1. /\ UNCHANGED <<entries, old, counter, phase, request, answer>> /\ phase # "shifting"
      /\ InCall /\ InCall'
  BY DEF Pass, Probing, InCall
<1>2. InHand' = InHand
  BY DEF Pass, Advance, InHand, IInv, Typed
<1>3. Stored' = Stored
  BY <1>1, <1>2, SameStored, StoredIs DEF Hole
<1> QED BY <1>1, <1>3, QuietMove

LEMMA DisplaceRefines == ASSUME IInv, IInv', Displace PROVE UNCHANGED Map!vars
<1> USE DEF IInv
<1> DEFINE j == cursor.index
<1>1. /\ UNCHANGED <<size, old, counter, phase, request, answer>> /\ phase = "inserting"
      /\ InCall /\ InCall' /\ AtCloser /\ entries' = Write(entries, j, InHand)
      /\ Hole = {} /\ Hole' = {} /\ Remaining' = Remaining
  BY DEF Displace, Probing, InCall, Write, Hole, Remaining
<1>2. j \in Occupied /\ InHand \in Entries /\ InHand # Free /\ entries[j] \in Entries
      /\ \A i \in Occupied : i \in Slots
  BY <1>1, Basics, DictAssumption DEF Typed, AtCloser, AtFree, InHand, Entries
<1>3. InHand' = entries[j]
  BY <1>2 DEF Displace, Advance, InHand, Entries, Typed
<1>4. /\ entries'[j] = InHand /\ \A i \in Slots : i # j => entries'[i] = entries[i]
      /\ Occupied' = Occupied
  BY <1>1, <1>2, SlotWritten
<1>5. Stored' = Stored
  <2>1. ASSUME NEW e PROVE e \in Stored' <=> e \in Stored
    BY <1>1, <1>2, <1>3, <1>4, StoredIs
  <2> QED BY <2>1
<1> QED BY <1>1, <1>5, QuietMove

LEMMA RemoveFoundRefines == ASSUME IInv, IInv', RemoveFound PROVE UNCHANGED Map!vars
<1> USE DEF IInv
<1>1. /\ UNCHANGED <<entries, old, counter, request, cursor, answer>> /\ InCall /\ InCall'
      /\ phase = "removing" /\ phase' = "shifting" /\ AtKey /\ request.kind = "remove"
      /\ cursor.key = request.key
  BY DEF RemoveFound, Probing, InCall, Phased
<1>2. /\ cursor.index \in Occupied /\ entries[cursor.index].key = request.key
      /\ Hole = {} /\ Hole' = {cursor.index} /\ Occupied' = Occupied /\ Remaining' = Remaining
  BY <1>1, Basics DEF AtKey, AtFree, Typed, Hole, Occupied, Remaining
<1>3. entries[cursor.index] \in Stored
  BY <1>2, StoredIs
<1>4. \A e : e.key # request.key => (e \in Stored' <=> e \in Stored)
  BY <1>1, <1>2, StoredIs
<1>5. \A e, f \in Stored : e.key = f.key => e = f
  BY <1>1, StoredUnique
<1>6. \A k \in Keys : k # request.key => Lookup(Stored', k) = Lookup(Stored, k)
  BY <1>4, <1>5, LookupSame
<1>7. (phase' = "shifting" \/ \E e \in Stored' : e.key = request.key)
        = (phase = "shifting" \/ \E e \in Stored : e.key = request.key)
  BY <1>1, <1>2, <1>3
<1> QED BY <1>1, <1>6, <1>7, Quiet

\* An insertion that found where its entry belongs: the end of the call, or of
\* the turn of an old entry.
LEMMA InsertedRefines ==
  ASSUME IInv, IInv', phase = "inserting", Inserted,
         \A k \in Keys : k # request.key \/ Growing => Lookup(Stored', k) = Lookup(Stored, k),
         ~ Growing => Lookup(Stored', request.key) = request.value
  PROVE  Map!Return \/ UNCHANGED Map!vars
<1> USE DEF IInv
<1>1. /\ request' = request /\ InCall /\ request.kind = "insert" /\ Promised = TRUE
      /\ request.key \in Keys
  BY PromisedIs DEF Inserted, InCall, Phased
<1>2. CASE Growing
  <2>1. phase' = "growing" /\ answer' = answer /\ InCall'
    BY <1>2 DEF Inserted, InCall, Growing
  <2> QED BY <1>1, <1>2, <2>1, Quiet
<1>3. CASE ~ Growing
  <2>1. phase' = "idle" /\ answer' = TRUE
    BY <1>3 DEF Inserted, Return, Growing
  <2>2. \A k \in Keys : Lookup(Stored', k) = Content(k)
    BY <1>1, <1>3 DEF Content
  <2> QED BY <1>1, <2>1, <2>2, Returns, DictAssumption
<1> QED BY <1>2, <1>3
\* Fact: after an insertion, no key is stored twice.
LEMMA UniqueAfter ==
  ASSUME IInv', phase' # "inserting", NEW e \in Stored', NEW f \in Stored', e.key = f.key
  PROVE  e = f
<1>1. /\ \A i, j \in Occupied' \ Hole' : entries'[i].key = entries'[j].key => i = j
      /\ \A i, j \in Remaining' : old'[i].key = old'[j].key => i = j
      /\ \A i \in Occupied', j \in Remaining' : entries'[i].key # old'[j].key
  BY DEF IInv, Unique
<1> QED BY <1>1, StoredIs

\* Fact: what an insertion looks up, once the entry of the call is stored.
LEMMA InsertedEntry ==
  ASSUME IInv, IInv', phase' # "inserting", Requested \in Stored'
  PROVE  Lookup(Stored', request.key) = request.value
<1>1. Requested.key = request.key /\ Requested.value = request.value
  BY DEF Requested
<1>2. \A f \in Stored' : f.key = Requested.key => f = Requested
  BY UniqueAfter
<1>3. Lookup(Stored', Requested.key) = Requested.value
  BY <1>2, LookupOne
<1> QED BY <1>1, <1>3

\* Fact: the slot of a probe, the one behind it, and the entry in hand.
LEMMA ProbeTyped ==
  ASSUME Typed
  PROVE  /\ cursor.index \in Slots /\ Follower \in Slots /\ Follower # cursor.index
         /\ InHand \in Entries /\ InHand # Free /\ InHand.key = cursor.key
         /\ cursor.value \in Values
<1>1. cursor.key \in Keys /\ cursor.value \in Values /\ cursor.index \in Slots
  BY DEF Typed
<1>2. InHand \in Entries /\ InHand.key = cursor.key
  BY <1>1 DEF InHand, Entries
<1>3. InHand # Free
  BY <1>2, DictAssumption
<1>4. capacity \in Nat \ {0} /\ capacity >= 4 /\ cursor.index \in 0 .. capacity - 1
  BY <1>1, Basics DEF Slots
<1> DEFINE n == capacity
           h == cursor.index
<1> HIDE DEF n, h
<1>5. ASSUME n \in Nat \ {0}, n >= 4, h \in 0 .. n - 1
      PROVE  After(n, h) \in 0 .. n - 1 /\ After(n, h) # h
  <2>1. /\ After(n, h) \in 0 .. n - 1 /\ Behind(n, h, h) = 0
        /\ Behind(n, After(n, h), h) = IF Behind(n, h, h) = n - 1 THEN 0
                                       ELSE Behind(n, h, h) + 1
    BY <1>5, BehindAfter
  <2> QED BY <1>5, <2>1
<1>6. After(capacity, cursor.index) \in 0 .. capacity - 1 /\ After(capacity, cursor.index) # cursor.index
  BY <1>4, <1>5 DEF n, h
<1>7. Follower = After(capacity, cursor.index)
  BY DEF Follower, NextSlot, After
<1> QED BY <1>1, <1>2, <1>3, <1>6, <1>7 DEF Slots

LEMMA PlaceRefines == ASSUME IInv, IInv', Place PROVE Map!Return \/ UNCHANGED Map!vars
<1> USE DEF IInv
<1> DEFINE j == cursor.index
<1>1. /\ phase = "inserting" /\ Inserted /\ AtFree /\ entries' = Write(entries, j, InHand)
      /\ phase' # "inserting" /\ Hole = {} /\ Hole' = {} /\ Remaining' = Remaining /\ old' = old
  BY DEF Place, Probing, Inserted, Return, Write, Hole, Remaining
<1>2. j \notin Occupied /\ j \in Slots /\ InHand \in Entries /\ InHand # Free
      /\ \A i \in Occupied : i \in Slots
  BY <1>1, Basics, ProbeTyped DEF AtFree
<1>3. /\ entries'[j] = InHand /\ \A i \in Slots : i # j => entries'[i] = entries[i]
      /\ Occupied' = Occupied \cup {j}
  BY <1>1, <1>2, SlotWritten
<1>4. Stored' = Stored
  <2>1. ASSUME NEW e PROVE e \in Stored' <=> e \in Stored
    BY <1>1, <1>2, <1>3, StoredIs
  <2> QED BY <2>1
<1>5. ASSUME ~ Growing PROVE Lookup(Stored', request.key) = request.value
  <2>1. InHand = Requested \/ \E i \in Occupied : entries[i] = Requested
    BY <1>1, <1>5 DEF Unique
  <2>2. Requested \in Stored
    BY <1>1, <2>1, StoredIs
  <2> QED BY <1>1, <1>4, <2>2, InsertedEntry
<1> QED BY <1>1, <1>4, <1>5, InsertedRefines

LEMMA ReplaceRefines == ASSUME IInv, IInv', Replace PROVE Map!Return \/ UNCHANGED Map!vars
<1> USE DEF IInv
<1> DEFINE j == cursor.index
<1>1. /\ phase = "inserting" /\ Inserted /\ AtKey
      /\ phase' # "inserting" /\ Hole = {} /\ Hole' = {} /\ Remaining' = Remaining /\ old' = old
  BY DEF Replace, Probing, Inserted, Return, Hole, Remaining
<1>2. /\ j \in Occupied /\ entries[j].key = cursor.key /\ InHand \in Entries /\ InHand # Free
      /\ entries[j] \in Entries /\ \A i \in Occupied : i \in Slots
  BY <1>1, Basics, ProbeTyped DEF AtKey, AtFree
<1>3. ~ Growing /\ InHand = Requested /\ cursor.key = request.key
  BY <1>1, <1>2 DEF Unique, InHand, Requested
<1>4. [entries[j] EXCEPT !.value = cursor.value] = InHand
  BY <1>2 DEF InHand, Entries
<1>5. entries' = Write(entries, j, InHand)
  BY <1>4 DEF Replace, Write
<1>6. /\ entries'[j] = InHand /\ \A i \in Slots : i # j => entries'[i] = entries[i]
      /\ Occupied' = Occupied
  BY <1>2, <1>5, SlotWritten
<1>7. Requested \in Stored'
  BY <1>1, <1>2, <1>3, <1>6, StoredIs
<1>8. \A e : e.key # request.key => (e \in Stored' <=> e \in Stored)
  BY <1>1, <1>2, <1>3, <1>6, StoredIs
<1>9. \A k \in Keys : k # request.key => Lookup(Stored', k) = Lookup(Stored, k)
  <2> SUFFICES ASSUME NEW k \in Keys, k # request.key PROVE Lookup(Stored', k) = Lookup(Stored, k)
    OBVIOUS
  <2>1. \A e, f \in Stored' : e.key = k /\ f.key = k => e = f
    BY <1>1, UniqueAfter
  <2> QED BY <1>8, <2>1, LookupSame
<1> QED BY <1>1, <1>3, <1>7, <1>9, InsertedEntry, InsertedRefines

LEMMA ShiftRefines == ASSUME IInv, IInv', Shift PROVE Map!Return \/ UNCHANGED Map!vars
<1> USE DEF IInv
<1> DEFINE h == cursor.index
           f == Follower
<1>1. /\ phase = "shifting" /\ UNCHANGED <<size, old, counter, request>> /\ ~ Growing
      /\ request.kind = "remove" /\ InCall /\ Hole = {h} /\ Remaining' = Remaining
      /\ h \in Occupied
  BY DEF Shift, Phased, InCall, Hole, Remaining, Unique
<1>2. /\ capacity \in Nat /\ capacity >= 4 /\ h \in Slots /\ f \in Slots /\ f # h
      /\ f \in Occupied <=> entries[f] # Free
      /\ \A i \in Occupied : i \in Slots /\ entries[i] \in Entries
  BY Basics, ProbeTyped
<1>3. CASE Last
  <2>1. /\ entries' = Write(entries, h, Free) /\ phase' = "idle" /\ answer' = TRUE
    BY <1>3 DEF Shift, Return, Write
  <2>2. /\ \A i \in Slots : i # h => entries'[i] = entries[i]
        /\ Occupied' = Occupied \ {h}
    BY <1>2, <2>1, SlotWritten
  <2>3. Stored' = Stored
    <3>1. ASSUME NEW e PROVE e \in Stored' <=> e \in Stored
      BY <1>1, <1>2, <2>1, <2>2, StoredIs DEF Hole
    <3> QED BY <3>1
  <2>4. Lookup(Stored, request.key) = Missing
    <3>1. \A i \in Occupied \ Hole : entries[i].key # request.key
      BY <1>1 DEF Unique
    <3>2. Remaining = {}
      BY <1>1, Basics
    <3>3. \A e \in Stored : e.key # request.key
      BY <1>1, <3>1, <3>2, StoredIs
    <3> QED BY <3>3, LookupNone
  <2>5. Promised = TRUE
    BY <1>1, PromisedIs
  <2>6. \A k \in Keys : Lookup(Stored', k) = Content(k)
    BY <1>1, <2>3, <2>4 DEF Content
  <2> QED BY <1>1, <2>1, <2>5, <2>6, Returns, DictAssumption
<1>4. CASE ~ Last
  <2>1. /\ entries' = Write(entries, h, entries[f]) /\ UNCHANGED <<phase, answer>>
        /\ cursor' = [cursor EXCEPT !.index = f]
    BY <1>4 DEF Shift, Write
  <2>2. f \in Occupied /\ entries[f] \in Entries /\ entries[f] # Free /\ Hole' = {f} /\ InCall'
    BY <1>1, <1>2, <1>4, <2>1 DEF Last, Hole, Typed, InCall
  <2>3. /\ entries'[h] = entries[f] /\ \A i \in Slots : i # h => entries'[i] = entries[i]
        /\ Occupied' = Occupied
    BY <1>1, <1>2, <2>1, <2>2, SlotWritten
  <2>4. Stored' = Stored
    <3>1. ASSUME NEW e PROVE e \in Stored' <=> e \in Stored
      BY <1>1, <1>2, <2>1, <2>2, <2>3, StoredIs
    <3> QED BY <3>1
  <2> QED BY <1>1, <2>1, <2>2, <2>4, QuietMove
<1> QED BY <1>3, <1>4

\* Fact: what a lookup or a removal meets is what the map holds.
LEMMA Meets ==
  ASSUME IInv, phase \in {"looking", "removing"}
  PROVE  /\ AtKey => Lookup(Stored, request.key) = entries[cursor.index].value
                     /\ \E e \in Stored : e.key = request.key
         /\ AtFree \/ AtCloser \/ size = 0 => \A e \in Stored : e.key # request.key
         /\ \A k \in Keys : Lookup(Stored, k) \in Values \cup {Missing}
         /\ AtKey => entries[cursor.index].value \in Values
<1> USE DEF IInv
<1>1. /\ ~ Growing /\ Hole = {} /\ cursor.key = request.key /\ Remaining = {} /\ Probes
      /\ \A i \in Slots : i \in Occupied <=> entries[i] # Free
      /\ \A i \in Occupied : entries[i] \in Entries
      /\ cursor.index \in Slots
  BY Basics DEF Phased, Growing, Hole, Typed, Probes
<1>2. \A e, f \in Stored : e.key = f.key => e = f
  BY StoredUnique
<1>3. ASSUME AtKey
      PROVE  /\ Lookup(Stored, request.key) = entries[cursor.index].value
             /\ \E e \in Stored : e.key = request.key
             /\ entries[cursor.index].value \in Values
  <2> DEFINE e == entries[cursor.index]
  <2>1. cursor.index \in Occupied /\ e.key = request.key /\ e.value \in Values
    BY <1>1, <1>3 DEF AtKey, AtFree, Entries
  <2>2. e \in Stored
    BY <1>1, <2>1, StoredIs
  <2>3. Lookup(Stored, e.key) = e.value
    BY <1>2, <2>2, LookupOne
  <2> QED BY <2>1, <2>2, <2>3
<1>4. ASSUME AtFree \/ AtCloser \/ size = 0
      PROVE  \A e \in Stored : e.key # request.key
  <2>1. CASE AtFree \/ AtCloser
    BY <1>1, <2>1, KeyIsNew, StoredIs
  <2>2. CASE size = 0
    <3>1. IsFiniteSet(Occupied) /\ Cardinality(Occupied) = 0
      BY <2>2, Basics, Tables DEF Roomy, Typed
    <3>2. Occupied = {}
      BY <3>1, FS_EmptySet
    <3> QED BY <1>1, <3>2, StoredIs
  <2> QED BY <1>4, <2>1, <2>2
<1>5. ASSUME NEW k \in Keys PROVE Lookup(Stored, k) \in Values \cup {Missing}
  <2>1. CASE \E e \in Stored : e.key = k
    <3>1. PICK e \in Stored : e.key = k
      BY <2>1
    <3>2. Lookup(Stored, e.key) = e.value
      BY <1>2, LookupOne
    <3> QED BY <3>1, <3>2, StoredTyped DEF Entries
  <2>2. CASE ~ \E e \in Stored : e.key = k
    BY <2>2, LookupNone
  <2> QED BY <2>1, <2>2
<1> QED BY <1>3, <1>4, <1>5

\* A lookup, or a removal of nothing, that ends.
LEMMA EndRefines ==
  ASSUME IInv, IInv', Found \/ NotFound \/ NothingToRemove \/ AssertionFails
  PROVE  Map!Return \/ Map!Stop
<1> USE DEF IInv
<1>1. /\ UNCHANGED <<entries, old, counter, request, cursor>> /\ InCall
      /\ phase \in {"looking", "removing"} /\ phase' \in {"idle", "aborted"}
      /\ ~ InCall'
      /\ phase = "looking" => request.kind \in {"get", "contains"}
      /\ phase = "removing" => request.kind = "remove"
  BY NeverAround DEF Found, NotFound, NothingToRemove, AssertionFails, Return, Probing,
     Unsuccessful, InCall, Phased
<1>2. Stored' = Stored
  BY <1>1, SameStored, StoredIs DEF Hole
<1>3. request.key \in Keys
  BY PromisedIs, <1>1
<1>4. ASSUME phase = "looking"
      PROVE  \A k \in Keys : Lookup(Stored', k) = Content(k)
  BY <1>1, <1>2, <1>4 DEF Content
<1>5. CASE Found
  <2>1. AtKey /\ phase = "looking" /\ phase' = "idle"
    BY <1>5 DEF Found, Return, Probing
  <2>2. answer' = Promised /\ Promised # Missing
    BY <1>1, <1>3, <1>5, <2>1, Meets, PromisedIs, DictAssumption DEF Found, Return
  <2> QED BY <1>1, <1>4, <2>1, <2>2, Returns
<1>6. CASE NotFound
  <2>1. (AtFree \/ AtCloser \/ size = 0) /\ phase = "looking" /\ phase' = "idle" /\ answer' = FALSE
        /\ request.kind = "contains"
    BY <1>6 DEF NotFound, Return, Unsuccessful, Probing
  <2>2. Lookup(Stored, request.key) = Missing
    BY <1>1, <2>1, Meets, LookupNone
  <2>3. answer' = Promised /\ Promised # Missing
    BY <1>1, <2>1, <2>2, PromisedIs, DictAssumption
  <2> QED BY <1>1, <1>4, <2>1, <2>3, Returns
<1>7. CASE NothingToRemove
  <2>1. (AtFree \/ AtCloser) /\ phase = "removing" /\ phase' = "idle" /\ answer' = FALSE
    BY <1>7 DEF NothingToRemove, Return, Probing
  <2>2. \A e \in Stored : e.key # request.key
    BY <1>1, <2>1, Meets
  <2>3. Promised = FALSE /\ Promised # Missing
    BY <1>1, <2>1, <2>2, PromisedIs, DictAssumption
  <2>4. \A k \in Keys : Lookup(Stored', k) = Content(k)
    BY <1>1, <1>2, <2>1, <2>2, LookupNone DEF Content
  <2> QED BY <1>1, <2>1, <2>3, <2>4, Returns
<1>8. CASE AssertionFails
  <2>1. (AtFree \/ AtCloser \/ size = 0) /\ phase = "looking" /\ phase' = "aborted" /\ answer' = Missing
        /\ request.kind = "get"
    BY <1>8, NeverAround DEF AssertionFails, Unsuccessful, Probing
  <2>2. Lookup(Stored, request.key) = Missing
    BY <1>1, <2>1, Meets, LookupNone
  <2>3. Promised = Missing
    BY <1>1, <2>1, <2>2, PromisedIs
  <2>4. \A k \in Keys : Content(k)' = Content(k)
    BY <1>1, <1>4, <2>1 DEF Content
  <2>5. AsMap' = AsMap
    BY <2>4, MapIs
  <2> QED BY <1>1, <2>1, <2>3, <2>5, PromisedIs DEF Map!Stop, Map!NotFound, Map!Answered
<1> QED BY <1>5, <1>6, <1>7, <1>8
-----------------------------------------------------------------------------
\* A new table stands for the empty map.
LEMMA InitRefines == ASSUME Init PROVE Map!Init
<1>1. /\ phase = "idle" /\ entries = Blank(4) /\ old = << >> /\ answer = Missing
  BY DEF Init
<1>2. Occupied = {} /\ Remaining = {} /\ ~ InCall
  BY <1>1, TableOrNone DEF Occupied, Blank, Remaining, InCall
<1>3. Stored = {}
  BY <1>1, <1>2, StoredIs
<1>4. \A k \in Keys : Content(k) = Missing
  BY <1>2, <1>3, LookupNone DEF Content
<1>5. AsMap = [k \in Keys |-> Missing]
  BY <1>4, MapIs
<1> QED BY <1>1, <1>2, <1>5 DEF Map!Init

\* Every behaviour of the table, seen as a map, is one of DictMap but for what
\* it says of fairness: for every hash function and every sequence of calls no
\* entry is lost, doubled or brought back by a displacement, a growth or a
\* backward shift, every call that returns gives the answer of the map, and
\* only get of a missing key stops the program.
THEOREM ImplementsMapSafety == Spec => Map!Init /\ [][Map!Next]_(Map!vars)
<1>1. IInv /\ IInv' /\ [Next]_vars => [Map!Next]_(Map!vars)
  <2> SUFFICES ASSUME IInv, IInv', [Next]_vars PROVE [Map!Next]_(Map!vars)
    OBVIOUS
  <2>1. CASE UNCHANGED vars
    <3>1. UNCHANGED <<entries, old, counter, phase, request, cursor, answer>>
      BY <2>1 DEF vars
    <3>2. Stored' = Stored
      BY <3>1, SameStored, StoredIs DEF Hole, InHand
    <3>3. InCall' = InCall
      BY <3>1 DEF InCall
    <3>4. CASE InCall
      BY <3>1, <3>2, <3>3, <3>4, QuietMove
    <3>5. CASE ~ InCall
      <4>1. \A k \in Keys : Content(k)' = Content(k)
        BY <3>2, <3>3, <3>5 DEF Content
      <4>2. AsMap' = AsMap
        BY <4>1, MapIs
      <4> QED BY <3>1, <3>3, <3>5, <4>2 DEF Map!vars
    <3> QED BY <3>4, <3>5
  <2>2. CASE Step
    <3>1. CASE Reinsert \/ Pass \/ Displace \/ RemoveFound
      BY <3>1, ReinsertRefines, PassRefines, DisplaceRefines, RemoveFoundRefines
    <3>2. CASE Place \/ Replace \/ Shift
      BY <3>2, PlaceRefines, ReplaceRefines, ShiftRefines DEF Map!Next
    <3>3. CASE Found \/ NotFound \/ NothingToRemove \/ AssertionFails
      BY <3>3, EndRefines DEF Map!Next
    <3> QED BY <2>2, <3>1, <3>2, <3>3 DEF Step
  <2>3. CASE Clear
    BY <2>3, ClearRefines DEF Map!Next
  <2>4. ASSUME NEW k \in Keys, NEW v \in Values, Insert(k, v)
        PROVE  Map!Next
    BY <2>4, InsertRefines DEF Map!Next
  <2>5. ASSUME NEW k \in Keys, Remove(k) \/ Look("contains", k) \/ Look("get", k)
        PROVE  Map!Next
    BY <2>5, LookRefines DEF Map!Next
  <2> QED BY <2>1, <2>2, <2>3, <2>4, <2>5 DEF Next
<1>2. Init => Map!Init
  BY InitRefines
<1> QED BY <1>1, <1>2, DictInvariant, PTL DEF Spec
==============================================================================
