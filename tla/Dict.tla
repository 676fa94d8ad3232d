--------------------------------- MODULE Dict ---------------------------------
(***************************************************************************)
(* Dict of the standard library: an open-addressing table that keeps its   *)
(* entries ordered by probe distance (Robin Hood), grows at three quarters *)
(* and removes by shifting the entries that follow back. The code is       *)
(* sequential: one iteration of one of its loops is one action, and the    *)
(* host is back when the phase is "idle".                                  *)
(***************************************************************************)
EXTENDS Integers, FiniteSets

CONSTANTS
  Keys, Values, Missing, Idle,
  HashOf,    \* compute_hash_of, whatever the host defined
  Free       \* a slot that is not occupied

Entries == [key : Keys, value : Values]
Kinds == {"insert", "remove", "contains", "get"}

ASSUME DictAssumption ==
  /\ Missing \notin Values \cup BOOLEAN
  /\ Free \notin Entries
  /\ Idle \notin [kind : Kinds, promised : Values \cup BOOLEAN \cup {Missing}]
  /\ HashOf \in [Keys -> Nat]

VARIABLES
  entries,   \* the table; its domain is 0 .. capacity - 1
  size,
  old,       \* while growing, the table that is replaced
  counter,   \* and the next of its slots to look at
  phase,
  request,   \* the call in progress: kind, key, value
  cursor,    \* the probe: the entry in hand, index, distance, probe_count
  answer

vars == <<entries, size, old, counter, phase, request, cursor, answer>>

Capacity(table) == Cardinality(DOMAIN table)
capacity == Capacity(entries)
Slots == 0 .. capacity - 1
Blank(n) == [i \in 0 .. n - 1 |-> Free]
Occupied == {i \in DOMAIN entries : entries[i] # Free}

NextSlot(i) == (i + 1) % capacity
Home(k) == HashOf[k] % capacity
Distance(i) == (i + capacity - Home(entries[i].key)) % capacity

Phases == {"idle", "growing", "inserting", "looking", "removing", "shifting", "aborted"}

TypeOK ==
  /\ capacity \in Nat \ {0} /\ DOMAIN entries = Slots
  /\ \A i \in Slots : entries[i] \in Entries \cup {Free}
  /\ size \in 0 .. capacity
  /\ \A i \in DOMAIN old : old[i] \in Entries \cup {Free}
  /\ counter \in 0 .. Capacity(old)
  /\ phase \in Phases
  /\ request.kind \in Kinds /\ request.key \in Keys
  /\ cursor.index \in Slots /\ cursor.distance \in Nat /\ cursor.probes \in Nat
  /\ answer \in Values \cup BOOLEAN \cup {Missing}

-----------------------------------------------------------------------------
Start(k, v) == [key |-> k, value |-> v, index |-> Home(k), distance |-> 0, probes |-> 0]

Init ==
  /\ entries = Blank(4)
  /\ size = 0
  /\ old = << >>
  /\ counter = 0
  /\ phase = "idle"
  /\ \E k \in Keys, v \in Values :
       /\ request = [kind |-> "insert", key |-> k, value |-> v]
       /\ cursor = Start(k, v)
  /\ answer = Missing

Return(outcome) ==
  /\ phase' = "idle"
  /\ answer' = outcome

\* What every probe does to the cursor.
Advance == [cursor EXCEPT !.index = NextSlot(@), !.distance = @ + 1, !.probes = @ + 1]

\* The probe meets a free slot, an entry with the key in hand, or an entry
\* that is closer to its home than the probe is.
AtFree == entries[cursor.index] = Free
AtKey == ~ AtFree /\ entries[cursor.index].key = cursor.key
AtCloser == ~ AtFree /\ ~ AtKey /\ Distance(cursor.index) < cursor.distance
AtFarther == ~ AtFree /\ ~ AtKey /\ Distance(cursor.index) >= cursor.distance

Probing(p) == phase = p /\ cursor.probes < capacity
Exhausted == phase \in {"inserting", "looking", "removing"} /\ cursor.probes >= capacity

-----------------------------------------------------------------------------
(* insert, _insert, _grow                                                  *)

MustGrow == 4 * (size + 1) > 3 * capacity

Insert(k, v) ==
  /\ phase = "idle"
  /\ request' = [kind |-> "insert", key |-> k, value |-> v]
  /\ IF MustGrow
     THEN /\ old' = entries
          /\ counter' = 0
          /\ entries' = Blank(2 * capacity)
          /\ size' = 0
          /\ phase' = "growing"
          /\ UNCHANGED cursor
     ELSE /\ phase' = "inserting"
          /\ cursor' = Start(k, v)
          /\ UNCHANGED <<entries, size, old, counter>>
  /\ UNCHANGED answer

\* The entries of the old table are inserted again; then the old table is
\* destroyed and the entry the call is about is inserted.
Reinsert ==
  /\ phase = "growing"
  /\ IF counter < Capacity(old)
     THEN /\ counter' = counter + 1
          /\ IF old[counter] = Free
             THEN UNCHANGED <<phase, cursor>>
             ELSE /\ phase' = "inserting"
                  /\ cursor' = Start(old[counter].key, old[counter].value)
          /\ UNCHANGED old
     ELSE /\ counter' = 0
          /\ old' = << >>
          /\ phase' = "inserting"
          /\ cursor' = Start(request.key, request.value)
  /\ UNCHANGED <<entries, size, request, answer>>

InHand == [key |-> cursor.key, value |-> cursor.value]

\* _insert returns: to the loop of _grow, or to the host.
Inserted ==
  /\ IF old # << >> THEN phase' = "growing" /\ UNCHANGED answer ELSE Return(TRUE)
  /\ UNCHANGED <<old, counter, request, cursor>>

Place ==
  /\ Probing("inserting") /\ AtFree
  /\ entries' = [entries EXCEPT ![cursor.index] = InHand]
  /\ size' = size + 1
  /\ Inserted

Replace ==
  /\ Probing("inserting") /\ AtKey
  /\ entries' = [entries EXCEPT ![cursor.index].value = cursor.value]
  /\ UNCHANGED size
  /\ Inserted

\* Faults: the displaced entry keeps the value of the one that displaced it;
\* an entry is never displaced.
DisplaceKeepingValue ==
  /\ Probing("inserting") /\ AtCloser
  /\ entries' = [entries EXCEPT ![cursor.index] = InHand]
  /\ cursor' = [Advance EXCEPT !.key = entries[cursor.index].key,
                               !.distance = Distance(cursor.index) + 1]
  /\ UNCHANGED <<size, old, counter, phase, request, answer>>
NeverDisplace ==
  /\ Probing("inserting") /\ AtCloser
  /\ cursor' = Advance
  /\ UNCHANGED <<entries, size, old, counter, phase, request, answer>>

\* The entry in hand takes the slot, and the one it displaces goes on.
Displace ==
  /\ Probing("inserting") /\ AtCloser
  /\ entries' = [entries EXCEPT ![cursor.index] = InHand]
  /\ cursor' = [Advance EXCEPT !.key = entries[cursor.index].key,
                               !.value = entries[cursor.index].value,
                               !.distance = Distance(cursor.index) + 1]
  /\ UNCHANGED <<size, old, counter, phase, request, answer>>

-----------------------------------------------------------------------------
(* get, contains, remove                                                   *)

Pass ==
  /\ \E p \in {"inserting", "looking", "removing"} : Probing(p)
  /\ AtFarther
  /\ cursor' = Advance
  /\ UNCHANGED <<entries, size, old, counter, phase, request, answer>>

Look(kind, k) ==
  /\ phase = "idle"
  /\ request' = [request EXCEPT !.kind = kind, !.key = k]
  /\ cursor' = Start(k, cursor.value)
  /\ phase' = "looking"
  /\ UNCHANGED <<entries, size, old, counter, answer>>

Found ==
  /\ Probing("looking") /\ size # 0 /\ AtKey
  /\ Return(IF request.kind = "get" THEN entries[cursor.index].value ELSE TRUE)
  /\ UNCHANGED <<entries, size, old, counter, request, cursor>>

\* An empty dictionary is not probed.
Unsuccessful == Probing("looking") /\ (size = 0 \/ AtFree \/ AtCloser)

NotFound ==
  /\ Unsuccessful /\ request.kind = "contains"
  /\ Return(FALSE)
  /\ UNCHANGED <<entries, size, old, counter, request, cursor>>

\* assert(false, ...): get finds no key, or a probe went all around the table.
AssertionFails ==
  /\ Exhausted \/ (Unsuccessful /\ request.kind = "get")
  /\ phase' = "aborted"
  /\ answer' = Missing
  /\ UNCHANGED <<entries, size, old, counter, request, cursor>>

Remove(k) ==
  /\ phase = "idle"
  /\ request' = [request EXCEPT !.kind = "remove", !.key = k]
  /\ cursor' = Start(k, cursor.value)
  /\ phase' = "removing"
  /\ UNCHANGED <<entries, size, old, counter, answer>>

NothingToRemove ==
  /\ Probing("removing") /\ (AtFree \/ AtCloser)
  /\ Return(FALSE)
  /\ UNCHANGED <<entries, size, old, counter, request, cursor>>

\* The entry is found: its slot is the hole the followers move back into.
RemoveFound ==
  /\ Probing("removing") /\ AtKey
  /\ size' = size - 1
  /\ phase' = "shifting"
  /\ UNCHANGED <<entries, old, counter, request, cursor, answer>>

Follower == NextSlot(cursor.index)

\* Nothing is left to move back.
Last == entries[Follower] = Free \/ Distance(Follower) = 0

Shift ==
  /\ phase = "shifting"
  /\ IF Last
     THEN /\ entries' = [entries EXCEPT ![cursor.index] = Free]
          /\ Return(TRUE)
          /\ UNCHANGED cursor
     ELSE /\ entries' = [entries EXCEPT ![cursor.index] = entries[Follower]]
          /\ cursor' = [cursor EXCEPT !.index = Follower]
          /\ UNCHANGED <<phase, answer>>
  /\ UNCHANGED <<size, old, counter, request>>

\* The table is replaced by a new one of 4.
Clear ==
  /\ phase = "idle"
  /\ entries' = Blank(4)
  /\ size' = 0
  /\ cursor' = [cursor EXCEPT !.index = 0]
  /\ UNCHANGED <<old, counter, phase, request, answer>>

Step ==
  \/ Reinsert \/ Place \/ Replace \/ Displace \/ Pass
  \/ AssertionFails \/ Found \/ NotFound \/ NothingToRemove \/ RemoveFound \/ Shift

Next ==
  \/ Step
  \/ Clear
  \/ \E k \in Keys, v \in Values : Insert(k, v)
  \/ \E k \in Keys : Remove(k) \/ Look("contains", k) \/ Look("get", k)

\* Sequential code: a call that was made goes on.
Spec == Init /\ [][Next]_vars /\ WF_vars(Step)

-----------------------------------------------------------------------------
(* Properties.                                                             *)

\* The entries that are somewhere: in the table (but for the hole a removal
\* leaves behind it), in the part of the old table that was not copied yet,
\* or in hand.
Stored ==
  {entries[i] : i \in Occupied \ (IF phase = "shifting" THEN {cursor.index} ELSE {})}
    \cup {old[i] : i \in {j \in DOMAIN old : j >= counter /\ old[j] # Free}}
    \cup (IF phase = "inserting" THEN {InHand} ELSE {})

InCall == phase \notin {"idle", "aborted"}

\* The map the table stands for; a call counts as done when it is made.
AsMap ==
  [k \in Keys |->
     IF InCall /\ request.kind = "insert" /\ k = request.key THEN request.value
     ELSE IF InCall /\ request.kind = "remove" /\ k = request.key THEN Missing
     ELSE IF \E e \in Stored : e.key = k
          THEN (CHOOSE e \in Stored : e.key = k).value ELSE Missing]

Promised ==
  CASE request.kind = "insert" -> TRUE
    [] request.kind = "get" -> AsMap[request.key]
    [] request.kind = "contains" -> AsMap[request.key] # Missing
    [] request.kind = "remove" ->
         phase = "shifting" \/ \E e \in Stored : e.key = request.key

Map == INSTANCE DictMap WITH
         map <- AsMap,
         call <- IF InCall THEN [kind |-> request.kind, promised |-> Promised] ELSE Idle,
         stopped <- phase = "aborted"

\* The table is a map: no entry is lost, doubled or brought back by a
\* displacement, a growth or a backward shift; every answer is the map's,
\* only get of a missing key stops the program (no probe ever runs out), and
\* every call returns.
ImplementsMap == Map!Spec

\* Between calls no entry is more than one step farther from its home than the
\* one before it, so a probe may stop at the first entry that is closer; no
\* key is there twice; and size, which bounds the loops of keys() and
\* values(), counts the entries.
RobinHood ==
  phase = "idle" =>
    /\ \A i \in Occupied : Distance(i) > 0 =>
         LET before == (i + capacity - 1) % capacity
         IN  before \in Occupied /\ Distance(before) >= Distance(i) - 1
    /\ \A i, j \in Occupied : entries[i].key = entries[j].key => i = j
    /\ size = Cardinality(Occupied)
===============================================================================
