------------------------------- MODULE DictMap -------------------------------
(***************************************************************************)
(* What a dictionary promises: a map. A call takes its effect and fixes    *)
(* its answer when it is made, and gives that answer some time later; get  *)
(* of a key that is not there stops the program.                           *)
(***************************************************************************)
CONSTANTS
  Keys, Values,
  Missing,      \* what the map holds for a key that is not there
  Idle          \* no call is in progress

VARIABLES
  map,
  call,      \* the call in progress and the answer it will give
  answer,    \* what the last call answered
  stopped    \* an assertion failed

vars == <<map, call, answer, stopped>>

Init ==
  /\ map = [k \in Keys |-> Missing]
  /\ call = Idle
  /\ answer = Missing
  /\ stopped = FALSE

Holds(k) == map[k] # Missing

Ask(kind, promised) ==
  /\ call = Idle
  /\ ~ stopped
  /\ call' = [kind |-> kind, promised |-> promised]
  /\ UNCHANGED <<answer, stopped>>

Insert(k, v) == Ask("insert", TRUE) /\ map' = [map EXCEPT ![k] = v]
Remove(k) == Ask("remove", Holds(k)) /\ map' = [map EXCEPT ![k] = Missing]
Contains(k) == Ask("contains", Holds(k)) /\ UNCHANGED map
Get(k) == Ask("get", map[k]) /\ UNCHANGED map

Clear ==
  /\ call = Idle
  /\ ~ stopped
  /\ map' = [k \in Keys |-> Missing]
  /\ UNCHANGED <<call, answer, stopped>>

Answered(outcome) ==
  /\ call # Idle
  /\ call' = Idle
  /\ answer' = outcome
  /\ UNCHANGED map

NotFound == call # Idle /\ call.promised = Missing

Return == ~ NotFound /\ Answered(call.promised) /\ UNCHANGED stopped
Stop == NotFound /\ Answered(Missing) /\ stopped' = TRUE

Next ==
  \/ \E k \in Keys : Remove(k) \/ Contains(k) \/ Get(k)
  \/ \E k \in Keys, v \in Values : Insert(k, v)
  \/ Clear \/ Return \/ Stop

Spec == Init /\ [][Next]_vars /\ WF_vars(Return \/ Stop)
==============================================================================
