------------------------------ MODULE ActionCoro ------------------------------
(***************************************************************************)
(* The class and the functions an action function is compiled to:          *)
(* LowerActionPass emits a constructor, one wrapper per action name, a     *)
(* can_ function for each and is_done; ActionStatementsToCoro turns the    *)
(* body into an implementation that starts at the block resume_index       *)
(* selects and returns at every action statement.                          *)
(***************************************************************************)
EXTENDS ActionProgram

CONSTANT Synthetic   \* the acts LowerSubActionStatements wrote

ASSUME SyntheticAssumption == Synthetic \subseteq Acts

\* Only programs ValidateStorageQualifiersPass accepts are compiled.
ASSUME AcceptedAssumption == Accepted

VARIABLES
  constructed,  \* the handles that hold an object
  frames,       \* per handle: the class, resume_index and the frm variables
  self,         \* the object whose implementation runs, or NoHandle
  pc,           \* the point it is at, 0 when none runs
  bound,        \* the local variables and hidden-frame slots this activation set
  aborted,
  checked       \* whether this build checks preconditions, the same in every state

vars == <<constructed, frames, self, pc, bound, aborted, checked>>

Frames == [resume_index : Int, vars : FrmValues]

TypeOK ==
  /\ constructed \subseteq Handles
  /\ frames \in [Handles -> Frames]
  /\ self \in constructed \cup {NoHandle}
  /\ pc \in Points \cup {0}
  /\ pc = 0 <=> self = NoHandle
  /\ bound \subseteq Local
  /\ aborted \in BOOLEAN
  /\ checked \in Builds

Init ==
  /\ constructed = {}
  /\ frames = [h \in Handles |-> [resume_index |-> 0, vars |-> InitFrm]]
  /\ self = NoHandle
  /\ pc = 0
  /\ bound = {}
  /\ aborted = FALSE
  /\ checked \in Builds

HostTurn == self = NoHandle /\ ~ aborted
ResumeIndex(h) == frames[h].resume_index
IsDone(h) == ResumeIndex(h) = -1

-----------------------------------------------------------------------------
(* The switch on resume_index at the entry of the implementation: block 0  *)
(* is the whole body, block Id(a) what follows act a.                      *)

NumSuccessors == Cardinality(SurvivingActs) + 1
Successors(id) ==
  IF id = 0 THEN {1} ELSE {Next1(a) : a \in {b \in SurvivingActs : Id(b) = id}}

\* Control enters the implementation. Calls written by the user go to a copy
\* whose switch is resolved at compile time, those of a synthetic act read
\* the index.
Enter(h, id, specialised, frm, args) ==
  /\ frames' = [frames EXCEPT ![h] = [resume_index |-> id, vars |-> frm]]
  /\ self' = h
  /\ pc' \in Successors(IF specialised THEN id ELSE frames'[h].resume_index)
  /\ bound' = args \cap Local

-----------------------------------------------------------------------------
(* The functions the host calls.                                           *)

InitialFrm == {f \in FrmValues : \A x \in Frm \ EntryArgs : f[x] = InitFrm[x]}

\* AddPreconditionsCheckPass: a failed check stops the program.
Abort(precondition) ==
  /\ checked
  /\ ~ precondition
  /\ aborted' = TRUE
  /\ UNCHANGED <<constructed, frames, self, pc, bound, checked>>

\* Fault: the constructor loses its precondition.
ConstructUnchecked(h, frm) ==
  /\ constructed' = constructed \cup {h}
  /\ Enter(h, 0, TRUE, frm, EntryArgs)
  /\ UNCHANGED <<aborted, checked>>

ConstructFrom(h, frm) ==
  /\ checked => EntryAdmits(frm)
  /\ constructed' = constructed \cup {h}
  /\ Enter(h, 0, TRUE, frm, EntryArgs)
  /\ UNCHANGED <<aborted, checked>>

Construct(h) ==
  /\ HostTurn
  /\ h \notin constructed
  /\ \E frm \in InitialFrm : Abort(EntryAdmits(frm)) \/ ConstructFrom(h, frm)

\* The precondition of a wrapper: the disjunction, over the acts of that
\* name, of the resumption point and the precondition written at the act.
CanCall(h, n, v) ==
  \E a \in Named(n) :
     ResumePoint(a) = ResumeIndex(h) /\ Admits(a, frames[h].vars, v)

\* Fault: the branch does not test the resumption point.
MatchingByName(h, n) == Named(n)

\* The acts whose branch of the wrapper's if / else if chain is true, and
\* the one that runs.
Matching(h, n) == {a \in Named(n) : ResumePoint(a) = ResumeIndex(h)}
First(acts) == {a \in acts : \A b \in acts : a <= b}

\* Fault: a frm argument is not copied into the class.
ReceiveNothing(a, frm, v) == frm

Receive(a, frm, v) ==
  IF Code[a].arg \in Frm THEN [frm EXCEPT ![Code[a].arg] = v] ELSE frm

\* Fault: the ctx variables get no slot.
HiddenFrameWithoutCtx(a) == {Code[a].arg}

\* What the wrapper leaves in the hidden frame: references to the argument
\* and to the ctx variables of this call.
HiddenFrame(a) == {Code[a].arg} \cup Ctx

CallIgnored(h, n) ==
  /\ ~ checked
  /\ Matching(h, n) = {}
  /\ UNCHANGED vars

CallDispatched(h, n, v) ==
  /\ checked => CanCall(h, n, v)
  /\ \E a \in First(Matching(h, n)) :
       Enter(h, Id(a), a \notin Synthetic,
             Receive(a, frames[h].vars, v), HiddenFrame(a))
  /\ UNCHANGED <<constructed, aborted, checked>>

Call(h, n, v) ==
  /\ HostTurn
  /\ h \in constructed
  /\ \/ Abort(CanCall(h, n, v))
     \/ CallIgnored(h, n)
     \/ CallDispatched(h, n, v)

Copy(h, k) ==
  /\ HostTurn
  /\ h \in constructed
  /\ constructed' = constructed \cup {k}
  /\ frames' = [frames EXCEPT ![k] = frames[h]]
  /\ UNCHANGED <<self, pc, bound, aborted, checked>>

-----------------------------------------------------------------------------
(* The implementation.                                                     *)

\* ActionStatementsToCoro only touches the functions that still hold an act.
Lowered == SurvivingActs # {}

\* Fault: the identifier is stored where the resumption point belongs.
StoredId(p) == IF p \in Acts THEN Id(p) ELSE -1

\* What resume_index holds after the Yield at p. The returns of the source
\* are handled by insertTerminatorResumptionIndexStore, the Yields that
\* replace the acts by splitActionBlocks, which runs after it.
StoredIndex(p) ==
  IF p \in Acts THEN ResumePoint(p)
  ELSE IF Lowered THEN -1 ELSE ResumeIndex(self)

Yield ==
  /\ pc \in Acts \cup Of("end")
  /\ frames' = [frames EXCEPT ![self].resume_index = StoredIndex(pc)]
  /\ self' = NoHandle
  /\ pc' = 0
  /\ bound' = {}
  /\ UNCHANGED <<constructed, aborted, checked>>

\* Fault: the "actions" branches back to its own block.
FallIntoItself ==
  /\ pc \in Of("actions")
  /\ UNCHANGED vars

\* Lowered to a branch to the first alternative, whose act suspends.
FallIntoAlternatives ==
  /\ pc \in Of("actions")
  /\ pc' = Next1(pc)
  /\ UNCHANGED <<constructed, frames, self, bound, aborted, checked>>

Plain ==
  /\ pc \in Of("plain")
  /\ \E e \in Exec(pc, frames[self].vars) :
       /\ pc' = e.next
       /\ frames' = [frames EXCEPT ![self].vars = e.vars]
  /\ bound' = bound \cup Code[pc].defines
  /\ UNCHANGED <<constructed, self, aborted, checked>>

Body == Yield \/ FallIntoAlternatives \/ Plain

Next ==
  \/ Body
  \/ \E h \in Handles : Construct(h)
  \/ \E h \in Handles, n \in Names, v \in Values : Call(h, n, v)
  \/ \E h, k \in Handles : Copy(h, k)

\* The implementation is sequential code: once entered it keeps going.
Spec == Init /\ [][Next]_vars /\ WF_vars(Body)

-----------------------------------------------------------------------------
(* Properties.                                                             *)

\* The object the source describes, read off the compiled one.
SourceStatus(h) ==
  IF h \notin constructed THEN "absent"
  ELSE IF h = self THEN "running"
  ELSE IF IsDone(h) THEN "done" ELSE "waiting"
SourceWaiting(h) ==
  IF SourceStatus(h) = "waiting"
  THEN {a \in Acts : ResumePoint(a) = ResumeIndex(h)} ELSE {}
SourceObject ==
  [h \in Handles |->
     [status |-> SourceStatus(h), waiting |-> SourceWaiting(h),
      vars |-> frames[h].vars]]
SourcePoint == IF pc \in Acts /\ Code[pc].group # 0 THEN Code[pc].group ELSE pc

Source == INSTANCE ActionFunction
            WITH object <- SourceObject, running <- self, at <- SourcePoint

\* The compiled class behaves as the procedure it was written as: it waits
\* where the source waits, goes on from the statement the host picked, keeps
\* the frm variables across suspensions and copies, and every activation ends
\* where the source's does.
ImplementsSource == Source!Spec

\* Call for call: a host function does on the compiled object what it does on
\* the one the source describes, with the very arguments the host passed.
ImplementsCalls ==
  [][\A h \in Handles :
       /\ Construct(h) => Source!Construct(h)
       /\ \A n \in Names, v \in Values :
            Call(h, n, v) => Source!Call(h, n, v) \/ Source!Misuse(h, n, v)
       /\ \A k \in Handles : Copy(h, k) => Source!Copy(h, k)]_vars

\* No activation reads a local variable, or a slot of the hidden frame, that
\* this activation did not set: what ValidateStorageQualifiers is there for.
NoUnboundRead == pc # 0 => Code[pc].uses \subseteq bound

\* Between calls resume_index is -1 or the resumption point of an act that
\* survived pruning. An action identifier, which is only meaningful inside a
\* wrapper, never leaks out.
IndexIsResumptionPoint ==
  self = NoHandle =>
    \A h \in constructed :
       ResumeIndex(h) \in {-1} \cup {ResumePoint(a) : a \in SurvivingActs}

\* The identifier an implementation is entered with is one the switch has a
\* successor for (createDispatcher asserts it).
SwitchInRange == self # NoHandle => ResumeIndex(self) \in 0 .. NumSuccessors - 1

\* When can_ admits a call, the statement that runs is one whose own
\* precondition holds for the arguments of that call.
AdmittedActRuns ==
  [][\A h \in constructed, n \in Names, v \in Values :
       Call(h, n, v) /\ CanCall(h, n, v) =>
         \E a \in Matching(h, n) :
           Admits(a, frames[h].vars, v) /\ pc' = Next1(a)]_vars

\* A finished action stays finished whatever the host calls on it.
DoneIsFinal ==
  [][\A h \in constructed, n \in Names, v \in Values :
       IsDone(h) /\ Call(h, n, v) => UNCHANGED frames]_vars

\* Every call returns to the host.
ActivationReturns == self # NoHandle ~> self = NoHandle
==============================================================================
