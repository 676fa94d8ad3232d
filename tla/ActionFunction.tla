---------------------------- MODULE ActionFunction ----------------------------
(***************************************************************************)
(* What an action function promises, written over its source: an object    *)
(* that runs the procedure until the next action statement, offers the     *)
(* actions written there, and goes on from the one the host picks. There   *)
(* is no resume index, no dispatch and no identifier here, only the set of *)
(* statements the procedure is waiting at.                                 *)
(***************************************************************************)
EXTENDS ActionProgram

VARIABLES
  object,    \* per handle: status, the acts it waits for, its frm variables
  running,   \* the handle whose procedure runs, or NoHandle
  at,        \* the point it is at, 0 when none runs
  aborted,   \* a checked precondition failed and the program stopped
  checked    \* whether the build checks preconditions: it never changes

vars == <<object, running, at, aborted, checked>>

Status == {"absent", "running", "waiting", "done"}
Objects == [status : Status, waiting : SUBSET Acts, vars : FrmValues]
Absent == [status |-> "absent", waiting |-> {}, vars |-> InitFrm]

Init ==
  /\ object = [h \in Handles |-> Absent]
  /\ running = NoHandle
  /\ at = 0
  /\ aborted = FALSE
  /\ checked \in Builds

HostTurn == running = NoHandle /\ ~ aborted
Waiting(h, n) == object[h].waiting \cap Named(n)

\* can h.n(v)
Can(h, n, v) == \E a \in Waiting(h, n) : Admits(a, object[h].vars, v)

\* The values construction may leave in the frm variables.
InitialFrm == {f \in FrmValues : \A x \in Frm \ EntryArgs : f[x] = InitFrm[x]}

\* The frm variables after act a received v.
Receive(a, frm, v) ==
  IF Code[a].arg \in Frm THEN [frm EXCEPT ![Code[a].arg] = v] ELSE frm

Run(h, p, frm) ==
  /\ object' = [object EXCEPT ![h] =
                  [status |-> "running", waiting |-> {}, vars |-> frm]]
  /\ running' = h
  /\ at' = p
  /\ UNCHANGED <<aborted, checked>>

\* A checked build stops at a call whose precondition does not hold.
Refuse(precondition) ==
  /\ checked
  /\ ~ precondition
  /\ aborted' = TRUE
  /\ UNCHANGED <<object, running, at, checked>>

Construct(h) ==
  /\ HostTurn
  /\ object[h].status = "absent"
  /\ \E frm \in InitialFrm :
       \/ Refuse(EntryAdmits(frm))
       \/ (checked => EntryAdmits(frm)) /\ Run(h, 1, frm)

\* The host calls an action the object accepts.
Call(h, n, v) ==
  /\ HostTurn
  /\ \E a \in Waiting(h, n) :
       /\ Admits(a, object[h].vars, v)
       /\ Run(h, Next1(a), Receive(a, object[h].vars, v))

\* The host calls an action it should not. A checked build stops; an
\* unchecked one ignores the call, unless the object waits for that action
\* and only the written precondition is broken.
Misuse(h, n, v) ==
  /\ HostTurn
  /\ object[h].status # "absent"
  /\ ~ Can(h, n, v)
  /\ \/ Refuse(Can(h, n, v))
     \/ /\ ~ checked
        /\ \E a \in Waiting(h, n) :
             Run(h, Next1(a), Receive(a, object[h].vars, v))

\* let k = h, or k = h: an object is a value, it can be saved and restored.
Copy(h, k) ==
  /\ HostTurn
  /\ object[h].status # "absent"
  /\ object' = [object EXCEPT ![k] = object[h]]
  /\ UNCHANGED <<running, at, aborted, checked>>

Stop(status, waiting) ==
  /\ object' = [object EXCEPT ![running] =
                  [status |-> status, waiting |-> waiting, vars |-> @.vars]]
  /\ running' = NoHandle
  /\ at' = 0
  /\ UNCHANGED <<aborted, checked>>

Continue ==
  /\ at \in Of("plain")
  /\ \E e \in Exec(at, object[running].vars) :
       /\ at' = e.next
       /\ object' = [object EXCEPT ![running].vars = e.vars]
  /\ UNCHANGED <<running, aborted, checked>>

Wait ==
  \/ at \in Acts /\ Stop("waiting", {at})
  \/ at \in Of("actions") /\ Stop("waiting", SuccOf(at))

Finish == at \in Of("end") /\ Stop("done", {})

Body == Continue \/ Wait \/ Finish

Next ==
  \/ Body
  \/ \E h \in Handles : Construct(h)
  \/ \E h \in Handles, n \in Names, v \in Values : Call(h, n, v) \/ Misuse(h, n, v)
  \/ \E h, k \in Handles : Copy(h, k)

Spec == Init /\ [][Next]_vars /\ WF_vars(Body)
==============================================================================
