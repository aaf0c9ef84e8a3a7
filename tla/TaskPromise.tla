---------------------------- MODULE TaskPromise ----------------------------
(***************************************************************************)
(* What a durable task promises whoever submits one, with the six states   *)
(* of the Task Fabric folded into three: a task is "none", "open" or       *)
(* "done".  Work on an open task happens under a grant, named by a number  *)
(* that is never handed out twice; handing the task back keeps its         *)
(* progress; a done task is never open again.  internal/taskfabric is      *)
(* shown to implement this specification (TaskFabric!RefinesPromise).      *)
(***************************************************************************)
EXTENDS Integers

CONSTANTS
  Tasks,      \* task ids
  Progress    \* values of a task's progress, nil included

VARIABLES
  status,     \* "none", "open" or "done"
  holder,     \* the grant the task is held under, 0 for none
  top,        \* the highest grant handed out
  progress    \* durable progress

vars == <<status, holder, top, progress>>

Init ==
  /\ status = [t \in Tasks |-> "none"]
  /\ holder = [t \in Tasks |-> 0]
  /\ top = 0
  /\ progress \in [Tasks -> Progress]

Submit(t, p) ==
  /\ status[t] = "none"
  /\ status' = [status EXCEPT ![t] = "open"]
  /\ progress' = [progress EXCEPT ![t] = p]
  /\ UNCHANGED <<holder, top>>

\* A grant is fresh; it also ends the grant the task was held under, if any.
Grant(t) ==
  /\ status[t] = "open"
  /\ top' = top + 1
  /\ holder' = [holder EXCEPT ![t] = top + 1]
  /\ UNCHANGED <<status, progress>>

\* Progress is made under a grant only.
Work(t, p) ==
  /\ holder[t] # 0
  /\ progress' = [progress EXCEPT ![t] = p]
  /\ UNCHANGED <<status, holder, top>>

\* One or several holders lose their tasks; the progress stays.
HandBack(S) ==
  /\ \A t \in S : status[t] = "open" /\ holder[t] # 0
  /\ holder' = [t \in Tasks |-> IF t \in S THEN 0 ELSE holder[t]]
  /\ UNCHANGED <<status, top, progress>>

Finish(t, p) ==
  /\ status[t] = "open" /\ holder[t] # 0
  /\ status' = [status EXCEPT ![t] = "done"]
  /\ progress' = [progress EXCEPT ![t] = p]
  /\ UNCHANGED <<holder, top>>

\* Only work nobody is in the middle of can be forgotten.
Forget(t, p) ==
  /\ status[t] = "done" \/ (status[t] = "open" /\ holder[t] = 0)
  /\ status' = [status EXCEPT ![t] = "none"]
  /\ holder' = [holder EXCEPT ![t] = 0]
  /\ progress' = [progress EXCEPT ![t] = p]
  /\ UNCHANGED top

Next ==
  \/ \E S \in SUBSET Tasks : HandBack(S)
  \/ \E t \in Tasks : Grant(t)
  \/ \E t \in Tasks, p \in Progress :
       Submit(t, p) \/ Work(t, p) \/ Finish(t, p) \/ Forget(t, p)

Spec == Init /\ [][Next]_vars

=============================================================================
