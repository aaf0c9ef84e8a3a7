---------------------------- MODULE CollabGraph ----------------------------
(***************************************************************************)
(* Collaboration graphs (cmd/ares/collab_graph.go): a submitted graph runs *)
(* as tasks of the Task Fabric, one per node, with its edges as their      *)
(* dependencies.  runCollabGraph creates them, polls them until all have   *)
(* settled, and deletes them on its way out; a janitor reclaims what was   *)
(* in somebody's hands at that moment.  The kernel is any client of the    *)
(* fabric that takes tasks whose dependencies completed; SchedulerProofs   *)
(* shows that the scheduler is one.                                        *)
(*                                                                         *)
(* Each call into the fabric and each use of activeCollabRuns is a step.   *)
(* Run ids are the server's and unique, so a node's task id is its own and *)
(* Create does not fail.  A run goes through its nodes in the order of the *)
(* submission, the model in any order.  Outputs are left out.              *)
(***************************************************************************)
EXTENDS TaskFabric

CONSTANTS
  CollabRuns,   \* submitted graphs
  TasksOf       \* TasksOf[r]: the tasks of the nodes of r

ASSUME CollabAssumption ==
  /\ TasksOf \in [CollabRuns -> SUBSET Tasks]
  /\ \A r, q \in CollabRuns : r # q => TasksOf[r] \cap TasksOf[q] = {}

VARIABLES
  run,           \* where runCollabGraph is
  todo,          \* nodes still to create, to read in this scan, or to delete
  pending,       \* nodes not seen settled
  failedNodes,   \* nodes this scan saw FAILED
  progressed,    \* this scan saw a node COMPLETED
  verdict,       \* what runCollabGraph returns
  activeCollabRuns,
  ids,           \* tasks the janitor's sweep has still to look at
  harvest        \* the task that passed its check, as a set

scan == <<pending, failedNodes, progressed>>
janitor == <<ids, harvest>>
collabVars == <<run, todo, scan, verdict, activeCollabRuns, janitor>>
collab == <<vars, collabVars>>

CollabInit ==
  /\ Init
  /\ run = [r \in CollabRuns |-> "submitted"]
  /\ todo = [r \in CollabRuns |-> {}] /\ pending = [r \in CollabRuns |-> {}]
  /\ failedNodes = [r \in CollabRuns |-> {}]
  /\ progressed = [r \in CollabRuns |-> FALSE]
  /\ verdict = [r \in CollabRuns |-> "none"]
  /\ activeCollabRuns = {} /\ ids = {} /\ harvest = {}

-----------------------------------------------------------------------------
(* runCollabGraph.                                                         *)

\* What Kahn's sort leaves unresolved: nodes that wait for one another.
findCycle(r) ==
  \E S \in SUBSET TasksOf[r] : S # {} /\ \A n \in S : Deps[n] \cap S # {}

\* Edges that name a node of another graph, or none.
UnknownEdge(r) == \E n \in TasksOf[r] : ~(Deps[n] \subseteq TasksOf[r])

\* The way out: the deferred cleanup of what was created, the unmark last.
Leave(r, v, created) ==
  /\ run' = [run EXCEPT ![r] = "cleaning"]
  /\ verdict' = [verdict EXCEPT ![r] = v]
  /\ todo' = [todo EXCEPT ![r] = created]

markActiveRun(r) ==
  /\ run[r] = "submitted"
  /\ activeCollabRuns' = activeCollabRuns \cup {r}
  /\ \/ (UnknownEdge(r) \/ findCycle(r)) /\ Leave(r, "invalid", {})
     \/ /\ ~(UnknownEdge(r) \/ findCycle(r))
        /\ run' = [run EXCEPT ![r] = "creating"]
        /\ todo' = [todo EXCEPT ![r] = TasksOf[r]]
        /\ UNCHANGED verdict
  /\ UNCHANGED <<vars, scan, janitor>>

\* Each node is the kernel's from the moment it exists.
CreateNode(r) ==
  /\ run[r] = "creating"
  /\ \E n \in todo[r], cp \in Checkpoints :
       Create(n, cp) /\ todo' = [todo EXCEPT ![r] = @ \ {n}]
  /\ UNCHANGED <<run, scan, verdict, activeCollabRuns, janitor>>

\* A scan reads every pending node, one call each.
BeginScan(r, waiting) ==
  /\ run' = [run EXCEPT ![r] = "scanning"]
  /\ todo' = [todo EXCEPT ![r] = waiting]
  /\ pending' = [pending EXCEPT ![r] = waiting]
  /\ failedNodes' = [failedNodes EXCEPT ![r] = {}]
  /\ progressed' = [progressed EXCEPT ![r] = FALSE]

AllCreated(r) ==
  /\ run[r] = "creating" /\ todo[r] = {}
  /\ BeginScan(r, TasksOf[r])
  /\ UNCHANGED <<vars, verdict, activeCollabRuns, janitor>>

Read(r, n) ==
  /\ todo' = [todo EXCEPT ![r] = @ \ {n}]
  /\ pending' = [pending EXCEPT ![r] = IF state[n] \in Terminal THEN @ \ {n} ELSE @]
  /\ progressed' = [progressed EXCEPT ![r] = @ \/ state[n] = "COMPLETED"]
  /\ failedNodes' = [failedNodes EXCEPT ![r] = IF state[n] = "FAILED" THEN @ \cup {n} ELSE @]

\* A node that is gone ends the run.
ReadNode(r) ==
  /\ run[r] = "scanning"
  /\ \E n \in todo[r] : IF state[n] = "ABSENT"
                       THEN Leave(r, "missing", TasksOf[r]) /\ UNCHANGED scan
                       ELSE Read(r, n) /\ UNCHANGED <<run, verdict>>
  /\ UNCHANGED <<vars, activeCollabRuns, janitor>>

\* Fail fast; or all is done; or scan again at once when something completed;
\* or sleep.
EndScan(r) ==
  /\ run[r] = "scanning" /\ todo[r] = {}
  /\ \/ failedNodes[r] # {} /\ Leave(r, "failed", TasksOf[r]) /\ UNCHANGED scan
     \/ /\ failedNodes[r] = {} /\ pending[r] = {}
        /\ Leave(r, "done", TasksOf[r]) /\ UNCHANGED scan
     \/ /\ failedNodes[r] = {} /\ pending[r] # {} /\ progressed[r]
        /\ BeginScan(r, pending[r]) /\ UNCHANGED verdict
     \/ /\ failedNodes[r] = {} /\ pending[r] # {} /\ ~progressed[r]
        /\ run' = [run EXCEPT ![r] = "waiting"] /\ UNCHANGED <<todo, scan, verdict>>
  /\ UNCHANGED <<vars, activeCollabRuns, janitor>>

PollTick(r) ==
  /\ run[r] = "waiting"
  /\ BeginScan(r, pending[r])
  /\ UNCHANGED <<vars, verdict, activeCollabRuns, janitor>>

\* The deadline passes or the caller goes away.
WaitCtxDone(r) ==
  /\ run[r] = "waiting"
  /\ Leave(r, "timeout", TasksOf[r])
  /\ UNCHANGED <<vars, scan, activeCollabRuns, janitor>>

\* Delete refuses what somebody holds, and what is gone.
TryDelete(n) ==
  \/ Delete(n)
  \/ state[n] \notin {"READY"} \cup Terminal /\ UNCHANGED vars

CleanUpSettledOnly(r) ==
  /\ run[r] = "cleaning"
  /\ \E n \in todo[r] :
       /\ \/ state[n] # "READY" /\ TryDelete(n)
          \/ state[n] = "READY" /\ UNCHANGED vars
       /\ todo' = [todo EXCEPT ![r] = @ \ {n}]
  /\ UNCHANGED <<run, scan, verdict, activeCollabRuns, janitor>>

\* The deferred Delete of one node: what somebody holds stays.
CleanUp(r) ==
  /\ run[r] = "cleaning"
  /\ \E n \in todo[r] : TryDelete(n) /\ todo' = [todo EXCEPT ![r] = @ \ {n}]
  /\ UNCHANGED <<run, scan, verdict, activeCollabRuns, janitor>>

ForgetToUnmark(r) ==
  /\ run[r] = "cleaning" /\ todo[r] = {}
  /\ run' = [run EXCEPT ![r] = "returned"]
  /\ UNCHANGED <<vars, todo, scan, verdict, activeCollabRuns, janitor>>

unmarkActiveRun(r) ==
  /\ run[r] = "cleaning" /\ todo[r] = {}
  /\ activeCollabRuns' = activeCollabRuns \ {r}
  /\ run' = [run EXCEPT ![r] = "returned"]
  /\ UNCHANGED <<vars, todo, scan, verdict, janitor>>

-----------------------------------------------------------------------------
(* The janitor: ids first, then for each of them the check and the Delete. *)

isProtectedByActiveRun(n) == \E r \in activeCollabRuns : n \in TasksOf[r]

sweepStaleCollabTasks ==
  /\ ids = {} /\ harvest = {}
  /\ ids' = {n \in UNION {TasksOf[r] : r \in CollabRuns} : state[n] # "ABSENT"}
  /\ UNCHANGED <<vars, run, todo, scan, verdict, activeCollabRuns, harvest>>

CheckNoRun(n) ==
  /\ n \in ids /\ harvest = {}
  /\ ids' = ids \ {n} /\ harvest' = {n}
  /\ UNCHANGED <<vars, run, todo, scan, verdict, activeCollabRuns>>

CheckOne(n) ==
  /\ n \in ids /\ harvest = {}
  /\ ids' = ids \ {n}
  /\ harvest' = IF isProtectedByActiveRun(n) THEN {} ELSE {n}
  /\ UNCHANGED <<vars, run, todo, scan, verdict, activeCollabRuns>>

\* Task, then Delete, which checks again the state that Task has shown.
Harvest(n) ==
  /\ n \in harvest
  /\ TryDelete(n)
  /\ harvest' = {}
  /\ UNCHANGED <<run, todo, scan, verdict, activeCollabRuns, ids>>

-----------------------------------------------------------------------------
(* The kernel.                                                             *)

\* A drain took it when its dependencies had completed; they may be deleted
\* by now.
Take(n, a) ==
  /\ \A d \in Deps[n] : lastEvent[d].type = "completed"
  /\ Acquire(n, a)

QuantumEnds(n) ==
  \E g \in granted :
    /\ g.task = n /\ state[n] = "RUNNING"
    /\ \/ \E cp \in Checkpoints : Yield(n, g.agent, g.epoch, cp)
       \/ \E cp \in Checkpoints : CompleteWithCheckpoint(n, g.agent, g.epoch, cp)
       \/ Fail(n, g.agent, g.epoch)

KernelHolds(n) ==
  \E g \in granted :
    /\ g.task = n
    /\ \/ Start(n, g.agent, g.epoch)
       \/ state[n] = "RUNNING" /\ Renew(n, g.agent, g.epoch)
       \/ Release(n, g.agent, g.epoch)
       \/ Preempt(n, g.agent, g.epoch)

Kernel ==
  \/ \E n \in Tasks, a \in Agents : Take(n, a)
  \/ \E n \in Tasks : QuantumEnds(n) \/ KernelHolds(n)
  \/ CheckExpiredLeases
  \/ Tick

-----------------------------------------------------------------------------
RunStep(r) ==
  \/ markActiveRun(r) \/ CreateNode(r) \/ AllCreated(r)
  \/ ReadNode(r) \/ EndScan(r) \/ PollTick(r) \/ WaitCtxDone(r)
  \/ CleanUp(r) \/ unmarkActiveRun(r)

JanitorStep == sweepStaleCollabTasks \/ \E n \in Tasks : CheckOne(n) \/ Harvest(n)

CollabNext ==
  \/ \E r \in CollabRuns : RunStep(r)
  \/ JanitorStep
  \/ Kernel /\ UNCHANGED collabVars

CollabSpec == CollabInit /\ [][CollabNext]_collab

\* The kernel's goroutines go on, the janitor ticks, and a deadline that has
\* passed is not ignored for ever by the select that also has the ticker.
CollabFairness ==
  /\ \A r \in CollabRuns : WF_collab(RunStep(r)) /\ SF_collab(WaitCtxDone(r))
  /\ WF_collab(JanitorStep)
  /\ \A n \in Tasks : WF_collab(QuantumEnds(n) /\ UNCHANGED collabVars)
  /\ WF_collab(CheckExpiredLeases /\ UNCHANGED collabVars)
  /\ WF_collab(Tick /\ UNCHANGED collabVars)

FairCollab == CollabSpec /\ CollabFairness

-----------------------------------------------------------------------------
CollabTypeOK ==
  /\ run \in [CollabRuns -> {"submitted", "creating", "scanning", "waiting", "cleaning", "returned"}]
  /\ todo \in [CollabRuns -> SUBSET Tasks] /\ pending \in [CollabRuns -> SUBSET Tasks]
  /\ failedNodes \in [CollabRuns -> SUBSET Tasks] /\ progressed \in [CollabRuns -> BOOLEAN]
  /\ verdict \in [CollabRuns -> {"none", "invalid", "missing", "failed", "done", "timeout"}]
  /\ activeCollabRuns \subseteq CollabRuns
  /\ ids \subseteq Tasks /\ harvest \subseteq Tasks

\* A run reads the outcome of all its nodes before anybody takes them away
\* (collab_graph.go:60-67, "the janitor ... can never harvest a run that is
\* still executing"), and its verdict is true of them.
RunSeesItsNodes ==
  \A r \in CollabRuns :
    /\ verdict[r] # "missing"
    /\ verdict[r] = "done" => \A n \in TasksOf[r] : lastEvent[n].type = "completed"
    /\ verdict[r] = "failed" =>
         failedNodes[r] # {} /\ \A n \in failedNodes[r] : lastEvent[n].type = "failed"

Begun(n) == \E g \in granted : g.task = n

\* "The deferred cleanup deletes every not-yet-started READY sibling so it
\* never runs" (collab_graph.go:252-253): what was not begun when a run
\* returned is never begun, whatever a drain has in its hands.
NothingStartsAfterwards ==
  [][\A r \in CollabRuns : \A n \in TasksOf[r] :
       run[r] = "returned" /\ ~Begun(n) => ~Begun(n)']_collab

\* A submitted graph "must not leave zombie entries in the long-lived fabric"
\* (collab_graph.go:175-178): its run returns, and its tasks go, those that
\* were in flight at that moment included.
GraphLeavesNothing ==
  \A r \in CollabRuns :
    run[r] # "submitted" ~>
      run[r] = "returned" /\ \A n \in TasksOf[r] : state[n] = "ABSENT"
=============================================================================
