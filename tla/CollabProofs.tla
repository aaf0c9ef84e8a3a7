--------------------------- MODULE CollabProofs ---------------------------
(***************************************************************************)
(* Proofs about CollabGraph, for any graphs, any number of runs and any    *)
(* kernel.  The janitor cannot take a task that a run still needs: a task  *)
(* that passed its check belongs to a run that has returned, since a task  *)
(* that exists has a run that marked itself first.  The rest follows the   *)
(* nodes of a run from their creation to their end.                        *)
(***************************************************************************)
EXTENDS CollabGraph, TaskFabricProofs

\* What a run has seen COMPLETED, or FAILED, stays so until it is deleted.
Finished(n) == lastEvent[n].type = "completed" /\ state[n] \in {"COMPLETED", "ABSENT"}
Lost(n)     == lastEvent[n].type = "failed" /\ state[n] \in {"FAILED", "ABSENT"}

Polling(r) == run[r] \in {"scanning", "waiting"}
Over(r)    == run[r] \in {"cleaning", "returned"}

\* The log names the outcome of a task that has settled.
SettledIsLogged ==
  \A t \in Tasks :
    /\ state[t] = "COMPLETED" => lastEvent[t].type = "completed"
    /\ state[t] = "FAILED" => lastEvent[t].type = "failed"

MarkedWhileLive(r) == r \in activeCollabRuns <=> run[r] \notin {"submitted", "returned"}

\* The janitor learns of a run's tasks after it began, and has none of them
\* in its hands before it returned.
JanitorWaits(r) ==
  \A n \in TasksOf[r] :
    /\ n \in ids => run[r] # "submitted"
    /\ n \in harvest => run[r] = "returned"

NodesExist(r) ==
  \A n \in TasksOf[r] :
    /\ run[r] = "submitted" => state[n] = "ABSENT"
    /\ run[r] = "creating" => (n \in todo[r] <=> state[n] = "ABSENT")
    /\ Polling(r) => state[n] # "ABSENT"

ScanIsTrue(r) ==
  /\ Polling(r) =>
       /\ \A n \in TasksOf[r] : n \in pending[r] \/ n \in failedNodes[r] \/ Finished(n)
       /\ \A n \in failedNodes[r] : Lost(n)
  /\ run[r] = "waiting" => failedNodes[r] = {}

VerdictIsTrue(r) ==
  /\ verdict[r] # "missing"
  /\ ~Over(r) => verdict[r] = "none"
  /\ verdict[r] = "done" => \A n \in TasksOf[r] : Finished(n)
  /\ verdict[r] = "failed" => failedNodes[r] # {} /\ \A n \in failedNodes[r] : Lost(n)

\* What the cleanup has passed, and did not take away, somebody has begun.
CleanedOrBegun(r) ==
  \A n \in TasksOf[r] :
    Over(r) => (run[r] = "cleaning" /\ n \in todo[r]) \/ state[n] = "ABSENT" \/ Begun(n)

OwnNodes(r) ==
  todo[r] \subseteq TasksOf[r] /\ pending[r] \subseteq TasksOf[r] /\ failedNodes[r] \subseteq TasksOf[r]

RunInv(r) ==
  /\ MarkedWhileLive(r) /\ JanitorWaits(r) /\ OwnNodes(r)
  /\ NodesExist(r) /\ ScanIsTrue(r) /\ VerdictIsTrue(r) /\ CleanedOrBegun(r)

CollabInv ==
  /\ FencingInv /\ CollabTypeOK /\ SettledIsLogged
  /\ \A r \in CollabRuns : RunInv(r)

-----------------------------------------------------------------------------
(* The fabric.                                                             *)

\* Every step of the composition is one of the fabric, or leaves it alone.
LEMMA DeleteOrNot ==
  ASSUME NEW n \in Tasks, TryDelete(n)
  PROVE  [Next]_vars
BY DEF TryDelete, Next

LEMMA KernelIsClient == FencingInv /\ Kernel => Next
<1>. SUFFICES ASSUME FencingInv, Kernel PROVE Next
  OBVIOUS
<1>1. CASE \E n \in Tasks, a \in Agents : Take(n, a)
  BY <1>1 DEF Take, Next
<1>2. CASE \E n \in Tasks : QuantumEnds(n) \/ KernelHolds(n)
  <2>1. PICK n \in Tasks, g \in granted : TokenStep(n, g.agent, g.epoch) /\ g.task = n
    BY <1>2 DEF QuantumEnds, KernelHolds, TokenStep
  <2>. QED  BY <2>1 DEF Next
<1>3. CASE CheckExpiredLeases \/ Tick
  BY <1>3 DEF Next
<1>. QED  BY <1>1, <1>2, <1>3 DEF Kernel

LEMMA FabricStep == CollabTypeOK /\ FencingInv /\ [CollabNext]_collab => [Next]_vars
<1>. SUFFICES ASSUME CollabTypeOK, FencingInv, [CollabNext]_collab PROVE [Next]_vars
  OBVIOUS
<1>. USE DEF CollabTypeOK
<1>1. ASSUME NEW r \in CollabRuns, CreateNode(r) PROVE [Next]_vars
  BY <1>1 DEF CreateNode, Next
<1>2. ASSUME NEW r \in CollabRuns, CleanUp(r) PROVE [Next]_vars
  BY <1>2, DeleteOrNot DEF CleanUp
<1>3. ASSUME NEW r \in CollabRuns, RunStep(r) PROVE [Next]_vars
  BY <1>1, <1>2, <1>3 DEF RunStep, markActiveRun, AllCreated, ReadNode, EndScan,
     PollTick, WaitCtxDone, unmarkActiveRun
<1>4. ASSUME JanitorStep PROVE [Next]_vars
  BY <1>4, DeleteOrNot DEF JanitorStep, sweepStaleCollabTasks, CheckOne, Harvest
<1>5. CASE UNCHANGED collab
  BY <1>5 DEF collab
<1>. QED  BY <1>3, <1>4, <1>5, KernelIsClient DEF CollabNext

-----------------------------------------------------------------------------
(* One task, one step.                                                     *)

Live(n) == state[n] \in {"READY"} \cup Held

Kept(n) == state'[n] = state[n] /\ lastEvent'[n] = lastEvent[n]

\* A live task goes on or settles; nothing else moves.
Proceeds(n) ==
  /\ Live(n)
  /\ \/ Live(n)'
     \/ state'[n] = "COMPLETED" /\ lastEvent'[n].type = "completed"
     \/ state'[n] = "FAILED" /\ lastEvent'[n].type = "failed"

LEMMA KernelMoves ==
  ASSUME FencingInv, Kernel, NEW u \in Tasks
  PROVE  Kept(u) \/ Proceeds(u)
<1>. USE DEF FencingInv, TypeOK, Kept, Proceeds, Live, Held, transition, canTransition,
             Legal, recordLocked
<1>1. ASSUME NEW n \in Tasks, NEW a \in Agents, Acquire(n, a) PROVE Kept(u) \/ Proceeds(u)
  BY <1>1 DEF Acquire
<1>2. ASSUME NEW n \in Tasks, NEW a \in Agents, NEW e \in Nat, Start(n, a, e)
      PROVE Kept(u) \/ Proceeds(u)
  BY <1>2 DEF Start
<1>3. ASSUME NEW n \in Tasks, NEW a \in Agents, NEW e \in Nat, NEW cp \in Checkpoints,
             Yield(n, a, e, cp)
      PROVE Kept(u) \/ Proceeds(u)
  BY <1>3 DEF Yield
<1>4. ASSUME NEW n \in Tasks, NEW a \in Agents, NEW e \in Nat, NEW cp \in Checkpoints,
             CompleteWithCheckpoint(n, a, e, cp)
      PROVE Kept(u) \/ Proceeds(u)
  BY <1>4 DEF CompleteWithCheckpoint
<1>5. ASSUME NEW n \in Tasks, NEW a \in Agents, NEW e \in Nat, Fail(n, a, e)
      PROVE Kept(u) \/ Proceeds(u)
  BY <1>5 DEF Fail
<1>6. ASSUME NEW n \in Tasks, NEW a \in Agents, NEW e \in Nat, Renew(n, a, e)
      PROVE Kept(u)
  BY <1>6 DEF Renew
<1>7. ASSUME NEW n \in Tasks, NEW a \in Agents, NEW e \in Nat,
             NEW type \in {"released", "preempted"}, Return(n, a, e, type)
      PROVE Kept(u) \/ Proceeds(u)
  BY <1>7 DEF Return
<1>8. ASSUME CheckExpiredLeases PROVE Kept(u) \/ Proceeds(u)
  BY <1>8 DEF CheckExpiredLeases, Sweepable
<1>9. ASSUME Tick PROVE Kept(u)
  BY <1>9 DEF Tick
<1>10. \A g \in granted : g.agent \in Agents /\ g.epoch \in Nat
  BY DEF Token
<1>11. ASSUME NEW n \in Tasks, QuantumEnds(n) \/ KernelHolds(n)
       PROVE  Kept(u) \/ Proceeds(u)
  BY <1>2, <1>3, <1>4, <1>5, <1>6, <1>7, <1>10, <1>11
     DEF QuantumEnds, KernelHolds, Release, Preempt
<1>. QED  BY <1>1, <1>8, <1>9, <1>11 DEF Kernel, Take

\* Only what can be taken begins.
LEMMA KernelBegins ==
  ASSUME FencingInv, Kernel, NEW u \in Tasks
  PROVE  granted \subseteq granted' /\ (Begun(u)' => Begun(u) \/ Live(u))
<1>1. ASSUME NEW n \in Tasks, NEW a \in Agents, Acquire(n, a)
      PROVE  granted \subseteq granted' /\ (Begun(u)' => Begun(u) \/ Live(u))
  BY <1>1 DEF Acquire, Begun, Live, Held
<1>2. CASE UNCHANGED granted
  BY <1>2 DEF Begun
<1>3. ASSUME NEW n \in Tasks, QuantumEnds(n) \/ KernelHolds(n)
      PROVE  UNCHANGED granted
  BY <1>3 DEF QuantumEnds, KernelHolds, Yield, CompleteWithCheckpoint, Fail, Start, Renew,
     Release, Preempt, Return
<1>4. CheckExpiredLeases \/ Tick => UNCHANGED granted
  BY DEF CheckExpiredLeases, Tick
<1>. QED  BY <1>1, <1>2, <1>3, <1>4 DEF Kernel, Take

-----------------------------------------------------------------------------
(* What a step leaves alone.                                               *)

\* Nothing of run r changes but, perhaps, where its tasks stand.
SameRun(r) ==
  /\ run'[r] = run[r] /\ todo'[r] = todo[r] /\ verdict'[r] = verdict[r]
  /\ pending'[r] = pending[r] /\ failedNodes'[r] = failedNodes[r]
  /\ r \in activeCollabRuns' <=> r \in activeCollabRuns

Gone(n) ==
  /\ Live(n) \/ state[n] \in Terminal
  /\ state'[n] = "ABSENT" /\ lastEvent'[n] = lastEvent[n]

\* A run that is not moved keeps its invariant when its tasks go on, or go
\* once it has returned.
LEMMA FrameRun ==
  ASSUME CollabInv, NEW r \in CollabRuns, SameRun(r), granted \subseteq granted',
         \A n \in TasksOf[r] :
           Kept(n) \/ Proceeds(n) \/ (Gone(n) /\ run[r] = "returned"),
         JanitorWaits(r)'
  PROVE  RunInv(r)'
<1>. USE DEF CollabInv, SameRun
<1>1. RunInv(r)
  OBVIOUS
<1>2. MarkedWhileLive(r)' /\ OwnNodes(r)'
  BY <1>1 DEF RunInv, MarkedWhileLive, OwnNodes
<1>3. NodesExist(r)'
  BY <1>1 DEF RunInv, NodesExist, Polling, Kept, Proceeds, Live, Held, Gone
<1>4. \A n \in TasksOf[r] : (Finished(n) => Finished(n)') /\ (Lost(n) => Lost(n)')
  BY DEF Finished, Lost, Kept, Proceeds, Live, Held, Gone
<1>5. ScanIsTrue(r)' /\ VerdictIsTrue(r)'
  BY <1>1, <1>4 DEF RunInv, ScanIsTrue, VerdictIsTrue, OwnNodes, Polling, Over
<1>6. CleanedOrBegun(r)'
  BY <1>1 DEF RunInv, CleanedOrBegun, Over, Begun, Kept, Proceeds, Live, Held, Gone
<1>. QED  BY <1>2, <1>3, <1>5, <1>6 DEF RunInv

\* The log goes on naming the outcomes.
LEMMA LogMoves ==
  ASSUME SettledIsLogged, \A t \in Tasks : Kept(t) \/ Proceeds(t) \/ state'[t] \in {"READY", "ABSENT"}
  PROVE  SettledIsLogged'
BY DEF SettledIsLogged, Kept, Proceeds, Live, Held

LEMMA TypeStep == CollabTypeOK /\ [CollabNext]_collab => CollabTypeOK'
<1>. SUFFICES ASSUME CollabTypeOK, [CollabNext]_collab PROVE CollabTypeOK'
  OBVIOUS
<1>. USE CollabAssumption DEF CollabTypeOK, scan, janitor, collabVars
<1>1. ASSUME NEW r \in CollabRuns, NEW v \in {"invalid", "missing", "failed", "done", "timeout"},
             NEW S \in SUBSET Tasks, Leave(r, v, S), UNCHANGED <<scan, janitor>>,
             activeCollabRuns' \subseteq CollabRuns
      PROVE  CollabTypeOK'
  BY <1>1 DEF Leave
<1>2. ASSUME NEW r \in CollabRuns, NEW S \in SUBSET Tasks, BeginScan(r, S),
             UNCHANGED <<verdict, activeCollabRuns, janitor>>
      PROVE  CollabTypeOK'
  BY <1>2 DEF BeginScan
<1>3. ASSUME NEW r \in CollabRuns, markActiveRun(r) PROVE CollabTypeOK'
  <2>1. CASE Leave(r, "invalid", {})
    BY <1>1, <1>3, <2>1 DEF markActiveRun
  <2>. QED  BY <1>3, <2>1 DEF markActiveRun
<1>4. ASSUME NEW r \in CollabRuns, CreateNode(r) \/ CleanUp(r) PROVE CollabTypeOK'
  BY <1>4 DEF CreateNode, CleanUp
<1>5. ASSUME NEW r \in CollabRuns, AllCreated(r) \/ PollTick(r) PROVE CollabTypeOK'
  BY <1>2, <1>5 DEF AllCreated, PollTick
<1>6. ASSUME NEW r \in CollabRuns, ReadNode(r) PROVE CollabTypeOK'
  <2>1. CASE Leave(r, "missing", TasksOf[r]) /\ UNCHANGED scan
    BY <1>1, <1>6, <2>1 DEF ReadNode
  <2>2. ASSUME NEW n \in todo[r], Read(r, n), UNCHANGED <<run, verdict>> PROVE CollabTypeOK'
    <3>1. todo' \in [CollabRuns -> SUBSET Tasks] /\ pending' \in [CollabRuns -> SUBSET Tasks]
      BY <2>2 DEF Read
    <3>2. failedNodes' \in [CollabRuns -> SUBSET Tasks]
      BY <2>2 DEF Read
    <3>3. progressed' \in [CollabRuns -> BOOLEAN]
      BY <2>2 DEF Read
    <3>. QED  BY <1>6, <2>2, <3>1, <3>2, <3>3 DEF ReadNode
  <2>. QED  BY <1>6, <2>1, <2>2 DEF ReadNode
<1>7. ASSUME NEW r \in CollabRuns, EndScan(r) PROVE CollabTypeOK'
  <2>1. CASE \E v \in {"failed", "done"} : Leave(r, v, TasksOf[r]) /\ UNCHANGED scan
    BY <1>1, <1>7, <2>1 DEF EndScan
  <2>2. CASE BeginScan(r, pending[r]) /\ UNCHANGED verdict
    BY <1>2, <1>7, <2>2 DEF EndScan
  <2>3. CASE run' = [run EXCEPT ![r] = "waiting"] /\ UNCHANGED <<todo, scan, verdict>>
    BY <1>7, <2>3 DEF EndScan
  <2>. QED  BY <1>7, <2>1, <2>2, <2>3 DEF EndScan
<1>8. ASSUME NEW r \in CollabRuns, WaitCtxDone(r) PROVE CollabTypeOK'
  BY <1>1, <1>8 DEF WaitCtxDone
<1>9. ASSUME NEW r \in CollabRuns, unmarkActiveRun(r) PROVE CollabTypeOK'
  BY <1>9 DEF unmarkActiveRun
<1>10. ASSUME JanitorStep PROVE CollabTypeOK'
  BY <1>10 DEF JanitorStep, sweepStaleCollabTasks, CheckOne, Harvest
<1>11. CASE UNCHANGED collabVars
  BY <1>11
<1>. QED
  BY <1>3, <1>4, <1>5, <1>6, <1>7, <1>8, <1>9, <1>10, <1>11 DEF CollabNext, RunStep, collab

-----------------------------------------------------------------------------
(* The steps of a run.                                                     *)

\* The others, when run r moves and the fabric changes at its tasks only.
LEMMA OthersStay ==
  ASSUME CollabInv, NEW r \in CollabRuns, NEW q \in CollabRuns, q # r,
         SameRun(q), granted' = granted, UNCHANGED janitor,
         \A n \in Tasks \ TasksOf[r] : Kept(n)
  PROVE  RunInv(q)'
<1>1. \A n \in TasksOf[q] : n \in Tasks \ TasksOf[r]
  BY CollabAssumption
<1>2. JanitorWaits(q)'
  BY DEF CollabInv, RunInv, JanitorWaits, SameRun, janitor
<1>. QED  BY <1>1, <1>2, FrameRun

\* Run r leaves with a verdict that is true; what it created is to be cleaned.
LEMMA LeaveKeeps ==
  ASSUME CollabInv, NEW r \in CollabRuns, NEW v \in {"failed", "done", "timeout"},
         Polling(r), Leave(r, v, TasksOf[r]),
         UNCHANGED <<vars, scan, activeCollabRuns, janitor>>,
         v = "done" => \A n \in TasksOf[r] : Finished(n),
         v = "failed" => failedNodes[r] # {}
  PROVE  \A q \in CollabRuns : RunInv(q)'
<1>. USE DEF CollabInv, CollabTypeOK, scan, janitor, vars, Leave
<1>1. ASSUME NEW q \in CollabRuns, q # r PROVE RunInv(q)'
  BY <1>1, OthersStay DEF SameRun, Kept
<1>2. RunInv(r)'
  <2>1. run'[r] = "cleaning" /\ verdict'[r] = v /\ todo'[r] = TasksOf[r]
    OBVIOUS
  <2>2. MarkedWhileLive(r)' /\ JanitorWaits(r)' /\ OwnNodes(r)'
    BY <2>1 DEF RunInv, MarkedWhileLive, JanitorWaits, OwnNodes, Polling
  <2>3. NodesExist(r)' /\ ScanIsTrue(r)' /\ CleanedOrBegun(r)'
    BY <2>1 DEF NodesExist, ScanIsTrue, CleanedOrBegun, Polling
  <2>4. VerdictIsTrue(r)'
    BY <2>1 DEF RunInv, ScanIsTrue, VerdictIsTrue, Over, Finished, Lost
  <2>. QED  BY <2>2, <2>3, <2>4 DEF RunInv
<1>. QED  BY <1>1, <1>2

\* Run r begins a scan of S, having seen the others of its nodes completed.
LEMMA ScanKeeps ==
  ASSUME CollabInv, NEW r \in CollabRuns, NEW S \in SUBSET TasksOf[r], BeginScan(r, S),
         run[r] \in {"creating", "scanning", "waiting"},
         UNCHANGED <<vars, verdict, activeCollabRuns, janitor>>,
         \A n \in TasksOf[r] : state[n] # "ABSENT" /\ (n \in S \/ Finished(n))
  PROVE  \A q \in CollabRuns : RunInv(q)'
<1>. USE DEF CollabInv, CollabTypeOK, janitor, vars, BeginScan
<1>1. ASSUME NEW q \in CollabRuns, q # r PROVE RunInv(q)'
  BY <1>1, OthersStay DEF SameRun, Kept
<1>2. RunInv(r)'
  <2>1. run'[r] = "scanning" /\ todo'[r] = S /\ pending'[r] = S /\ failedNodes'[r] = {}
    OBVIOUS
  <2>2. MarkedWhileLive(r)' /\ JanitorWaits(r)' /\ OwnNodes(r)'
    BY <2>1 DEF RunInv, MarkedWhileLive, JanitorWaits, OwnNodes
  <2>3. NodesExist(r)' /\ ScanIsTrue(r)' /\ CleanedOrBegun(r)'
    BY <2>1 DEF NodesExist, ScanIsTrue, CleanedOrBegun, Polling, Over, Finished
  <2>4. VerdictIsTrue(r)'
    BY <2>1 DEF RunInv, VerdictIsTrue, Over
  <2>. QED  BY <2>2, <2>3, <2>4 DEF RunInv
<1>. QED  BY <1>1, <1>2

LEMMA MarkKeeps ==
  ASSUME CollabInv, NEW r \in CollabRuns, markActiveRun(r)
  PROVE  \A q \in CollabRuns : RunInv(q)'
<1>. USE DEF CollabInv, CollabTypeOK, scan, janitor, vars, Leave, markActiveRun
<1>1. ASSUME NEW q \in CollabRuns, q # r PROVE RunInv(q)'
  BY <1>1, OthersStay DEF SameRun, Kept
<1>2. RunInv(r)'
  <2>1. r \in activeCollabRuns' /\ pending'[r] = pending[r] /\ failedNodes'[r] = failedNodes[r]
    OBVIOUS
  <2>2. RunInv(r) /\ run[r] = "submitted"
    OBVIOUS
  <2>3. \/ run'[r] = "cleaning" /\ verdict'[r] = "invalid" /\ todo'[r] = {}
        \/ run'[r] = "creating" /\ verdict'[r] = verdict[r] /\ todo'[r] = TasksOf[r]
    OBVIOUS
  <2>4. MarkedWhileLive(r)' /\ JanitorWaits(r)' /\ OwnNodes(r)'
    BY <2>1, <2>2, <2>3 DEF RunInv, MarkedWhileLive, JanitorWaits, OwnNodes
  <2>5. NodesExist(r)' /\ ScanIsTrue(r)' /\ CleanedOrBegun(r)' /\ VerdictIsTrue(r)'
    BY <2>1, <2>2, <2>3
       DEF RunInv, NodesExist, ScanIsTrue, CleanedOrBegun, VerdictIsTrue, Polling, Over
  <2>. QED  BY <2>4, <2>5 DEF RunInv
<1>. QED  BY <1>1, <1>2

LEMMA CreateKeeps ==
  ASSUME CollabInv, NEW r \in CollabRuns, CreateNode(r)
  PROVE  \A q \in CollabRuns : RunInv(q)'
<1>. USE DEF CollabInv, CollabTypeOK, scan, janitor
<1>1. PICK n \in todo[r], cp \in Checkpoints :
        Create(n, cp) /\ todo' = [todo EXCEPT ![r] = @ \ {n}]
  BY DEF CreateNode
<1>2. n \in TasksOf[r] /\ n \in Tasks /\ RunInv(r) /\ run[r] = "creating"
  BY CollabAssumption DEF CreateNode, RunInv, OwnNodes
<1>3. /\ state'[n] = "READY" /\ granted' = granted
      /\ \A m \in Tasks \ {n} : Kept(m)
  BY <1>1, <1>2 DEF Create, Kept, recordLocked, FencingInv, TypeOK
<1>4. UNCHANGED <<run, pending, failedNodes, progressed, verdict, activeCollabRuns, janitor>>
  BY DEF CreateNode
<1>5. ASSUME NEW q \in CollabRuns, q # r PROVE RunInv(q)'
  BY <1>1, <1>2, <1>3, <1>4, <1>5, OthersStay DEF SameRun
<1>6. RunInv(r)'
  <2>1. run'[r] = "creating" /\ todo'[r] = todo[r] \ {n}
    BY <1>1, <1>2, <1>4
  <2>2. MarkedWhileLive(r)' /\ JanitorWaits(r)' /\ OwnNodes(r)'
    BY <1>2, <1>4, <2>1 DEF RunInv, MarkedWhileLive, JanitorWaits, OwnNodes
  <2>3. NodesExist(r)'
    BY <1>2, <1>3, <2>1, CollabAssumption DEF RunInv, NodesExist, Kept, Polling
  <2>4. ScanIsTrue(r)' /\ CleanedOrBegun(r)' /\ VerdictIsTrue(r)'
    BY <1>2, <1>4, <2>1 DEF RunInv, ScanIsTrue, CleanedOrBegun, VerdictIsTrue, Polling, Over
  <2>. QED  BY <2>2, <2>3, <2>4 DEF RunInv
<1>. QED  BY <1>5, <1>6

LEMMA ReadKeeps ==
  ASSUME CollabInv, NEW r \in CollabRuns, ReadNode(r)
  PROVE  \A q \in CollabRuns : RunInv(q)'
<1>. USE DEF CollabInv, CollabTypeOK, janitor, vars
<1>1. PICK n \in todo[r] : IF state[n] = "ABSENT"
                           THEN Leave(r, "missing", TasksOf[r]) /\ UNCHANGED scan
                           ELSE Read(r, n) /\ UNCHANGED <<run, verdict>>
  BY DEF ReadNode
<1>2. /\ n \in TasksOf[r] /\ n \in Tasks /\ RunInv(r) /\ run[r] = "scanning"
      /\ UNCHANGED <<vars, activeCollabRuns, janitor>>
  BY CollabAssumption DEF ReadNode, RunInv, OwnNodes
<1>3. state[n] # "ABSENT"
  BY <1>2 DEF RunInv, NodesExist, Polling
<1>4. Read(r, n) /\ UNCHANGED <<run, verdict>>
  BY <1>1, <1>3
<1>5. ASSUME NEW q \in CollabRuns, q # r PROVE RunInv(q)'
  BY <1>2, <1>4, <1>5, OthersStay DEF SameRun, Kept, Read
<1>6. RunInv(r)'
  <2>1. /\ todo'[r] = todo[r] \ {n}
        /\ pending'[r] = IF state[n] \in Terminal THEN pending[r] \ {n} ELSE pending[r]
        /\ failedNodes'[r] = IF state[n] = "FAILED" THEN failedNodes[r] \cup {n} ELSE failedNodes[r]
    BY <1>4 DEF Read
  <2>2. MarkedWhileLive(r)' /\ JanitorWaits(r)' /\ OwnNodes(r)'
    BY <1>2, <1>4, <2>1 DEF RunInv, MarkedWhileLive, JanitorWaits, OwnNodes
  <2>3. NodesExist(r)' /\ CleanedOrBegun(r)' /\ VerdictIsTrue(r)'
    BY <1>2, <1>4 DEF RunInv, NodesExist, CleanedOrBegun, VerdictIsTrue, Polling, Over
  <2>4. /\ state[n] = "COMPLETED" => Finished(n)
        /\ state[n] = "FAILED" => Lost(n)
    BY <1>2 DEF SettledIsLogged, Finished, Lost
  <2>5. ScanIsTrue(r)'
    BY <1>2, <1>4, <2>1, <2>4 DEF RunInv, ScanIsTrue, Polling, Finished, Lost, Terminal
  <2>. QED  BY <2>2, <2>3, <2>5 DEF RunInv
<1>. QED  BY <1>5, <1>6

LEMMA EndScanKeeps ==
  ASSUME CollabInv, NEW r \in CollabRuns, EndScan(r)
  PROVE  \A q \in CollabRuns : RunInv(q)'
<1>1. /\ RunInv(r) /\ run[r] = "scanning" /\ Polling(r)
      /\ UNCHANGED <<vars, activeCollabRuns, janitor>>
  BY DEF EndScan, CollabInv, Polling
<1>2. failedNodes[r] = {} => \A n \in TasksOf[r] : n \in pending[r] \/ Finished(n)
  BY <1>1 DEF RunInv, ScanIsTrue
<1>3. CASE failedNodes[r] # {} /\ Leave(r, "failed", TasksOf[r]) /\ UNCHANGED scan
  BY <1>1, <1>3, LeaveKeeps
<1>4. CASE /\ failedNodes[r] = {} /\ pending[r] = {}
           /\ Leave(r, "done", TasksOf[r]) /\ UNCHANGED scan
  BY <1>1, <1>2, <1>4, LeaveKeeps
<1>5. CASE failedNodes[r] = {} /\ BeginScan(r, pending[r]) /\ UNCHANGED verdict
  <2>1. \A n \in TasksOf[r] : state[n] # "ABSENT"
    BY <1>1 DEF RunInv, NodesExist
  <2>2. pending[r] \in SUBSET TasksOf[r]
    BY <1>1 DEF RunInv, OwnNodes
  <2>. QED  BY <1>1, <1>2, <1>5, <2>1, <2>2, ScanKeeps
<1>6. CASE /\ failedNodes[r] = {} /\ run' = [run EXCEPT ![r] = "waiting"]
           /\ UNCHANGED <<todo, scan, verdict>>
  <2>. USE DEF CollabInv, CollabTypeOK, scan, janitor, vars
  <2>1. ASSUME NEW q \in CollabRuns, q # r PROVE RunInv(q)'
    BY <1>1, <1>6, <2>1, OthersStay DEF SameRun, Kept
  <2>2. run'[r] = "waiting"
    BY <1>6
  <2>3. MarkedWhileLive(r)' /\ JanitorWaits(r)' /\ OwnNodes(r)'
    BY <1>1, <1>6, <2>2 DEF RunInv, MarkedWhileLive, JanitorWaits, OwnNodes
  <2>4. NodesExist(r)' /\ ScanIsTrue(r)' /\ VerdictIsTrue(r)' /\ CleanedOrBegun(r)'
    BY <1>1, <1>6, <2>2
       DEF RunInv, NodesExist, ScanIsTrue, VerdictIsTrue, CleanedOrBegun, Polling, Over,
           Finished, Lost
  <2>. QED  BY <2>1, <2>3, <2>4 DEF RunInv
<1>. QED  BY <1>3, <1>4, <1>5, <1>6 DEF EndScan

LEMMA AllCreatedKeeps ==
  ASSUME CollabInv, NEW r \in CollabRuns, AllCreated(r)
  PROVE  \A q \in CollabRuns : RunInv(q)'
<1>1. \A n \in TasksOf[r] : state[n] # "ABSENT"
  BY DEF AllCreated, CollabInv, RunInv, NodesExist
<1>. QED  BY <1>1, ScanKeeps DEF AllCreated

LEMMA PollTickKeeps ==
  ASSUME CollabInv, NEW r \in CollabRuns, PollTick(r)
  PROVE  \A q \in CollabRuns : RunInv(q)'
<1>1. \A n \in TasksOf[r] : state[n] # "ABSENT" /\ (n \in pending[r] \/ Finished(n))
  BY DEF PollTick, CollabInv, RunInv, NodesExist, ScanIsTrue, Polling
<1>2. pending[r] \in SUBSET TasksOf[r]
  BY DEF CollabInv, RunInv, OwnNodes
<1>. QED  BY <1>1, <1>2, ScanKeeps DEF PollTick

LEMMA TimeoutKeeps ==
  ASSUME CollabInv, NEW r \in CollabRuns, WaitCtxDone(r)
  PROVE  \A q \in CollabRuns : RunInv(q)'
BY LeaveKeeps DEF WaitCtxDone, Polling

LEMMA TryDeleteMoves ==
  ASSUME FencingInv, NEW n \in Tasks, TryDelete(n)
  PROVE  /\ granted' = granted
         /\ \A m \in Tasks \ {n} : Kept(m)
         /\ \/ Gone(n)
            \/ Kept(n) /\ (state[n] = "ABSENT" \/ Begun(n))
<1>1. CASE Delete(n)
  BY <1>1 DEF Delete, Kept, Gone, Live, FencingInv, TypeOK
<1>2. CASE state[n] \notin {"READY"} \cup Terminal /\ UNCHANGED vars
  <2>1. state[n] = "ABSENT" \/ state[n] \in Held
    BY <1>2 DEF FencingInv, TypeOK, TaskState, Held, Terminal
  <2>2. state[n] \in Held => Begun(n)
    BY DEF FencingInv, OwnerMatchesLease, Begun
  <2>. QED  BY <1>2, <2>1, <2>2 DEF Kept, vars
<1>. QED  BY <1>1, <1>2 DEF TryDelete

LEMMA CleanUpKeeps ==
  ASSUME CollabInv, NEW r \in CollabRuns, CleanUp(r)
  PROVE  \A q \in CollabRuns : RunInv(q)'
<1>. USE DEF CollabInv, CollabTypeOK, scan, janitor
<1>1. PICK n \in todo[r] : TryDelete(n) /\ todo' = [todo EXCEPT ![r] = @ \ {n}]
  BY DEF CleanUp
<1>2. /\ n \in TasksOf[r] /\ n \in Tasks /\ RunInv(r) /\ run[r] = "cleaning"
      /\ UNCHANGED <<run, scan, verdict, activeCollabRuns, janitor>>
  BY CollabAssumption DEF CleanUp, RunInv, OwnNodes
<1>3. /\ granted' = granted
      /\ \A m \in Tasks \ {n} : Kept(m)
      /\ \/ Gone(n)
         \/ Kept(n) /\ (state[n] = "ABSENT" \/ Begun(n))
  BY <1>1, <1>2, TryDeleteMoves
<1>5. ASSUME NEW q \in CollabRuns, q # r PROVE RunInv(q)'
  BY <1>1, <1>2, <1>3, <1>5, OthersStay DEF SameRun
<1>6. RunInv(r)'
  <2>1. run'[r] = "cleaning" /\ todo'[r] = todo[r] \ {n}
    BY <1>1, <1>2
  <2>2. MarkedWhileLive(r)' /\ JanitorWaits(r)' /\ OwnNodes(r)'
    BY <1>2, <2>1 DEF RunInv, MarkedWhileLive, JanitorWaits, OwnNodes
  <2>3. \A m \in TasksOf[r] : (Finished(m) => Finished(m)') /\ (Lost(m) => Lost(m)')
    BY <1>3, CollabAssumption DEF Finished, Lost, Kept, Gone
  <2>4. NodesExist(r)' /\ ScanIsTrue(r)'
    BY <2>1 DEF NodesExist, ScanIsTrue, Polling
  <2>5. VerdictIsTrue(r)'
    BY <1>2, <2>1, <2>3 DEF RunInv, VerdictIsTrue, OwnNodes, Over
  <2>6. CleanedOrBegun(r)'
    BY <1>2, <1>3, <2>1, CollabAssumption DEF RunInv, CleanedOrBegun, Over, Kept, Gone, Begun
  <2>. QED  BY <2>2, <2>4, <2>5, <2>6 DEF RunInv
<1>. QED  BY <1>5, <1>6

LEMMA UnmarkKeeps ==
  ASSUME CollabInv, NEW r \in CollabRuns, unmarkActiveRun(r)
  PROVE  \A q \in CollabRuns : RunInv(q)'
<1>. USE DEF CollabInv, CollabTypeOK, scan, janitor, vars, unmarkActiveRun
<1>1. ASSUME NEW q \in CollabRuns, q # r PROVE RunInv(q)'
  BY <1>1, OthersStay DEF SameRun, Kept
<1>2. RunInv(r)'
  <2>1. run'[r] = "returned" /\ r \notin activeCollabRuns' /\ RunInv(r)
    OBVIOUS
  <2>2. MarkedWhileLive(r)' /\ JanitorWaits(r)' /\ OwnNodes(r)'
    BY <2>1 DEF RunInv, MarkedWhileLive, JanitorWaits, OwnNodes
  <2>3. NodesExist(r)' /\ ScanIsTrue(r)' /\ VerdictIsTrue(r)' /\ CleanedOrBegun(r)'
    BY <2>1 DEF RunInv, NodesExist, ScanIsTrue, VerdictIsTrue, CleanedOrBegun, Polling, Over,
                Finished, Lost, Begun
  <2>. QED  BY <2>2, <2>3 DEF RunInv
<1>. QED  BY <1>1, <1>2

-----------------------------------------------------------------------------
(* The steps of the janitor and of the kernel.                             *)

LEMMA JanitorKeeps ==
  ASSUME CollabInv, JanitorStep
  PROVE  \A q \in CollabRuns : RunInv(q)'
<1>. USE DEF CollabInv, CollabTypeOK, scan, janitor, vars
<1>. SUFFICES ASSUME NEW q \in CollabRuns PROVE RunInv(q)'
  OBVIOUS
<1>0. RunInv(q)
  OBVIOUS
<1>1. CASE sweepStaleCollabTasks
  <2>1. JanitorWaits(q)'
    BY <1>0, <1>1 DEF sweepStaleCollabTasks, RunInv, JanitorWaits, NodesExist
  <2>. QED  BY <1>1, <2>1, FrameRun DEF sweepStaleCollabTasks, SameRun, Kept
<1>2. ASSUME NEW n \in Tasks, CheckOne(n) PROVE RunInv(q)'
  <2>1. n \in TasksOf[q] /\ ~isProtectedByActiveRun(n) => run[q] = "returned"
    BY <1>0, <1>2 DEF CheckOne, isProtectedByActiveRun, RunInv, JanitorWaits, MarkedWhileLive
  <2>2. JanitorWaits(q)'
    BY <1>0, <1>2, <2>1 DEF CheckOne, RunInv, JanitorWaits
  <2>. QED  BY <1>2, <2>2, FrameRun DEF CheckOne, SameRun, Kept
<1>3. ASSUME NEW n \in Tasks, Harvest(n) PROVE RunInv(q)'
  <2>1. /\ granted' = granted
        /\ \A m \in Tasks \ {n} : Kept(m)
        /\ Gone(n) \/ Kept(n)
    BY <1>3, TryDeleteMoves DEF Harvest
  <2>2. n \in TasksOf[q] => run[q] = "returned"
    BY <1>0, <1>3 DEF Harvest, RunInv, JanitorWaits
  <2>3. JanitorWaits(q)'
    BY <1>0, <1>3 DEF Harvest, RunInv, JanitorWaits
  <2>. QED  BY <1>3, <2>1, <2>2, <2>3, FrameRun, CollabAssumption DEF Harvest, SameRun
<1>. QED  BY <1>1, <1>2, <1>3 DEF JanitorStep

LEMMA KernelKeeps ==
  ASSUME CollabInv, Kernel, UNCHANGED collabVars
  PROVE  \A q \in CollabRuns : RunInv(q)'
<1>. SUFFICES ASSUME NEW q \in CollabRuns PROVE RunInv(q)'
  OBVIOUS
<1>1. granted \subseteq granted'
  <2>1. CASE Tasks = {}
    BY <2>1 DEF Kernel, CheckExpiredLeases, Tick
  <2>. QED  BY <2>1, KernelBegins DEF CollabInv
<1>2. \A n \in TasksOf[q] : Kept(n) \/ Proceeds(n)
  BY KernelMoves, CollabAssumption DEF CollabInv
<1>3. JanitorWaits(q)'
  BY DEF CollabInv, RunInv, JanitorWaits, collabVars, janitor
<1>. QED  BY <1>1, <1>2, <1>3, FrameRun DEF SameRun, collabVars, scan

-----------------------------------------------------------------------------
(* Every step.                                                             *)

LEMMA CollabStarts == CollabInit => CollabInv
<1>. SUFFICES ASSUME CollabInit PROVE CollabInv
  OBVIOUS
<1>. USE CollabAssumption DEF CollabInit
<1>1. FencingInv
  BY InitFencing
<1>2. CollabTypeOK
  BY DEF CollabTypeOK
<1>3. SettledIsLogged
  BY DEF SettledIsLogged, Init
<1>4. ASSUME NEW r \in CollabRuns PROVE RunInv(r)
  BY DEF RunInv, MarkedWhileLive, JanitorWaits, OwnNodes, NodesExist, ScanIsTrue,
         VerdictIsTrue, CleanedOrBegun, Polling, Over, Init
<1>. QED  BY <1>1, <1>2, <1>3, <1>4 DEF CollabInv

LEMMA LogStep ==
  ASSUME CollabInv, [CollabNext]_collab
  PROVE  SettledIsLogged'
<1>. USE DEF CollabInv, CollabTypeOK
<1>1. ASSUME NEW n \in Tasks, TryDelete(n) PROVE SettledIsLogged'
  BY <1>1, TryDeleteMoves, LogMoves DEF Gone
<1>2. CASE UNCHANGED vars
  BY <1>2 DEF vars, SettledIsLogged
<1>3. ASSUME NEW r \in CollabRuns, CreateNode(r) PROVE SettledIsLogged'
  <2>1. PICK n \in todo[r], cp \in Checkpoints : Create(n, cp)
    BY <1>3 DEF CreateNode
  <2>. QED  BY <2>1, LogMoves DEF Create, recordLocked, Kept, FencingInv, TypeOK
<1>4. ASSUME NEW r \in CollabRuns, RunStep(r) PROVE SettledIsLogged'
  BY <1>1, <1>2, <1>3, <1>4
     DEF RunStep, markActiveRun, AllCreated, ReadNode, EndScan, PollTick, WaitCtxDone,
         CleanUp, unmarkActiveRun
<1>5. ASSUME JanitorStep PROVE SettledIsLogged'
  BY <1>1, <1>2, <1>5 DEF JanitorStep, sweepStaleCollabTasks, CheckOne, Harvest
<1>6. ASSUME Kernel PROVE SettledIsLogged'
  BY <1>6, KernelMoves, LogMoves
<1>. QED  BY <1>2, <1>4, <1>5, <1>6 DEF CollabNext, collab

LEMMA CollabStep == CollabInv /\ [CollabNext]_collab => CollabInv'
<1>. SUFFICES ASSUME CollabInv, [CollabNext]_collab PROVE CollabInv'
  OBVIOUS
<1>1. FencingInv' /\ CollabTypeOK' /\ SettledIsLogged'
  BY FabricStep, StepFencing, TypeStep, LogStep DEF CollabInv
<1>2. ASSUME NEW r \in CollabRuns, RunStep(r) PROVE \A q \in CollabRuns : RunInv(q)'
  BY <1>2, MarkKeeps, CreateKeeps, AllCreatedKeeps, ReadKeeps, EndScanKeeps, PollTickKeeps,
     TimeoutKeeps, CleanUpKeeps, UnmarkKeeps DEF RunStep
<1>3. CASE UNCHANGED collab
  <2>1. ASSUME NEW q \in CollabRuns PROVE JanitorWaits(q)'
    BY <1>3 DEF CollabInv, RunInv, JanitorWaits, collab, collabVars, janitor
  <2>. QED
    BY <1>1, <1>3, <2>1, FrameRun
       DEF CollabInv, SameRun, Kept, collab, collabVars, scan, vars
<1>. QED  BY <1>1, <1>2, <1>3, JanitorKeeps, KernelKeeps DEF CollabNext, CollabInv

\* A run of a collaboration graph never misses one of its tasks, and reports
\* success, or a failure, of tasks that completed, or failed (collab_graph.go:60).
THEOREM RunsSeeTheirNodes == CollabSpec => []RunSeesItsNodes
<1>1. CollabInv => RunSeesItsNodes
  BY DEF CollabInv, RunInv, VerdictIsTrue, RunSeesItsNodes, Finished, Lost
<1>. QED  BY CollabStarts, CollabStep, <1>1, PTL DEF CollabSpec

\* A node that nobody had begun when its run returned is never begun
\* (collab_graph.go:252).
THEOREM NothingStarts == CollabSpec => NothingStartsAfterwards
<1>1. ASSUME CollabInv, [CollabNext]_collab, NEW r \in CollabRuns, NEW n \in TasksOf[r],
             run[r] = "returned", ~Begun(n)
      PROVE  ~Begun(n)'
  <2>1. n \in Tasks
    BY CollabAssumption
  <2>2. state[n] = "ABSENT"
    BY <1>1 DEF CollabInv, RunInv, CleanedOrBegun, Over
  <2>3. CASE Kernel
    BY <1>1, <2>1, <2>2, <2>3, KernelBegins DEF CollabInv, Live, Held
  <2>4. CASE UNCHANGED granted
    BY <1>1, <2>4 DEF Begun
  <2>5. ASSUME NEW m \in Tasks, TryDelete(m) PROVE UNCHANGED granted
    BY <1>1, <2>5, TryDeleteMoves DEF CollabInv
  <2>6. ASSUME NEW q \in CollabRuns, RunStep(q) PROVE UNCHANGED granted
    BY <1>1, <2>5, <2>6
       DEF RunStep, markActiveRun, CreateNode, Create, AllCreated, ReadNode, EndScan,
           PollTick, WaitCtxDone, CleanUp, unmarkActiveRun, vars, CollabInv, CollabTypeOK
  <2>7. JanitorStep => UNCHANGED granted
    BY <2>5 DEF JanitorStep, sweepStaleCollabTasks, CheckOne, Harvest, vars
  <2>. QED  BY <1>1, <2>3, <2>4, <2>6, <2>7 DEF CollabNext, collab, vars
<1>2. CollabInv /\ [CollabNext]_collab
        => [\A r \in CollabRuns : \A n \in TasksOf[r] :
              run[r] = "returned" /\ ~Begun(n) => ~Begun(n)']_collab
  BY <1>1
<1>. QED  BY CollabStarts, CollabStep, <1>2, PTL DEF CollabSpec, NothingStartsAfterwards

\* The runs, the janitor and this kernel use the fabric only through its
\* operations: the fabric's theorems hold of them (collab_graph.go:15-21).
THEOREM CollabUsesFabric == CollabSpec => Spec
<1>1. CollabInit => Init
  BY DEF CollabInit
<1>2. CollabInv /\ [CollabNext]_collab => [Next]_vars
  BY FabricStep DEF CollabInv
<1>. QED  BY CollabStarts, CollabStep, <1>1, <1>2, PTL DEF CollabSpec, Spec

=============================================================================
