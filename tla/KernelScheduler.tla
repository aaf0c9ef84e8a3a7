-------------------------- MODULE KernelScheduler --------------------------
(***************************************************************************)
(* The kernel scheduler (internal/kernelscheduler) over the Task Fabric,   *)
(* with the recovery loop of cmd/ares beside it.                           *)
(*                                                                         *)
(* One drain at a time takes a snapshot of the resumable tasks and runs a  *)
(* goroutine per task, bounded by a semaphore, and waits for all of them.  *)
(* A goroutine builds its candidates, schedules (acquires) the task,       *)
(* resolves the winner, passes the budget gate, and runs one quantum while *)
(* a heartbeat renews its lease.  Beside the drain run the preemption      *)
(* watcher, the recovery sweep, and whoever kills agents or deletes tasks. *)
(* Between any two steps anything else may happen.                         *)
(*                                                                         *)
(* A checkpoint is the envelope the scheduler keeps in Task.Checkpoint:    *)
(* the submission metadata and the progress made, counted in quanta.       *)
(***************************************************************************)
EXTENDS TaskFabric

CONSTANTS
  PeerMode,       \* whether an Agent Fabric is attached (ares serve)
  Configured,     \* the agents the configuration starts with
  Capable,        \* Capable[t]: agents whose capabilities cover task t
  Quanta,         \* Quanta[t]: quanta of work task t takes
  MaxConcurrent,  \* size of the drain's semaphore
  MaxDeaths       \* bound: number of agents that may be dead at once

ASSUME SchedulerAssumption ==
  /\ PeerMode \in BOOLEAN
  /\ Configured \subseteq Agents
  /\ Capable \in [Tasks -> SUBSET Agents]
  /\ Quanta \in [Tasks -> Nat \ {0}]
  /\ MaxConcurrent \in Nat \ {0}
  /\ MaxDeaths \in Nat
  /\ \A t \in Tasks : \A n \in 0 .. Quanta[t] : [meta |-> t, step |-> n] \in Checkpoints

VARIABLES
  pc,         \* where the goroutine of each task is; "none" when it has none
  winner,     \* the agent Schedule picked for it, Nil before
  token,      \* the fencing token it holds, 0 before
  cands,      \* its candidate snapshot
  snap,       \* its task snapshot tk: the checkpoint read before Schedule
  outcome,    \* what the agent's step returned
  beating,    \* whether its heartbeat goroutine is still renewing
  load,       \* LoadTracker.load
  live,       \* IDLE, executable agents of the Agent Fabric
  registered, \* keys of Scheduler.executors
  bound,      \* Scheduler.boundExecutors, Nil for no entry
  victims,    \* running tasks a preemption pass decided on, not yet preempted
  requeued,   \* tasks the running recovery sweep has still to look at
  rescue,     \* the task it is making a replacement for, or Nil
  reconciling,\* whether a drain is between its reconciliation and its start
  doomed      \* registrations it decided to drop

goroutine == <<pc, winner, token, cands, snap, outcome, beating>>
population == <<live, registered, bound>>
recovery == <<requeued, rescue>>
drain == <<reconciling, doomed>>
loops == <<victims, recovery, drain>>
schedVars == <<vars, goroutine, load, population, loops>>

Envelope(t, n) == [meta |-> t, step |-> n]
Blank          == [meta |-> Nil, step |-> 0]   \* a goroutine with no snapshot

Busy       == {"begun", "running", "stepped", "ended"}
PC         == {"none", "queued", "built", "won", "found"} \cup Busy
Active     == {t \in Tasks : pc[t] \notin {"none", "queued"}}
Draining   == \E t \in Tasks : pc[t] # "none"

\* TaskFabric variables that belong to the fabric and the goroutine variables
\* are updated together; these say what a step leaves alone.
Goto(t, place) == pc' = [pc EXCEPT ![t] = place]
Local(t, place) ==
  Goto(t, place) /\ UNCHANGED <<winner, token, cands, snap, outcome, beating>>

\* The goroutine returns; its locals are gone.
Exit(t) ==
  /\ pc' = [pc EXCEPT ![t] = "none"]
  /\ winner' = [winner EXCEPT ![t] = Nil]
  /\ token' = [token EXCEPT ![t] = 0]
  /\ cands' = [cands EXCEPT ![t] = {}]
  /\ snap' = [snap EXCEPT ![t] = Blank]
  /\ outcome' = [outcome EXCEPT ![t] = "none"]
  /\ beating' = [beating EXCEPT ![t] = FALSE]

\* The goroutine of t still holds t: its token opens it.
Owns(t) == ownerLocked(t, winner[t], token[t])

SchedInit ==
  /\ Init
  /\ pc = [t \in Tasks |-> "none"]
  /\ winner = [t \in Tasks |-> Nil]
  /\ token = [t \in Tasks |-> 0]
  /\ cands = [t \in Tasks |-> {}]
  /\ snap = [t \in Tasks |-> Blank]
  /\ outcome = [t \in Tasks |-> "none"]
  /\ beating = [t \in Tasks |-> FALSE]
  /\ load = [a \in Agents |-> 0]
  /\ live = IF PeerMode THEN Configured ELSE {}
  /\ registered = Configured
  /\ bound = [t \in Tasks |-> Nil]
  /\ victims = {}
  /\ requeued = {}
  /\ rescue = Nil
  /\ reconciling = FALSE /\ doomed = {}

-----------------------------------------------------------------------------
(* The world around the scheduler.                                         *)

\* A submission: the metadata rides in the envelope, no progress yet.  Task
\* ids are unique, so a deleted task does not come back.
Submit(t) ==
  /\ lastEvent[t] = NoEvent
  /\ Create(t, Envelope(t, 0))
  /\ UNCHANGED <<goroutine, load, population, loops>>

\* Cleanup of a submitted graph deletes the tasks it may.
Cleanup(t) ==
  /\ Delete(t)
  /\ UNCHANGED <<goroutine, load, population, loops>>

Clock == Tick /\ UNCHANGED <<goroutine, load, population, loops>>

\* An agent of the Agent Fabric is killed.  Its registration stays behind.
Kill(a) ==
  /\ a \in live
  /\ Cardinality(Configured \ live) < MaxDeaths
  /\ live' = live \ {a}
  /\ UNCHANGED <<vars, goroutine, load, registered, bound, loops>>

\* The spawn_agent syscall makes an agent, which is a candidate at once, and
\* registers its executor afterwards.
Spawn(a) ==
  /\ PeerMode /\ a \notin live \cup registered
  /\ live' = live \cup {a}
  /\ UNCHANGED <<vars, goroutine, load, registered, bound, loops>>

RegisterExecutor(a) ==
  /\ a \in live \ registered
  /\ registered' = registered \cup {a}
  /\ UNCHANGED <<vars, goroutine, load, live, bound, loops>>

-----------------------------------------------------------------------------
(* The executor registry.                                                  *)

\* Executors reserved for one task; no other task may have them.
Reserved == {bound[t] : t \in Tasks} \ {Nil}

\* Whom a task without a binding may be offered to: with an Agent Fabric its
\* live agents, otherwise the registered executors.
Pool == (IF PeerMode THEN live ELSE registered) \ Reserved

\* A recovery executor is made with the capability of its task.
Suits(t, a) == a \in Capable[t] \/ a = bound[t]

Offered(t) == IF bound[t] \in registered THEN {bound[t]} ELSE Pool

\* With an Agent Fabric, an agent that is registered as well is skipped twice:
\* once as a static registration, once as a fabric agent.
HasCapableExecutor(t) ==
  /\ state[t] # "ABSENT"
  /\ \/ bound[t] # Nil
     \/ \E a \in Capable[t] :
          IF PeerMode THEN a \in live \ registered
                      ELSE a \in registered \ Reserved /\ load[a] = 0

RegisterExecutorForTask(t, a) ==
  /\ registered' = registered \cup {a}
  /\ bound' = [bound EXCEPT ![t] = a]

\* UnregisterExecutor for every agent of S.
UnregisterKeepingBindings(S) == registered' = registered \ S /\ bound' = bound

UnregisterExecutor(S) ==
  /\ registered' = registered \ S
  /\ bound' = [t \in Tasks |-> IF bound[t] \in S THEN Nil ELSE bound[t]]

unbindRecoveryExecutorAfterTerminal(t) ==
  UnregisterExecutor(IF state[t] \in Terminal THEN {bound[t]} \ {Nil} ELSE {})

\* Registrations reconcileFabricDeaths finds dead.
Zombies == IF PeerMode THEN registered \ (live \cup Reserved) ELSE {}

-----------------------------------------------------------------------------
(* The recovery loop.                                                      *)

\* A sweep requeues the expired tasks; the next one starts after it is done.
Sweep ==
  /\ requeued = {} /\ rescue = Nil
  /\ CheckExpiredLeases
  /\ requeued' = IF PeerMode THEN Sweepable ELSE {}
  /\ UNCHANGED <<goroutine, load, population, victims, rescue, drain>>

\* It asks for each requeued task whether somebody can resume it.
AskCapable(t) ==
  /\ rescue = Nil /\ t \in requeued
  /\ requeued' = requeued \ {t}
  /\ rescue' = IF state[t] = "ABSENT" \/ HasCapableExecutor(t) THEN Nil ELSE t
  /\ UNCHANGED <<vars, goroutine, load, population, victims, drain>>

\* If not, it revives a dead agent of the capability under its own id, or
\* makes a replacement with a fresh one, and binds it to the task.  Ids out of
\* use stand for the fresh ones.
Rescue(a) ==
  /\ rescue # Nil /\ a \notin live \cup Reserved
  /\ a \in Configured => a \in Capable[rescue]
  /\ RegisterExecutorForTask(rescue, a)
  /\ rescue' = Nil
  /\ UNCHANGED <<vars, goroutine, load, live, victims, requeued, drain>>

-----------------------------------------------------------------------------
(* Preemption.                                                             *)

\* PreemptLowerPriority reads the ready tasks' priorities, then RunningTasks.
MaxReady ==
  CHOOSE p \in {Priority[t] : t \in ResumableTasks} \cup {0} :
    \A t \in ResumableTasks : Priority[t] <= p

Outranked(executors) ==
  IF executors = {} \/ MaxReady <= 0 THEN {}
  ELSE {r \in RunningTasks : Priority[r.task] < MaxReady}

\* The watcher's ticker fires and the pass picks its victims.
Watch ==
  /\ Outranked(registered) \ victims # {}
  /\ victims' = victims \cup Outranked(registered)
  /\ UNCHANGED <<vars, goroutine, load, population, recovery, drain>>

\* It then preempts them one by one; a stale snapshot is refused by the token.
PreemptVictim(r) ==
  /\ victims' = victims \ {r}
  /\ \/ Preempt(r.task, r.agent, r.epoch)
     \/ ~ownerLocked(r.task, r.agent, r.epoch) /\ UNCHANGED vars
     \/ ~canTransition(state[r.task], "READY") /\ UNCHANGED vars
  /\ UNCHANGED <<goroutine, load, population, recovery, drain>>

-----------------------------------------------------------------------------
(* The drain.                                                              *)

\* drain first looks for registrations of dead agents...
Reconcile ==
  /\ ~Draining /\ ~reconciling
  /\ ResumableTasks # {} \/ Zombies # {}
  /\ reconciling' = TRUE /\ doomed' = Zombies
  /\ UNCHANGED <<vars, goroutine, load, population, victims, recovery>>

\* ... and drops them; then it runs a preemption pass, whose victims join the
\* watcher's, and starts a goroutine per resumable task.
Drain ==
  /\ reconciling
  /\ reconciling' = FALSE /\ doomed' = {}
  /\ UnregisterExecutor(doomed)
  /\ pc' = [t \in Tasks |-> IF t \in ResumableTasks THEN "queued" ELSE pc[t]]
  /\ victims' = victims \cup Outranked(registered \ doomed)
  /\ UNCHANGED <<vars, winner, token, cands, snap, outcome, beating, load, live,
                 recovery>>

\* A goroutine gets the semaphore and builds its candidates: the capable agents
\* on offer with spare capacity (a fully loaded one scores zero).  The task
\* snapshot is taken with them; reading it this early only widens the window
\* in which it can go stale.
Build(t) ==
  LET C == {a \in Offered(t) : load[a] = 0 /\ Suits(t, a)} IN
  /\ pc[t] = "queued" /\ Cardinality(Active) < MaxConcurrent
  /\ \/ /\ state[t] # "ABSENT" /\ C # {}
        /\ cands' = [cands EXCEPT ![t] = C]
        /\ snap' = [snap EXCEPT ![t] = checkpoint[t]]
        /\ Goto(t, "built")
        /\ UNCHANGED <<winner, token, outcome, beating>>
     \/ (state[t] = "ABSENT" \/ C = {}) /\ Exit(t)
  /\ UNCHANGED <<vars, load, population, loops>>

\* Schedule: Pick some candidate of the snapshot, Acquire on its behalf.
Schedule(t) ==
  /\ pc[t] = "built"
  /\ \/ \E a \in cands[t] :
          /\ Acquire(t, a)
          /\ winner' = [winner EXCEPT ![t] = a]
          /\ token' = [token EXCEPT ![t] = epoch + 1]
          /\ Goto(t, "won")
          /\ UNCHANGED <<cands, snap, outcome, beating>>
     \/ state[t] \notin {"READY", "SUSPENDED"} /\ Exit(t) /\ UNCHANGED vars
  /\ UNCHANGED <<load, population, loops>>

\* Release by the goroutine; a refusal is only logged.
GiveBack(t) ==
  \/ Release(t, winner[t], token[t])
  \/ ~Owns(t) /\ UNCHANGED vars
  \/ ~canTransition(state[t], "READY") /\ UNCHANGED vars

\* The winner may have died since the candidates were built.  A registration
\* it left behind still counts; otherwise the lease is given back if someone
\* else can take the task, or left to expire.
Lookup(t) ==
  /\ pc[t] = "won"
  /\ \/ /\ winner[t] \in live \cup registered
        /\ Local(t, "found") /\ UNCHANGED vars
     \/ /\ winner[t] \notin live \cup registered
        /\ Exit(t)
        /\ IF HasCapableExecutor(t) THEN GiveBack(t) ELSE UNCHANGED vars
  /\ UNCHANGED <<load, population, loops>>

\* The budget gate passes and the winner's slot is taken, or it refuses and
\* the task is given back.
Gate(t) ==
  /\ pc[t] = "found"
  /\ \/ /\ load' = [load EXCEPT ![winner[t]] = @ + 1]
        /\ beating' = [beating EXCEPT ![t] = TRUE]
        /\ Goto(t, "begun")
        /\ UNCHANGED <<vars, winner, token, cands, snap, outcome>>
     \/ PeerMode /\ GiveBack(t) /\ Exit(t) /\ UNCHANGED load
  /\ UNCHANGED <<population, loops>>

\* RunQuantum starts the task; a refusal ends the quantum.
StartQuantum(t) ==
  /\ pc[t] = "begun"
  /\ \/ Start(t, winner[t], token[t]) /\ Local(t, "running")
     \/ (~Owns(t) \/ ~canTransition(state[t], "RUNNING"))
          /\ Local(t, "ended") /\ UNCHANGED vars
  /\ UNCHANGED <<load, population, loops>>

StepAlwaysDone(t) ==
  /\ pc[t] = "running"
  /\ \E o \in {"error", "done"} : outcome' = [outcome EXCEPT ![t] = o]
  /\ Goto(t, "stepped")
  /\ UNCHANGED <<vars, winner, token, cands, snap, beating, load, population,
                 loops>>

\* The agent's step: one quantum of progress on top of the snapshot, done when
\* that was the last one; or an error.
Step(t) ==
  /\ pc[t] = "running"
  /\ \E o \in {"error", IF snap[t].step + 1 < Quanta[t] THEN "yield" ELSE "done"} :
       outcome' = [outcome EXCEPT ![t] = o]
  /\ Goto(t, "stepped")
  /\ UNCHANGED <<vars, winner, token, cands, snap, beating, load, population,
                 loops>>

\* A panicking executor: the slot and the heartbeat are released, the task
\* stays RUNNING under its lease.
PanicLeaksSlot(t) ==
  /\ pc[t] = "running"
  /\ Exit(t)
  /\ UNCHANGED <<vars, load, population, loops>>

Panic(t) ==
  /\ pc[t] = "running"
  /\ load' = [load EXCEPT ![winner[t]] = IF @ > 0 THEN @ - 1 ELSE 0]
  /\ Exit(t)
  /\ UNCHANGED <<vars, population, loops>>

\* The envelope built around the step's output: the snapshot's metadata.
WrapDroppingMeta(t) == [meta |-> Nil, step |-> snap[t].step + 1]

Wrap(t) == [meta |-> snap[t].meta, step |-> snap[t].step + 1]

\* The quantum boundary: RunQuantum applies the outcome under the token it
\* started with; without the lease the outcome is lost.
Boundary(t) ==
  /\ pc[t] = "stepped"
  /\ \/ outcome[t] = "done"
          /\ CompleteWithCheckpoint(t, winner[t], token[t], Wrap(t))
     \/ outcome[t] = "yield" /\ Yield(t, winner[t], token[t], Wrap(t))
     \/ outcome[t] = "error" /\ Fail(t, winner[t], token[t])
     \/ ~Owns(t) /\ UNCHANGED vars
  /\ Local(t, "ended")
  /\ UNCHANGED <<load, population, loops>>

\* endQuantumOutcome, and the binding of a finished task is dropped.
End(t) ==
  /\ pc[t] = "ended"
  /\ load' = [load EXCEPT ![winner[t]] = IF @ > 0 THEN @ - 1 ELSE 0]
  /\ unbindRecoveryExecutorAfterTerminal(t)
  /\ Exit(t)
  /\ UNCHANGED <<vars, live, loops>>

\* The heartbeat renews until the quantum ends or a renewal is refused.
Heartbeat(t) ==
  /\ pc[t] \in Busy /\ beating[t]
  /\ \/ Renew(t, winner[t], token[t]) /\ UNCHANGED beating
     \/ ~Owns(t) /\ beating' = [beating EXCEPT ![t] = FALSE] /\ UNCHANGED vars
  /\ UNCHANGED <<pc, winner, token, cands, snap, outcome, load, population,
                 loops>>

-----------------------------------------------------------------------------
Goroutine(t) ==
  \/ Build(t) \/ Schedule(t) \/ Lookup(t) \/ Gate(t) \/ StartQuantum(t)
  \/ Step(t) \/ Panic(t) \/ Boundary(t) \/ End(t)

SchedNext ==
  \/ \E t \in Tasks : Submit(t) \/ Cleanup(t) \/ Heartbeat(t) \/ Goroutine(t)
                     \/ AskCapable(t)
  \/ \E a \in Agents : Spawn(a) \/ RegisterExecutor(a) \/ Kill(a) \/ Rescue(a)
  \/ Sweep \/ Clock \/ Watch \/ Reconcile \/ Drain
  \/ \E r \in victims : PreemptVictim(r)

SchedSpec == SchedInit /\ [][SchedNext]_schedVars

\* A goroutine that can run runs; the scheduler's poll ticker, the recovery
\* ticker and the clock tick for as long as the kernel runs.
SchedFairSpec ==
  /\ SchedSpec
  /\ \A t \in Tasks : WF_schedVars(Goroutine(t))
  /\ WF_schedVars(Reconcile) /\ WF_schedVars(Drain)
  /\ WF_schedVars(Sweep) /\ WF_schedVars(Clock)

-----------------------------------------------------------------------------
(* Properties.                                                             *)

\* The counterpart of the tracker: slots held by goroutines inside a quantum.
InQuantum(a) == {t \in Tasks : pc[t] \in Busy /\ winner[t] = a}

SchedTypeOK ==
  /\ TypeOK
  /\ pc \in [Tasks -> PC]
  /\ winner \in [Tasks -> Agents \cup {Nil}]
  /\ token \in [Tasks -> 0 .. MaxEpoch]
  /\ cands \in [Tasks -> SUBSET Agents]
  /\ snap \in [Tasks -> Checkpoints \cup {Blank}]
  /\ outcome \in [Tasks -> {"none", "error", "yield", "done"}]
  /\ beating \in [Tasks -> BOOLEAN]
  /\ load \in [Agents -> Nat]
  /\ live \subseteq Agents /\ registered \subseteq Agents
  /\ bound \in [Tasks -> Agents \cup {Nil}]
  /\ victims \subseteq Token
  /\ reconciling \in BOOLEAN /\ doomed \subseteq Agents
  /\ requeued \subseteq Tasks /\ rescue \in Tasks \cup {Nil}

\* The LoadTracker's count is exact on every path out of a quantum (normal end,
\* refusal, panic): a leaked slot would make the agent unschedulable for good.
LoadIsExact == \A a \in Agents : load[a] = Cardinality(InQuantum(a))

\* However often a task is yielded, preempted, expired or retried, its envelope
\* still carries the metadata it was submitted with.
MetadataSurvives ==
  \A t \in Tasks : state[t] # "ABSENT" => checkpoint[t].meta = t

\* A task is COMPLETED only after every quantum of its work was credited once.
CompletedWorkIsWhole ==
  \A t \in Tasks : state[t] = "COMPLETED" => checkpoint[t].step = Quanta[t]

\* The retry budget is exact: a bounded task never runs with its budget spent,
\* and it is FAILED only once the budget is spent; a task whose MaxRetries is 0
\* is retried without limit and never FAILED (CanRetry, task.go:47).
RetryBudgetIsExact ==
  \A t \in Tasks :
    /\ MaxRetries[t] > 0 /\ state[t] \in {"READY"} \cup Held => attempts[t] < MaxRetries[t]
    /\ state[t] = "FAILED" => MaxRetries[t] > 0 /\ attempts[t] = MaxRetries[t]

\* The DAG gate: work of a task starts only after each prerequisite COMPLETED
\* (a prerequisite may have been harvested and deleted since).
DependenciesFirst ==
  \A t \in Tasks : state[t] \in Held \cup Terminal =>
    \A d \in Deps[t] :
      state[d] = "COMPLETED" \/ (state[d] = "ABSENT" /\ lastEvent[d].type = "completed")

\* A binding is never left without its executor, whichever of the recovery
\* loop, the end of a quantum and the reconciliation of dead agents touches
\* the registry: a bound task is offered to nobody else.
BindingHasExecutor == \A t \in Tasks : bound[t] # Nil => bound[t] \in registered

\* A held task moves on: however its goroutine ends (panic, stale winner, lost
\* lease), a later drain resumes it or the sweep takes it back.
HeldTaskMovesOn ==
  \A t \in Tasks : state[t] \in Held ~> (state[t] \notin Held \/ epoch = MaxEpoch)

-----------------------------------------------------------------------------
(* What the source says and the code does not do.                          *)

\* A replacement never gets another task's work (RegisterExecutorForTask: "a
\* replacement spawned for a recovered task can never hijack a brand-new task").
ReplacementRunsItsTask ==
  [][\A t, u \in Tasks :
       pc[t] = "won" /\ pc'[t] = "found" /\ bound[u] = winner[t] => u = t]_schedVars

\* The registry does not grow: a finished task nobody is working on has no
\* recovery executor left (unbindRecoveryExecutorAfterTerminal).
NoBindingOutlivesItsTask ==
  \A t \in Tasks : state[t] \in Terminal /\ pc[t] = "none" => bound[t] = Nil

\* A stale winner gives the task back when another executor could run it, so
\* that it does not wait for the lease to run out (scheduler.go on EDGE-4).
StaleWinnerGivesBack ==
  [][\A t \in Tasks :
       pc[t] = "won" /\ pc'[t] = "none" /\ Owns(t) /\ Pool \cap Capable[t] # {}
         => state'[t] = "READY"]_schedVars

\* A replacement stays bound until its task is done (kernel_loop.go: "Bound
\* executors are unregistered by the scheduler once the task reaches a
\* terminal state").
BoundUntilDone ==
  [][\A t \in Tasks : bound[t] # Nil /\ bound'[t] # bound[t]
       => state[t] \in Terminal]_schedVars

=============================================================================
