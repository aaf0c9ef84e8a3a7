-------------------------- MODULE SchedulerProofs --------------------------
(***************************************************************************)
(* Machine-checked facts about the kernel scheduler, for any tasks,        *)
(* agents, quanta, dependencies and retry budgets, in both modes, with or  *)
(* without kills, sweeps, preemptions and clean-ups between any two steps. *)
(*                                                                         *)
(* The scheduler only ever moves the fabric by the fabric's own operations *)
(* (ImplementsFabric), so the theorems of TaskFabricProofs carry over to   *)
(* it; what it adds of its own rests on one inductive invariant,           *)
(* SchedInv, whose core is that a goroutine works on a snapshot of its     *)
(* task that nobody else has moved on.                                     *)
(***************************************************************************)
EXTENDS KernelScheduler, TaskFabricProofs, FiniteSetTheorems

\* A checkpoint of t with work left, and one of t whatever its progress.
Unfinished(t, c) == \E n \in 0 .. Quanta[t] - 1 : c = Envelope(t, n)
Enveloped(t, c)  == \E n \in 0 .. Quanta[t] : c = Envelope(t, n)

LocalTypeOK ==
  /\ pc \in [Tasks -> PC]
  /\ winner \in [Tasks -> Agents \cup {Nil}]
  /\ token \in [Tasks -> 0 .. MaxEpoch]
  /\ cands \in [Tasks -> SUBSET Agents]
  /\ snap \in [Tasks -> Checkpoints \cup {Blank}]
  /\ outcome \in [Tasks -> {"none", "error", "yield", "done"}]
  /\ beating \in [Tasks -> BOOLEAN]
  /\ epoch <= MaxEpoch

PopulationTypeOK ==
  /\ load \in [Agents -> Nat]
  /\ live \subseteq Agents /\ registered \subseteq Agents
  /\ bound \in [Tasks -> Agents \cup {Nil}]
  /\ victims \subseteq Token
  /\ reconciling \in BOOLEAN /\ doomed \subseteq Agents
  /\ requeued \subseteq Tasks /\ rescue \in Tasks \cup {Nil}

\* What the checkpoint of t is worth in each state.
CheckpointInv(t) ==
  /\ state[t] \in {"READY"} \cup Held => Unfinished(t, checkpoint[t])
  /\ state[t] = "COMPLETED" => checkpoint[t] = Envelope(t, Quanta[t])
  /\ state[t] = "FAILED" => Enveloped(t, checkpoint[t])

\* A bounded task that can still run has budget left, a failed one has none; a
\* task without a bound does not fail.
RetryInv(t) ==
  /\ MaxRetries[t] > 0 /\ state[t] \in {"READY"} \cup Held => attempts[t] < MaxRetries[t]
  /\ state[t] = "FAILED" => MaxRetries[t] > 0 /\ attempts[t] = MaxRetries[t]

\* Only the goroutine of t acquires t, when it has built its candidates: one
\* further on either still has the task RUNNING or has lost it for good.
GoroutineInv(t) ==
  /\ pc[t] = "queued" => state[t] \in {"READY", "SUSPENDED", "ABSENT"}
  /\ pc[t] \in {"running", "stepped"} => state[t] = "RUNNING" \/ owner[t] = Nil
  /\ pc[t] \in {"built", "won", "found", "begun", "running", "stepped"} =>
       Unfinished(t, snap[t])
  /\ pc[t] = "stepped" /\ outcome[t] = "yield" => Unfinished(t, Wrap(t))
  /\ pc[t] = "stepped" /\ outcome[t] = "done" => Wrap(t) = Envelope(t, Quanta[t])

WorkInv(t) == CheckpointInv(t) /\ RetryInv(t) /\ GoroutineInv(t)

\* A prerequisite is met for good: tasks are not created twice.
Met(d) == state[d] = "COMPLETED" \/ (state[d] = "ABSENT" /\ lastEvent[d].type = "completed")

DepInv(t) ==
  /\ state[t] = "COMPLETED" => lastEvent[t].type = "completed"
  /\ state[t] \in Held \cup Terminal \/ pc[t] # "none" => \A d \in Deps[t] : Met(d)

\* There is one drain at a time, and it starts with no goroutine left.
OneDrain == reconciling => \A t \in Tasks : pc[t] = "none"

SchedInv ==
  /\ FencingInv /\ LocalTypeOK /\ PopulationTypeOK
  /\ \A t \in Tasks : WorkInv(t) /\ DepInv(t)
  /\ BindingHasExecutor /\ OneDrain

-----------------------------------------------------------------------------
(* The start, and which steps there are.                                   *)

LEMMA SchedStarts == SchedInit => SchedInv
<1>. SUFFICES ASSUME SchedInit PROVE SchedInv
  OBVIOUS
<1>. USE DEF SchedInit
<1>1. FencingInv
  BY InitFencing
<1>2. LocalTypeOK
  BY BoundAssumption DEF LocalTypeOK, PC, Init
<1>3. PopulationTypeOK
  BY SchedulerAssumption DEF PopulationTypeOK
<1>4. \A t \in Tasks : WorkInv(t) /\ DepInv(t)
  BY DEF Init, WorkInv, CheckpointInv, RetryInv, GoroutineInv, DepInv, Held, Terminal
<1>5. BindingHasExecutor /\ OneDrain
  BY DEF BindingHasExecutor, OneDrain
<1>. QED  BY <1>1, <1>2, <1>3, <1>4, <1>5 DEF SchedInv

\* Steps that touch neither a task nor the goroutine of one.
Aside ==
  \/ \E t \in Tasks : AskCapable(t)
  \/ \E a \in Agents : Spawn(a) \/ RegisterExecutor(a) \/ Kill(a) \/ Rescue(a)
  \/ Watch \/ Reconcile

LEMMA SchedSteps ==
  ASSUME SchedNext
  PROVE  \/ Aside \/ Sweep \/ Clock \/ Drain
         \/ \E r \in victims : PreemptVictim(r)
         \/ \E t \in Tasks :
              \/ Submit(t) \/ Cleanup(t) \/ Heartbeat(t) \/ Build(t) \/ Schedule(t)
              \/ Lookup(t) \/ Gate(t) \/ StartQuantum(t) \/ Step(t) \/ Panic(t)
              \/ Boundary(t) \/ End(t)
  BY DEF SchedNext, Aside, Goroutine

-----------------------------------------------------------------------------
(* The scheduler moves the fabric by its operations only.                  *)

\* An operation under a token is one a caller of the fabric may make.
LEMMA TokenMoves ==
  ASSUME NEW t, NEW a, NEW e, Presented(t, a, e), TokenStep(t, a, e)
  PROVE  Next
<1>1. DEFINE g == [task |-> t, agent |-> a, epoch |-> e]
<1>2. g \in granted /\ g.task = t /\ g.agent = a /\ g.epoch = e
  BY DEF Presented
<1>. QED  BY <1>2 DEF Next

LEMMA EnvelopesAreCheckpoints ==
  ASSUME NEW t \in Tasks, NEW c
  PROVE  /\ Enveloped(t, c) => c \in Checkpoints
         /\ Unfinished(t, c) => Enveloped(t, c)
         /\ Envelope(t, Quanta[t]) \in Checkpoints
  BY SchedulerAssumption DEF Enveloped, Unfinished, Envelope

\* What the boundary writes is an envelope of its task.
LEMMA WrapIsCheckpoint ==
  ASSUME SchedInv, NEW t \in Tasks, pc[t] = "stepped", outcome[t] \in {"yield", "done"}
  PROVE  Wrap(t) \in Checkpoints
  BY EnvelopesAreCheckpoints DEF SchedInv, WorkInv, GoroutineInv

LEMMA GiveBackMoves ==
  ASSUME NEW t \in Tasks, GiveBack(t)
  PROVE  [Next]_vars
<1>1. CASE Release(t, winner[t], token[t])
  BY <1>1, TokenMoves DEF Release, Return, TokenStep
<1>. QED  BY <1>1 DEF GiveBack

LEMMA FabricMoves ==
  ASSUME SchedInv, [SchedNext]_schedVars
  PROVE  [Next]_vars
<1>1. CASE Aside
  BY <1>1 DEF Aside, AskCapable, Spawn, RegisterExecutor, Kill, Rescue, Watch, Reconcile
<1>2. CASE Sweep
  BY <1>2 DEF Sweep, Next
<1>3. CASE Clock
  BY <1>3 DEF Clock, Next
<1>4. CASE Drain
  BY <1>4 DEF Drain
<1>5. ASSUME NEW r \in victims, PreemptVictim(r)
      PROVE  [Next]_vars
  <2>1. CASE Preempt(r.task, r.agent, r.epoch)
    BY <2>1, TokenMoves DEF Preempt, Return, TokenStep
  <2>. QED  BY <1>5, <2>1 DEF PreemptVictim
<1>6. ASSUME NEW t \in Tasks, Submit(t)
      PROVE  [Next]_vars
  <2>1. Envelope(t, 0) \in Checkpoints
    BY SchedulerAssumption DEF Envelope
  <2>. QED  BY <1>6, <2>1 DEF Submit, Next
<1>7. ASSUME NEW t \in Tasks, Cleanup(t)
      PROVE  [Next]_vars
  BY <1>7 DEF Cleanup, Next
<1>8. ASSUME NEW t \in Tasks, Heartbeat(t)
      PROVE  [Next]_vars
  BY <1>8, TokenMoves DEF Heartbeat, Renew, TokenStep
<1>9. ASSUME NEW t \in Tasks, Build(t) \/ Step(t) \/ Panic(t) \/ End(t)
      PROVE  [Next]_vars
  BY <1>9 DEF Build, Step, Panic, End
<1>10. ASSUME NEW t \in Tasks, Schedule(t)
       PROVE  [Next]_vars
  <2>1. ASSUME NEW a \in cands[t], Acquire(t, a)
        PROVE  Next
    BY <2>1 DEF SchedInv, LocalTypeOK, Next
  <2>. QED  BY <1>10, <2>1 DEF Schedule
<1>11. ASSUME NEW t \in Tasks, Lookup(t) \/ Gate(t)
       PROVE  [Next]_vars
  BY <1>11, GiveBackMoves DEF Lookup, Gate
<1>12. ASSUME NEW t \in Tasks, StartQuantum(t)
       PROVE  [Next]_vars
  BY <1>12, TokenMoves DEF StartQuantum, Start, TokenStep
<1>13. ASSUME NEW t \in Tasks, Boundary(t)
       PROVE  [Next]_vars
  <2>1. CASE /\ outcome[t] = "done"
             /\ CompleteWithCheckpoint(t, winner[t], token[t], Wrap(t))
    BY <1>13, <2>1, TokenMoves, WrapIsCheckpoint
       DEF Boundary, CompleteWithCheckpoint, TokenStep
  <2>2. CASE outcome[t] = "yield" /\ Yield(t, winner[t], token[t], Wrap(t))
    BY <1>13, <2>2, TokenMoves, WrapIsCheckpoint DEF Boundary, Yield, TokenStep
  <2>3. CASE Fail(t, winner[t], token[t])
    BY <2>3, TokenMoves DEF Fail, TokenStep
  <2>. QED  BY <1>13, <2>1, <2>2, <2>3 DEF Boundary
<1>14. CASE UNCHANGED schedVars
  BY <1>14 DEF schedVars
<1>. QED
  BY <1>1, <1>2, <1>3, <1>4, <1>5, <1>6, <1>7, <1>8, <1>9, <1>10, <1>11, <1>12,
     <1>13, <1>14, SchedSteps

-----------------------------------------------------------------------------
(* Types.                                                                  *)

LEMMA EpochBounded ==
  ASSUME TypeOK, epoch <= MaxEpoch, [Next]_vars
  PROVE  epoch' <= MaxEpoch
<1>1. ASSUME NEW t \in Tasks, NEW a \in Agents, Acquire(t, a)
      PROVE  epoch' <= MaxEpoch
  BY <1>1, BoundAssumption DEF Acquire, TypeOK
<1>2. CASE epoch' = epoch
  BY <1>2
<1>. QED
  BY <1>1, <1>2, Steps
     DEF vars, Create, Start, Yield, Complete, CompleteWithCheckpoint, Fail, Renew,
         Return, CheckExpiredLeases, Delete, Tick

\* The locals of the goroutines alone, without the fabric's epoch.
GoroutineTypeOK ==
  /\ pc \in [Tasks -> PC]
  /\ winner \in [Tasks -> Agents \cup {Nil}]
  /\ token \in [Tasks -> 0 .. MaxEpoch]
  /\ cands \in [Tasks -> SUBSET Agents]
  /\ snap \in [Tasks -> Checkpoints \cup {Blank}]
  /\ outcome \in [Tasks -> {"none", "error", "yield", "done"}]
  /\ beating \in [Tasks -> BOOLEAN]

LEMMA ExitType ==
  ASSUME GoroutineTypeOK, NEW t \in Tasks, Exit(t)
  PROVE  GoroutineTypeOK'
  BY BoundAssumption DEF GoroutineTypeOK, Exit, PC

LEMMA LocalType ==
  ASSUME GoroutineTypeOK, NEW t \in Tasks, NEW place \in PC, Local(t, place)
  PROVE  GoroutineTypeOK'
  BY DEF GoroutineTypeOK, Local, Goto

LEMMA LocalStep ==
  ASSUME SchedInv, [SchedNext]_schedVars
  PROVE  LocalTypeOK'
<1>0. GoroutineTypeOK /\ epoch' <= MaxEpoch
  BY FabricMoves, EpochBounded DEF SchedInv, LocalTypeOK, GoroutineTypeOK, FencingInv
<1>. SUFFICES GoroutineTypeOK'
  BY <1>0 DEF LocalTypeOK, GoroutineTypeOK
<1>u. UNCHANGED goroutine => GoroutineTypeOK'
  BY <1>0 DEF goroutine, GoroutineTypeOK
<1>1. CASE Aside \/ Sweep \/ Clock \/ \E r \in victims : PreemptVictim(r)
  BY <1>1, <1>u DEF Aside, AskCapable, Spawn, RegisterExecutor, Kill, Rescue, Watch,
                    Reconcile, Sweep, Clock, PreemptVictim
<1>2. CASE Drain
  BY <1>2, <1>0 DEF Drain, GoroutineTypeOK, PC
<1>3. ASSUME NEW t \in Tasks, Submit(t) \/ Cleanup(t)
      PROVE  GoroutineTypeOK'
  BY <1>3, <1>u DEF Submit, Cleanup
<1>4. ASSUME NEW t \in Tasks, Heartbeat(t)
      PROVE  GoroutineTypeOK'
  BY <1>4, <1>0 DEF Heartbeat, GoroutineTypeOK
<1>5. ASSUME NEW t \in Tasks, Build(t)
      PROVE  GoroutineTypeOK'
  <2>1. ASSUME NEW C \in SUBSET Agents, state[t] # "ABSENT", pc[t] = "queued",
               cands' = [cands EXCEPT ![t] = C],
               snap' = [snap EXCEPT ![t] = checkpoint[t]], Goto(t, "built"),
               UNCHANGED <<winner, token, outcome, beating>>
        PROVE  GoroutineTypeOK'
    <3>1. checkpoint[t] \in Checkpoints
      BY <2>1, EnvelopesAreCheckpoints
         DEF SchedInv, WorkInv, GoroutineInv, CheckpointInv, Held
    <3>. QED  BY <2>1, <3>1, <1>0 DEF GoroutineTypeOK, Goto, PC
  <2>2. {a \in Offered(t) : load[a] = 0 /\ Suits(t, a)} \in SUBSET Agents
    BY DEF Offered, Pool, SchedInv, PopulationTypeOK
  <2>. QED  BY <1>5, <1>0, <2>1, <2>2, ExitType DEF Build
<1>6. ASSUME NEW t \in Tasks, Schedule(t)
      PROVE  GoroutineTypeOK'
  <2>1. ASSUME NEW a \in cands[t], Acquire(t, a), winner' = [winner EXCEPT ![t] = a],
               token' = [token EXCEPT ![t] = epoch + 1], Goto(t, "won"),
               UNCHANGED <<cands, snap, outcome, beating>>
        PROVE  GoroutineTypeOK'
    <3>1. epoch + 1 \in 0 .. MaxEpoch
      BY <2>1, BoundAssumption DEF Acquire, SchedInv, FencingInv, TypeOK
    <3>2. a \in Agents
      BY <1>0 DEF GoroutineTypeOK
    <3>. QED  BY <2>1, <3>1, <3>2, <1>0 DEF GoroutineTypeOK, Goto, PC
  <2>. QED  BY <1>6, <1>0, <2>1, ExitType DEF Schedule
<1>7. ASSUME NEW t \in Tasks, Lookup(t)
      PROVE  GoroutineTypeOK'
  BY <1>7, <1>0, ExitType, LocalType DEF Lookup, PC
<1>8. ASSUME NEW t \in Tasks, Gate(t)
      PROVE  GoroutineTypeOK'
  <2>1. CASE /\ beating' = [beating EXCEPT ![t] = TRUE] /\ Goto(t, "begun")
             /\ UNCHANGED <<winner, token, cands, snap, outcome>>
    BY <2>1, <1>0 DEF GoroutineTypeOK, Goto, PC, Busy
  <2>. QED  BY <1>8, <1>0, <2>1, ExitType DEF Gate
<1>9. ASSUME NEW t \in Tasks, StartQuantum(t) \/ Boundary(t)
      PROVE  GoroutineTypeOK'
  <2>1. Local(t, "running") \/ Local(t, "ended")
    BY <1>9 DEF StartQuantum, Boundary
  <2>. QED  BY <2>1, <1>0, LocalType DEF PC, Busy
<1>10. ASSUME NEW t \in Tasks, Step(t)
       PROVE  GoroutineTypeOK'
  <2>1. PICK o \in {"error", "yield", "done"} : outcome' = [outcome EXCEPT ![t] = o]
    BY <1>10 DEF Step
  <2>. QED  BY <1>10, <2>1, <1>0 DEF Step, GoroutineTypeOK, Goto, PC, Busy
<1>11. ASSUME NEW t \in Tasks, Panic(t) \/ End(t)
       PROVE  GoroutineTypeOK'
  BY <1>11, <1>0, ExitType DEF Panic, End
<1>12. CASE UNCHANGED schedVars
  BY <1>12, <1>u DEF schedVars, goroutine
<1>. QED
  BY <1>1, <1>2, <1>3, <1>4, <1>5, <1>6, <1>7, <1>8, <1>9, <1>10, <1>11, <1>12,
     SchedSteps

\* A task that is running belongs to an agent.
LEMMA RunningAreTokens ==
  ASSUME FencingInv
  PROVE  RunningTasks \subseteq Token
  BY DEF FencingInv, OwnerMatchesLease, TypeOK, RunningTasks, Token, Held

LEMMA PopulationStep ==
  ASSUME SchedInv, [SchedNext]_schedVars
  PROVE  PopulationTypeOK' /\ BindingHasExecutor'
<1>0. /\ PopulationTypeOK /\ BindingHasExecutor /\ FencingInv
      /\ GoroutineTypeOK
  BY DEF SchedInv, LocalTypeOK, GoroutineTypeOK
<1>u. UNCHANGED <<load, population, loops>> => PopulationTypeOK' /\ BindingHasExecutor'
  BY <1>0 DEF population, loops, recovery, drain, PopulationTypeOK, BindingHasExecutor
<1>l. ASSUME NEW a, load' = [load EXCEPT ![a] = @ + 1]
             \/ load' = [load EXCEPT ![a] = IF @ > 0 THEN @ - 1 ELSE 0]
      PROVE  load' \in [Agents -> Nat]
  <2>1. \A n \in Nat : n + 1 \in Nat /\ (IF n > 0 THEN n - 1 ELSE 0) \in Nat
    OBVIOUS
  <2>. QED  BY <1>l, <1>0, <2>1 DEF PopulationTypeOK
<1>1. CASE Aside
  <2>1. ASSUME NEW t \in Tasks, AskCapable(t)
        PROVE  PopulationTypeOK' /\ BindingHasExecutor'
    BY <2>1, <1>0 DEF AskCapable, population, drain, PopulationTypeOK, BindingHasExecutor
  <2>2. ASSUME NEW a \in Agents, Spawn(a) \/ RegisterExecutor(a) \/ Kill(a)
        PROVE  PopulationTypeOK' /\ BindingHasExecutor'
    BY <2>2, <1>0 DEF Spawn, RegisterExecutor, Kill, loops, drain, recovery,
                      PopulationTypeOK, BindingHasExecutor
  <2>3. ASSUME NEW a \in Agents, Rescue(a)
        PROVE  PopulationTypeOK' /\ BindingHasExecutor'
    BY <2>3, <1>0 DEF Rescue, RegisterExecutorForTask, drain, PopulationTypeOK,
                      BindingHasExecutor
  <2>4. CASE Watch
    <3>1. Outranked(registered) \subseteq Token
      BY <1>0, RunningAreTokens DEF Outranked
    <3>. QED  BY <2>4, <3>1, <1>0 DEF Watch, population, recovery, drain,
                                      PopulationTypeOK, BindingHasExecutor
  <2>5. CASE Reconcile
    BY <2>5, <1>0 DEF Reconcile, Zombies, population, recovery, PopulationTypeOK,
                      BindingHasExecutor
  <2>. QED  BY <1>1, <2>1, <2>2, <2>3, <2>4, <2>5 DEF Aside
<1>2. CASE Sweep
  BY <1>2, <1>0 DEF Sweep, Sweepable, population, drain, PopulationTypeOK, BindingHasExecutor
<1>3. CASE Clock
  BY <1>3, <1>u DEF Clock
<1>4. CASE Drain
  <2>1. Outranked(registered \ doomed) \subseteq Token
    BY <1>0, RunningAreTokens DEF Outranked
  <2>. QED  BY <1>4, <2>1, <1>0 DEF Drain, UnregisterExecutor, recovery, PopulationTypeOK,
                                    BindingHasExecutor
<1>5. ASSUME NEW r \in victims, PreemptVictim(r)
      PROVE  PopulationTypeOK' /\ BindingHasExecutor'
  BY <1>5, <1>0 DEF PreemptVictim, population, recovery, drain, PopulationTypeOK,
                    BindingHasExecutor
<1>6. ASSUME NEW t \in Tasks,
             \/ Submit(t) \/ Cleanup(t) \/ Heartbeat(t) \/ Build(t) \/ Schedule(t)
             \/ Lookup(t) \/ StartQuantum(t) \/ Step(t) \/ Boundary(t)
      PROVE  PopulationTypeOK' /\ BindingHasExecutor'
  BY <1>6, <1>u DEF Submit, Cleanup, Heartbeat, Build, Schedule, Lookup, StartQuantum,
                    Step, Boundary
<1>7. ASSUME NEW t \in Tasks, Gate(t) \/ Panic(t)
      PROVE  PopulationTypeOK' /\ BindingHasExecutor'
  <2>1. load' \in [Agents -> Nat]
    BY <1>7, <1>l, <1>0 DEF Gate, Panic, PopulationTypeOK
  <2>2. UNCHANGED <<population, loops>>
    BY <1>7 DEF Gate, Panic
  <2>. QED  BY <2>1, <2>2, <1>0 DEF population, loops, recovery, drain, PopulationTypeOK,
                                    BindingHasExecutor
<1>8. ASSUME NEW t \in Tasks, End(t)
      PROVE  PopulationTypeOK' /\ BindingHasExecutor'
  <2>1. load' \in [Agents -> Nat]
    BY <1>8, <1>l DEF End
  <2>2. PICK S : UnregisterExecutor(S)
    BY <1>8 DEF End, unbindRecoveryExecutorAfterTerminal
  <2>3. UNCHANGED <<live, loops>>
    BY <1>8 DEF End
  <2>. QED  BY <2>1, <2>2, <2>3, <1>0 DEF UnregisterExecutor, loops, recovery, drain,
                                          PopulationTypeOK, BindingHasExecutor
<1>9. CASE UNCHANGED schedVars
  BY <1>9, <1>u DEF schedVars
<1>. QED
  BY <1>1, <1>2, <1>3, <1>4, <1>5, <1>6, <1>7, <1>8, <1>9, SchedSteps

-----------------------------------------------------------------------------
(* Work: what a task's checkpoint and its goroutine's snapshot are worth.   *)

FabricPart(t) == CheckpointInv(t) /\ RetryInv(t)

SameTask(u) ==
  /\ state'[u] = state[u] /\ checkpoint'[u] = checkpoint[u]
  /\ attempts'[u] = attempts[u] /\ owner'[u] = owner[u]

SameGoroutine(u) == pc'[u] = pc[u] /\ snap'[u] = snap[u] /\ outcome'[u] = outcome[u]

\* A held task that goes back to READY as it is.
Requeued(u) ==
  /\ state[u] \in Held /\ state'[u] = "READY" /\ owner'[u] = Nil
  /\ checkpoint'[u] = checkpoint[u] /\ attempts'[u] = attempts[u]

LEMMA SameKeepsWork ==
  ASSUME NEW u \in Tasks, WorkInv(u), SameTask(u)
  PROVE  FabricPart(u)' /\ (SameGoroutine(u) => WorkInv(u)')
  BY DEF WorkInv, FabricPart, CheckpointInv, RetryInv, GoroutineInv, SameTask,
         SameGoroutine, Wrap

LEMMA RequeueKeepsWork ==
  ASSUME NEW u \in Tasks, WorkInv(u), Requeued(u)
  PROVE  FabricPart(u)' /\ (SameGoroutine(u) => WorkInv(u)')
  BY DEF WorkInv, FabricPart, CheckpointInv, RetryInv, GoroutineInv, Requeued,
         SameGoroutine, Wrap, Held

\* A goroutine that is gone has nothing to be right about.
LEMMA GoneIsFine ==
  ASSUME NEW u \in Tasks, pc'[u] \in {"none", "ended"}
  PROVE  GoroutineInv(u)'
  BY DEF GoroutineInv

\* One that waits or holds nothing but its snapshot.
LEMMA SnapshotIsFine ==
  ASSUME NEW u \in Tasks, pc'[u] \in {"built", "won", "found", "begun"},
         Unfinished(u, snap'[u])
  PROVE  GoroutineInv(u)'
  BY DEF GoroutineInv

\* Return, which Release and Preempt share, requeues its task.
LEMMA ReturnRequeues ==
  ASSUME TypeOK, NEW t \in Tasks, NEW a, NEW e, NEW type, Return(t, a, e, type)
  PROVE  Requeued(t) /\ \A u \in Tasks \ {t} : SameTask(u)
  BY DEF Return, transition, canTransition, Legal, disown, TypeOK, Requeued, SameTask, Held

LEMMA GiveBackWork ==
  ASSUME TypeOK, NEW t \in Tasks, GiveBack(t)
  PROVE  (SameTask(t) \/ Requeued(t)) /\ \A u \in Tasks \ {t} : SameTask(u)
<1>1. CASE Release(t, winner[t], token[t])
  BY <1>1, ReturnRequeues DEF Release
<1>2. CASE UNCHANGED vars
  BY <1>2 DEF vars, SameTask
<1>. QED  BY <1>1, <1>2 DEF GiveBack

LEMMA ExitGoroutines ==
  ASSUME GoroutineTypeOK, NEW t \in Tasks, Exit(t)
  PROVE  pc'[t] = "none" /\ \A u \in Tasks \ {t} : SameGoroutine(u)
  BY DEF GoroutineTypeOK, Exit, SameGoroutine

LEMMA LocalGoroutines ==
  ASSUME GoroutineTypeOK, NEW t \in Tasks, NEW place, Local(t, place)
  PROVE  /\ pc'[t] = place /\ snap' = snap /\ outcome' = outcome
         /\ \A u \in Tasks \ {t} : SameGoroutine(u)
  BY DEF GoroutineTypeOK, Local, Goto, SameGoroutine

\* The boundary, by what the quantum came to.
LEMMA BoundaryWork ==
  ASSUME SchedInv, NEW t \in Tasks, Boundary(t)
  PROVE  FabricPart(t)' /\ \A u \in Tasks \ {t} : SameTask(u)
<1>0. TypeOK /\ WorkInv(t) /\ pc[t] = "stepped" /\ GoroutineTypeOK
  BY DEF Boundary, SchedInv, FencingInv, LocalTypeOK, GoroutineTypeOK
<1>1. Owns(t) => state[t] = "RUNNING"
  BY <1>0 DEF Owns, ownerLocked, WorkInv, GoroutineInv
<1>2. CASE /\ outcome[t] = "done"
           /\ CompleteWithCheckpoint(t, winner[t], token[t], Wrap(t))
  <2>1. state[t] = "RUNNING" /\ canTransition(state[t], "COMPLETED")
    BY <1>1, <1>2 DEF CompleteWithCheckpoint, Owns, canTransition, Legal
  <2>2. /\ state' = [state EXCEPT ![t] = "COMPLETED"]
        /\ checkpoint' = [checkpoint EXCEPT ![t] = Wrap(t)]
        /\ attempts' = attempts /\ owner' = owner
    BY <1>2, <2>1 DEF CompleteWithCheckpoint, transition
  <2>3. Wrap(t) = Envelope(t, Quanta[t])
    BY <1>0, <1>2 DEF WorkInv, GoroutineInv
  <2>. QED  BY <1>0, <2>2, <2>3 DEF FabricPart, CheckpointInv, RetryInv, SameTask, TypeOK, Held
<1>3. CASE outcome[t] = "yield" /\ Yield(t, winner[t], token[t], Wrap(t))
  <2>1. /\ state[t] = "RUNNING" /\ state' = [state EXCEPT ![t] = "SUSPENDED"]
        /\ checkpoint' = [checkpoint EXCEPT ![t] = Wrap(t)]
        /\ attempts' = attempts /\ owner' = owner
    BY <1>1, <1>3 DEF Yield, Owns, transition
  <2>2. Unfinished(t, Wrap(t))
    BY <1>0, <1>3 DEF WorkInv, GoroutineInv
  <2>. QED  BY <1>0, <2>1, <2>2 DEF FabricPart, CheckpointInv, RetryInv, SameTask, TypeOK, Held,
                                    WorkInv
<1>4. CASE outcome[t] = "error" /\ Fail(t, winner[t], token[t])
  <2>0. /\ state[t] = "RUNNING" /\ checkpoint' = checkpoint
        /\ attempts' = [attempts EXCEPT ![t] = attempts[t] + 1]
    BY <1>1, <1>4 DEF Fail, Owns
  <2>n. /\ attempts[t] \in Nat /\ MaxRetries[t] \in Int /\ attempts'[t] = attempts[t] + 1
        /\ MaxRetries[t] > 0 => attempts[t] < MaxRetries[t]
    BY <1>0, <2>0, PolicyAssumption DEF TypeOK, WorkInv, RetryInv, Held
  <2>1. CASE CanRetry(t, attempts[t] + 1) /\ transition(t, "READY") /\ disown({t})
    BY <1>0, <2>0, <2>n, <2>1
       DEF FabricPart, CheckpointInv, RetryInv, SameTask, TypeOK, Held, WorkInv, CanRetry,
           transition, disown
  <2>2. CASE ~CanRetry(t, attempts[t] + 1) /\ transition(t, "FAILED") /\ UNCHANGED owner
    <3>1. Enveloped(t, checkpoint[t])
      BY <1>0, <2>0, EnvelopesAreCheckpoints DEF WorkInv, CheckpointInv, Held
    <3>2. MaxRetries[t] > 0 /\ attempts'[t] = MaxRetries[t]
      BY <2>2, <2>n DEF CanRetry
    <3>3. state' = [state EXCEPT ![t] = "FAILED"]
      BY <2>2 DEF transition
    <3>. QED  BY <1>0, <2>0, <2>2, <3>1, <3>2, <3>3
                 DEF FabricPart, CheckpointInv, RetryInv, SameTask, TypeOK, Held
  <2>3. canTransition(state[t], "READY") /\ canTransition(state[t], "FAILED")
    BY <2>0 DEF canTransition, Legal
  <2>. QED  BY <1>4, <2>1, <2>2, <2>3 DEF Fail
<1>5. CASE ~Owns(t) /\ UNCHANGED vars
  BY <1>0, <1>5, SameKeepsWork DEF vars, SameTask
<1>. QED  BY <1>2, <1>3, <1>4, <1>5 DEF Boundary

LEMMA WorkKept ==
  ASSUME SchedInv, [SchedNext]_schedVars, NEW u \in Tasks
  PROVE  WorkInv(u)'
<1>0. TypeOK /\ GoroutineTypeOK /\ WorkInv(u)
  BY DEF SchedInv, FencingInv, LocalTypeOK, GoroutineTypeOK
<1>t. FabricPart(u)' /\ GoroutineInv(u)' => WorkInv(u)'
  BY DEF FabricPart, WorkInv
<1>s. SameTask(u) \/ Requeued(u) => FabricPart(u)'
  BY <1>0, SameKeepsWork, RequeueKeepsWork
<1>k. (SameTask(u) \/ Requeued(u)) /\ SameGoroutine(u) => WorkInv(u)'
  BY <1>0, SameKeepsWork, RequeueKeepsWork
<1>v. UNCHANGED vars => SameTask(u)
  BY DEF vars, SameTask
<1>g. UNCHANGED goroutine => SameGoroutine(u)
  BY DEF goroutine, SameGoroutine
<1>1. CASE Aside \/ UNCHANGED schedVars
  BY <1>1, <1>k, <1>v, <1>g
     DEF Aside, AskCapable, Spawn, RegisterExecutor, Kill, Rescue, Watch, Reconcile, schedVars
<1>2. CASE Clock
  BY <1>2, <1>k, <1>g DEF Clock, Tick, SameTask
<1>3. CASE Sweep
  <2>1. SameTask(u) \/ Requeued(u)
    BY <1>3, <1>0 DEF Sweep, CheckExpiredLeases, disown, Sweepable, SameTask, Requeued
  <2>. QED  BY <1>3, <2>1, <1>k, <1>g DEF Sweep
<1>4. CASE Drain
  <2>1. SameTask(u) /\ snap' = snap /\ outcome' = outcome
    BY <1>4, <1>v DEF Drain
  <2>2. CASE u \in ResumableTasks
    <3>1. pc'[u] = "queued" /\ state'[u] \in {"READY", "SUSPENDED"}
      BY <1>4, <2>1, <2>2 DEF Drain, ResumableTasks, ReadyTasks, IsReady, SameTask
    <3>. QED  BY <3>1, <2>1, <1>s, <1>t DEF GoroutineInv
  <2>3. CASE u \notin ResumableTasks
    BY <1>4, <2>1, <2>3, <1>k DEF Drain, SameGoroutine
  <2>. QED  BY <2>2, <2>3
<1>5. ASSUME NEW r \in victims, PreemptVictim(r)
      PROVE  WorkInv(u)'
  <2>1. r.task \in Tasks
    BY DEF SchedInv, PopulationTypeOK, Token
  <2>2. SameTask(u) \/ Requeued(u)
    <3>1. CASE Preempt(r.task, r.agent, r.epoch)
      BY <3>1, <2>1, <1>0, ReturnRequeues DEF Preempt
    <3>. QED  BY <1>5, <3>1, <1>v DEF PreemptVictim
  <2>. QED  BY <1>5, <2>2, <1>k, <1>g DEF PreemptVictim
<1>6. ASSUME NEW t \in Tasks, Submit(t)
      PROVE  WorkInv(u)'
  <2>1. CASE u = t
    <3>1. /\ state[t] = "ABSENT" /\ state'[t] = "READY" /\ owner'[t] = Nil
          /\ checkpoint'[t] = Envelope(t, 0) /\ attempts'[t] = 0
      BY <1>6, <1>0 DEF Submit, Create, disown, TypeOK
    <3>2. Unfinished(t, Envelope(t, 0))
      BY SchedulerAssumption DEF Unfinished
    <3>3. FabricPart(t)'
      BY <3>1, <3>2, PolicyAssumption DEF FabricPart, CheckpointInv, RetryInv, Held
    <3>4. GoroutineInv(t)'
      BY <1>6, <1>0, <1>g, <2>1, <3>1 DEF Submit, SameGoroutine, WorkInv, GoroutineInv, Wrap
    <3>. QED  BY <2>1, <3>3, <3>4, <1>t
  <2>2. CASE u # t
    BY <1>6, <2>2, <1>0, <1>k, <1>g DEF Submit, Create, disown, TypeOK, SameTask
  <2>. QED  BY <2>1, <2>2
<1>7. ASSUME NEW t \in Tasks, Cleanup(t)
      PROVE  WorkInv(u)'
  <2>1. CASE u = t
    <3>1. state'[t] = "ABSENT" /\ owner'[t] = Nil
      BY <1>7, <1>0 DEF Cleanup, Delete, disown, TypeOK
    <3>2. FabricPart(t)'
      BY <3>1 DEF FabricPart, CheckpointInv, RetryInv, Held
    <3>3. GoroutineInv(t)'
      BY <1>7, <1>0, <1>g, <2>1, <3>1 DEF Cleanup, SameGoroutine, WorkInv, GoroutineInv, Wrap
    <3>. QED  BY <2>1, <3>2, <3>3, <1>t
  <2>2. CASE u # t
    BY <1>7, <2>2, <1>0, <1>k, <1>g DEF Cleanup, Delete, disown, TypeOK, SameTask
  <2>. QED  BY <2>1, <2>2
<1>8. ASSUME NEW t \in Tasks, Heartbeat(t)
      PROVE  WorkInv(u)'
  BY <1>8, <1>k, <1>v DEF Heartbeat, Renew, SameTask, SameGoroutine
<1>9. ASSUME NEW t \in Tasks, Build(t)
      PROVE  WorkInv(u)'
  <2>1. SameTask(u)
    BY <1>9, <1>v DEF Build
  <2>2. CASE u # t
    BY <1>9, <2>1, <2>2, <1>0, <1>k, ExitGoroutines
       DEF Build, Goto, SameGoroutine, GoroutineTypeOK
  <2>3. CASE u = t /\ Exit(t)
    BY <2>1, <2>3, <1>0, <1>s, <1>t, ExitGoroutines, GoneIsFine
  <2>4. CASE /\ u = t /\ state[t] # "ABSENT" /\ Goto(t, "built")
             /\ snap' = [snap EXCEPT ![t] = checkpoint[t]]
    <3>1. pc[t] = "queued"
      BY <1>9 DEF Build
    <3>2. Unfinished(t, checkpoint[t])
      BY <3>1, <2>4, <1>0 DEF WorkInv, GoroutineInv, CheckpointInv, Held
    <3>3. pc'[t] = "built" /\ snap'[t] = checkpoint[t]
      BY <2>4, <1>0 DEF Goto, GoroutineTypeOK
    <3>. QED  BY <2>1, <2>4, <3>2, <3>3, <1>s, <1>t, SnapshotIsFine
  <2>. QED  BY <1>9, <2>2, <2>3, <2>4 DEF Build
<1>10. ASSUME NEW t \in Tasks, Schedule(t)
       PROVE  WorkInv(u)'
  <2>1. CASE Exit(t) /\ UNCHANGED vars
    <3>1. CASE u = t
      BY <2>1, <3>1, <1>0, <1>v, <1>s, <1>t, ExitGoroutines, GoneIsFine
    <3>2. CASE u # t
      BY <2>1, <3>2, <1>0, <1>v, <1>k, ExitGoroutines
    <3>. QED  BY <3>1, <3>2
  <2>2. ASSUME NEW a \in cands[t], Acquire(t, a), Goto(t, "won"),
               UNCHANGED <<cands, snap, outcome, beating>>
        PROVE  WorkInv(u)'
    <3>1. /\ state[t] \in {"READY", "SUSPENDED"} /\ state' = [state EXCEPT ![t] = "LEASED"]
          /\ owner' = [owner EXCEPT ![t] = a] /\ UNCHANGED <<checkpoint, attempts>>
      BY <2>2 DEF Acquire, transition
    <3>2. CASE u = t
      <4>1. FabricPart(t)'
        BY <3>1, <3>2, <1>0 DEF FabricPart, WorkInv, CheckpointInv, RetryInv, TypeOK, Held
      <4>2. pc[t] = "built" /\ pc'[t] = "won" /\ snap'[t] = snap[t]
        BY <1>10, <2>2, <1>0 DEF Schedule, Goto, GoroutineTypeOK
      <4>3. Unfinished(t, snap'[t])
        BY <4>2, <3>2, <1>0 DEF WorkInv, GoroutineInv
      <4>. QED  BY <3>2, <4>1, <4>2, <4>3, <1>t, SnapshotIsFine
    <3>3. CASE u # t
      BY <2>2, <3>1, <3>3, <1>0, <1>k DEF SameTask, SameGoroutine, Goto, TypeOK, GoroutineTypeOK
    <3>. QED  BY <3>2, <3>3
  <2>. QED  BY <1>10, <2>1, <2>2 DEF Schedule
<1>11. ASSUME NEW t \in Tasks, Lookup(t) \/ Gate(t)
       PROVE  WorkInv(u)'
  <2>1. CASE Exit(t)
    <3>1. GiveBack(t) \/ UNCHANGED vars
      <4>1. CASE Lookup(t)
        BY <4>1, <1>11 DEF Lookup
      <4>2. CASE Gate(t)
        BY <4>2, <1>11 DEF Gate
      <4>. QED  BY <1>11, <4>1, <4>2
    <3>2. SameTask(u) \/ Requeued(u)
      BY <3>1, <1>0, <1>v, GiveBackWork
    <3>3. CASE u = t
      BY <2>1, <3>2, <3>3, <1>0, <1>s, <1>t, ExitGoroutines, GoneIsFine
    <3>4. CASE u # t
      BY <2>1, <3>2, <3>4, <1>0, <1>k, ExitGoroutines
    <3>. QED  BY <3>3, <3>4
  <2>2. ASSUME NEW place \in {"found", "begun"}, Goto(t, place), snap' = snap,
               outcome' = outcome, UNCHANGED vars, pc[t] \in {"won", "found"}
        PROVE  WorkInv(u)'
    <3>1. CASE u = t
      <4>1. pc'[t] = place /\ Unfinished(t, snap'[t])
        BY <2>2, <3>1, <1>0 DEF Goto, GoroutineTypeOK, WorkInv, GoroutineInv
      <4>. QED  BY <2>2, <3>1, <4>1, <1>v, <1>s, <1>t, SnapshotIsFine
    <3>2. CASE u # t
      BY <2>2, <3>2, <1>0, <1>v, <1>k DEF Goto, GoroutineTypeOK, SameGoroutine
    <3>. QED  BY <3>1, <3>2
  <2>. QED  BY <1>11, <2>1, <2>2 DEF Lookup, Gate, Local
<1>12. ASSUME NEW t \in Tasks, StartQuantum(t)
       PROVE  WorkInv(u)'
  <2>1. CASE Local(t, "ended") /\ UNCHANGED vars
    <3>1. CASE u = t
      BY <2>1, <3>1, <1>0, <1>v, <1>s, <1>t, LocalGoroutines, GoneIsFine
    <3>2. CASE u # t
      BY <2>1, <3>2, <1>0, <1>v, <1>k, LocalGoroutines
    <3>. QED  BY <3>1, <3>2
  <2>2. CASE Start(t, winner[t], token[t]) /\ Local(t, "running")
    <3>1. /\ state[t] \in Held /\ state' = [state EXCEPT ![t] = "RUNNING"]
          /\ UNCHANGED <<owner, checkpoint, attempts>>
      BY <2>2 DEF Start, transition, canTransition, Legal, Held
    <3>2. CASE u = t
      <4>1. FabricPart(t)'
        BY <3>1, <3>2, <1>0 DEF FabricPart, WorkInv, CheckpointInv, RetryInv, TypeOK, Held
      <4>2. pc[t] = "begun" /\ pc'[t] = "running" /\ snap' = snap /\ state'[t] = "RUNNING"
        BY <1>12, <2>2, <3>1, <1>0, LocalGoroutines DEF StartQuantum, TypeOK
      <4>3. GoroutineInv(t)'
        BY <4>2, <3>2, <1>0 DEF WorkInv, GoroutineInv
      <4>. QED  BY <3>2, <4>1, <4>3, <1>t
    <3>3. CASE u # t
      BY <2>2, <3>1, <3>3, <1>0, <1>k, LocalGoroutines DEF SameTask, TypeOK
    <3>. QED  BY <3>2, <3>3
  <2>. QED  BY <1>12, <2>1, <2>2 DEF StartQuantum
<1>13. ASSUME NEW t \in Tasks, Step(t)
       PROVE  WorkInv(u)'
  <2>1. PICK o \in {"error", IF snap[t].step + 1 < Quanta[t] THEN "yield" ELSE "done"} :
          outcome' = [outcome EXCEPT ![t] = o]
    BY <1>13 DEF Step
  <2>2. pc[t] = "running" /\ Goto(t, "stepped") /\ snap' = snap /\ UNCHANGED vars
    BY <1>13 DEF Step
  <2>3. CASE u = t
    <3>1. PICK n \in 0 .. Quanta[t] - 1 : snap[t] = Envelope(t, n)
      BY <2>2, <2>3, <1>0 DEF WorkInv, GoroutineInv, Unfinished
    <3>2. snap[t].meta = t /\ snap[t].step = n
      BY <3>1 DEF Envelope
    <3>3. Wrap(t) = Envelope(t, n + 1) /\ Wrap(t)' = Wrap(t)
      BY <3>2, <2>2 DEF Wrap, Envelope
    <3>4. Quanta[t] \in Nat /\ n \in Nat
      BY SchedulerAssumption
    <3>5. outcome'[t] = o /\ pc'[t] = "stepped"
      BY <2>1, <2>2, <1>0 DEF Goto, GoroutineTypeOK
    <3>6. CASE o = "yield"
      <4>1. n + 1 < Quanta[t]
        BY <2>1, <3>2, <3>6
      <4>2. n + 1 \in 0 .. Quanta[t] - 1
        BY <4>1, <3>4
      <4>3. Unfinished(t, Wrap(t))
        BY <4>2, <3>3 DEF Unfinished
      <4>. QED  BY <2>2, <2>3, <3>3, <3>5, <3>6, <4>3, <1>0, <1>v, <1>s, <1>t
                   DEF GoroutineInv, WorkInv, SameTask
    <3>7. CASE o = "done"
      <4>1. ~(n + 1 < Quanta[t])
        BY <2>1, <3>2, <3>7
      <4>2. n + 1 = Quanta[t]
        BY <4>1, <3>4
      <4>. QED  BY <2>2, <2>3, <3>3, <3>5, <3>7, <4>2, <1>0, <1>v, <1>s, <1>t
                   DEF GoroutineInv, WorkInv, SameTask
    <3>8. CASE o = "error"
      BY <2>2, <2>3, <3>5, <3>8, <1>0, <1>v, <1>s, <1>t DEF GoroutineInv, WorkInv, SameTask
    <3>. QED  BY <2>1, <3>6, <3>7, <3>8
  <2>4. CASE u # t
    BY <2>1, <2>2, <2>4, <1>0, <1>v, <1>k DEF Goto, GoroutineTypeOK, SameGoroutine
  <2>. QED  BY <2>3, <2>4
<1>14. ASSUME NEW t \in Tasks, Panic(t) \/ End(t)
       PROVE  WorkInv(u)'
  <2>1. Exit(t) /\ UNCHANGED vars
    BY <1>14 DEF Panic, End
  <2>2. CASE u = t
    BY <2>1, <2>2, <1>0, <1>v, <1>s, <1>t, ExitGoroutines, GoneIsFine
  <2>3. CASE u # t
    BY <2>1, <2>3, <1>0, <1>v, <1>k, ExitGoroutines
  <2>. QED  BY <2>2, <2>3
<1>15. ASSUME NEW t \in Tasks, Boundary(t)
       PROVE  WorkInv(u)'
  <2>1. Local(t, "ended")
    BY <1>15 DEF Boundary
  <2>2. CASE u = t
    BY <1>15, <2>1, <2>2, <1>0, <1>t, BoundaryWork, LocalGoroutines, GoneIsFine
  <2>3. CASE u # t
    BY <1>15, <2>1, <2>3, <1>0, <1>k, BoundaryWork, LocalGoroutines
  <2>. QED  BY <2>2, <2>3
<1>. QED
  BY <1>1, <1>2, <1>3, <1>4, <1>5, <1>6, <1>7, <1>8, <1>9, <1>10, <1>11, <1>12, <1>13,
     <1>14, <1>15, SchedSteps

-----------------------------------------------------------------------------
(* Dependencies.                                                           *)

\* Only the goroutine of a task brings it into a held or final state.
LEMMA EntersByGoroutine ==
  ASSUME SchedInv, [SchedNext]_schedVars, NEW u \in Tasks,
         state[u] \notin Held \cup Terminal, state'[u] \in Held \cup Terminal
  PROVE  pc[u] # "none"
<1>0. TypeOK
  BY DEF SchedInv, FencingInv
<1>1. CASE UNCHANGED vars \/ Sweep \/ Clock
  BY <1>1 DEF vars, Sweep, CheckExpiredLeases, Clock, Tick, Held, Terminal
<1>2. ASSUME NEW t \in Tasks, NEW a, NEW e, NEW type, Return(t, a, e, type)
      PROVE  pc[u] # "none"
  BY <1>0, <1>2 DEF Return, transition, TypeOK, Held, Terminal
<1>3. CASE Aside \/ Drain \/ UNCHANGED schedVars
  BY <1>1, <1>3
     DEF Aside, AskCapable, Spawn, RegisterExecutor, Kill, Rescue, Watch, Reconcile, Drain,
         schedVars
<1>4. ASSUME NEW r \in victims, PreemptVictim(r)
      PROVE  pc[u] # "none"
  BY <1>1, <1>2, <1>4 DEF PreemptVictim, Preempt, SchedInv, PopulationTypeOK, Token
<1>5. ASSUME NEW t \in Tasks, Submit(t) \/ Cleanup(t)
      PROVE  pc[u] # "none"
  BY <1>0, <1>5 DEF Submit, Create, Cleanup, Delete, TypeOK, Held, Terminal
<1>6. ASSUME NEW t \in Tasks, Heartbeat(t) \/ Build(t) \/ Step(t) \/ Panic(t) \/ End(t)
      PROVE  pc[u] # "none"
  BY <1>1, <1>6 DEF Heartbeat, Renew, Build, Step, Panic, End
<1>7. ASSUME NEW t \in Tasks, Schedule(t)
      PROVE  pc[u] # "none"
  BY <1>0, <1>1, <1>7 DEF Schedule, Acquire, transition, TypeOK
<1>8. ASSUME NEW t \in Tasks, Lookup(t) \/ Gate(t)
      PROVE  pc[u] # "none"
  <2>1. GiveBack(t) \/ UNCHANGED vars
    <3>1. CASE Lookup(t)
      BY <3>1, <1>8 DEF Lookup
    <3>2. CASE Gate(t)
      BY <3>2, <1>8 DEF Gate
    <3>. QED  BY <1>8, <3>1, <3>2
  <2>. QED  BY <1>1, <1>2, <2>1 DEF GiveBack, Release
<1>9. ASSUME NEW t \in Tasks, StartQuantum(t) \/ Boundary(t)
      PROVE  pc[u] # "none"
  <2>1. ASSUME NEW to, transition(t, to), u = t
        PROVE  state[u] \in Held \/ to = "LEASED"
    BY <2>1 DEF transition, canTransition, Legal, Held
  <2>2. CASE Start(t, winner[t], token[t])
    BY <1>0, <2>1, <2>2 DEF Start, transition, TypeOK
  <2>3. CASE CompleteWithCheckpoint(t, winner[t], token[t], Wrap(t))
    BY <1>0, <2>1, <2>3 DEF CompleteWithCheckpoint, transition, TypeOK
  <2>4. CASE Yield(t, winner[t], token[t], Wrap(t))
    BY <1>0, <2>1, <2>4 DEF Yield, transition, TypeOK
  <2>5. CASE Fail(t, winner[t], token[t])
    BY <1>0, <2>1, <2>5 DEF Fail, transition, TypeOK
  <2>. QED  BY <1>1, <1>9, <2>2, <2>3, <2>4, <2>5 DEF StartQuantum, Boundary
<1>. QED
  BY <1>3, <1>1, <1>4, <1>5, <1>6, <1>7, <1>8, <1>9, SchedSteps

\* A completed task stays completed or is deleted; a deleted one stays away.
LEMMA MetStays ==
  ASSUME SchedInv, [SchedNext]_schedVars, NEW d \in Tasks, Met(d)
  PROVE  Met(d)'
<1>0. TypeOK /\ DepInv(d)
  BY DEF SchedInv, FencingInv
<1>u. state'[d] = state[d] /\ lastEvent'[d] = lastEvent[d] => Met(d)'
  BY DEF Met
<1>v. UNCHANGED vars => Met(d)'
  BY <1>u DEF vars
<1>1. CASE Aside \/ Drain \/ UNCHANGED schedVars
  BY <1>v, <1>1
     DEF Aside, AskCapable, Spawn, RegisterExecutor, Kill, Rescue, Watch, Reconcile, Drain,
         schedVars
<1>2. CASE Clock
  BY <1>2, <1>u DEF Clock, Tick
<1>3. CASE Sweep
  BY <1>0, <1>3, <1>u DEF Sweep, CheckExpiredLeases, Sweepable, Met, Held
<1>4. ASSUME NEW t \in Tasks, NEW a, NEW e, NEW type, Return(t, a, e, type)
      PROVE  Met(d)'
  <2>1. t # d
    BY <1>4 DEF Return, ownerLocked, transition, canTransition, Legal, Met
  <2>. QED  BY <1>4, <2>1, <1>0, <1>u DEF Return, transition, recordLocked, TypeOK
<1>5. ASSUME NEW r \in victims, PreemptVictim(r)
      PROVE  Met(d)'
  BY <1>v, <1>4, <1>5 DEF PreemptVictim, Preempt, SchedInv, PopulationTypeOK, Token
<1>6. ASSUME NEW t \in Tasks, Submit(t)
      PROVE  Met(d)'
  <2>1. t # d
    BY <1>0, <1>6 DEF Submit, Create, NoEvent, Met
  <2>. QED  BY <1>6, <2>1, <1>0, <1>u DEF Submit, Create, recordLocked, TypeOK
<1>7. ASSUME NEW t \in Tasks, Cleanup(t)
      PROVE  Met(d)'
  BY <1>7, <1>0, <1>u DEF Cleanup, Delete, TypeOK, Met, DepInv
<1>8. ASSUME NEW t \in Tasks, Heartbeat(t) \/ Build(t) \/ Step(t) \/ Panic(t) \/ End(t)
      PROVE  Met(d)'
  BY <1>v, <1>u, <1>8 DEF Heartbeat, Renew, Build, Step, Panic, End
<1>9. ASSUME NEW t \in Tasks, Schedule(t)
      PROVE  Met(d)'
  <2>1. ASSUME NEW a, Acquire(t, a)
        PROVE  Met(d)'
    <3>1. t # d
      BY <2>1 DEF Acquire, Met
    <3>. QED  BY <2>1, <3>1, <1>0, <1>u DEF Acquire, transition, recordLocked, TypeOK
  <2>. QED  BY <1>9, <1>v, <2>1 DEF Schedule
<1>10. ASSUME NEW t \in Tasks, Lookup(t) \/ Gate(t)
       PROVE  Met(d)'
  <2>1. GiveBack(t) \/ UNCHANGED vars
    <3>1. CASE Lookup(t)
      BY <3>1, <1>10 DEF Lookup
    <3>2. CASE Gate(t)
      BY <3>2, <1>10 DEF Gate
    <3>. QED  BY <1>10, <3>1, <3>2
  <2>. QED  BY <1>v, <1>4, <2>1 DEF GiveBack, Release
<1>11. ASSUME NEW t \in Tasks, StartQuantum(t)
       PROVE  Met(d)'
  <2>1. CASE Start(t, winner[t], token[t])
    <3>1. t # d
      BY <2>1 DEF Start, ownerLocked, transition, canTransition, Legal, Met
    <3>. QED  BY <2>1, <3>1, <1>0, <1>u DEF Start, transition, recordLocked, TypeOK
  <2>. QED  BY <1>11, <1>v, <2>1 DEF StartQuantum
<1>12. ASSUME NEW t \in Tasks, Boundary(t)
       PROVE  Met(d)'
  <2>1. ASSUME ownerLocked(t, winner[t], token[t])
        PROVE  t # d
    BY <1>12, <2>1 DEF Boundary, SchedInv, WorkInv, GoroutineInv, ownerLocked, Met
  <2>2. CASE CompleteWithCheckpoint(t, winner[t], token[t], Wrap(t))
    BY <2>1, <2>2, <1>0, <1>u DEF CompleteWithCheckpoint, transition, recordLocked, TypeOK
  <2>3. CASE Yield(t, winner[t], token[t], Wrap(t))
    BY <2>1, <2>3, <1>0, <1>u DEF Yield, transition, recordLocked, TypeOK
  <2>4. CASE Fail(t, winner[t], token[t])
    BY <2>1, <2>4, <1>0, <1>u DEF Fail, transition, recordLocked, TypeOK
  <2>. QED  BY <1>12, <1>v, <2>2, <2>3, <2>4 DEF Boundary
<1>. QED
  BY <1>1, <1>2, <1>3, <1>5, <1>6, <1>7, <1>8, <1>9, <1>10, <1>11, <1>12, SchedSteps

\* The log's word on a completed task is "completed".
CompletedLogged(u) == state[u] = "COMPLETED" => lastEvent[u].type = "completed"

LEMMA CompletedLoggedStays ==
  ASSUME TypeOK, [Next]_vars, NEW u \in Tasks, CompletedLogged(u)
  PROVE  CompletedLogged(u)'
<1>. USE DEF TypeOK, CompletedLogged, transition, recordLocked
<1>u. state'[u] = state[u] /\ lastEvent'[u] = lastEvent[u] => CompletedLogged(u)'
  OBVIOUS
<1>1. ASSUME NEW t \in Tasks, NEW cp \in Checkpoints \cup {Nil}, Create(t, cp)
      PROVE  CompletedLogged(u)'
  BY <1>1 DEF Create
<1>2. ASSUME NEW t \in Tasks, NEW a \in Agents, Acquire(t, a)
      PROVE  CompletedLogged(u)'
  BY <1>2 DEF Acquire
<1>3. ASSUME NEW t \in Tasks, NEW a \in Agents, NEW e \in Nat, Start(t, a, e)
      PROVE  CompletedLogged(u)'
  BY <1>3 DEF Start
<1>4. ASSUME NEW t \in Tasks, NEW a \in Agents, NEW e \in Nat,
             NEW cp \in Checkpoints \cup {Nil}, Yield(t, a, e, cp)
      PROVE  CompletedLogged(u)'
  BY <1>4 DEF Yield
<1>5. ASSUME NEW t \in Tasks, NEW a \in Agents, NEW e \in Nat, Complete(t, a, e)
      PROVE  CompletedLogged(u)'
  BY <1>5 DEF Complete
<1>6. ASSUME NEW t \in Tasks, NEW a \in Agents, NEW e \in Nat,
             NEW cp \in Checkpoints, CompleteWithCheckpoint(t, a, e, cp)
      PROVE  CompletedLogged(u)'
  BY <1>6 DEF CompleteWithCheckpoint
<1>7. ASSUME NEW t \in Tasks, NEW a \in Agents, NEW e \in Nat, Fail(t, a, e)
      PROVE  CompletedLogged(u)'
  BY <1>7, <1>u DEF Fail
<1>8. ASSUME NEW t \in Tasks, NEW a \in Agents, NEW e \in Nat,
             NEW type \in {"released", "preempted"}, Return(t, a, e, type)
      PROVE  CompletedLogged(u)'
  BY <1>8 DEF Return
<1>9. CASE CheckExpiredLeases
  BY <1>9 DEF CheckExpiredLeases
<1>10. ASSUME NEW t \in Tasks, Delete(t)
       PROVE  CompletedLogged(u)'
  BY <1>10 DEF Delete
<1>. QED
  BY <1>u, <1>1, <1>2, <1>3, <1>4, <1>5, <1>6, <1>7, <1>8, <1>9, <1>10, Steps
     DEF vars, Renew, Tick

\* Only a drain starts goroutines.
LEMMA StartsByDrain ==
  ASSUME SchedInv, [SchedNext]_schedVars, NEW u \in Tasks, ~Drain
  PROVE  pc[u] = "none" => pc'[u] = "none"
<1>0. GoroutineTypeOK
  BY DEF SchedInv, LocalTypeOK, GoroutineTypeOK
<1>1. ASSUME NEW t \in Tasks, Exit(t)
      PROVE  pc'[u] = "none" \/ pc'[u] = pc[u]
  BY <1>0, <1>1, ExitGoroutines DEF SameGoroutine
<1>2. ASSUME NEW t \in Tasks, NEW place, Goto(t, place), pc[t] # "none"
      PROVE  pc[u] # "none" \/ pc'[u] = pc[u]
  BY <1>0, <1>2 DEF Goto, GoroutineTypeOK
<1>3. ASSUME NEW t \in Tasks,
             \/ Build(t) \/ Schedule(t) \/ Lookup(t) \/ Gate(t) \/ StartQuantum(t)
             \/ Step(t) \/ Panic(t) \/ Boundary(t) \/ End(t)
      PROVE  pc[u] = "none" => pc'[u] = "none"
  BY <1>1, <1>2, <1>3
     DEF Build, Schedule, Lookup, Gate, StartQuantum, Step, Panic, Boundary, End, Local
<1>. QED
  BY <1>3, SchedSteps
     DEF Aside, AskCapable, Spawn, RegisterExecutor, Kill, Rescue, Watch, Reconcile,
         Sweep, Clock, PreemptVictim, Submit, Cleanup, Heartbeat, schedVars, goroutine

LEMMA OneDrainStep ==
  ASSUME SchedInv, [SchedNext]_schedVars
  PROVE  OneDrain'
<1>1. CASE Drain
  BY <1>1 DEF Drain, OneDrain
<1>2. CASE Reconcile
  BY <1>2 DEF Reconcile, Draining, goroutine, OneDrain
<1>3. CASE reconciling' = reconciling /\ ~Drain
  BY <1>3, StartsByDrain DEF SchedInv, OneDrain
<1>4. Drain \/ Reconcile \/ reconciling' = reconciling
  BY SchedSteps
     DEF Aside, AskCapable, Spawn, RegisterExecutor, Kill, Rescue, Watch, Sweep, Clock,
         PreemptVictim, Submit, Cleanup, Heartbeat, Build, Schedule, Lookup, Gate,
         StartQuantum, Step, Panic, Boundary, End, loops, drain, schedVars
<1>. QED  BY <1>1, <1>2, <1>3, <1>4

LEMMA DepStep ==
  ASSUME SchedInv, [SchedNext]_schedVars, NEW u \in Tasks
  PROVE  DepInv(u)'
<1>0. TypeOK /\ DepInv(u) /\ GoroutineTypeOK
  BY DEF SchedInv, FencingInv, LocalTypeOK, GoroutineTypeOK
<1>1. CompletedLogged(u)'
  BY <1>0, FabricMoves, CompletedLoggedStays DEF DepInv, CompletedLogged
<1>2. ASSUME state'[u] \in Held \cup Terminal \/ pc'[u] # "none"
      PROVE  \A d \in Deps[u] : Met(d)
  <2>1. CASE state[u] \in Held \cup Terminal \/ pc[u] # "none"
    BY <1>0, <2>1 DEF DepInv
  <2>2. CASE pc[u] = "none" /\ pc'[u] # "none" /\ state[u] \notin Held \cup Terminal
    <3>1. CASE Drain
      <4>1. u \in ReadyTasks
        BY <1>0, <2>2, <3>1
           DEF Drain, ResumableTasks, GoroutineTypeOK, Held
      <4>. QED  BY <4>1 DEF ReadyTasks, IsReady, depsCompletedLocked, Met
    <3>2. CASE ~Drain
      BY <2>2, <3>2, StartsByDrain
    <3>. QED  BY <3>1, <3>2
  <2>. QED  BY <1>2, <2>1, <2>2, EntersByGoroutine
<1>3. \A d \in Deps[u] : d \in Tasks
  BY PolicyAssumption
<1>. QED  BY <1>1, <1>2, <1>3, MetStays DEF DepInv, CompletedLogged

-----------------------------------------------------------------------------
(* The inductive invariant, and what follows from it.                      *)

LEMMA SchedStep == SchedInv /\ [SchedNext]_schedVars => SchedInv'
<1>. SUFFICES ASSUME SchedInv, [SchedNext]_schedVars PROVE SchedInv'
  OBVIOUS
<1>1. FencingInv'
  BY FabricMoves, StepFencing DEF SchedInv
<1>. QED  BY <1>1, LocalStep, PopulationStep, WorkKept, DepStep, OneDrainStep DEF SchedInv

LEMMA SchedInvHolds == SchedSpec => []SchedInv
  BY SchedStarts, SchedStep, PTL DEF SchedSpec

\* The scheduler, its recovery loop and its preemption watcher use the fabric
\* only through its operations, with tokens they were handed: whatever holds of
\* the fabric under any callers holds under these (kernelscheduler/scheduler.go
\* calls nothing else).
THEOREM ImplementsFabric == SchedSpec => Spec
<1>1. SchedInit => Init
  BY DEF SchedInit
<1>2. SchedInv /\ [SchedNext]_schedVars => [Next]_vars
  BY FabricMoves
<1>. QED  BY SchedInvHolds, <1>1, <1>2, PTL DEF SchedSpec, Spec

\* Every variable of scheduler, tracker, registry and recovery keeps its type;
\* a snapshot is never taken of a task that has no checkpoint.
THEOREM SchedTypeCorrect == SchedSpec => []SchedTypeOK
<1>1. SchedInv => SchedTypeOK
  BY DEF SchedInv, FencingInv, LocalTypeOK, PopulationTypeOK, SchedTypeOK
<1>. QED  BY SchedInvHolds, <1>1, PTL

\* However often a task is yielded, preempted, swept, failed over or retried,
\* its checkpoint is still the envelope of its own submission
\* (checkpoint_envelope.go:20-35).
THEOREM MetadataKept == SchedSpec => []MetadataSurvives
<1>1. SchedInv => MetadataSurvives
  <2>. SUFFICES ASSUME SchedInv, NEW t \in Tasks, state[t] # "ABSENT"
                PROVE  checkpoint[t].meta = t
    BY DEF MetadataSurvives
  <2>1. Enveloped(t, checkpoint[t])
    <3>1. TypeOK /\ CheckpointInv(t)
      BY DEF SchedInv, FencingInv, WorkInv
    <3>2. state[t] \in {"READY", "COMPLETED", "FAILED"} \cup Held
      BY <3>1 DEF TypeOK, TaskState, Held
    <3>3. Quanta[t] \in 0 .. Quanta[t]
      BY SchedulerAssumption
    <3>. QED  BY <3>1, <3>2, <3>3, EnvelopesAreCheckpoints DEF CheckpointInv, Enveloped
  <2>. QED  BY <2>1 DEF Enveloped, Envelope
<1>. QED  BY SchedInvHolds, <1>1, PTL

\* A task completes with every quantum of its work credited exactly once,
\* through takeovers, stale results and retries (quantum.go:60-110).
THEOREM WorkIsWhole == SchedSpec => []CompletedWorkIsWhole
<1>1. SchedInv => CompletedWorkIsWhole
  <2>. SUFFICES ASSUME SchedInv, NEW t \in Tasks, state[t] = "COMPLETED"
                PROVE  checkpoint[t].step = Quanta[t]
    BY DEF CompletedWorkIsWhole
  <2>1. checkpoint[t] = Envelope(t, Quanta[t])
    BY DEF SchedInv, WorkInv, CheckpointInv
  <2>. QED  BY <2>1 DEF Envelope
<1>. QED  BY SchedInvHolds, <1>1, PTL

\* A bounded task neither runs with its retry budget spent nor fails before it
\* is, and one without a bound never fails (fabric.go:406-440, task.go:47),
\* whoever else has failed or lost it meanwhile.
THEOREM RetriesAreExact == SchedSpec => []RetryBudgetIsExact
<1>1. SchedInv => RetryBudgetIsExact
  BY DEF SchedInv, WorkInv, RetryInv, RetryBudgetIsExact
<1>. QED  BY SchedInvHolds, <1>1, PTL

\* No task is worked on before each of its prerequisites has completed, for
\* any dependency graph (fabric.go:540-600).
THEOREM DependenciesHold == SchedSpec => []DependenciesFirst
<1>1. SchedInv => DependenciesFirst
  BY DEF SchedInv, DepInv, Met, DependenciesFirst
<1>. QED  BY SchedInvHolds, <1>1, PTL

\* A task bound to a recovery executor has that executor registered, whichever
\* of recovery, quantum end and reconciliation changed the registry last
\* (executor_registry.go:30-110).
THEOREM BindingsHold == SchedSpec => []BindingHasExecutor
<1>1. SchedInv => BindingHasExecutor
  BY DEF SchedInv
<1>. QED  BY SchedInvHolds, <1>1, PTL

-----------------------------------------------------------------------------
(* The load tracker.                                                       *)

\* The goroutines inside a quantum of agent a, before and after a step in
\* which only goroutine t moves.
LEMMA OthersStay ==
  ASSUME NEW t \in Tasks, NEW a,
         \A u \in Tasks \ {t} : pc'[u] = pc[u] /\ winner'[u] = winner[u]
  PROVE  /\ InQuantum(a)' \ {t} = InQuantum(a) \ {t}
         /\ t \in InQuantum(a) <=> pc[t] \in Busy /\ winner[t] = a
         /\ t \in InQuantum(a)' <=> pc'[t] \in Busy /\ winner'[t] = a
  BY DEF InQuantum

LEMMA SameQuanta ==
  ASSUME LoadIsExact, load' = load,
         \A u \in Tasks : /\ pc'[u] \in Busy <=> pc[u] \in Busy
                          /\ pc[u] \in Busy => winner'[u] = winner[u]
  PROVE  LoadIsExact'
<1>1. \A a \in Agents : InQuantum(a)' = InQuantum(a)
  BY DEF InQuantum
<1>. QED  BY <1>1 DEF LoadIsExact

\* Entering a quantum takes a slot of the winner.
LEMMA EnterTakesSlot ==
  ASSUME IsFiniteSet(Tasks), LoadIsExact, PopulationTypeOK, NEW t \in Tasks,
         load' = [load EXCEPT ![winner[t]] = @ + 1],
         pc[t] \notin Busy, pc'[t] \in Busy, winner' = winner,
         \A u \in Tasks \ {t} : pc'[u] = pc[u]
  PROVE  LoadIsExact'
<1>. SUFFICES ASSUME NEW a \in Agents
              PROVE  load'[a] = Cardinality(InQuantum(a)')
  BY DEF LoadIsExact
<1>1. IsFiniteSet(InQuantum(a))
  BY FS_Subset DEF InQuantum
<1>2. load[a] = Cardinality(InQuantum(a)) /\ load[a] \in Nat
  BY DEF LoadIsExact, PopulationTypeOK
<1>3. CASE a = winner[t]
  <2>1. InQuantum(a)' = InQuantum(a) \cup {t} /\ t \notin InQuantum(a)
    BY <1>3, OthersStay
  <2>2. load'[a] = load[a] + 1
    BY <1>3 DEF PopulationTypeOK
  <2>. QED  BY <1>1, <1>2, <2>1, <2>2, FS_AddElement
<1>4. CASE a # winner[t]
  <2>1. InQuantum(a)' = InQuantum(a)
    BY <1>4, OthersStay
  <2>2. load'[a] = load[a]
    BY <1>4 DEF PopulationTypeOK
  <2>. QED  BY <1>2, <2>1, <2>2
<1>. QED  BY <1>3, <1>4

\* Leaving a quantum gives the slot back.
LEMMA LeaveGivesSlot ==
  ASSUME IsFiniteSet(Tasks), LoadIsExact, PopulationTypeOK, NEW t \in Tasks,
         load' = [load EXCEPT ![winner[t]] = IF @ > 0 THEN @ - 1 ELSE 0],
         pc[t] \in Busy, pc'[t] \notin Busy,
         \A u \in Tasks \ {t} : pc'[u] = pc[u] /\ winner'[u] = winner[u]
  PROVE  LoadIsExact'
<1>. SUFFICES ASSUME NEW a \in Agents
              PROVE  load'[a] = Cardinality(InQuantum(a)')
  BY DEF LoadIsExact
<1>1. IsFiniteSet(InQuantum(a))
  BY FS_Subset DEF InQuantum
<1>2. load[a] = Cardinality(InQuantum(a)) /\ load[a] \in Nat
  BY DEF LoadIsExact, PopulationTypeOK
<1>3. CASE a = winner[t]
  <2>1. InQuantum(a)' = InQuantum(a) \ {t} /\ t \in InQuantum(a)
    BY <1>3, OthersStay
  <2>2. load[a] > 0
    BY <1>1, <1>2, <2>1, FS_EmptySet
  <2>3. load'[a] = load[a] - 1
    BY <1>3, <2>2 DEF PopulationTypeOK
  <2>. QED  BY <1>1, <1>2, <2>1, <2>3, FS_RemoveElement
<1>4. CASE a # winner[t]
  <2>1. InQuantum(a)' = InQuantum(a)
    BY <1>4, OthersStay
  <2>2. load'[a] = load[a]
    BY <1>4 DEF PopulationTypeOK
  <2>. QED  BY <1>2, <2>1, <2>2
<1>. QED  BY <1>3, <1>4

LEMMA LoadStep ==
  ASSUME IsFiniteSet(Tasks), SchedInv, LoadIsExact, [SchedNext]_schedVars
  PROVE  LoadIsExact'
<1>0. GoroutineTypeOK /\ PopulationTypeOK
  BY DEF SchedInv, LocalTypeOK, GoroutineTypeOK
<1>e. ASSUME NEW t \in Tasks, Exit(t)
      PROVE  /\ pc'[t] = "none"
             /\ \A u \in Tasks \ {t} : pc'[u] = pc[u] /\ winner'[u] = winner[u]
  BY <1>0, <1>e DEF Exit, GoroutineTypeOK
<1>1. CASE UNCHANGED <<pc, winner, load>>
  BY <1>1, SameQuanta
<1>2. CASE Drain
  <2>1. \A u \in Tasks : pc[u] \notin Busy /\ pc'[u] \notin Busy
    BY <1>2 DEF Drain, SchedInv, OneDrain, Busy
  <2>2. load' = load
    BY <1>2 DEF Drain
  <2>. QED  BY <2>1, <2>2, SameQuanta
<1>3. ASSUME NEW t \in Tasks, Build(t) \/ Schedule(t) \/ Lookup(t)
      PROVE  LoadIsExact'
  <2>1. load' = load /\ pc[t] \notin Busy
    BY <1>3 DEF Build, Schedule, Lookup, population, Busy
  <2>2. pc'[t] \notin Busy
    BY <1>0, <1>3, <1>e DEF Build, Schedule, Lookup, Local, Goto, GoroutineTypeOK, Busy
  <2>3. \A u \in Tasks \ {t} : pc'[u] = pc[u] /\ winner'[u] = winner[u]
    BY <1>0, <1>3, <1>e DEF Build, Schedule, Lookup, Local, Goto, GoroutineTypeOK
  <2>. QED  BY <2>1, <2>2, <2>3, SameQuanta
<1>4. ASSUME NEW t \in Tasks, Gate(t)
      PROVE  LoadIsExact'
  <2>1. pc[t] = "found"
    BY <1>4 DEF Gate
  <2>2. CASE load' = [load EXCEPT ![winner[t]] = @ + 1] /\ Goto(t, "begun") /\ winner' = winner
    BY <1>0, <2>1, <2>2, EnterTakesSlot DEF Goto, GoroutineTypeOK, Busy
  <2>3. CASE Exit(t) /\ UNCHANGED load
    BY <2>1, <2>3, <1>e, SameQuanta DEF Busy
  <2>. QED  BY <1>4, <2>2, <2>3 DEF Gate
<1>5. ASSUME NEW t \in Tasks, StartQuantum(t) \/ Boundary(t) \/ Step(t)
      PROVE  LoadIsExact'
  <2>1. load' = load /\ winner' = winner /\ pc[t] \in Busy
    BY <1>5 DEF StartQuantum, Boundary, Step, Local, Busy
  <2>2. pc'[t] \in Busy /\ \A u \in Tasks \ {t} : pc'[u] = pc[u]
    BY <1>0, <1>5 DEF StartQuantum, Boundary, Step, Local, Goto, GoroutineTypeOK, Busy
  <2>. QED  BY <2>1, <2>2, SameQuanta
<1>6. ASSUME NEW t \in Tasks, Panic(t) \/ End(t)
      PROVE  LoadIsExact'
  BY <1>0, <1>6, <1>e, LeaveGivesSlot DEF Panic, End, Busy
<1>7. CASE Aside \/ UNCHANGED schedVars
  BY <1>1, <1>7 DEF Aside, AskCapable, Spawn, RegisterExecutor, Kill, Rescue, Watch, Reconcile,
                    goroutine, population, schedVars
<1>8. CASE Sweep \/ Clock \/ \E r \in victims : PreemptVictim(r)
  BY <1>1, <1>8 DEF Sweep, Clock, PreemptVictim, goroutine
<1>9. ASSUME NEW t \in Tasks, Submit(t) \/ Cleanup(t) \/ Heartbeat(t)
      PROVE  LoadIsExact'
  BY <1>1, <1>9 DEF Submit, Cleanup, Heartbeat, goroutine
<1>. QED
  BY <1>2, <1>3, <1>4, <1>5, <1>6, <1>7, <1>8, <1>9, SchedSteps

\* The tracker counts exactly the quanta under way, on every path into and out
\* of one (load_tracker.go:30-75, scheduler.go's deferred end of a quantum), so
\* its clamp at zero never hides an unbalanced release.
THEOREM LoadsAreExact ==
  ASSUME IsFiniteSet(Tasks)
  PROVE  SchedSpec => []LoadIsExact
<1>1. SchedInit => LoadIsExact
  <2>1. SchedInit => \A a \in Agents : InQuantum(a) = {}
    BY DEF SchedInit, InQuantum, Busy
  <2>. QED  BY <2>1, FS_EmptySet DEF SchedInit, LoadIsExact
<1>2. SchedInv /\ LoadIsExact /\ [SchedNext]_schedVars => LoadIsExact'
  BY LoadStep
<1>. QED  BY SchedInvHolds, <1>1, <1>2, PTL DEF SchedSpec
=============================================================================
