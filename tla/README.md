# ARES: a TLA+ verification project

ARES is an "agent operating system" in Go: agents (language-model loops) decide
what to do, and a kernel enforces who owns which task, which agent runs it, what
it may use and what happens when it dies. Around the kernel are the parts that
an agent uses: a message bus, memory and storage, model clients, MCP tools,
workflow graphs, an evolution loop that changes them, and a process that starts
and stops all of it. This directory models the parts whose state is shared,
checks the models with TLC on small instances, and proves the most important of
what they say for all instances with TLAPS. Paths below are relative to the
repository, whose files are under `src/`.

## 1. The system

### 1.1 Components, their state and operations

| Component | Source | State | Operations that change it |
|---|---|---|---|
| Task Fabric | `internal/taskfabric` | tasks (state, owner, lease, checkpoint, retry counter), fabric-wide epoch, event log | Create, Acquire, Start, Yield, Complete, CompleteWithCheckpoint, Fail, Renew, Release, Preempt, CheckExpiredLeases, Delete |
| Kernel scheduler | `internal/kernelscheduler` | one goroutine per drained task, load tracker, executor registry, recovery bindings | drain, executeWithCandidates, quantum, heartbeat, preemption watcher, reconciliation of dead agents, (un)registration |
| Recovery loop | `cmd/ares/kernel_loop.go` | the running sweep | sweep expired leases, ask for a capable executor, revive or replace, bind |
| Collaboration graphs | `cmd/ares/collab_graph.go` | the runs under way, the janitor's sweep | runCollabGraph: mark, create, poll, clean up, unmark; sweepStaleCollabTasks |
| Execution quanta | `internal/agents/sub/executor.go` | a conversation in the task's checkpoint | decode, one round of the tool loop, yield, complete |
| Agent Fabric | `internal/agentfabric` | registry of live agents, resource claims and budget, death snapshots | Spawn, Suspend, Resume, Retire, Kill, Recover, UpdateResourceBudget, Save/ClearSnapshot |
| Agent recovery | `internal/aresrecovery` | restart counters | RestartAgent, chaos injection, AdaptPopulation, quota and spawn policies |
| Agent runtime (older) | `internal/ares_runtime` | the current entry of an agent, its instance, restart counters | death notices, health check, resurrection, Stop/Pause/Resume/Restart, the runtime's Stop |
| Agent loop | `internal/agentloop`, `sdk/agent.go` | messages, active tools, budgets of a run | Generate, approve, execute, discover |
| Session memory | `internal/ares_memory` | sessions with a size limit and a TTL | CreateSession, AddMessage, evict, expire, delete, Stop |
| Agent IPC | `internal/agentipc` | handlers, pending requests, stashed errors | Request, Reply, Register, Unregister |
| Session leases | `internal/agents/lease` | session -> owner, expiry | Acquire, Renew, Release |
| Model clients | `internal/llm` | circuit breaker | Allow, report, retry |
| Retrieval | `internal/storage/postgres` | embedding breaker, cache | search |
| Write buffer, embedding queue | `internal/storage/postgres` | channel, batch; rows | Write, flush, requeue, Stop; enqueue, fetch, complete, fail, reconcile |
| Event stores, archive | `internal/ares_events`, `internal/ares_archive` | stream, summaries, rounds, files | Append, compact, trim, archive, rotate |
| MCP | `internal/ares_mcp` | the client of a server, its registered tools | connect, reload, refresh, disconnect, Stop |
| Rate limiters | `internal/ares_ratelimit` | weighted slots, sleepers | Acquire, Release, Reset |
| Workflow engine | `internal/workflow` | mutable graph, recovery policies | AddNode, RemoveNode, AddEdge, ReplaceNode, patches and rollbacks |
| Graphs of the SDK | `sdk/graph_run.go` | settled and running nodes, dead edges | rounds, skips, router jumps |
| Evolution | `internal/evolution`, `internal/ares_evolution` | genomes, candidates, proposals, canaries, stable profiles, cycles | Mutate, Release, Evaluate, Promote, start and cancel cycles |
| Dashboard | `internal/dashboard` | WebSocket clients, subscriptions; agents and their steps | register, subscribe, broadcast; create, cancel, resurrect |
| System runtime | `internal/system_runtime` | component states | Start, rollback, Shutdown |
| Shutdown manager | `internal/ares_shutdown` | phase, callbacks, wait group | StartShutdown and its phases |

`PROJECT.json` lists every part with what is and what is not modelled.

### 1.2 How they interact

* The scheduler **calls** the Task Fabric; the Task Fabric calls nobody. Each of
  its methods is one critical section. An agent's right to a task is the pair
  (owner, lease epoch) that Acquire returned; it may be presented at any later
  time, when the task has long been taken away.
* One **drain** at a time takes a snapshot of the resumable tasks and starts a
  goroutine for each, bounded by a semaphore. The goroutine reads candidates,
  schedules, resolves the winner and runs one quantum, without a lock across
  those steps. A **heartbeat** goroutine renews the lease meanwhile.
* The **preemption watcher** and the **recovery sweep** are other goroutines that
  take tasks away from running quanta; the quantum learns of it from the error
  its own next call returns.
* The **recovery loop** asks the scheduler whether a capable executor exists, and
  binds a replacement in a later call. The **drain** unregisters agents that have
  died, also as check and act in two critical sections.
* A **collaboration graph** is submitted as tasks of the Task Fabric. Its run polls
  them and deletes them on its way out, without knowing what the scheduler has in
  hand; a **janitor** deletes later what was in somebody's hands then.
* The **Agent Fabric** is changed by syscalls, chaos, RestartAgent and two policy
  loops. RestartAgent and AdaptPopulation make several fabric calls and hold no
  lock between them. Kill saves its snapshot after it has unlocked.

* **The process** (`ares serve`) starts the components in dependency order while
  the signal goroutine may already be shutting down, and stops only what was
  published. The **shutdown manager** runs callbacks of a phase concurrently and
  counts them in one wait group over all phases.
* The **agent loop** owns its conversation and shares the session memory with
  every other run. The **older runtime** resurrects agents in goroutines of their
  own while operators stop, pause and restart the same ids.
* **IPC, MCP, the write buffer, the archive, the hub** each have one or more
  background goroutines that a caller or a Stop meets at any point: between a
  lookup and the call, between a claim and its commit, between a flush and the
  requeue.
* The **evolution** side edits graphs and profiles that the live system reads,
  through clones, patches and canaries that several sources submit at once.

### 1.3 What is hard here, and what makes it correct

* Fencing: an owner whose lease expired, was preempted or taken over may act at
  any time later. Its token must never work again, and its late work must not
  count.
* Durability: a task outlives its agents. However it goes back to READY, its
  progress and its submission metadata stay; every held task that is left alone
  is found by the sweep.
* Accounting across failures: load slots, retry attempts, resource claims,
  buffered writes and MCP clients are changed on many paths (normal end, refusal,
  panic, kill, retire, revive) and must come out exact on all of them.
* Check-then-act across components: bindings, winners and snapshots are read in
  one critical section and used in another; rounds are claimed, handed over
  without the lock and committed later.
* Decisions that race with their execution: an operator stops an agent whose
  resurrection is under way, a signal arrives during the bootstrap, a timeout
  races a late reply.
* Undo: patches, mutations and rollbacks must leave the graph as it was.

`PROJECT.json` ("hazards") lists each such point with its line and the property
that covers it.

## 2. Modules

    TaskPromise            what a durable task promises
        ^ implemented by (RefinesPromise, checked and proved)
    TaskFabric <---------- TaskFabricProofs
        ^ EXTENDS; implements it (ImplementsFabric, proved)
    KernelScheduler <----- SchedulerProofs
        ^
    MCKernelScheduler

    TaskFabric <- CollabGraph <- MCCollabGraph
                      ^
                  CollabProofs (uses TaskFabricProofs)

    ShutdownManager   Orchestrator
               ^       ^
             ServeProcess <- MCServeProcess

    AgentFabric <- AgentRecovery                    Conversation <- AgentLoop
    MutableDAG <- WorkflowGenome                                 <- ExecutionQuantum

    LifecycleProofs  of ServeProcess (with ShutdownManager and Orchestrator),
                     EvolutionScheduler, DashboardAgents, CandidateRelease
    ConnectionProofs of IPCBus, MCPManager, WSHub
    ResourceProofs   of EmbeddingQueue, SessionLease, WeightedSemaphore,
                     WriteBuffer, EventArchive
    GraphProofs      of GraphRun, WorkflowGenome, RecoveryPatcher
    AgentProofs      of AgentRecovery, AgentRuntime, AgentLoop, ExecutionQuantum

    MCParts   = TaskFabric (and TaskPromise), AgentRecovery, WorkflowGenome, RecoveryPatcher, CandidateRelease,
                SessionLease, WeightedSemaphore, EventArchive, WriteBuffer,
                EmbeddingQueue, MCPManager, AgentRuntime, GraphRun, WSHub,
                DashboardAgents, EvolutionScheduler, AgentLoop, ExecutionQuantum,
                ServeProcess, one active in each behaviour
    MCLive    = AgentRuntime, IPCBus, LLMResilience, WriteBuffer, ServeProcess,
                one active in each behaviour and under its own fairness
    alone     = RetrievalSearch, and LLMResilience, EmbeddingQueue, MCPManager,
                GraphRun, WorkflowGenome for the disagreements of section 5

### 2.1 The kernel

**TaskFabric** has one action per fabric method. Variables are the fields of
`Fabric` and `Task`; `lastEvent` is the last record of each task in the log and
`granted` remembers every token ever returned, which is what callers may
present: the model never assumes that a caller has noticed a loss. Time is
relative: a lease carries the ticks it has left and `Tick` ages all of them, so
`IsExpired` is `left = 0`. A deleted or never created task is "ABSENT".
Operations that change something and then fail (`CompleteWithCheckpoint`, `Fail`)
keep their partial effect, as in the code.

**TaskPromise** is the abstract specification: a task is none, open or done, is
worked on under a grant that is never given twice, keeps its progress when handed
back, and is never reopened. The refinement maps the lease epoch to the grant.

**KernelScheduler** EXTENDS TaskFabric and adds the program counter of each
task's goroutine with its locals (winner, token, candidates, task snapshot), the
load tracker, the registry, the bindings, the live agents of the Agent Fabric,
and the recovery loop's progress. Each lock-free stretch between two calls is one
step. A checkpoint is the envelope of `checkpoint_schema.go`: submission metadata
and progress in quanta. Candidate scores, the model's answer and the governance
budget are free choices. `PeerMode` selects whether an Agent Fabric is attached.

**CollabGraph** EXTENDS TaskFabric with the runs of collaboration graphs and the
janitor, each call into the fabric and each use of `activeCollabRuns` a step, so
that the kernel may act between any two of them. The kernel is less determined
here than in KernelScheduler: any holder of a token may start, yield, complete,
fail, renew or give back a task whose dependencies had completed when a drain
looked (they may be deleted by the time it acquires). A run treats its nodes in
the order of the submission, the model in any order.

**ExecutionQuantum** looks inside one such quantum: the conversation it decodes
from the checkpoint, the tool calls of one round, and what it yields. It keeps of
the fabric only whether the task is still held. READY and SUSPENDED are merged
(both are taken by the next drain). Since a drain waits for all its goroutines
(`scheduler.go:391`), quanta of one task do not overlap; one that has lost its
task still runs to its end, and executors of different shapes may alternate: with a chat
client and tools, with a model only, and without a model. The last do a task by its
type, resumed or not, and what was said before is not looked at (`executor.go:354`).

**AgentFabric** has one action per lifecycle method, except that Kill is split at
its unlock into `Kill` and `SaveSnapshot`. One resource is modelled, of which an
agent claims a unit or none. **AgentRecovery** has the actors: the `spawn_agent`
syscall, chaos, the quota loop, the population loop order by order, and
RestartAgent call by call (`Find`, `Count`, `Decide`, `SpawnBody`, `Install`,
`Consume`). `retired` is a history variable; `revivals` counts what the restart
budget is meant to bound.

### 2.2 The process and its components

**ShutdownManager** has StartShutdown as a program: enter a phase, launch its
callbacks, wait for the wait group, the deadline and the grace period.
**Orchestrator** takes each component through Bind, Start, Ready, hook by hook.
**ServeProcess** composes the two with the main goroutine, the published
components and the signal. **AgentRuntime** is the older runtime for one id: a
list of entries, the launches under them, the resurrections and operators under
way, each critical section a step. Two of its history variables say what voids
its promises: `crossed`, a restart or resume that was not alone, and `doubled`,
two resurrections at a time, which the code means to exclude (section 5.3). **IPCBus** is Request, Reply and handler over
the two tables of `bus.go`, with the buffered reply channel and the nil sentinel.

**AgentLoop** is `Agent.Run`: the session it creates, the loop of
`Engine.Run` with its three budgets, the batch of tool calls one by one, human
approval, tool discovery, and the session memory with eviction, expiry, deletion
and stop. A message (**Conversation**) is its role, the tools it calls and the
call it answers. **WriteBuffer**, **EmbeddingQueue**, **EventArchive**,
**MCPManager**, **LLMResilience**, **RetrievalSearch**, **SessionLease**,
**WeightedSemaphore**, **WSHub** and **DashboardAgents** each say in their header
which steps are atomic and what is left out. In **MCPManager** a connect registers
its tools one by one, beside the manager's lock, and may fail in the middle (a
schema that does not convert); RefreshTools does the same in one step, as it holds
the lock and one tool's registration does not touch another's. In
**EmbeddingQueue** a row's key and its `task_id` are two things: the updates go by
the id, which the write buffer leaves empty and only Reconcile fills in. In
**AgentLoop** every run has a session of its own: the id is the agent's name and
the clock in nanoseconds (`manager_impl.go:316`), and two runs of one agent that
read the same nanosecond, who would share a session, are left out.

### 2.3 Graphs and evolution

**MutableDAG** has the operations of the graph as operators from a graph and a
heap of Steps to a graph, a heap and success: the edges and the Steps' DependsOn
lists are two accounts, and clones share Steps. **WorkflowGenome** runs mutation
operators as programs of those calls. **RecoveryPatcher** applies and undoes
patches of recovery policies while steps are inserted into and removed from the
graph it was given; `newSteps` are those that were not there when a patch was made.
**CandidateRelease** has the releasers, the other sources of patches, the
coordinator's Evaluate between its critical sections (the history, the delayed ones
and the decision are three), canaries and the profile store. **GraphRun** is one
RunGraph over any snapshot, or one subgraph, whose rounds start without
`validateGraph` (`graph_run.go:261`, `:279`); to the run around it a subgraph is a
node that succeeds or fails.
**EvolutionScheduler** starts, cancels and ends cycles.

## 3. What is checked

| Run | Question | Instance |
|---|---|---|
| `sched_chain` | Is work credited once, are retries exact, does the dependency gate hold, do held tasks move on? | a 2-quantum task with one retry and a task that depends on it and has no limit of retries (MaxRetries 0), 2 configured agents |
| `sched_peer` | Are load slots, metadata and bindings kept when preemption, the sweep, deletions, kills and recovery interleave with the quanta? | 2 independent tasks of different priority, 1 agent of an Agent Fabric, one dead at a time |
| `collab` | Do runs of collaboration graphs see their tasks, do deleted ones stay away, and is nothing left behind? | a graph of 2 parallel nodes and one that is a cycle, 1 agent, 2 acquisitions, 2 attempts |
| `parts` | The safety of nineteen components, the Task Fabric by itself among them | see below |
| `live` | The promises of five components that something happens, and the safety of request and reply | see below |
| `sched_stale`, `genome_alias`, `llm_probe`, `embed_breaker`, `embed_claims`, `graph_skips`, `mcp_ghosts` | Does the code do what its comments say? It does not: section 5. | as small as the case allows |

**Composition.** The components of `parts` and of `live` share no state in the
program, so a product of them would show nothing that each of them alone does
not. The variable `part` names the one a behaviour is about; the others rest in
their initial state. Components that do share state are composed properly:
KernelScheduler and CollabGraph over TaskFabric, ServeProcess over ShutdownManager and
Orchestrator, AgentRecovery over AgentFabric, WorkflowGenome over MutableDAG.
In `live` the fairness of a component is stated on its steps under the guard
`part = ...`, so that resting components owe nothing.

Safety (`sched_chain`, `sched_peer`, `collab`, `parts`, and `StashIsExact` in `live`):

* `StaleTokenStaysStale`: a token that stopped opening its task never does again.
  `RefinesPromise`: the refinement of TaskPromise.
* `CompletedWorkIsWhole`: a task completes with each quantum credited exactly
  once, though quanta are preempted, run twice and finish late.
  `RetryBudgetIsExact` (a task fails for good at its limit, neither before nor
  after, and never where the limit is zero), `DependenciesFirst`, `MetadataSurvives`, `LoadIsExact`
  are exact accounts on all paths, panics included. `BindingHasExecutor`: nobody
  leaves a binding behind that points nowhere (a bound task is offered to nobody
  else).
* `RunSeesItsNodes`: the janitor takes nothing that a run still has to read, though
  it looks at the tasks, at the runs and at the state in separate critical
  sections; and what a run reports is true of its nodes. `NothingStartsAfterwards`:
  a node that was not begun when its run returned never is, whatever a drain had
  in its hands.
* `ConversationIsWhole`: a quantum continues exactly the stored conversation,
  within the budget of rounds, and never stores half a batch of tool calls.
* `QuotaIsExact`: what is allocated is what live agents hold, though a retired
  agent may be killed again and an identity may live several times.
* `OperatorDecisionHolds`, `NoOrphanRuns`: of the older runtime, with resurrections
  that were decided before the operator spoke. Both hold as long as no restart or
  resume crosses another call and no two resurrections overlap.
* `PhasesAreOrdered`, `ComponentsAreOrdered`: of shutdown and bootstrap, with hooks
  that fail, panic and hang.
* `StashIsExact`: an error handed to a caller belongs to it, and what stays in the
  table came too late. `NoClientIsLost`: an open MCP connection always has
  somebody who will close it. `WritesAreAccountedFor`: no write is flushed twice
  or vanishes uncounted while the buffer is open. `SemaphoreIsSound` and
  `ArchiveIsWhole` are the exclusions of slot holders and archive workers. (That of
  session owners, `LeaseIsExclusive`, is proved.) `RescuedIsClaimedOnce` is that of
  embedding workers for the rows that Reconcile puts in, which have ids of their
  own; for those of the write buffer it fails (`embed_claims`, section 5.1).
* `RequestIsWellFormed`: every request of the agent loop answers each tool call
  once and in order, and offers no tool twice. `MemoryHasNoGaps`: a session that
  memory still has is whole, although sessions go while runs use them.
* `GraphsAreAcyclic`, `RollbackRestoresEdges`, `UndoIsExact`, `PromotedStaysStable`,
  `OldCyclesAreTold`: of the evolution side. `LeftoversWaitOnEachOther`: a graph
  run that ends without an error leaves behind only nodes that wait for each
  other (in a subgraph, also for a node that does not exist: section 5.4).
* `ClosedIsOutOfReach`: the hub closes a client's channel only when nobody can
  send to it any more. `NoStepIsSkipped`: a resurrected dashboard agent begins no
  later than its predecessors got.

Liveness (`live`, and one each in `sched_chain` and `collab`):

* `HeldTaskMovesOn`: a task that somebody holds is sooner or later held by nobody
  or finished, in whichever state and however its goroutine ended (the disjunct
  `epoch = MaxEpoch` is there because the bound on acquisitions stops the
  exploration at that point).
* `GraphLeavesNothing`: a submitted graph's run returns, and its tasks go, those
  that were in somebody's hands when it returned included.
* `DeadAgentReturns`: the older runtime brings a dead agent back unless an
  operator, the restart limit or the runtime's Stop forbids it.
* `EveryRequestReturns`: a caller of Request gets a reply, an error or its timeout.
* `BreakerAdmitsAgain`: an open circuit breaker is not open for ever, though a
  probe may be lost.
* `MemoryStopEnds`: Stop of the production memory manager ends, with a database
  that fails and writers that go on.
* `SignalEndsTheProcess`, `PublishedIsTornDown`: a signal leads to the end, with
  callbacks that hang, and everything that was published by then is stopped.

### 3.1 Bounds

| Bound | Value | Why it is enough |
|---|---|---|
| `MaxEpoch` (acquisitions) | 4 in `sched_chain`; 2 in `sched_peer`, `parts` and `collab` | the first holder and the thief or the task's next life: tokens are compared for equality only; in `sched_chain` both quanta and two retries |
| `MaxAttempts`, `TTL` | 2 (3 in `sched_chain`), 1 | one retry and its exhaustion, and with an unlimited budget two failures beyond the other's limit; a lease that is fresh or expired (`SessionLease` has 1 and 2 over a horizon of 5) |
| `MCEnvelopes` | one step more than a task needs | so that crediting a quantum twice is visible |
| `MaxDeaths`, `MaxKills`, `MaxRestarts` | 1 or 2, 2, 1 | a second death of the same identity, and one beyond the budget |
| `Base`, `MaxNodes`, `MaxForwards` | 3, 4, 2 | a cycle through a new node; a patch over a patch |
| `GraphSnapshots` | every acyclic graph over 3 nodes, a cycle, a diamond, a refused graph, a subgraph with edges to and from a node that is not there | all joins, skips and cascades of 3 nodes, router jumps, the iteration limit of 2 |
| `RestartLimit`, `MaxTries` | 1, 2 (code: 10, 5); 2 operator commands | below, at and (by an operator) above the limit |
| `CollabRuns`, `TasksOf` | 2 graphs, 2 nodes and 1 | siblings in flight when one fails or the deadline passes, and a refused submission |
| `BatchSize`, `FlushRetries`, `MaxWrites` | 2, 1 (code: 3), 4 | a full batch, a timer's batch, a requeue and a write after it |
| `MaxVersion`, `Threshold`, `KeepRecent`, `MaxRounds`, `ArchiveRuns` | 3, 2, 1, 2, 2 | a threshold reached twice, a full directory, one restart |
| `LeaseWorkers`, `SemCallers`, `SemBurst` | 3, 3, 2 | a heavy waiter with light ones passing it |
| `SendCap`, `HubCap` | 1, 1 (code: 256) | every channel is full at once |
| `DashSteps`, `MaxDashAgents`, `MaxResurrections` | 2, 3, 2 (code: 3) | a death before, between and after the steps, and one resurrection too many |
| `MinInterval`, `MaxCycles`, `EvoHorizon` | 2, 3, 4 | a cycle within the interval and one after it |
| `LoopMaxIter`, `LoopMaxTokens`, `MaxCalls` | 2, 1, 2 for one run and 0 for the other | each of the budgets ends a run, and a run ends without any |
| `MaxSessions`, `SessionTTL`, `LoopHorizon` | 1, 1, 2 | every new session evicts another; one in use expires, and a run that touched it does not |
| `MaxToolRounds`, `MaxBatch`, `QuantumRetries` | 3, 2, 2 | a batch interrupted in the middle, the round limit across quanta |
| `Components`, `Callbacks` | 2 and 3 in `parts`, 2 and 2 in `live` | one component needs the other and may be degraded; hooks of one and of several phases |
| `MaxConnects`, `Tools` | 2, 1 | a client and the one that replaces it; a tool that both have, that changes or that cannot be made |
| `FetchLimit`, `MaxEmbedRetries`, `Embedders` | 1, 1, 2 | two workers on one row, a retry and the dead letter |
| `MaxPatchesPerMinute`, `MaxProposalRetries` | 1, 1 | a patch refused by the rate, one retried |

### 3.2 Fairness

`SchedFairSpec` assumes that time passes, that the poll ticker of
`Scheduler.Run` drains, that `runKernelRecoveryLoop` sweeps for as long as the
kernel runs, and that a goroutine that can step steps. Nothing is assumed of
agents, operators, chaos or the preemption watcher. `CollabFairness` assumes the
same sweep and clock, that a quantum ends, that the janitor's ticker ticks, and of
a run that it goes on and that its `select` does not choose the ticker for ever
when its deadline, which the code always gives it, has passed.

`LiveFairness` assumes for each component what its own goroutines and timers
guarantee: the runtime's health ticker, its consumption of death notices and the
steps of goroutines that were launched; for a Request the caller's steps, which
include its timeout, and nothing of the handler; for the breaker that its
timeouts pass; for the buffer that its loop steps. Two are strong: the `select`
of the buffer's loop chooses at random among its ready cases, so it does not
ignore a cancelled context for ever, and Stop contends for a mutex and a channel
that writers use too. For the shutdown it assumes the manager's own steps, its
deadlines included, and not that a callback returns. The runtime promises
nothing about operators beyond that a call under way is finished.

Deadlock is checked in the kernel's runs. It is off in `parts`, `live`, `collab` and in
the runs of section 5 about them, where a component really stops: after
Stop, at the end of a run (`collab` ends when every graph has returned) or with
every bounded input used.

### 3.3 Defined and not checked

The modules define more properties than the runs check. Some are proved instead
(section 4). The module type invariants are conjuncts of the inductive invariants
where there is a proof. Others state what a comment says and are false of the
code; they document the entries of section 5 that have no run
(`OrderIsComplete`, `RateIsNearlyKept`, `NoBindingOutlivesItsTask`,
`ReplacementRunsItsTask`, `BoundUntilDone`, `RetiredStaysRetired`,
`PolicyTakesEffect`, `NoDuplicateResurrection`, `AppliedIsReleased`,
`CacheStaysInLimit`, `NoCallbackRunsTwice`, `RejectedStaysOut`,
`StopFlushesBuffered`, `CompletedIsEmbedded`, `UnregisterRemoves`,
`OldestRoundsAreDeleted`, `AnalysisSeesEveryStep`, `NoStepTwice`, `CyclesAreSpaced`, `OneCycleAtATime`).
`SilentHolderLosesTask`, `RunEnds`, `EveryResultIsTold`, `ProgressIsNeverLost` and
`StopWaitsForAll` hold on the same instances and were left out of the runs for
stronger neighbours.

## 4. What is proved

For every value of the constants, from the assumptions the modules declare on
them. Each proof reduces the specification's next-state relation to one case per
action.

**TaskFabricProofs.** `TypeCorrect`; `Fencing` (OwnerMatchesLease and
EpochIdentifiesGrant, of which `GrantsAreUnique` is a corollary). Neither is
inductive alone: that a fresh epoch names nobody else needs every granted epoch
to be at most the counter, and that a held task's lease is a granted token needs
the uniqueness; `FencingInv` is their conjunction with the types.
`StaleStaysStale`: under FencingInv a step leaves the holder of a task as it is,
disowns it, or gives it an epoch above all granted ones (`HolderSteps`), and in
each case a token that does not open the task still does not. `CheckpointSurvives`
and `LogFollows` follow from the types, action by action. `KeepsPromise` is the
refinement of TaskPromise.

**SchedulerProofs.** `ImplementsFabric`: every step of the scheduler is a step of
TaskFabric or leaves it alone, so SchedSpec implements Spec and all of the above
holds of it. On top of FencingInv the inductive invariant `SchedInv` has the types
of the locals and of the population, `WorkInv` and `DepInv` for each task,
`BindingHasExecutor` and `OneDrain`. Its core (`GoroutineInv`): only the goroutine
of a task acquires it, so one that is past Acquire either still finds the task
RUNNING or finds it without an owner, and the snapshot it works on has the
task's metadata and unfinished work. `CheckpointInv` alone is not inductive: a
yield stores what the goroutine made of its snapshot. From it: `WorkIsWhole`, `MetadataKept`,
`RetriesAreExact`, `DependenciesHold`, `BindingsHold`. `LoadsAreExact` counts
goroutines with Cardinality and assumes that there are finitely many tasks.

**CollabProofs.** `CollabUsesFabric`: runs, janitor and kernel use the fabric only
through its operations. `RunsSeeTheirNodes` and `NothingStarts` follow from
`CollabInv`, on top of FencingInv: for each run, that it is marked exactly while it
is under way, that its tasks exist as far as it has created them, that what it no
longer waits for has settled, and that what its cleanup left was begun. The
argument against the janitor's check-then-delete is `JanitorWaits`: a task the
janitor knows of exists, so its run has marked itself, and one that passed the
check is of a run that has unmarked itself, for good as run ids are unique. Neither
property is inductive: both need where the run is and what the log says of a
settled task (`SettledIsLogged`).

**AgentProofs.** `OneCall`: every step of every actor is at most one call into the
Agent Fabric, which reduces the rest to a case per fabric operation.
`TypeCorrect` bounds the quota counter by the largest budget; `QuotaBalances`:
QuotaIsExact is inductive with the types, and `Released` is the step Kill and
Retire share; `RevivalsBounded` follows from `EveryRevivalIsCounted` (a revival
and the one under way are paid for in the counter), which is inductive where the
bound is not. Of the older runtime: `DecisionHolds` and `OrphansNone`. A launch
that lives is the current entry's, or some call is about to end it, but only if one
knows where each call stands (`CallPlace`): a resurrection past its begin works on
the current entry and, past its quiesce, that entry's launch has ended; a restart
holds the current entry's own cancel function. That an agent which an operator has
ended stays so rests on `Ending`: its launch has ended or a call that will end it
is under way.

Of what agents say: `RequestsWellFormed`, `MemoryWhole`, `ConversationWhole` and
`ProgressKept`. In the middle of a batch of tool calls a conversation is not one a
provider accepts, so the invariant says what it is then (`Batch`): nobody has spoken
since the answer at p, its calls are answered as far as they are done, and every
earlier answer is settled. `BatchBegins`, `BatchGoesOn` and `BatchEnds` lead from one
request to the next, for the SDK's loop and for the fabric's quanta alike. For the
session, that it has all that is persistent, up to the answer in the runner's hands
(`SessionHas`). Everything that a conversation is compared by is a definition over
the places of a sequence (`Answers`, `Picked`) and not a recursive one, so that
`RanksAreDense`, by counting and without induction, says what is picked.

**LifecycleProofs.** `PhasesInOrder`: a phase of the shutdown is left only with an
empty wait group and no failure, so what a call has left running or failed is in
the phase it stands at (`CallOrdered`). `ServeUsesShutdown`: every step of the
process is a step of the shutdown manager or leaves it alone.
`ComponentsInOrder`: an order lists every component once, dependencies first; at
each moment the components up to a place in it are live, and those behind it are
not or have refused to stop (`LiveUpTo`). Start and Shutdown may have computed
different orders. `CyclesAreTold`: whoever starts a cycle has told the one
before, and Shutdown cancels only when the loop that starts them is over.
`NothingIsSkipped`: a resurrected agent counts only what its direct predecessor
recorded, and that is never more than the predecessor has behind it.
`PromotedIsShown`: between the gate and the promotion lie several critical sections
of up to two goroutines; `ReleaseInv` says where a worker can be and with what, that
at most one admitted candidate aims at a role, and that what was applied is in that
role's profile.

**ConnectionProofs.** `StashServesItsCaller`: `Sound(r)` relates for one request the
caller's place, the pending entry, its channel and the stash; the requests do not
disturb each other. `ClientsAreKept`: every open client is the managed one or in
the hands of a connect or a teardown that closes it. `NobodySendsToClosed`: a
client passes through the register channel, the hub and the unregister channel at
most once each, in whatever order the loop handles them (`EveryClientInPlace`), and a
closed one is in no subscription.

**ResourceProofs.** `LeaseExclusive`: a worker that believes it holds the session is
backed by the stored lease until its own deadline (`BeliefIsBacked`), and two
stored leases cannot be. `RescuedClaimedOnce`: a row of Reconcile has the id of its
chunk, which is the table's primary key and not empty, so an update of another row
never reaches it; of the rows with the empty id nothing is claimed, and nothing of
the kind is true (section 5.1). `SemaphoreSound`: the units held
are counted with Cardinality (`UnitsMove` says by how much a key's change moves
the count), so that what is available and what is held make up the burst.
`WritesAccounted`: an item is in one of five places and in no queue twice;
`ItemsInPlace` says which place while the loop gathers, flushes and requeues.
`ArchiveWhole` holds for writers that keep more than one round: one that keeps a
single round deletes the last round archived just before the next takes its place.
Its invariant has a part on compaction, which holds with trimming (what a worker is
about to trim is covered by saved summaries), and one on the rounds, which holds
without: a worker's round begins right after a boundary that was committed, two
records of one round are equal and those of consecutive rounds join (`FactsJoin`),
and the files on disk are the last ones written.

**GraphProofs.** `GraphInv` joins the bookkeeping of a round, that what has begun is
running or settled, and that what has started saw its sources settle in earlier
rounds. `JoinIsAll` (for graphs without a router), `SkippedStaysOut` and
`OnlyCyclesAreLeft` follow, for whole graphs and for subgraphs that nobody has
validated. `GenomeIsAcyclic`: an edge to a node from which its
start cannot be reached closes no cycle (`AcyclicWithEdge`), and removals keep it
so; acyclic is said by closed sets of nodes, so that no induction over paths is
needed. `SwapIsUndone`: the log of a swap's calls leads, through acyclic sets of
edges, from those it found to those of the child (`Logged`); the rollback walks that
log backwards, so none of its own calls can fail. `UndoExact`: the stack
of undo patches leads from the policies now to those at each earlier point
(`LeadsTo`), field by field, also for steps without a policy, for nodes that are
gone and for steps inserted since, of which the older patches know nothing
(`Unaware`).

**Found on the way.** A proof needs an invariant of every reachable state, also
beyond the bounds of the runs. For the runtime there was none at first: with a
second death and without a restart limit, two resurrections overlap and leave an
orphan, as section 5.3 says of the code. `NoOrphanRuns` and `OperatorDecisionHolds`
name that exception since. The assumptions `Components # {}` (Orchestrator), on the
limits and sources of CandidateRelease, and that the genome's first steps are
finitely many (WorkflowGenome) were needed and say what every configuration has.

Every invariant and every action property of the passing runs is proved. Only
model-checked:

* Everything about liveness (eight properties of `live`, `sched_chain` and `collab`),
  which needs fairness and ENABLED.
* The disagreements of section 5, which are counterexamples.

## 5. Where the source says one thing and does another

### 5.1 With a run that shows it

* `sched_stale`: a stale winner's lease is kept though a live agent could take the
  task, as configured agents are skipped on both counts
  (`executor_registry.go:112` against `scheduler.go:567-570`).
* `genome_alias`: a clone shares its parent's Steps, so an edge changed in one
  rewrites the dependencies of the other and the next clone loses nodes
  (`workflow_genome.go:530` against `:524` and `workflow_genome_test.go:91-92`).
* `llm_probe`: a probe that fails is refused its own retry and the refusal is
  returned without a report (`resilience.go:253` against `:268-270`).
* `embed_breaker`: every admitted search is reported as a success, so failures
  never open the breaker (`retrieval_search.go:54` against `circuit_breaker.go:26`).
* `graph_skips`: the edges out of a skipped node never die, so its successors run
  on them (`graph_run.go:167` against `graph.go:148` and `graph_run.go:341`).
* `embed_claims`: a task is in the hands of two workers, because the report on one
  task goes to every task with its id, and the write buffer gives all of them the
  empty one (`write_buffer.go:361` against `embedding_queue.go:153`).
* `mcp_ghosts`: a replaced client's tools stay registered for ever
  (`ares_mcp/manager.go:211` against `:117`).

### 5.2 Kernel

* A replacement bound after its task has finished is never unbound
  (`executor_registry.go:42` against `scheduler.go:680-682`); an agent revived for
  one task may be the winner another chose before it died (`scheduler.go:562`
  against `executor_registry.go:30-31`); reconciliation drops a binding made after
  it had looked (`scheduler.go:713` against `kernel_loop.go:187-189`).
* Kill accepts a retired agent and leaves a snapshot that recovery revives
  (`lifecycle.go:273` against `:220-221`, `:252-253`). A policy stops for ever at an
  order that cannot succeed (`chaos.go:150` against `evolution_population.go:87-89`).
* `task.go:40` calls MaxRetries 0 "no retries"; the code treats 0 as unlimited.
  `RestartPolicy.MaxRestarts` says "0 = no restart"; `New` puts in the default.
  `recovery.go:234` says only deaths use up the restart budget; a refused spawn
  does too. `evolution_population.go:102` calls Apply idempotent; a spawn without
  an identity makes one more agent per tick.
* `scheduler.go:350-351` says that a preemption makes room for the urgent task; the
  preempted goroutine keeps its semaphore slot until it returns, and an urgent
  task nobody can run makes the watcher preempt at every interval. Two goroutines
  of one drain choose from loads read before (`scheduler.go:607`), and one agent
  gets two quanta.
* Renew extends the lease of an expired, not yet swept, and of a finished task
  (`fabric.go:298`). Events reach the external sink after the unlock and may
  arrive in another order (`fabric.go:601`). A READY task whose only capable agents
  died is never looked at by recovery (`kernel_loop.go:290`). The revived body may
  die between Recover and ClearSnapshot, or before Recover, and lose its cognition
  (`recovery.go:260`, `lifecycle.go:283`).

### 5.3 Agents and their runtimes

* A failed and requeued quantum announces its task again, and one that lost its
  task announces completion (`agents/sub/agent.go:343-346`: once and finalized
  once). The action log keeps the first entry of `"task:" + taskID`, so a task that
  failed first stays failed in it (`agent.go:437`).
* `ExecuteStep` takes the active tools as the gate to the tool loop although
  `executor.go:580-587` says that filter "must not flip the executor into text-only
  mode". With retryOnFail, a validation failure leaves no error to wrap, and the
  blocked retry returns success with nothing (`executor.go:514-521`). The tools of
  a quantum whose yield is refused run again in the next one.
* The engine stores the calls of an assistant's message and never their results;
  a session in use may be evicted or expire and the error of AddMessage is
  ignored; the final answer is discarded when its call reaches the token budget;
  one fallback of `sdk/discovery.go` drops the syscall tools it says all keep.
  Start of the memory manager after Stop returns nil and restarts nothing.
* `ProcessStream` returns to Ready while its goroutine runs, so a second stream is
  admitted; Process that ends after Stop makes a stopped agent Ready, and the next
  Stop closes `stopCh` twice.
* Older runtime: resurrections of one id overlap and lead to orphans and
  undone stops (`ares_runtime/manager.go:610` clears the flag on whichever entry is current,
  against `:30-31`); a pause that crosses a restore leaves the stopped mark; the
  first attempt has no backoff though a comment says about 1 s.
* IPC: requests pending at an unregistered agent wait for their timeout
  (`bus.go:100-101` says they fail); a cancelled one returns the context's error, not
  ErrTimeout (`primitives.go:50-52`); an error stashed after its caller has left
  stays in the table (`:98`). Session leases:
  Get (Before) and Acquire (After) disagree at the instant of expiry, Renew revives
  an expired lease, Count counts expired ones.

### 5.4 Evolution, workflows, graphs

* A failure ends a graph run after its round and the failed node's edges never die
  (against "does not cancel sibling branches"); function nodes merge every key of
  their copy of the state back (against "any keys the function wrote").
* `ReplaceNode` with another ID adds no DependsOn (`mutable_dag.go:622-626`); the
  rollback of Parallelize may fail; the mutation's node id is always `wf-mut-1`, so
  a second insertion collides. A subgraph is not validated: a node behind an edge
  from a node that does not exist is neither run nor skipped, and the subgraph
  counts as done (`graph_run.go:261`). Undoing patches out of order loses another patch's
  field.
* When another source's Evaluate decides on a candidate, its releaser may not find
  the decision, and a candidate that was to be applied is never released
  (`candidate_pipeline.go:202-217` against `:30-31`); a rejected one's text may
  stay in the stable region; SetStable keeps a pointer into the candidate; the rate is read and
  counted in separate critical sections (`coordinator.go:454`).
* Cycles follow each other more closely than `scheduler.go:68-72` says (lastRun is
  stamped at the end of a success), two may run at once (`:285-286`), the branch for
  100 scores cannot be reached with a window of 50 (`:151-152`).
  `provide_new_evolution.go:97` gives no agent pool, and a random choice from it
  has no alternative.

### 5.5 Storage, services, process

* Write buffer: the manager cancels the context before it stops the buffer, and
  what is in the channel is lost (`write_buffer.go:392`); a requeue may send on a
  closed channel; Start after Stop is always refused. Embedding tasks share an id, so
  completing one also completes all others that are in hand. The dead letter INSERT names a
  column that does not exist, MarkFailed's "exponential backoff" has none.
* Archive: rounds start at 1 again after a restart, so rotation deletes the newest
  records (`writer.go:187` against `interfaces.go:14`, "the oldest rounds are
  deleted"). With trimming, a round still open may be trimmed before its end, and a
  drain that finds a round claimed returns with more of them pending
  (`compactable_store.go:387-393`). The SQL event store's poll leaves its cursor
  behind after a full batch and skips late commits.
* Breakers: successes of stale attempts count as probes; the in-flight count of
  the embedding breaker may become negative (`circuit_breaker.go:118`); the cache
  exceeds its limit (`retrieval_embedding.go:53`). Failover: a slow success clears
  a fresh cooldown, a short one overwrites that of a rate limit, the caller's own
  cancellation cools every provider.
* MCP: a connect whose third tool cannot be made closes its client and leaves the
  first two registered (`ares_mcp/manager.go:213`); a failed refresh restores the tools and forgets their names; one that ends
  after Disconnect registers the tools of a closed client; a ConnectServer during
  Stop leaks its client.
* Dashboard: an unregister handled before its register leaves a ghost client; an
  agent the operator kills is resurrected; a resurrected agent's analysis lacks
  what its predecessor gathered ("accumulate results"), and a step may run twice
  ("Skip steps that were already completed").
* Shutdown: with two callers a callback runs twice (`ares_shutdown/manager.go:113`); a phase that
  times out means that Force and Done never run; a Stop hook that ignores its
  context blocks the orchestrator (`:217`).

## 6. Not modelled

The repository has about 178,000 lines of implementation in 849 files; the map
names about 9,500 of them. The rest is left out for reasons of four kinds.

* **No state whose steps interleave.** API types and protocol conversions
  (`compat`, `api`), configuration and wiring (`ares_bootstrap`, `ares_config`, most
  of `cmd`), HTTP handlers, the dashboard's presentation and metrics, prompts and
  their parsing, the tools themselves (files, shell, web), the skill catalog,
  logging and tracing. Their correctness is a matter of text and formats.
* **Numeric or statistical.** Genetic search, scoring, selection, distillation,
  ranking, evaluation and benchmarks. Where a modelled part depends on one (who
  wins a task, whether a cycle succeeds, whether a candidate is fit) the model
  chooses freely, so what it shows holds for any score.
* **In the database.** The repositories of `storage/postgres`, the SQL event store
  and the knowledge and memory stores are statements whose atomicity is that of
  the database. Two that carry a protocol of their own, the write buffer and the
  embedding queue, are modelled.
* **Unreached.** Parts without a caller outside tests, among them the plain
  semaphore's limiter, the dispatch tracks, `patch.Registry.ApplySet`, compaction on
  request.

What state machines remain, in the order in which they would come: the failover
between model providers with its cooldowns; the agent-to-agent protocol (queue
with its backup buffer, dead letters, heartbeats); Send, Broadcast and Subscribe
of the IPC bus; the workflow reloader and the patches of the static graph
(`internal/workflow/graph`); the Agent Fabric's cognition under the scheduler, so
that a lost snapshot shows as lost work; the event log handed to the sink, and
its replay as a refinement of TaskFabric.

## 7. Running it

    tlc -workers 2 -config Scheduler_chain.cfg   MCKernelScheduler.tla
    tlc -workers 2 -config Scheduler_peer.cfg    MCKernelScheduler.tla
    tlc -workers 2 -config Collab.cfg            MCCollabGraph.tla
    tlc -workers 2 -config Parts.cfg             MCParts.tla
    tlc -workers 2 -config Live.cfg              MCLive.tla
    tlapm SchedulerProofs.tla

The other proof modules are TaskFabricProofs, CollabProofs, AgentProofs,
LifecycleProofs, ConnectionProofs, ResourceProofs and GraphProofs. `PROJECT.json` lists for each run its
module and configuration, and for each property a mutation of the model (a
plausible bug of the code, defined just before the operator it replaces) under
which the run fails.
