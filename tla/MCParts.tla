------------------------------ MODULE MCParts ------------------------------
(***************************************************************************)
(* Components that are used one by one and share no state, each explored   *)
(* on its own from its own initial states: part says which one a behaviour *)
(* is about, and the others stay where they start.  Their product would    *)
(* show nothing that the sum does not.                                     *)
(***************************************************************************)
EXTENDS WorkflowGenome, RecoveryPatcher, SessionLease, WeightedSemaphore,
        MCCandidateRelease, EventArchive, AgentRecovery, EmbeddingQueue,
        MCPManager, AgentRuntime, WriteBuffer, MCGraphRun, WSHub,
        DashboardAgents, EvolutionScheduler, MCServeProcess, AgentLoop,
        ExecutionQuantum, TaskFabric

CONSTANTS t1, t2, heavy, peerA, agentR, agentS, text1, text2, q1, q2

VARIABLE part

partsVars == <<part, genome, patcherVars, leaseVars, semVars, releaseVars, archive,
               recVars, queue, mcp, runtime, buffered, graphVars, hub, dash,
               evolution, process, agentLoopVars, exec, vars>>

-----------------------------------------------------------------------------
\* The fabric: t2 depends on t1; t1 has two attempts, t2 one.
FabricDeps     == [t \in Tasks |-> IF t = t2 THEN {t1} ELSE {}]
FabricPriority == [t \in Tasks |-> IF t = t2 THEN 1 ELSE 0]
FabricRetries  == [t \in Tasks |-> IF t = t1 THEN 2 ELSE 1]

\* One caller asks for the whole burst.
MCSemWeight == [c \in SemCallers |-> IF c = heavy THEN 2 ELSE 1]

\* A policy that wants the peer and retires a spawned agent.
Shrink == <<[op |-> "spawn", id |-> peerA], [op |-> "retire", id |-> agentS]>>

\* A run that calls tools, and one that only talks.
MCMaxCalls == [r \in AgentRuns |-> IF r = q1 THEN 2 ELSE 0]

-----------------------------------------------------------------------------
PartsInit ==
  /\ part \in {"genome", "patcher", "lease", "semaphore", "release", "archive",
               "agents", "embedding", "mcp", "runtime", "buffer", "graph",
               "hub", "dashboard", "evolution", "serve", "loop", "quantum",
               "fabric"}
  /\ IF part = "genome" THEN GenomeInit ELSE GenomeStart({})
  /\ IF part = "patcher" THEN PatcherInit ELSE PatcherStart({}, {})
  /\ IF part = "release" THEN ReleaseInit ELSE ReleaseStart([r \in ProfileRoles |-> Workspace(c1)])
  /\ IF part = "archive" THEN ArchiveInit ELSE ArchiveStart({FALSE})
  /\ IF part = "graph" THEN GraphInit ELSE GraphStart({Refused})
  /\ LeaseInit /\ SemInit /\ EmbeddingInit /\ RuntimeInit /\ WriteBufferInit
  /\ MCPInit /\ HubInit /\ DashInit /\ EvoInit /\ ServeInit /\ AgentLoopInit /\ QuantumInit
  /\ Init
  /\ RecInit /\ (part # "agents" => budget = 1)

(* A step of the component called name; the others rest.                   *)
PartRests(name, v) == IF part = name THEN TRUE ELSE UNCHANGED v
PartMoves(name, A) ==
  /\ part = name /\ A /\ UNCHANGED part
  /\ PartRests("genome", genome)
  /\ PartRests("patcher", patcherVars)
  /\ PartRests("lease", leaseVars)
  /\ PartRests("semaphore", semVars)
  /\ PartRests("release", releaseVars)
  /\ PartRests("archive", archive)
  /\ PartRests("agents", recVars)
  /\ PartRests("embedding", queue)
  /\ PartRests("mcp", mcp)
  /\ PartRests("runtime", runtime)
  /\ PartRests("buffer", buffered)
  /\ PartRests("graph", graphVars)
  /\ PartRests("hub", hub)
  /\ PartRests("dashboard", dash)
  /\ PartRests("evolution", evolution)
  /\ PartRests("serve", process)
  /\ PartRests("loop", agentLoopVars)
  /\ PartRests("quantum", exec)
  /\ PartRests("fabric", vars)

PartsNext ==
  \/ PartMoves("genome", GenomeNext)
  \/ PartMoves("patcher", PatcherNext)
  \/ PartMoves("lease", LeaseNext)
  \/ PartMoves("semaphore", SemNext)
  \/ PartMoves("release", ReleaseNext)
  \/ PartMoves("archive", ArchiveNext)
  \/ PartMoves("agents", RecNext)
  \/ PartMoves("embedding", EmbeddingNext)
  \/ PartMoves("mcp", MCPNext)
  \/ PartMoves("runtime", RuntimeNext)
  \/ PartMoves("buffer", WriteBufferNext)
  \/ PartMoves("graph", GraphNext)
  \/ PartMoves("hub", HubNext)
  \/ PartMoves("dashboard", DashNext)
  \/ PartMoves("evolution", EvoNext)
  \/ PartMoves("serve", ServeNext)
  \/ PartMoves("loop", AgentLoopNext)
  \/ PartMoves("quantum", QuantumNext)
  \/ PartMoves("fabric", Next)

PartsSpec == PartsInit /\ [][PartsNext]_partsVars
=============================================================================
