SPECIFICATION PartsSpec
CONSTANTS
  t1 = t1
  t2 = t2
  Nil = Nil
  Tasks = {t1, t2}
  Agents = {a1, a2}
  Checkpoints = {cp1}
  Deps <- FabricDeps
  Priority <- FabricPriority
  MaxRetries <- FabricRetries
  TTL = 1
  MaxEpoch = 2
  MaxAttempts = 2
  Base = {a, b, c}
  MaxNodes = 4
  PatchSteps = {s1, s2}
  PatchValues = {v}
  MaxForwards = 2
  LeaseWorkers = {w1, w2, w3}
  LeaseTTLs = {1, 2}
  LeaseHorizon = 5
  NotLeased = NotLeased
  heavy = heavy
  SemCallers = {x, y, heavy}
  SemBurst = 2
  SemWeight <- MCSemWeight
  c1 = c1
  c2 = c2
  high = high
  low = low
  Candidates = {c1, c2}
  ProfileRoles = {writer}
  TargetRole <- MCTargetRole
  Releasers = {rel}
  Evaluators = {ga}
  Others = {high, low}
  Fitness <- MCFitness
  MaxPatchesPerMinute = 1
  MaxProposalRetries = 1
  Canary = TRUE
  NoCandidate = NoCandidate
  Archivers = {u1, u2}
  MaxVersion = 3
  ArchiveRuns = 2
  Threshold = 2
  KeepRecent = 1
  MaxRounds = 2
  peerA = peerA
  agentR = agentR
  agentS = agentS
  NoId = NoId
  Ids = {peerA, agentS, agentR}
  Configured = {peerA}
  Fresh = {agentS, agentR}
  Policy <- Shrink
  Budgets = {0, 1}
  Largest = 1
  MaxKills = 2
  MaxRestarts = 1
  text1 = text1
  text2 = text2
  Texts = {text1, text2}
  Embedders = {em1, em2}
  FetchLimit = 1
  MaxEmbedRetries = 1
  Tools = {search}
  Builtin = {}
  MaxConnects = 2
  NoClient = NoClient
  Resurrections = {z1, z2}
  Operators = {op}
  Commands = {"stop", "pause", "resume", "restart"}
  RestartLimit = 1
  MaxTries = 2
  MaxDeaths = 1
  MaxCommands = 2
  BatchSize = 2
  FlushRetries = 1
  MaxWrites = 4
  MaxMemoryStarts = 2
  gA = gA
  gB = gB
  gC = gC
  gD = gD
  GraphNodes = {gA, gB, gC, gD}
  GraphMaxIter = 2
  NoNode = NoNode
  GraphSnapshots <- MCSnapshots
  WSClients = {k1, k2}
  WSTopics = {news}
  EveryClient = EveryClient
  SendCap = 1
  HubCap = 1
  DashSteps = 2
  MaxDashAgents = 3
  MaxDashRequests = 2
  MaxResurrections = 2
  MinInterval = 2
  MaxCycles = 3
  EvoHorizon = 4
  http = http
  dashServer = dashServer
  flush = flush
  store = store
  engine = engine
  know = know
  Signal = sig
  Callers = {sig}
  Callbacks = {http, dashServer, flush}
  PhaseOf <- MCPhaseOf
  Components = {store, engine}
  Dependencies <- MCDeps
  Degradable = {engine}
  q1 = q1
  q2 = q2
  AgentRuns = {q1, q2}
  LoopMaxIter = 2
  LoopMaxTokens = 1
  MaxCalls <- MCMaxCalls
  ToolPool = {toolA}
  MaxSessions = 1
  SessionTTL = 1
  LoopHorizon = 2
  MaxToolRounds = 3
  MaxBatch = 2
  QuantumRetries = 2
  Shapes = {"chat", "text", "typed"}
  AnyTool = anytool
CHECK_DEADLOCK FALSE
INVARIANTS PhasesAreOrdered ComponentsAreOrdered OperatorDecisionHolds NoOrphanRuns GraphsAreAcyclic RollbackRestoresEdges UndoIsExact SemaphoreIsSound PromotedStaysStable ArchiveIsWhole QuotaIsExact RescuedIsClaimedOnce NoClientIsLost WritesAreAccountedFor LeftoversWaitOnEachOther ClosedIsOutOfReach NoStepIsSkipped OldCyclesAreTold RequestIsWellFormed MemoryHasNoGaps ConversationIsWhole
PROPERTIES StaleTokenStaysStale RefinesPromise
