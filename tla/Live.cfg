SPECIFICATION LiveSpec
CONSTANTS
  Resurrections = {z1, z2}
  Operators = {op}
  Commands = {"stop", "pause", "resume", "restart"}
  RestartLimit = 2
  MaxTries = 2
  MaxDeaths = 1
  MaxCommands = 1
  peer1 = peer1
  peer2 = peer2
  r1 = r1
  r2 = r2
  Peers = {peer1, peer2}
  Requests = {r1, r2}
  Target <- MCTarget
  LLMCalls = {l1, l2}
  Attempts = 2
  FailureThreshold = 2
  SuccessThreshold = 2
  BatchSize = 2
  FlushRetries = 1
  MaxWrites = 4
  MaxMemoryStarts = 2
  http = http
  dashServer = dashServer
  flush = flush
  store = store
  engine = engine
  know = know
  Signal = sig
  Callers = {sig}
  Callbacks = {http, flush}
  PhaseOf <- MCPhaseOf
  Components = {store, engine}
  Dependencies <- MCDeps
  Degradable = {engine}
CHECK_DEADLOCK FALSE
INVARIANTS StashIsExact
PROPERTIES SignalEndsTheProcess PublishedIsTornDown DeadAgentReturns EveryRequestReturns BreakerAdmitsAgain MemoryStopEnds
