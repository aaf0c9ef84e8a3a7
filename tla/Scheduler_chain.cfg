SPECIFICATION SchedFairSpec
CONSTANTS
  t1 = t1
  t2 = t2
  a1 = a1
  a2 = a2
  Nil = Nil
  Tasks = {t1, t2}
  Agents = {a1, a2}
  Checkpoints <- MCEnvelopes
  Deps <- Chain
  Priority <- Even
  MaxRetries <- ChainMaxRetries
  Quanta <- MCQuanta
  PeerMode = FALSE
  Configured = {a1, a2}
  Capable <- Everyone
  TTL = 1
  MaxEpoch = 4
  MaxAttempts = 3
  MaxConcurrent = 2
  MaxDeaths = 1
INVARIANTS CompletedWorkIsWhole RetryBudgetIsExact DependenciesFirst
PROPERTIES HeldTaskMovesOn
