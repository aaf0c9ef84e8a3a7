SPECIFICATION SchedSpec
CONSTANTS
  t1 = t1
  t2 = t2
  a1 = a1
  a2 = a2
  Nil = Nil
  Tasks = {t1, t2}
  Agents = {a1}
  Checkpoints <- MCEnvelopes
  Deps <- Unlinked
  Priority <- Urgent
  MaxRetries <- MCMaxRetries
  Quanta <- MCQuanta
  PeerMode = TRUE
  Configured = {a1}
  Capable <- Everyone
  TTL = 1
  MaxEpoch = 2
  MaxAttempts = 2
  MaxConcurrent = 2
  MaxDeaths = 1
INVARIANTS LoadIsExact MetadataSurvives BindingHasExecutor
