SPECIFICATION RetrievalSpec
CONSTANTS
  Searches = {f1, f2}
  Queries = {q1, q2}
  CacheLimit = 1
  EmbedThreshold = 2
  EmbedProbes = 3
  MaxListed = 4
INVARIANT FailuresOpenTheBreaker
CHECK_DEADLOCK FALSE
