SPECIFICATION LLMSpec
CONSTANTS
  LLMCalls = {l1, l2}
  Attempts = 2
  FailureThreshold = 2
  SuccessThreshold = 2
INVARIANT ProbeFailureIsReported
CHECK_DEADLOCK FALSE
