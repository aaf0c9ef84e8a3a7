SPECIFICATION FairCollab
CONSTANTS
  n1 = n1
  n2 = n2
  n3 = n3
  fanout = fanout
  ring = ring
  Nil = Nil
  Tasks = {n1, n2, n3}
  CollabRuns = {fanout, ring}
  TasksOf <- MCTasksOf
  Deps <- MCCollabDeps
  Priority <- MCCollabPriority
  MaxRetries <- MCCollabRetries
  Agents = {ag1}
  Checkpoints = {cp1}
  TTL = 1
  MaxEpoch = 2
  MaxAttempts = 2
CHECK_DEADLOCK FALSE
INVARIANTS RunSeesItsNodes
PROPERTIES NothingStartsAfterwards GraphLeavesNothing
