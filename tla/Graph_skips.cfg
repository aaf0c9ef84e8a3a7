SPECIFICATION GraphSpec
CONSTANTS
  gA = gA
  gB = gB
  gC = gC
  gD = gD
  GraphNodes = {gA, gB, gC, gD}
  GraphMaxIter = 2
  NoNode = NoNode
  GraphSnapshots <- MCSnapshots
CHECK_DEADLOCK FALSE
INVARIANT SkipsCascade
