SPECIFICATION MCPSpec
CONSTANTS
  Tools = {search}
  Builtin = {}
  MaxConnects = 2
  NoClient = NoClient
INVARIANTS NoServerNoTools
CHECK_DEADLOCK FALSE
