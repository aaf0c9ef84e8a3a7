SPECIFICATION GenomeSpec
CONSTANTS
  Base = {a, b, c}
  MaxNodes = 4
CHECK_DEADLOCK FALSE
INVARIANTS CloneKeepsItsNodes
