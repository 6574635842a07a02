SPECIFICATION Spec
CONSTANTS
  Base = 4
  Depth = 2
  WordBits = 2
  ELEM_NUM_EACH_NODE = 2
  Keys = {1, 4, 6}
  MaxItems = 3
  MaxQueries = 1
  NULL = NULL
  Ranges <- MCRanges
  JunkPositions <- MCJunkPositions
  JunkValues <- MCJunkValues
INVARIANTS
  FileQueryExact
  FailsOnlyIncomplete
PROPERTIES
  MemQueryExact
CHECK_DEADLOCK FALSE
