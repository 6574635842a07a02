CONSTANTS
    NumFlows = 7
    MaxFlowsPerFile = 2
    MaxLives = 4
    DbMayFail = TRUE
SPECIFICATION Spec
CHECK_DEADLOCK FALSE
INVARIANTS
    RowsNumbered
    OneLifePerFile
    LostOnlyInLastFile
PROPERTIES
    DumpedTraceKept
