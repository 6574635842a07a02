CONSTANTS
    NumFields = 1
    NumFlows = 3
    MaxFlowsPerFile = 1
    InitialRows = 0
    InsertMayFail = FALSE
    OpenMayFail = FALSE
SPECIFICATION Spec
INVARIANT DumpedIndexesWritten
