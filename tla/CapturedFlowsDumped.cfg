CONSTANTS
    NumFields = 1
    NumFlows = 3
    MaxFlowsPerFile = 2
    InitialRows = 0
    InsertMayFail = FALSE
    OpenMayFail = FALSE
SPECIFICATION Spec
INVARIANT CapturedFlowsDumped
