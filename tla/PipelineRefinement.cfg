CONSTANTS
    NumFields = 1
    NumFlows = 6
    MaxFlowsPerFile = 2
    InitialRows = 1
    InsertMayFail = TRUE
    OpenMayFail = TRUE
SPECIFICATION Spec
INVARIANTS
    FlowsInOrder
    NoFlowOfEarlierTrace
PROPERTIES
    ImplementsFlowIndex
    LossOnlyWhileWriting
