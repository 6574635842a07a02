CONSTANTS
    NumFields = 2
    NumFlows = 2
    MaxFlowsPerFile = 1
    InitialRows = 1
    InsertMayFail = FALSE
    OpenMayFail = FALSE
SPECIFICATION FairSpec
INVARIANTS
    PipelineInv
    ThreadUsesLiveIndex
PROPERTIES
    OnlyDumpRaisesFlag
    Termination
    WriteRequestServed
    BufferDrained
