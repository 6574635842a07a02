CONSTANTS
    MaxOffset = 4
    MaxLen = 3
    Results <- MCResults
SPECIFICATION Spec
CHECK_DEADLOCK FALSE
INVARIANTS
    ResultAscends
    IntersectionExact
    MergeExact
