CONSTANTS
    t1 = t1
    t2 = t2
    Tuples <- OneBucketTuples
    BucketOf <- OneBucketOf
    NumBuckets = 2
    NumPackets = 4
    MaxFileItems = 2
SPECIFICATION FairSpec
INVARIANTS
    OneItemPerFlow
    ExportedOnce
    PacketsInOrder
    CountCovered
PROPERTIES
    LossOnlyAfterExport
    PacketsLeaveTable
    ExportedDumped
