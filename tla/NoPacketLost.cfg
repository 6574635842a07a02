CONSTANTS
    t1 = t1
    t2 = t2
    Tuples <- OneBucketTuples
    BucketOf <- OneBucketOf
    NumBuckets = 1
    NumPackets = 2
    MaxFileItems = 1
SPECIFICATION Spec
INVARIANT NoPacketLost
