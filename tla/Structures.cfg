CONSTANTS
    ELEM_NUM_EACH_NODE = 2
    PoolSize = 5
    Lists = {a, b}
    Positions = {1, 2, 3, 4}
    MaxListOps = 6
    JUNK = JUNK
    NULL = NULL
    ByteBits = 2
    WordBytes = 4
    Maps = {"wide", "narrow"}
    BitSizes <- MCBitSizes
    Filters = {"f", "g"}
    FilterSizes <- MCFilterSizes
    BitPositions = {1, 3, 5, 12}
    Elems = {1, 2, 3}
    HashCode <- MCHashCode
    MaxBitOps = 6
    NoFile = NoFile
    SKIP_NUM = 2
    Objects2 = {p, q}
    Values2 = {1, 2, 3}
    MaxNodes2 = 6
    MaxList2Ops = 6
    NIL = NIL
    MAX_PER_NODE = 4
    Key <- MCKey
    Inputs <- MCInputs
    NoNode = NoNode
SPECIFICATION Spec
INVARIANTS
    NodesAccounted
    ListsHold
    BitmapExact
    BloomNoFalseNegative
    List2Holds
    EveryValueKept
    KeysAscend
    FileHoldsTree
CHECK_DEADLOCK FALSE
