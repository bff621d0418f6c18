\* Five ids; a heap of three keys, priorities that never go back and up to
\* five array slots in use; a map of four keys.
CONSTANTS
    IdMax = 4
    Failed = Failed
    NoReturn = NoReturn
    HeapKeys = {h1, h2, h3}
    Prios = {0, 1, 2}
    InitCapacity = 2
    MaxSize = 5
    NoData = NoData
    Void = Void
    Keys <- MCKeys
    Data = {d1, d2}
    hash_function <- MCHash
    IntMin <- MCIntMin
    InitBuckets = 2
    Nodes <- MCNodes
    Null = Null
    None = None
SYMMETRY Symmetry
SPECIFICATION ContainersSpec
INVARIANTS
    FreeStackMatchesMarks FreeIsNeverRefused
    HeapTypeOK SurvivorsAreReachable OrderedPaths
    BucketsAreLists SizeAndLoad
PROPERTIES ImplementsAllocator ImplementsMinQueue ImplementsDictionary
