CONSTANTS
    Names <- MCNames
    Types = {"A"}
    IpTable <- MCIpTable
    UpstreamReplies <- MCReplies
    Forever = 99
    MaxTtl = 1
    Capacity = 2
    RelayIds = {r1, r2}
    Queries <- MCQueries
    None = None
SPECIFICATION Spec
SYMMETRY IdSymmetry
INVARIANTS
    BlockedIsNotRelayed PreCheckSuffices CacheAnswersAsStored
    TableStaysUnlessCaching
CHECK_DEADLOCK FALSE
