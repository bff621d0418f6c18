CONSTANTS
    Names <- MCNames
    Types = {"A"}
    IpTable <- MCIpTable
    UpstreamReplies <- MCReplies
    Forever = 99
    MaxTtl = 1
    Capacity = 2
    RelayIds = {r1, r2}
    Queries <- MCQueries
    None = None
SPECIFICATION Spec
INVARIANT BlocksOnlyAllZero
CHECK_DEADLOCK FALSE
