CONSTANTS
    IdMax = 1
    Queries <- TwoQueries
    Upstreams = 1
    request_timeout = 1
    max_retry_time = 1
    CharMax = 2
    NoSession = NoSession
SPECIFICATION Spec
INVARIANT SleepsUntilDeadline
CHECK_DEADLOCK FALSE
