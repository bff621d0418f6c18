\* Three queries for two relay ids, one retransmission, two upstream servers.
CONSTANTS
    IdMax = 1
    Queries <- ThreeQueries
    Upstreams = 2
    request_timeout = 1
    max_retry_time = 1
    CharMax = 2
    NoSession = NoSession
SPECIFICATION Spec
INVARIANTS
    TypeOK IdsMatchSessions EveryQueryAtOnePlace NoAnswerIsStolen
    RetriesAreCounted EvenLoad
PROPERTY NoSpuriousExhaustion
CHECK_DEADLOCK FALSE
