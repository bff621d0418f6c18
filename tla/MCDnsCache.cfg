\* Four questions, one of them of the ip table, room for three entries.
CONSTANTS
    Keys = {k1, k2, k3, k4}
    StaticKeys = {k1}
    Values <- MCValues
    StaticValue <- MCStaticValue
    Forever = 99
    MsPerSec = 1
    MaxTtl = 2
    Capacity = 3
    Nodes = {n1, n2, n3}
    head = head
    tail = tail
    Null = Null
    Freed = Freed
    Miss = Miss
SPECIFICATION FairSpec
INVARIANTS CacheTypeOK TableMatchesEntries LinksAgree SizeCountsList CursorIsValid
PROPERTIES ImplementsLruCache CallsDoAsAsked ExpiredEntriesGo
