CONSTANTS
    QNames <- MCQNames
    Owners <- MCOwners
    Targets <- MCTargets
    Texts = {"www"}
    RTypes = {"A", "TXT", "NS", "SOA", "MX"}
    MaxRecords = 2
    LabelBytes = 63
    MAX_PACKET_SIZE = 512
SPECIFICATION Spec
INVARIANTS
    PointersGoBack SameMeaning OnlyExpansionLosesAnswers
CHECK_DEADLOCK FALSE
