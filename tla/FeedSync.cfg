SPECIFICATION FairSpec
CONSTANTS
    MaxEntries = 2
    TrimAt = 3
    Slack = 0
    ChunkSize = 1
    MaxRows = 2
    MaxFaults = 2
INVARIANTS
    TypeOK
    NeverLeftDeaf
PROPERTIES
    BreaksLoseNothing
    ImplementsRoom
    GapRepaired
CHECK_DEADLOCK FALSE
