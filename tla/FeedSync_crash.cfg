SPECIFICATION Spec
CONSTANTS
    MaxEntries = 2
    TrimAt = 2
    Slack = 0
    ChunkSize = 1
    MaxRows = 2
    MaxFaults = 2
INVARIANTS
    BrokenStreamSurvived
CHECK_DEADLOCK FALSE
