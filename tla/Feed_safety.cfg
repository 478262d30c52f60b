SPECIFICATION FairSpec
CONSTANTS
    Readers = {r1, r2}
    MaxEntries = 2
    TrimAt = 3
    RebaseAfter = 1
    ChunkSize = 1
    MaxArrivals = 6
INVARIANTS
    TypeOK
    RoomHasNoRepeats
    GzipDecodes
PROPERTIES
    PlainIsRoom
    LongerNeverShorter
    ReadersAnswered
    RebuildEnds
