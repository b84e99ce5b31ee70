SPECIFICATION StreamSpec
CONSTANTS
    Conns = {c1, c2}
    Ranges <- OpenRanges
    FileSize = 4
    ChunkSize = 2
    Capacity = 2
    MaxRetry = 1
    Width = 4
    MaxOpens = 2
    NoBound = none
CHECK_DEADLOCK FALSE
INVARIANTS StreamTypeOK ChunksInFile LengthKept
PROPERTY Ends
