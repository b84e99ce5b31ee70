SPECIFICATION RoomSpec
CONSTANTS
    x = x
    y = y
    z = z
    Host = h
    Clients = {c1, c2}
    Videos <- ThreeVideos
    RoomLists <- MCLists
    SavedLists <- MCSaved
    MaxRequests = 1
    MaxChanges = 2
    MaxJoins = 2
    None = None
INVARIANTS RoomTypeOK ClientsConverge
PROPERTY SelectFollows
SYMMETRY Symmetry
CHECK_DEADLOCK FALSE
