SPECIFICATION Spec
CONSTANTS
    Host = h
    Clients = {c}
    Places <- PlacesDef
    Speeds = {10, 15}
    Normal = 10
    MinDelay = 1
    MaxDelay = 4
    MaxLag = 1
    MaxActs = 2
    MaxAdrift = 5
CHECK_DEADLOCK FALSE
INVARIANTS TypeOK NoSeekEcho HostSpeedKept
PROPERTY Follows
