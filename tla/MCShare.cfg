SPECIFICATION Spec
CONSTANTS
    a = a
    b = b
    v = v
    w = w
    Peers = {a, b}
    Videos = {v, w}
    Store <- StoreOf
    AutoSharers = {a, b}
    None = none
    MaxActs = 5
    MaxIds = 3
    MaxFaults = 1
CHECK_DEADLOCK FALSE
INVARIANTS TypeOK AdvertisedIsServed SharedIsAdvertised
PROPERTY FilesAnswered
