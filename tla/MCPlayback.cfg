SPECIFICATION Spec
CONSTANTS
    Host = h
    Clients = {c1}
    MaxActs = 2
INVARIANTS TypeOK StatusTracksMpv NoEcho
PROPERTY PausesAgree
