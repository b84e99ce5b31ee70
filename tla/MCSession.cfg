SPECIFICATION Spec
CONSTANTS
    Peers = {p1, p2, p3}
    Rooms = {r1}
    Password = w
    Conns = {c1}
    Overlapping = {}
    MaxMoves = 5
    MaxFaults = 2
    None = None
INVARIANTS TypeOK HostRegistered
PROPERTY Together
CHECK_DEADLOCK FALSE
