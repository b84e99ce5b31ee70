SPECIFICATION Spec
CONSTANTS
    Peers = {p1, p2}
    Rooms = {r1}
    Password = w
    Conns = {c1, c2}
    Overlapping = {p1, p2}
    MaxMoves = 2
    MaxFaults = 1
    None = None
PROPERTY Together
CHECK_DEADLOCK FALSE
