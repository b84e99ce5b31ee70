SPECIFICATION Spec
CONSTANTS
    Peers = {p1, p2, p3}
    Overlapping = {p3}
    Rooms = {r1, r2}
    Passwords = {w1, w2}
    Conns = {c1, c2}
    HashOutcomes = {TRUE, FALSE}
    None = None
INVARIANTS TypeOK HostsOwnRoom RoomsLive SoleHost
PROPERTY ImplementsLease
SYMMETRY Symmetry
