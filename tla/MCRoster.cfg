SPECIFICATION Spec
CONSTANTS
    Host = h
    Clients = {c1, c2}
    Names = {a, b, c}
    MaxInFlight = 1
    MaxDisturbed = 1
    Absent = Absent
    Silent = Silent
INVARIANTS TypeOK RosterExact StartOnlyWhenReady Agreement
SYMMETRY Symmetry
