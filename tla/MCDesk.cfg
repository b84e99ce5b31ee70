SPECIFICATION Spec
CONSTANTS
    n1 = n1
    n2 = n2
    relay1 = relay1
    relay2 = relay2
    room1 = room1
    room2 = room2
    Names = {n1, n2}
    Playlists = {p}
    Videos = {v, w}
    Lists = {l}
    Relays = {relay1, relay2}
    Rooms = {room1, room2}
    None = none
    Config <- Started
    Capacity = 2
    MaxActs = 3
CHECK_DEADLOCK FALSE
INVARIANTS TypeOK Shown InStep MessagesKept
