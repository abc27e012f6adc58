\* A handler reads the session's server connection while the server drops.
CONSTANTS
    Devices = {d1}
    Users = {u1}
    Servers = {w1, w2}
    Clients = {c1, c2}
    SessionIDs = {s1}
    ShortIDs = {g1}
    RoomIDs = {}
    MaxStaleSessions = 1
    NONE = NONE
SPECIFICATION SignalingSpec
INVARIANTS
    NoNilServer
