\* A guest registration outlives the server object it was made under.
CONSTANTS
    Devices = {d1}
    Users = {u1}
    Servers = {w1, w2}
    Clients = {c1}
    SessionIDs = {s1}
    ShortIDs = {g1}
    RoomIDs = {}
    MaxStaleSessions = 1
    NONE = NONE
SPECIFICATION Spec
INVARIANTS
    SessionRoute
