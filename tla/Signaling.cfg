\* One device with two server sockets, a session that a user or a guest asks
\* for, two client sockets, and the deletion of the device.
CONSTANTS
    Devices = {d1}
    Users = {u1}
    Servers = {w1, w2}
    Clients = {c1, c2}
    SessionIDs = {s1}
    ShortIDs = {g1}
    RoomIDs = {}
    MaxStaleSessions = 1
    NONE = NONE
SPECIFICATION FairSignalingSpec
INVARIANTS
    HostKnowsSession
    PeersTold
    DeletedNotResumable
PROPERTIES
    DeviceFreed
