\* The stale-session cap: three devices with one session each and room for two
\* of them in grace.
CONSTANTS
    Devices = {1, 2, 3}
    Users = {u1}
    Servers = {1, 2, 3}
    Clients = {c1}
    SessionIDs = {s1, s2, s3}
    ShortIDs = {}
    RoomIDs = {}
    MaxStaleSessions = 2
    NONE = NONE
SPECIFICATION NumberedSpec
SYMMETRY Symmetry
INVARIANTS
    StaleSetExact
    StaleBounded
    OneSessionPerDevice
PROPERTIES
    ImplementsLifecycle
    NoSilentDrop
