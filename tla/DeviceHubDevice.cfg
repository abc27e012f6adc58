\* One device whose server is replaced, drops, comes back with another owner or is
\* deleted, and whose client drops and comes back: two sockets of each, a session,
\* a guest registration and rooms.
CONSTANTS
    Devices = {d1}
    Users = {u1, u2}
    Servers = {w1, w2}
    Clients = {c1, c2}
    SessionIDs = {s1}
    ShortIDs = {g1}
    RoomIDs = {r1, r2}
    MaxStaleSessions = 1
    NONE = NONE
SPECIFICATION FairSpec
INVARIANTS
    TypeOK
    RoomRoute
    GuestRegistrations
    GraceAlwaysPending
    GraceMatchesPresence
    AuthSessionRoute
PROPERTIES
    ImplementsLifecycle
    TornDownFrozen
    GraceEnds
