\* Three clients, of the owner's account and of another, compete for two slots
\* with two connections.
CONSTANTS
    ClientIDs = {i1, i2, i3}
    Conns = {k1, k2}
    Owner = owner
    Guests = {guest}
    MaxClientsPerRoom = 2
    NONE = NONE
SPECIFICATION FairSpec
CHECK_DEADLOCK FALSE
INVARIANTS
    AtMostMaxClients
    ClientsExact
    NoOrphanConns
    HostHearsClients
PROPERTIES
    SlotFreed
