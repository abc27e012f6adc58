\* A client reconnects before the read pump of its old connection has ended.
CONSTANTS
    RoomNames = {n1}
    Conns = {k1, k2}
    NONE = NONE
SPECIFICATION Spec
INVARIANTS
    OpenConnSeated
