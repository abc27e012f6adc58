\* Three connections meet in two rooms, replace one another and leave.
CONSTANTS
    RoomNames = {n1, n2}
    Conns = {k1, k2, k3}
    NONE = NONE
SPECIFICATION Spec
SYMMETRY Symmetry
INVARIANTS
    NoDeadSeat
    MessagesStayInRoom
