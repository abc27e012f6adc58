\* A room message meets the old server closed and the room not yet rebound.
CONSTANTS
    RoomSenders = {p1}
    SessionSenders = {q1}
    MaxServers = 3
    NONE = NONE
SPECIFICATION Spec
CHECK_DEADLOCK FALSE
INVARIANTS
    ReboundBeforeClosed
