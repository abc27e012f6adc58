\* A room message and a session message race two replacements and a drop.
CONSTANTS
    RoomSenders = {p1}
    SessionSenders = {q1}
    MaxServers = 3
    NONE = NONE
SPECIFICATION FairSpec
CHECK_DEADLOCK FALSE
INVARIANTS
    SendTruth
    NoFrameToReplaced
PROPERTIES
    ClientsSeeNewer
    ReplacementNotStalled
