\* Three senders, two final frames and two closers over a buffer of two.
CONSTANTS
    Senders = {p1, p2, p3}
    Finishers = {f1, f2}
    Closers = {x1, x2}
    Capacity = 2
    NONE = NONE
SPECIFICATION FairSpec
CHECK_DEADLOCK FALSE
INVARIANTS
    FinalFrameTruth
    WireInOrder
    GracefulCloseFlushes
PROPERTIES
    FinisherReturns
    WriterStops
