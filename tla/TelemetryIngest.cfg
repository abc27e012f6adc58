\* Two requests at a time from two addresses, two reports a window for each, and
\* a ring of two that wraps twice.
CONSTANTS
    Addresses = {a1, a2}
    MaxAttempts = 2
    Window = 2
    RingCapacity = 2
    Canonical <- MCCanonical
    NIL = NIL
    Handlers = {h1, h2}
    Inputs <- MCInputs
    MaxReports = 5
SPECIFICATION IngestSpec
INVARIANTS
    WindowBound
    SnapshotIsLatest
    BreakdownsAgree
PROPERTIES
    IdleForgotten
