\* The components of TCP forwarding, one at a time.
SPECIFICATION MCSpec
CONSTANTS
    MaxBytes <- MCBytes
    Window = 1
    IdleSides = {"client"}
    MaxFaults = 1
    Conns <- MCConns
    Kind <- MCKind
    MaxStreams = 2
    WaitForConnections = FALSE
    Requests = {"q1", "q2", "q3"}
    MaxListeners = 2
INVARIANTS
    MCTypeOK
    EndsAreTrue
    TaskLimit
    ListenersAgree
PROPERTIES
    ResetEndsBridge
    BothEndsRelease
    CloseFinishes
    GivenUpIsClosed
CHECK_DEADLOCK FALSE
