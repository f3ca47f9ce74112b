\* Both peers open a stream, the client at its limit and the agent not.
SPECIFICATION Spec
CONSTANTS
    MaxId = 2
    Window = 1
    Chunk = 1
    MaxStreams <- OneTwo
    Aggregate = 2
    Openers <- Peers
    MaxBytes <- ClientOnlyWrites
INVARIANTS
    NoProtocolError
    StreamLimit
    NoOrphan
CHECK_DEADLOCK FALSE
