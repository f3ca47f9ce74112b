\* Two client streams whose windows together exceed the aggregate cap.
SPECIFICATION Spec
CONSTANTS
    MaxId = 3
    Window = 1
    Chunk = 1
    MaxStreams <- Two
    Aggregate = 1
    Openers <- Client
    MaxBytes <- ClientOnlyWrites
INVARIANTS
    NoProtocolError
CHECK_DEADLOCK FALSE
