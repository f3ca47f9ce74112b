\* One stream, written from both ends, with less aggregate room than window.
SPECIFICATION Spec
CONSTANTS
    MaxId = 1
    Window = 3
    Chunk = 2
    MaxStreams <- One
    Aggregate = 2
    Openers <- Client
    MaxBytes <- FourOne
INVARIANTS
    AggregatesExact
PROPERTIES
    HeldWriteEnds
CHECK_DEADLOCK FALSE
