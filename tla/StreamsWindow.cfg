\* One stream, written from both ends, that is limited by its window alone.
SPECIFICATION Spec
CONSTANTS
    MaxId = 1
    Window = 2
    Chunk = 2
    MaxStreams <- One
    Aggregate = 4
    Openers <- Client
    MaxBytes <- FourOne
INVARIANTS
    TypeOK
    NoProtocolError
    CleanEofIsComplete
PROPERTIES
    ImplementsWindow
    StreamsReleased
CHECK_DEADLOCK FALSE
