\* The components of the channel, one at a time.
SPECIFICATION MCSpec
CONSTANTS
    Writers <- MCWriters
    Chunks <- MCChunks
    None = None
    Units = {"chunk", "frame"}
    SharedBuffer = TRUE
    CancelRunning = FALSE
    MaxChannels = 2
    MaxData = 3
    MaxQueue = 1
    Messages <- MCMessages
    MaxMessage = 3
    MaxWrites = 2
    MaxLost = 2
INVARIANTS
    MCTypeOK
    QueueKept
    NoUseAfterRelease
    TransportSafe
    FramesIntact
    OrderKept
PROPERTIES
    FailureCloses
    CloseCompletes
    FramesArrive
CHECK_DEADLOCK FALSE
