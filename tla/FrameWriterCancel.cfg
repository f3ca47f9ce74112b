\* The mstsc channel, with tasks cancelled inside their channel write.
SPECIFICATION FrameSpec
CONSTANTS
    Writers <- MCWriters
    Chunks <- MCChunks
    None = None
    Units = {"chunk"}
    SharedBuffer = FALSE
    CancelRunning = TRUE
    \* of the other modules of the channel
    MaxChannels = 1
    MaxData = 1
    MaxQueue = 1
    Messages <- MCMessages
    MaxMessage = 0
    MaxWrites = 0
    MaxLost = 0
INVARIANTS
    FramesIntact
CHECK_DEADLOCK FALSE
