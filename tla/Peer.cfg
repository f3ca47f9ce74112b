\* One handshake, and one session; one of its coroutines serves a connection of the
\* reverse listener.
SPECIFICATION MCSpec
CONSTANTS
    LossyPeers <- Peers
    MaxHellos = 3
    MaxApp = 2
    Handlers = {h1, h2}
    Users = {u1, u2}
    Accepted = {u1}
    WaitForConnections = TRUE
INVARIANTS
    NoEarlyFrame
    ReadyIsMutual
    ClosedMeansQuiet
    ChannelClosedUnlessAborted
PROPERTIES
    HandshakeEnds
    SessionEnds
CHECK_DEADLOCK FALSE
