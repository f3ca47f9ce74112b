\* What the README says of a fatal error.
SPECIFICATION Spec
CONSTANTS
    LossyPeers = {}
    MaxHellos = 0
    MaxApp = 0
    Handlers = {h1, h2}
    Users = {u1, u2}
    Accepted = {u1}
    WaitForConnections = TRUE
INVARIANT
    ChannelClosedBeforeNext
CHECK_DEADLOCK FALSE
