\* A virtual screen that begins to the left of the primary monitor.
SPECIFICATION MCSpec
CONSTANTS
    Openers = {"s1", "s2"}
    Users = {"x", "y"}
    About <- MCAbout
    MaxSessions = 1
    Clients = {"a", "b"}
    Screens <- MCOffset
    Widths = {2, 4}
    MaxResizes = 1
    MaxRefusals = 0
    Jobs = {}
    MaxBody = 0
INVARIANTS
    ClickLands
CHECK_DEADLOCK FALSE
