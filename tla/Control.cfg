\* The components of the control API, one at a time.
SPECIFICATION MCSpec
CONSTANTS
    Openers = {"s1", "s2"}
    Users = {"x", "y"}
    About <- MCAbout
    MaxSessions = 1
    Clients = {"a", "b"}
    Screens <- MCScreens
    Widths = {2, 8}
    MaxResizes = 1
    MaxRefusals = 1
    Jobs = {"c1", "c2"}
    MaxBody = 1
INVARIANTS
    TypeOK
    AnswersTrue
    NoLostShell
    ClickLands
    NothingHeld
PROPERTY
    ProcessesEnd
    RequestsEnd
CHECK_DEADLOCK FALSE
