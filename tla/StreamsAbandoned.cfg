\* One stream that the client opens and may abandon; the agent writes one byte.
SPECIFICATION Spec
CONSTANTS
    MaxId = 1
    Window = 1
    Chunk = 1
    MaxStreams <- One
    Aggregate = 1
    Openers <- Client
    MaxBytes <- AgentOnlyWrites
INVARIANTS
    KeptForReader
CHECK_DEADLOCK FALSE
