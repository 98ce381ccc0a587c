SPECIFICATION Spec
CONSTANTS
    MSS = 2
    Segments = 4
    Pool = 3
    StartAt = 7
    SeqRange = 64
    KeepAlives = 1
    DupAcks = 2
    LineBytes = 2
    Scenarios <- MCScenarios
INVARIANT FinAfterAll
CHECK_DEADLOCK FALSE
