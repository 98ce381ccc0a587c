SPECIFICATION Spec
CONSTANTS
    Addr = {a1, a2}
    Data = {d0, d1}
    Zero = d0
    None = None
    NumInst = 3
    NumEngines = 2
    WordMod = 12
    CLUSTER_SIZE = 2
    FIFO_DEPTH = 2
    WriteGap = 3
    MaxFound = 6
    NoResult = NoResult
INVARIANTS
    NoOverlap
    InsideRange
    Covered
    LossIsReported
PROPERTIES
    ImplementsPort
    PayloadsStable
    Answered
    CapturedOnceInOrder
    ClearedIsGone
    ImplementsQueue
