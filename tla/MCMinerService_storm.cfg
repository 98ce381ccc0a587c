\* The handler against the unmask loop of two instances.
CONSTANTS
    NumInst = 2
    Engines = {0}
    FifoDepth = 1
    MaxJobs = 1
    MaxFound = 1
    MaxBoots = 0
    ResultQueueDepth = 1
    Commands = {}
    NoJob = NoJob
    NoResult = NoResult
SPECIFICATION Spec
INVARIANT NoInterruptStorm
