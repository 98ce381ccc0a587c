\* A result captured between the last read and miner_clear.
CONSTANTS
    NumInst = 1
    Engines = {0}
    FifoDepth = 1
    MaxJobs = 1
    MaxFound = 1
    MaxBoots = 0
    ResultQueueDepth = 1
    Commands = {}
    NoJob = NoJob
    NoResult = NoResult
SPECIFICATION Spec
PROPERTY NewResultStays
