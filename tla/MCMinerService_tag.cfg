\* A job that arrives while an instance still scans.
CONSTANTS
    NumInst = 1
    Engines = {0}
    FifoDepth = 1
    MaxJobs = 2
    MaxFound = 1
    MaxBoots = 0
    ResultQueueDepth = 1
    Commands = {}
    NoJob = NoJob
    NoResult = NoResult
SPECIFICATION Spec
INVARIANT TaggedWithHashedJob
