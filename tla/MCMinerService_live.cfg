\* Two instances, jobs from the pool only, under fairness.
CONSTANTS
    NumInst = 2
    Engines = {0}
    FifoDepth = 1
    MaxJobs = 2
    MaxFound = 2
    MaxBoots = 0
    ResultQueueDepth = 1
    Commands = {}
    NoJob = NoJob
    NoResult = NoResult
SPECIFICATION FairSpec
INVARIANT NoLostWakeup
PROPERTIES JobPickedUp ResultServed
