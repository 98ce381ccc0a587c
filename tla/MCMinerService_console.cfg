\* One instance with one engine, every console command; the R5 is loaded again once.
CONSTANTS
    NumInst = 1
    Engines = {0}
    FifoDepth = 2
    MaxJobs = 2
    MaxFound = 2
    MaxBoots = 1
    ResultQueueDepth = 1
    Commands = {"start", "stop", "clear"}
    NoJob = NoJob
    NoResult = NoResult
SPECIFICATION Spec
INVARIANTS RangesAccounted NoDuplicateResult NoResultFromEarlierBoot
