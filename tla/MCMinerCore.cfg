SPECIFICATION FairSpec
CONSTANTS
    NumEngines = 2
    ShaClocks = 4
    WriteGap = 2
    Counts = {0, 3}
    MaxWrites = 5
INVARIANTS
    RunningTruthful
    OwnDigest
PROPERTIES
    CompletesAfterAll
    RangeEnds
