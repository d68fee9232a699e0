SPECIFICATION FairSpec
CONSTANTS
    t1 = t1
    Tests = {t1}
    TestOf <- OneTest
    NumRuns = 3
    Legacy = {1, 2}
    Bad = {2}
    MaxRuns = 2
    AgeLimit = TRUE
    BatchSize = 2
    MaxBatches = 2
    MaxCrashes = 1
INVARIANTS
    NewestKept
    KeptRunsIntact
    PrunedLeavesNothing
    LeaksExplained
PROPERTIES
    PrunesOnlyExpired
    ExpiredPruned
