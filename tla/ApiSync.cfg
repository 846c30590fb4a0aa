SPECIFICATION FairSpec
CONSTANTS
    w1 = w1
    w2 = w2
    Workers <- MCWorkers
    Ids = {1, 2}
    PageSize = 1
    MaxClock = 2
    MaxFaults = 2
    Skew = 1
    Ahead = {0}
    Drift = FALSE
INVARIANTS
    NothingSkipped
    CompletedSyncsNotRepeated
    Synced
PROPERTIES
    CatchesUp
