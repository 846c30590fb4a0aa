SPECIFICATION Spec
CONSTANTS
    w1 = w1
    w2 = w2
    Workers <- MCWorkers
    Ids = {1, 2}
    PageSize = 1
    MaxClock = 3
    MaxFaults = 0
    Skew = 1
    Ahead = {0}
    Drift = TRUE
INVARIANTS
    NothingSkipped
