SPECIFICATION FairSpec
CONSTANTS
    w1 = w1
    w2 = w2
    Workers <- MCWorkers
    Names = {1, 2}
    MaxVersion <- OnceAndTwice
    Sizes = {2}
    Content <- PoisonFirst
    Overlap = FALSE
    MaxFaults = 2
    NoUnit = NoUnit
INVARIANTS
    OneHolder
    CountersExact
    EveryRowAccounted
    Settled
PROPERTIES
    FinishedWorkStaysFinished
    KeepsPromise
    LandedVersionCompletes
