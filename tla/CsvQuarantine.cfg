SPECIFICATION Spec
CONSTANTS
    w1 = w1
    w2 = w2
    Workers <- MCWorkers
    Names = {1}
    MaxVersion <- Once
    Sizes = {1}
    Content <- EarlyContent
    Overlap = FALSE
    MaxFaults = 1
    NoUnit = NoUnit
INVARIANTS
    QuarantineMatchesCommit
