SPECIFICATION FairSpec
CONSTANTS
    w1 = w1
    w2 = w2
    Workers <- MCWorkers
    Names = {1}
    MaxVersion <- Once
    Sizes = {1}
    Content <- PoisonContent
    Overlap = FALSE
    MaxFaults = 0
    NoUnit = NoUnit
PROPERTIES
    NoRecordStopsBatch
