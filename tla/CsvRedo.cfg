SPECIFICATION Spec
CONSTANTS
    w1 = w1
    w2 = w2
    Workers <- MCWorkers
    Names = {1}
    MaxVersion <- Twice
    Sizes = {1}
    Content <- RedoneContent
    Overlap = TRUE
    MaxFaults = 2
    NoUnit = NoUnit
PROPERTIES
    FinishedWorkStaysFinished
