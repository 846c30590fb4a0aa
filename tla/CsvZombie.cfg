SPECIFICATION Spec
CONSTANTS
    w1 = w1
    w2 = w2
    Workers <- MCWorkers
    Names = {1}
    MaxVersion <- Twice
    Sizes = {2, 3}
    Content <- MixedContent
    Overlap = TRUE
    MaxFaults = 2
    NoUnit = NoUnit
SYMMETRY Symmetry
INVARIANTS
    TypeOK
    ResumePointSound
    CompletedMeansHandled
    LandingKeptUntilHandled
    Sound
