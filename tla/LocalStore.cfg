SPECIFICATION FairSpec
CONSTANTS
    Workers = {w1, w2}
    Names = {n1}
    MaxChanges = 4
    MaxStops = 1
    NoFile = NoFile
    NoName = NoName
INVARIANTS
    CheckedIsRead
    Tracked
PROPERTIES
    LostOnlyToLateWrites
    LandedFileIsHandled
CHECK_DEADLOCK FALSE
