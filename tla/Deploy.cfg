SPECIFICATION FairSpec
CONSTANTS
    p1 = p1
    p2 = p2
    p3 = p3
    Runs = {p1, p2, p3}
    Files = {1, 2, 3}
    Dir <- Directories
    MaxFaults = 2
    None = None
INVARIANTS
    AppliedOnce
    AppliedInOrder
    SchemaBeforeCode
    CodeMayUseTables
    Ready
PROPERTIES
    EveryRunPublishes
CHECK_DEADLOCK FALSE
