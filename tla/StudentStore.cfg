SPECIFICATION FairSpec
CONSTANTS
    csv = csv
    api = api
    cli = cli
    Writers = {csv, api, cli}
    Ids = {1, 2, 3}
    Times = {1, 2}
    Inputs <- Files
    MaxAttempts = 2
    NoRow = NoRow
    Free = Free
INVARIANTS
    TypeOK
    FreshestKept
    WritesStayValid
    NoCircle
    InsertsCounted
    ChunksSplitRight
PROPERTIES
    RepeatChangesNothing
    MergesAreAtomic
    AllMergesEnd
CHECK_DEADLOCK FALSE
