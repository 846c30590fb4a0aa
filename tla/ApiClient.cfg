SPECIFICATION FairSpec
CONSTANTS
    Urls = {"base", "more"}
    Base = "base"
    MaxPage = 2
    MaxAttempts = 2
    Elsewhere = Elsewhere
INVARIANTS
    Accounted
    RequestsBounded
    OneRefusalIsSurvived
PROPERTIES
    FetchEnds
CHECK_DEADLOCK FALSE
