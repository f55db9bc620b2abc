SPECIFICATION PagingFairSpec
CONSTANTS
    None = None
    Backend = "sqlite"
    Instants <- MCInstants
    PerSecond = 2
    Callers = {"alice", "operator"}
    Operator = "operator"
    Filters <- MCFilters
    Queries <- MCQueries
    MaxOthers = 3
    MaxRows = 8
INVARIANTS
    PagingTypeOK
    NoneMissed
    RepeatsBounded
PROPERTIES
    WalkEnds
CHECK_DEADLOCK FALSE
