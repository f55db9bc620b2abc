SPECIFICATION Spec
CONSTANTS
    None = None
    Backend = "sqlite"
    Instants <- MCInstants
    PerSecond = 2
    Callers = {"alice", "bob"}
    Queries <- ZonedQueries
    MaxRows = 3
INVARIANTS
    RangeHonoured
CHECK_DEADLOCK FALSE
