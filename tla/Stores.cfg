SPECIFICATION EitherSpec
CONSTANTS
    None = None
    Backend = "sqlite"
    Instants <- MCInstants
    PerSecond = 2
    Callers = {"alice", "bob"}
    Queries <- EitherQueries
    MaxRows = 3
INVARIANTS
    TypeOK
PROPERTIES
    ImplementsAuditLog
CHECK_DEADLOCK FALSE
