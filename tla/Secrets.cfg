SPECIFICATION Spec
CONSTANTS
    Threads = {"app", "deploy"}
    Values <- MCValues
    Empty = ""
    None = None
INVARIANTS
    TypeOK
PROPERTIES
    StaleOnlyAfterOverlap
