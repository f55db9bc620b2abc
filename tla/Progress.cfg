SPECIFICATION FairSpec
CONSTANTS
    None = None
    UnknownKey = UnknownKey
    r1 = r1
    r2 = r2
    Keys <- MCKeys
    Consumers <- MCConsumers
    KeyToIdentity <- MCKeyToIdentity
    Limits <- RawSqlLimit
    Requests = {r1, r2}
    Inputs <- SomeCalls
    ClientIds = {"trace"}
    Wirings <- FullyWired
    MaxCrashes = 1
INVARIANTS
    AnsweredIsAudited
    ReadSeesAnswered
PROPERTIES
    CallsAnswered
    ShutdownCompletes
CHECK_DEADLOCK FALSE
