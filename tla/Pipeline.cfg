SPECIFICATION Spec
CONSTANTS
    None = None
    UnknownKey = UnknownKey
    r1 = r1
    r2 = r2
    Keys <- MCKeys
    Consumers <- MCConsumers
    KeyToIdentity <- MCKeyToIdentity
    Limits <- TightLimits
    Requests = {r1, r2}
    Inputs <- EveryKindOfCall
    ClientIds = {"trace"}
    Wirings <- AllWirings
    MaxCrashes = 0
SYMMETRY TwoAlike
INVARIANTS
    TypeOK
    CarriesWhatIsRead
    UpstreamAuthorised
    OneRowPerCall
    RowsTellTheTruth
    MetricsMatchAudit
    NothingWrittenAfterClose
PROPERTIES
    ImplementsBudget
CHECK_DEADLOCK FALSE
