SPECIFICATION Spec
CONSTANTS
    None = None
    Keys = {"cron_1", "cron_2", "notebook_1"}
    UnknownKey = UnknownKey
    Consumers <- MCConsumers
    KeyToIdentity <- MCKeyToIdentity
    Limits <- RawSqlOnly
    Window = 3
    MaxTime = 6
    MaxHits = 4
INVARIANTS
    TypeOK
    BurstBounded
PROPERTIES
    DenialEarned
    ImplementsBudget
CHECK_DEADLOCK FALSE
