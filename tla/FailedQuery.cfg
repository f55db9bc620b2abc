SPECIFICATION Spec
CONSTANTS
    None = None
    Junk = Junk
    Dates <- MCDates
    FirstTen <- MCFirstTen
    Inputs <- MCInputs
    Wires <- MCWires
INVARIANTS
    FailedQueriesAreErrors
CHECK_DEADLOCK FALSE
