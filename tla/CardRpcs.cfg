SPECIFICATION Spec
CONSTANTS
    None = None
    Junk = Junk
    Dates <- MCDates
    FirstTen <- MCFirstTen
    Inputs <- MCInputs
    Wires <- MCWires
INVARIANTS
    AnswersAsAssumed
    
    ReportsAddUp
    RowsAreKept
    NullsFailWhereRequired
    AlarmsAreKept
    QuartersMeet
    EveryFilterIsSent
CHECK_DEADLOCK FALSE
