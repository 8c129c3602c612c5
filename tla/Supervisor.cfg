SPECIFICATION FairSpec
CONSTANTS
    Timeout = 2
    ToolLimit = 1
    Stall = 1
    MaxCompactions = 2
    MaxRepeats = 2
    RawCeiling = 2
    ReportsToolEnds = TRUE
    MaxSaid = 3
    MaxPipe = 2
    MaxSignals = 2
INVARIANTS
    SupervisorTypeOK
    ReapedWhenOver
    OutcomeOfTheWhole
PROPERTIES
    StalledIsSilent
    Returns
CHECK_DEADLOCK FALSE
