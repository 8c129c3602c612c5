SPECIFICATION AttemptSpec
CONSTANTS
    Step = {s1}
    EditRoom = 0
    PlanRoom = 0
    Planner = TRUE
    Blocking = TRUE
    Marker = FALSE
    Resumes = TRUE
    MaxLines = 0
    MaxNumber = 1
    MaxKills = 1
    None = None
    Timeout = 0
    ToolLimit = 0
    Stall = 0
    MaxCompactions = 1
    MaxRepeats = 0
    RawCeiling = 1
    ReportsToolEnds = TRUE
    MaxSaid = 1
    MaxPipe = 1
    MaxSignals = 2
INVARIANTS
    TypeOK
    SupervisorTypeOK
    SubjectIsOwn
    ReapedWhenOver
    OutcomeOfTheWhole
    AgentsAreAwaited
PROPERTIES
    Spec
    ThrashedIsSplit
CHECK_DEADLOCK FALSE
