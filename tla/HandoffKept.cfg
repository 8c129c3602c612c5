SPECIFICATION Spec
CONSTANTS
    Step = {s1}
    EditRoom = 1
    PlanRoom = 2
    Planner = TRUE
    Blocking = FALSE
    Marker = TRUE
    Resumes = FALSE
    MaxLines = 1
    MaxNumber = 3
    MaxKills = 0
    None = None
PROPERTIES
    HandoffKept
CHECK_DEADLOCK FALSE
