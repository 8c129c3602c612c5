SPECIFICATION Spec
CONSTANTS
    Step = {s1, s2}
    EditRoom = 1
    PlanRoom = 2
    Planner = TRUE
    Blocking = FALSE
    Marker = TRUE
    Resumes = TRUE
    MaxLines = 2
    MaxNumber = 2
    MaxKills = 1
    None = None
SYMMETRY Symmetry
INVARIANTS
    TypeOK
    SubjectIsOwn
PROPERTIES
    ThrashedIsSplit
CHECK_DEADLOCK FALSE
