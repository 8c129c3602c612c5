SPECIFICATION Spec
CONSTANTS
    Thread = {t1, t2}
    t1 = t1
    t2 = t2
    Loop = {l1}
    l1 = l1
    Endpoint = {e1, e2}
    e1 = e1
    e2 = e2
    MaxKills = 2
    Free = Free
    Torn = Torn
    None = None
SYMMETRY Symmetry
INVARIANTS
    AnswersKept
PROPERTIES
    ListImplemented
CHECK_DEADLOCK FALSE
