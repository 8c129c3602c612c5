SPECIFICATION Spec
CONSTANTS
    Run = {a, b, c}
    Repo = {r1}
    Lanes = 2
    Name = {venv}
    None = None
    Own = Own
SYMMETRY Symmetry
INVARIANTS
    TypeOK
    OwnTree
    LinksExcluded
    DeadEndsAreRaces
CHECK_DEADLOCK FALSE
