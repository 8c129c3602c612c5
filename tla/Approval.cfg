SPECIFICATION Spec
CONSTANTS
    Threads = {t1, t2}
    t1 = t1
    t2 = t2
    MaxCommits = 2
    MaxItems = 2
    MaxKills = 1
    None = None
SYMMETRY Symmetry
INVARIANTS
    TypeOK
    DecidableWhenOffered
PROPERTIES
    DecidesTheOffer
CHECK_DEADLOCK FALSE
