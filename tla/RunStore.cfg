SPECIFICATION Spec
CONSTANTS
    s1 = s1
    s2 = s2
    t1 = t1
    Streams <- MCStreams
    Sweepers <- MCSweepers
    Threads <- MCThreads
    None = None
    MaxLoops = 2
    MaxCrashes = 1
SYMMETRY Symmetry
INVARIANTS
    TypeOK
    RecordKept
    TreeHasRecord
CHECK_DEADLOCK FALSE
PROPERTIES
    ListingShowsRun
