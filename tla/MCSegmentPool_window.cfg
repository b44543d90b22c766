SPECIFICATION Spec
CONSTANTS
    Merger = {t1}
    Searcher = {}
    NoThread = NoThread
    MAX_SEGMENTS_COUNT = 6
    InitialSid = 2
    LastSid = 2
    RowsPerSid = 1
    ColdStart = FALSE
    MaxCompactions = 1
    MaxSearches = 0
    MaxVacuums = 1
SYMMETRY Symmetry
INVARIANTS
    PoolSwept
CHECK_DEADLOCK FALSE
