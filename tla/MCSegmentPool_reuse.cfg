SPECIFICATION Spec
CONSTANTS
    Merger = {t1, t2}
    Searcher = {x1}
    NoThread = NoThread
    MAX_SEGMENTS_COUNT = 6
    InitialSid = 3
    LastSid = 4
    RowsPerSid = 1
    ColdStart = FALSE
    MaxCompactions = 2
    MaxSearches = 1
    MaxVacuums = 0
SYMMETRY Symmetry
INVARIANTS
    NoRowLost
CHECK_DEADLOCK FALSE
