SPECIFICATION Spec
CONSTANTS
    Merger = {t1}
    Searcher = {}
    NoThread = NoThread
    MAX_SEGMENTS_COUNT = 5
    InitialSid = 2
    LastSid = 4
    RowsPerSid = 1
    ColdStart = TRUE
    MaxCompactions = 2
    MaxSearches = 0
    MaxVacuums = 0
SYMMETRY Symmetry
INVARIANTS
    NoRowLost
CHECK_DEADLOCK FALSE
