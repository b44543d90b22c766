SPECIFICATION Spec
CONSTANTS
    Merger = {t1}
    Searcher = {x1}
    NoThread = NoThread
    MAX_SEGMENTS_COUNT = 6
    InitialSid = 2
    LastSid = 3
    RowsPerSid = 1
    ColdStart = FALSE
    MaxCompactions = 2
    MaxSearches = 1
    MaxVacuums = 0
SYMMETRY Symmetry
INVARIANTS
    ListIntact
    PinnedIntact
    SearchComplete
CHECK_DEADLOCK FALSE
