SPECIFICATION Spec
CONSTANTS
    Merger = {t1}
    Searcher = {}
    NoThread = NoThread
    MAX_SEGMENTS_COUNT = 4
    InitialSid = 2
    LastSid = 5
    RowsPerSid = 1
    ColdStart = FALSE
    MaxCompactions = 2
    MaxSearches = 0
    MaxVacuums = 0
SYMMETRY Symmetry
PROPERTIES
    ReserveFinds
CHECK_DEADLOCK FALSE
