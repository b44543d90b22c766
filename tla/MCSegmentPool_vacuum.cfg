SPECIFICATION FairSpec
CONSTANTS
    Merger = {t1, t2}
    Searcher = {}
    NoThread = NoThread
    MAX_SEGMENTS_COUNT = 6
    InitialSid = 3
    LastSid = 3
    RowsPerSid = 1
    ColdStart = FALSE
    MaxCompactions = 2
    MaxSearches = 0
    MaxVacuums = 1
INVARIANTS
    NoRowLost
    RestartSound
    VersionsAgree
PROPERTIES
    VacuumReturns
    CompactionEnds
CHECK_DEADLOCK FALSE
