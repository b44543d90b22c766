SPECIFICATION FairSpec
CONSTANTS
    Fetcher = {f1, f2}
    MEMTABLE_NUM = 2
    MAX_SEGMENTS_COUNT = 4
    MAX_VACUUM_REDO_RETRIES = 2
    MAX_ADOPT_RETRIES = 2
    Capacity = 1
    LastSid = 3
    MaxVacuums = 1
    MaxVersion = 2
    MaxAtWork = 1
INVARIANTS
    RowsVisible
    TombstonesKept
    PoolDisjoint
    RedoNeverErrors
PROPERTIES
    ReplayGoesOn
CHECK_DEADLOCK FALSE
