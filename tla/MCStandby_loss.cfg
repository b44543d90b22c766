SPECIFICATION Spec
CONSTANTS
    Fetcher = {f1}
    MEMTABLE_NUM = 2
    MAX_SEGMENTS_COUNT = 4
    MAX_VACUUM_REDO_RETRIES = 2
    MAX_ADOPT_RETRIES = 2
    Capacity = 1
    LastSid = 2
    MaxVacuums = 1
    MaxVersion = 2
    MaxAtWork = 1
INVARIANTS
    NoSilentLoss
CHECK_DEADLOCK FALSE
