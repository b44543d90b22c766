CHECK_DEADLOCK FALSE
SPECIFICATION Spec
CONSTANTS
    START_SEGMENT_ID = 3
    Capacity = 1
    LastSid = 6
    MaxInserts = 3
    MaxCrashes = 2
    MaxMerges = 1
INVARIANTS
    FlushedOnDisk
