CHECK_DEADLOCK FALSE
SPECIFICATION Spec
CONSTANTS
    START_SEGMENT_ID = 3
    Capacity = 2
    LastSid = 6
    MaxInserts = 4
    MaxCrashes = 2
    MaxMerges = 2
INVARIANTS
    CommittedVisible
    LostInvisible
