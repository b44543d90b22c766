SPECIFICATION FairSpec
CONSTANTS
    Worker = {f0, f1}
    Sweeper = f0
    Segments = 2
    Kinds <- MCKinds
    Chunks = 1
    MaxFaults = 2
INVARIANTS
    SegmentComplete
    NothingDropped
PROPERTIES
    Settles
CHECK_DEADLOCK FALSE
