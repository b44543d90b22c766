SPECIFICATION Spec
CONSTANTS
    Worker = {f0, f1}
    Sweeper = f0
    Segments = 2
    Kinds <- MCKinds
    Chunks = 1
    MaxFaults = 0
INVARIANTS
    HarmlessOverwrite
CHECK_DEADLOCK FALSE
