SPECIFICATION Spec
CONSTANTS
    Backend = {b1, b2}
    Capacity = 2
    PageTuples = 1
    PageItems = 2
    LastSid = 3
    MaxInserts = 6
    MaxRemoves = 0
    MaxCrashes = 0
SYMMETRY Symmetry
INVARIANTS
    Directed
CHECK_DEADLOCK FALSE
