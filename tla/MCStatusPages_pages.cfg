SPECIFICATION Spec
CONSTANTS
    Backend = {b1, b2}
    Capacity = 2
    PageTuples = 1
    PageItems = 2
    LastSid = 3
    MaxInserts = 5
    MaxRemoves = 1
    MaxCrashes = 1
SYMMETRY Symmetry
INVARIANTS
    Recorded
    PagesApart
CHECK_DEADLOCK FALSE
