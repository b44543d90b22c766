SPECIFICATION Spec
CONSTANTS
    Backend = {b1, b2}
    Searcher = {}
    Slot = {s1, s2}
    Row = {r1, r2, r3, r4}
    NoRow = NoRow
    MT_IDX_INVALID = MT_IDX_INVALID
    MT_IDX_ROTATING = MT_IDX_ROTATING
    Capacity = 1
    MEMTABLE_NUM = 1
    StartInvalid = FALSE
    MaxVacuums = 1
    MaxErrors = 0
SYMMETRY Symmetry
INVARIANTS
    NoRowLost
CHECK_DEADLOCK FALSE
