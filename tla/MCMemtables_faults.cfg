SPECIFICATION Spec
CONSTANTS
    Backend = {b1, b2}
    Searcher = {x1}
    Slot = {s1, s2}
    Row = {r1, r2}
    NoRow = NoRow
    MT_IDX_INVALID = MT_IDX_INVALID
    MT_IDX_ROTATING = MT_IDX_ROTATING
    Capacity = 1
    MEMTABLE_NUM = 2
    StartInvalid = TRUE
    MaxVacuums = 1
    MaxErrors = 1
SYMMETRY Symmetry
INVARIANTS
    IndInv
    VacuumSweeps
CHECK_DEADLOCK FALSE
