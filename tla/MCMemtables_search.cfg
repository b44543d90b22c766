SPECIFICATION Spec
CONSTANTS
    Backend = {b1, b2}
    Searcher = {x1}
    Slot = {s1, s2}
    Row = {r1, r2, r3, r4}
    NoRow = NoRow
    MT_IDX_INVALID = MT_IDX_INVALID
    MT_IDX_ROTATING = MT_IDX_ROTATING
    Capacity = 1
    MEMTABLE_NUM = 2
    StartInvalid = FALSE
    MaxVacuums = 0
    MaxErrors = 0
SYMMETRY Symmetry
INVARIANTS
    RefCountExact
    PinnedStable
    WriterSafe
    FlushSound
    NoRowLost
    SearchComplete
    Durable
