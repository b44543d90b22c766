SPECIFICATION FairSpec
CONSTANTS
    Reader = {r1, r2}
    Writer = {w1}
    Index = {i1, i2}
    NoIndex = NoIndex
    Thread = {t1}
    INDEX_BUF_SIZE = 2
    LastSid = 3
    MaxOps = 2
    MaxFailures = 1
    MaxErrors = 1
    MaxRestarts = 1
INVARIANTS
    SlotOwned
    Served
    NoDuplicate
PROPERTIES
    ResolveReturns
    FlushAnswered
CHECK_DEADLOCK FALSE
