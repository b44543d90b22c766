SPECIFICATION FairSpec
CONSTANTS
    Backend = {b1, b2}
    Aux = {startup}
    Thread = {t1}
    MAINTENANCE_TASK_QUEUE_SIZE = 1
    MaxRequests = 2
    MaxSegments = 2
    MaxRestarts = 1
INVARIANTS
    Conserved
PROPERTIES
    Implements
    CallReturns
CHECK_DEADLOCK FALSE
