SPECIFICATION ErrorSpec
CONSTANTS
    Backend = {b1}
    Aux = {}
    Thread = {t1}
    MAINTENANCE_TASK_QUEUE_SIZE = 1
    MaxRequests = 2
    MaxSegments = 1
    MaxRestarts = 0
INVARIANTS
    AnswerFresh
CHECK_DEADLOCK FALSE
