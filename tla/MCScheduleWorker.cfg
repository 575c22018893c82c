CONSTANTS
    Schedules = {c, o}
    Cron = {c}
    Impossible = {}
    Workers = {w1, w2}
    PoolSize = 3
    Period = 1
    MaxTime = 3
    MaxFaults = 2
    NoWorker = none
SPECIFICATION FairSpec
INVARIANTS PickInv OneTaskPerDueDate
PROPERTIES DueIsExecuted IterationEnds WorkersStop
CHECK_DEADLOCK FALSE
