CONSTANTS
    Queues = {qa}
    Requests <- AnyQueue
    Workers = {w1, w2}
    HeartbeatTTL = 1
    RetentionAge = 1
    MaxTasks = 2
    MaxTime = 0
    NoWorker = none
SYMMETRY WorkerSymmetry
SPECIFICATION Spec
INVARIANT OneTaskPerQueue
