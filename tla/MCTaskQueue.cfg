CONSTANTS
    Queues = {qa}
    Requests <- AnyQueue
    Workers = {w1, w2}
    HeartbeatTTL = 1
    RetentionAge = 0
    MaxTasks = 2
    MaxTime = 3
    NoWorker = none
SYMMETRY WorkerSymmetry
SPECIFICATION Spec
INVARIANTS IndInv ClaimIsStillValid
PROPERTIES TakeoverOnlyWhenSilent FinishedIsFinal ImplementsLifecycle
