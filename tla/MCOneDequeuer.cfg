CONSTANTS
    Queues = {qa, qb}
    Requests <- AnyOrOne
    Workers = {w1}
    HeartbeatTTL = 1
    RetentionAge = 1
    MaxTasks = 2
    MaxTime = 4
    NoWorker = none
SPECIFICATION FairSpec
INVARIANT OneTaskPerQueue
PROPERTY NeglectedTasksAreTaken
