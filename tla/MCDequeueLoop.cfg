CONSTANTS
    Tasks <- SmallTasks
    QueueOf <- SmallQueueOf
    Workers = {w1, w2}
    NoWorker = none
    MaxFaults = 2
SPECIFICATION FairLoopSpec
INVARIANT ListenerInv
PROPERTIES TasksAreStarted WorkersStop
CHECK_DEADLOCK FALSE
