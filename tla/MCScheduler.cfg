CONSTANTS
    Callers = {c1, c2, c3}
    Keys = {k1, k2}
    Writers = {x1}
    MaxFailures = 1
SPECIFICATION FairAssertSpec
INVARIANT SchedulerInv
PROPERTIES AssertedExists AssertReturns SomeAssertSucceeds
