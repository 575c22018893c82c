CONSTANTS
    Kinds = {"sql", "api", "unknown", "func"}
    MaxChunks = 1
    Interference = {"cancelled", "finished", "deleted"}
    MaxOrphans = 1
SPECIFICATION FairSpec
INVARIANT WorkerInv
PROPERTIES TaskIsReleased WorkReturnsUnlessStuck
CHECK_DEADLOCK FALSE
