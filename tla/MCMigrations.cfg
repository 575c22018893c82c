CONSTANTS
    Services = {"old", "new", "newer"}
    Apps = {"v1", "v2"}
    AppOf <- SmallAppOf
    ListOf <- SmallListOf
    Files = {"m1", "m2"}
    InitSQL = "init"
    PoolSize = 3
    MaxFaults = 2
    NoService = "none"
SPECIFICATION FairSpec
INVARIANT MigrationsInv
PROPERTIES RecordedIsNotRunAgain PrepareReturns
CHECK_DEADLOCK FALSE
