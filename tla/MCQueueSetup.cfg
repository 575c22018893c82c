CONSTANTS
    Services = {s1, s2}
    Configs <- MCConfigs
    MaxRetries = 8
    MaxFaults = 2
SPECIFICATION FairSpec
INVARIANT SetupInv
PROPERTIES ReturnMeansReady CommonColumnsStay SetupSucceeds
CHECK_DEADLOCK FALSE
