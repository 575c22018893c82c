CONSTANTS
    Names = {1, 2}
    Keys = {k1, k2}
    MaxChanges = 2
    MaxFaults = 1
SPECIFICATION FairSpec
INVARIANT KeyMapInv
PROPERTIES WithdrawnKeysAreForgotten StableKeysAreAccepted CacheConverges MaintainReturns
CHECK_DEADLOCK FALSE
