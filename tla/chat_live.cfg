SPECIFICATION FairSpec
CONSTANTS
    Request = {r1, r2}
    ActionId = {a1}
    Free = Free
    Kinds <- AllKinds
    AbortEvery = 2
    MaxChunks = 1
    MaxFaults = 1
    MaxDeletes = 0
    MaxLapses = 0
    MaxOverruns = 1
    MaxAborts = 0
PROPERTIES LockEventuallyFree EveryRequestEnds OrderEventuallyStored
CHECK_DEADLOCK FALSE
