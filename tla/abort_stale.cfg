SPECIFICATION Spec
CONSTANTS
    Request = {r1, r2}
    ActionId = {a1}
    Free = Free
    Kinds <- StreamOnly
    AbortEvery = 5
    MaxChunks = 6
    MaxFaults = 0
    MaxDeletes = 0
    MaxLapses = 0
    MaxOverruns = 0
    MaxAborts = 1
INVARIANTS OnlyAskedTurnsAbort
CHECK_DEADLOCK FALSE
