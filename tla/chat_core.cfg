SPECIFICATION Spec
CONSTANTS
    Request = {r1, r2}
    ActionId = {a1}
    Free = Free
    Kinds <- AllKinds
    AbortEvery = 2
    MaxChunks = 1
    MaxFaults = 1
    MaxDeletes = 1
    MaxLapses = 1
    MaxOverruns = 1
    MaxAborts = 1
INVARIANTS OneTurnAtATime AnswerStoredOnce DoneMeansStored LockLeftOnlyByFault OrderPlacedOnce
PROPERTIES StreamStoresUnderLock TurnsAreSerial
SYMMETRY RequestSymmetry
CHECK_DEADLOCK FALSE
