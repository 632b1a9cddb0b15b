SPECIFICATION Spec
SYMMETRY Symmetry
CONSTANTS
    MaxTurns = 2
    Key = {k1, k2, k3}
    MaxContext = 2
    MaxCalls = 2
    MaxFaults = 2
    MaxLapses = 1
    MaxDeletes = 1
INVARIANTS TypeOK ChoicesKept ResultsKept DeletionForgets
CHECK_DEADLOCK FALSE
