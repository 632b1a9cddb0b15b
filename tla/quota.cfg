SPECIFICATION Spec
SYMMETRY Symmetry
CONSTANTS
    Request = {r1, r2}
    Limit = 2
    MaxCost = 1
    MaxSpent = 4
    MaxMonth = 1
INVARIANTS TypeOK OverrunBounded NoOvercharge
