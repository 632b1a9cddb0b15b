SPECIFICATION Spec
CONSTANTS
    Push = {}
    Fetch = {}
    Override = {q2, q3}
    Boot = Boot
    o1 = o1
    o2 = o2
    f1 = f1
    f2 = f2
    p1 = p1
    OracleId <- TwoOracle
    FileId <- TwoFile
    PushId <- SomePush
    Coll = {legacy, c1, c2}
    Legacy = legacy
    None = None
    Absent = Absent
    Tables <- MCTables
    FileSets <- MCFileSets
    Pushes <- MCTwoPushes
    Limit = 1
    MaxRetries = 1
    MaxEdits = 0
    MaxFaults = 0
INVARIANTS PushIsAdditive
CHECK_DEADLOCK FALSE
