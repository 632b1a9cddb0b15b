SPECIFICATION MCSpec
CONSTANTS
    Push = {q1}
    Fetch = {g1, g2}
    Override = {q2, q3, q4}
    Boot = Boot
    o1 = o1
    o2 = o2
    f1 = f1
    f2 = f2
    p1 = p1
    OracleId <- TwoOracle
    FileId <- TwoFile
    PushId <- SomePush
    Coll = {legacy, c1, c2}
    Legacy = legacy
    None = None
    Absent = Absent
    Tables <- MCTables
    FileSets <- MCFileSets
    Pushes <- MCPushes
    Limit = 1
    MaxRetries = 1
    MaxEdits = 1
    MaxFaults = 1
INVARIANTS LiveCollectionStands FilePartIsTheFiles PushedStays
PROPERTIES RowsStay IndexConverges
CHECK_DEADLOCK FALSE
