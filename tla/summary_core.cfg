SPECIFICATION FairSpec
CONSTANTS
    Task = {t1, t2}
    Free = Free
    MinMessages = 2
    Interval = 2
    Keep = 1
    Window = 2
    MaxMessages = 4
    MaxLate = 1
    MaxDeletes = 1
    MaxLapses = 1
    MaxCrashes = 1
    TasksFitTTL = TRUE
INVARIANTS OneSummarizer SummaryIsThePrefix PromptHasEveryMessage DeletedAreForgotten
PROPERTIES SummaryAdvances SummaryLockFreed
CHECK_DEADLOCK FALSE
