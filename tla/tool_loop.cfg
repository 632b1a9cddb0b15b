SPECIFICATION TurnSpec
CONSTANTS
    MaxToolRounds = 4
    MaxBatch = 3
    MaxIntents = 2
    DomainSets = {{"LEADING"}, {"TRANSACTION", "DISCOVERY"}}
INVARIANTS RequestsAreWhole OnlyCleanBatchesRun OneFallbackRequest SelectorNeverTellsResults AnswerHasGround
PROPERTIES QuietAfterRefusal
CHECK_DEADLOCK FALSE
