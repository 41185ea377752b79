SPECIFICATION FairSpec
CONSTANTS
    Runners = {r1, r2}
    HomeOf <- OwnHome
    Epochs = {"e1", "e2"}
    Variant = "dual"
    MaxRuns = 3
CHECK_DEADLOCK FALSE
INVARIANTS
    TypeOK
    EpochOnce
    ConsumedIsCompiled
    SharesUsedOnce
    LogsAreOwn
PROPERTIES
    EvidenceSurvivesReplay
    RunEnds
