SPECIFICATION Spec
CONSTANTS
    Runners = {r1, r2}
    HomeOf <- OneHome
    Epochs = {"e1", "e2"}
    Variant = "dual"
    MaxRuns = 3
CHECK_DEADLOCK FALSE
INVARIANTS
    SharesUsedOnce
