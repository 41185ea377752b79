SPECIFICATION Spec
CONSTANTS
    Runners = {r1}
    HomeOf <- OwnHome
    Epochs = {"e1", "e2"}
    Variant = "kg"
    MaxRuns = 3
CHECK_DEADLOCK FALSE
PROPERTIES
    EvidenceSurvivesReplay
