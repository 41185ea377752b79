SPECIFICATION Spec
CONSTANTS
    Preparers = {p1, p2}
    Programs = {"dual"}
    OwnerCount = 1
    MaxRuns = 2
    MaxFaults = 0
CHECK_DEADLOCK FALSE
PROPERTIES
    NoOverwrite
