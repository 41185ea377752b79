SPECIFICATION FairSpec
CONSTANTS
    Preparers = {p1}
    Programs = {"dual", "kg"}
    OwnerCount = 2
    MaxRuns = 7
    MaxFaults = 3
CHECK_DEADLOCK FALSE
INVARIANTS
    TypeOK
    ManifestDescribesInputs
    InputsOfOneRun
PROPERTIES
    NoOverwrite
    RetriesRecover
