SPECIFICATION Spec
CONSTANTS
    OwnerCount = 2
    EntityCount = 3
    RelationCount = 2
    PageSize = 1
    PagesPerKey = 2
    PageBudget = 4
    FrontierPerOwner = 2
    GlobalFrontier = 3
    EdgeFiles <- ChosenFiles
    FanoutPerOwner = 2
    RelationFanout = 1
    Circuits <- RecordCircuit
    QueryCount = 2
    TopK = 3
    RecordsChecked = FALSE
    Deduplications = {TRUE, FALSE}
    QuerySpace <- ChosenQueries
INVARIANTS
    FrontierComplete
