SPECIFICATION Spec
CONSTANTS
    OwnerCount = 2
    EntityCount = 4
    RelationCount = 2
    PageSize = 2
    PagesPerKey = 2
    PageBudget = 4
    FrontierPerOwner = 4
    GlobalFrontier = 3
    EdgeFiles <- ChosenFiles
    Multiplier = 157
    HashWordBits = 8
    Prime = 13
    Shapes <- ChosenShapes
CHECK_DEADLOCK FALSE
INVARIANTS
    LayoutTypeOK
    Lossless
    DescriptorsExact
    BoundVerdictExact
