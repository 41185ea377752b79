SPECIFICATION Spec
CONSTANTS
    Top = 2
    Chi = 2
    BaseThreshold = 2
    Size <- ThreeSize
    Stride <- ThreeStride
    Depth <- ThreeDepth
    Leaves <- ThreeLeaves
    BucketSize <- ThreeBuckets
    Table <- ThreeTable
    ZeroRecord = 0
    MaxAttempts = 2
    Requests = {0, 1, 2, 4, 5}
    MaxAccesses = 3
INVARIANTS
    TypeOK
    RealLeafOnce
    FixedSchedule
    ReadCorrect
    IInv
PROPERTIES
    StoreSpec
