CONSTANTS
    t1 = t1
    t2 = t2
    t3 = t3
    t4 = t4
    Task <- MCTask
    Caller <- MCTask
    Order <- MCOrder
    Size <- MCSize
    Id <- MCId
    Name <- MCName
    Shared <- MCShared
    Fold <- MCFold
    Batches <- MCBatches
    None = None
    NoVersion = NoVersion
    Outside = Outside
    Temp = "temp"
    MinLimit = 1
    StartLimit = 2
    MaxLimit = 3
    RampAfter = 2
    ByteBudget = 2
    MaxActionRetries = 2
    MaxInPlace = 1
    MaxThrottles = 1
    MaxRefusals = 1
    MaxOther = 1
SPECIFICATION Spec
INVARIANTS
    NobodyWaitsForRoom
    RotatedTokenIsKept
    ReadsAreBound
    CaseRenameSettles
PROPERTIES
    AdmitsWithinBounds
    MutatesOnlyWhatItMayClaim
