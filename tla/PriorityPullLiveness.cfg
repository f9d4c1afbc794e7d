SPECIFICATION FairSpec
CONSTANTS
    Path = {p, q}
    Preparation = preparation
    Serial = serial
    Worker = {p, q, preparation, serial}
    Finalizer = finalizer
    None = None
    MaxEdits = 1
    MaxOpens = 2
    MaxFaults = 1
    MaxBudget = 3
PROPERTIES
    DeferredPullsAreFollowedUp
    OpenedFilesAreServed
