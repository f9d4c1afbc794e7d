SPECIFICATION Spec
CONSTANTS
    Path = {p, q}
    Preparation = preparation
    Serial = serial
    Worker = {p, q, preparation, serial}
    Finalizer = finalizer
    None = None
    MaxEdits = 2
    MaxOpens = 2
    MaxFaults = 1
    MaxBudget = 4
INVARIANTS
    SafePoint
    NobodyWaitsForNothing
    RemoteChangesStayVisible
    LocalChangesStayVisible
    ReplacedActionIsHeld
PROPERTIES
    PriorityFirst
    NoEditOverwritten
SYMMETRY Symmetry
