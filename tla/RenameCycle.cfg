\* Three changes of the users on both sides in every order, and one end of the process
\* between any two actions: what no order may lose or hide.
SPECIFICATION Spec
CONSTANTS
    N = 3
    MaxEdits = 3
    MaxFails = 0
    MaxCrashes = 1
INVARIANTS
    NothingLost
    DifferencesStayVisible
PROPERTIES
    CleanMeansSynced
    EngineKeepsUnsynced
