\* Two changes and one call that fails after any of its effects; then cycles only.
SPECIFICATION FairSpec
CONSTANTS
    N = 3
    MaxEdits = 2
    MaxFails = 1
    MaxCrashes = 0
PROPERTY
    QuiescesUnlessShifted
