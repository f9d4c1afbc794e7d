CONSTANTS
  Target = {A, B}
  Object = {x, y}
  None = None
  Keeps = TRUE
  MaxEdits = 2
  MaxOps = 3
  MaxFaults = 2
SPECIFICATION Spec
SYMMETRY Symmetry
INVARIANTS BaselineOfBoundFolder CheckpointVouches EveryBindingIsSynced ReturnIsRechecked
CHECK_DEADLOCK FALSE
