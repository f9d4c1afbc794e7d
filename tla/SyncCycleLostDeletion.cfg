\* A remote deletion behind an attempt whose checkpoint was not committed.
SPECIFICATION Spec
CONSTANTS
  Path = {p}
  Content = {a, b}
  Large = {}
  None = None
  Strategies = {"duplicate"}
  SharedDigest = FALSE
  World = {"remote delete"}
  MaxEdits = 2
  MaxFaults = 1
SYMMETRY ContentSymmetry
INVARIANT DeletionsStayVisible
