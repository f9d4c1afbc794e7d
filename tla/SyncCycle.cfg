\* One file, three edits and one fault in every order, under each conflict strategy:
\* what no order may lose.
SPECIFICATION Spec
CONSTANTS
  Path = {p}
  Content = {a, b, c}
  Large = {}
  None = None
  Strategies = {"duplicate", "auto_merge", "prefer_local"}
  SharedDigest = FALSE
  World = {"local delete", "remote delete", "crash", "fatal", "lost response", "blind"}
  MaxEdits = 3
  MaxFaults = 1
SYMMETRY ContentSymmetry
INVARIANTS RemoteChangesStayVisible LocalChangesStayVisible
PROPERTY NoVersionLost
