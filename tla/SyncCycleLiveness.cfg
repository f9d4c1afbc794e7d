\* Users and faults stop, the scope no longer moves; what the cycles then reach.
SPECIFICATION FairSpec
CONSTANTS
  Path = {p}
  Content = {a, b}
  Large = {}
  None = None
  Strategies = {"duplicate"}
  SharedDigest = FALSE
  World = {"local delete", "crash", "rescan", "fatal", "lost response", "scope", "blind"}
  MaxEdits = 2
  MaxFaults = 2
PROPERTY Converges
