\* Two files under auto_merge: pooled and serial actions, partial failure, a moving
\* scope, and edits that keep mtime and size.
SPECIFICATION Spec
CONSTANTS
  Path = {p, q}
  Content = {a, b, c}
  Large = {c}
  None = None
  Strategies = {"auto_merge"}
  SharedDigest = TRUE
  World = {"quiet edit", "local delete", "remote delete", "fatal", "lost response", "scope", "blind"}
  MaxEdits = 1
  MaxFaults = 1
SYMMETRY Symmetry
INVARIANT RemoteChangesStayVisible
PROPERTY HotConsumesWhatItRead
