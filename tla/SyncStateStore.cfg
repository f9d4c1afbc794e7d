\* Two publishers, a priority pull and a cycle, say, over two objects.
CONSTANTS
  Identity = {i1, i2}
  Path = {p1, p2}
  Hash = {h1, h2}
  Facts = {f1}
  Client = {c1, c2}
  NoHash = NoHash
  None = None
  MaxRelocations = 2
SPECIFICATION Spec
SYMMETRY Symmetry
INVARIANTS TypeOK PathIndexUnique MergeBaseBound EveryTerminalStored
PROPERTY NoBlindWrite
