SPECIFICATION Spec
CONSTANTS
  c1 = c1
  c2 = c2
  k1 = k1
  k2 = k2
  Clients = {c1, c2}
  Watchers = {c1}
  Keys = {k1, k2}
  None = None
  MaxElements = 2
SYMMETRY Symmetry
INVARIANTS
  NobodyWaitsForData
  WatchedKeysUnchanged
  CopyAgrees
CHECK_DEADLOCK FALSE
