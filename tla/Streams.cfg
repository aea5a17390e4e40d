SPECIFICATION Spec
CONSTANTS
  c1 = c1
  c2 = c2
  Consumers = {c1, c2}
  None = None
  Dollar = Dollar
  MaxID = 2
  Options <- MCOptions
  BlockOptions <- MCBlockOptions
  MaxBlocked = 2
  MaxLag = 0
SYMMETRY Symmetry
INVARIANTS
  PelsAgree
  IdsMonotone
  CopyAgrees
  NothingLost
  RewriteKeepsUsedStream
PROPERTIES
  DeliversOnlyNew
  RoundServesReaders
CHECK_DEADLOCK FALSE
