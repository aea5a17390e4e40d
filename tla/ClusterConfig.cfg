SPECIFICATION Spec
CONSTANTS
  Nodes = {1, 2, 3}
  Slots = {1, 2, 3}
  None = None
  Owner <- MCOwner
  Master <- MCMaster
  Kinds = {"takeover", "bumpepoch", "setslot", "assign", "addslots", "delslots", "replicate", "election", "restart", "link"}
  MaxEvents = 2
  MaxInFlight = 1
INVARIANTS
  MasterKnowsBest
  OnlySlavesAbort
PROPERTIES
  EpochsBecomeDistinct
  NewestClaimWins
