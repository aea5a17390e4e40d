SPECIFICATION Spec
CONSTANTS
  Nodes = {1, 2, 3}
  Slots = {1, 2}
  None = None
  Owner <- MCOneOwner
  Master <- MCNoSlaves
  Kinds = {"setslot"}
  MaxEvents = 2
  MaxInFlight = 1
INVARIANTS
  NewVersionPropagates
