SPECIFICATION Spec
CONSTANTS
    None = None
    n1 = n1
    n2 = n2
    n3 = n3
    Nodes <- MCNodes
    Configured <- MCConfigured
    Circles = FALSE
    BacklogSize = 2
    MaxWrites = 3
    MaxUnread = 1
    MaxEvents = 2
    MaxFaults = 1
INVARIANTS LinkAgreesWithServer BacklogHoldsStream ReplicaGetsMastersData HistoryIsUnique
PROPERTIES ReplicasCatchUp
CHECK_DEADLOCK FALSE
