SPECIFICATION Spec
CONSTANTS
    p1 = p1
    p2 = p2
    p3 = p3
    Pods <- MCPods
    Owners <- MCOwners
    PodName <- MCUnique
    OwnerOf <- MCOwnerOf
    Kind <- MCKind
    MaxSpec = 1
    MaxGaps = 1
    MaxChanges = 3
    MaxQueue = 2
    MaxEarly = 1
INVARIANTS
    TypeOK RegistryMatchesView MissedAreOld
SYMMETRY SamePods
CHECK_DEADLOCK FALSE
