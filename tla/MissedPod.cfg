SPECIFICATION Spec
CONSTANTS
    p1 = p1
    p2 = p2
    p3 = p3
    Pods <- MCPods
    Owners <- SetOwners
    PodName <- SetName
    OwnerOf <- SetOwnerOf
    Kind <- SetKind
    MaxSpec = 1
    MaxGaps = 0
    MaxChanges = 3
    MaxQueue = 2
    MaxEarly = 0
INVARIANTS
    EveryPodReported
SYMMETRY SamePods
CHECK_DEADLOCK FALSE
