SPECIFICATION Spec
CONSTANTS
    p1 = p1
    p2 = p2
    p3 = p3
    Pods <- MCPods
    Owners <- SetOwners
    PodName <- SetName
    OwnerOf <- SetOwnerOf
    Kind <- SetKind
    MaxSpec = 2
    MaxGaps = 1
    MaxChanges = 3
    MaxQueue = 2
    MaxEarly = 2
INVARIANTS
    RegistryMatchesView NoGhostPods OneListPerPod CandidatesAreListed RunningImagesScanned
SYMMETRY SamePods
CHECK_DEADLOCK FALSE
