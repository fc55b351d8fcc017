SPECIFICATION Spec
CONSTANTS
    Watchers <- PodOnly
    EventStates = {1}
    MaxEvents <- PodOnlyEvents
INVARIANT NoLostChange
CHECK_DEADLOCK FALSE
