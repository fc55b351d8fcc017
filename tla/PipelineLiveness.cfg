SPECIFICATION FairSpec
CONSTANTS
    Watchers <- PodOnly
    EventStates = {1, 2, 3}
    MaxEvents <- PodOnlyEvents
PROPERTIES InformersReleased PodDataLeaves
CHECK_DEADLOCK FALSE
