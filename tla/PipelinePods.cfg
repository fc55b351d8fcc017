SPECIFICATION Spec
CONSTANTS
    Watchers <- PodWatchers
    EventStates = {1}
    MaxEvents <- PodEvents
INVARIANTS TypeOK PodDataCovered ReportsMoveForward
CHECK_DEADLOCK FALSE
