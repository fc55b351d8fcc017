SPECIFICATION Spec
CONSTANTS
    Watchers <- ResourceWatchers
    EventStates = {1, 3}
    MaxEvents <- ResourceEvents
INVARIANT NoEmptyReport
CHECK_DEADLOCK FALSE
