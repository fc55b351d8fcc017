SPECIFICATION Spec
CONSTANTS
    Watchers <- ResourceWatchers
    EventStates = {1, 3}
    MaxEvents <- ResourceEvents
INVARIANTS AtMostOneStranded FirstReportOnce
CHECK_DEADLOCK FALSE
