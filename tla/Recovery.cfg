SPECIFICATION FairSpec
CONSTANTS
    Watchers <- MCWatchers
    Loads <- MCLoads
    MaxPanics = 1
INVARIANTS TypeOK UniqueIds ReopenedAfterReset FirstAfterStart
PROPERTIES NotifyBlockers InformBlockers
CHECK_DEADLOCK FALSE
