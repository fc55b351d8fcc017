SPECIFICATION OpeningSpec
CONSTANTS
    Watchers <- MCTwo
    Loads <- MCTwoLoads
    MaxPanics = 1
PROPERTIES RecoveryCompletes
CHECK_DEADLOCK FALSE
