SPECIFICATION FairSpec
CONSTANTS
    Tries = 2
    MaxReports = 3
    MaxLives = 2
    MaxInbound = 2
INVARIANT TypeOK
PROPERTIES DeliveryImplemented NoCloseDuringWrite DeadConnectionEndsProcess ReportArrivesOrProcessEnds
CHECK_DEADLOCK FALSE
