SPECIFICATION FairSpec
CONSTANTS
    Kinds = {"node", "service", "secret", "namespace", "cronjob"}
    Objects <- MCObjects
    NameOf <- MCNameOf
    Elsewhere <- MCElsewhere
    MaxChanges = 4
    MaxGaps = 2
    MaxQueue = 2
INVARIANTS TypeOK ViewFollowsCluster DictionaryFollowsCluster OneIdPerCronJob
PROPERTIES MirrorImplemented CatchesUp
CHECK_DEADLOCK FALSE
