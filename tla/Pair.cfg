SPECIFICATION FairSpec
CONSTANTS
    Topics <- SoloTopics
    Brokers <- MCBrokers
    Appliers <- PairAppliers
    Operator = Operator
    Nobody = Nobody
    BrokerMode = FALSE
    FlakyReads = FALSE
    Conf <- PairConf
    NewLists <- MCLists
    InitialClusters <- PairClusters
    MaxRuns = 1
    MaxFaults = 1
INVARIANTS
    LockExclusion
PROPERTIES
    OnlyCleanupUnprotects
    OtherMutationsConfirmed
    
\* a poll loop may wait until its run is interrupted
CHECK_DEADLOCK FALSE
