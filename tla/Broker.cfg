SPECIFICATION Spec
CONSTANTS
    Topics <- SoloTopics
    Brokers <- MCBrokers
    Appliers <- SoloAppliers
    Operator = Operator
    Nobody = Nobody
    BrokerMode = TRUE
    FlakyReads = FALSE
    Conf <- SoloConf
    NewLists <- MCLists
    InitialClusters <- SoloClusters
    MaxRuns = 2
    MaxFaults = 1
INVARIANTS
    MigrationsThrottled
PROPERTIES
    SuccessUnthrottles
\* a poll loop may wait until its run is interrupted
CHECK_DEADLOCK FALSE
