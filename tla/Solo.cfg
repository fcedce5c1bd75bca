SPECIFICATION Spec
CONSTANTS
    Topics <- SoloTopics
    Brokers <- MCBrokers
    Appliers <- SoloAppliers
    Operator = Operator
    Nobody = Nobody
    BrokerMode = FALSE
    FlakyReads = FALSE
    Conf <- SoloConf
    NewLists <- MCLists
    InitialClusters <- SoloClusters
    MaxRuns = 3
    MaxFaults = 2
INVARIANTS
    TypeOK
    MigrationsThrottled
PROPERTIES
    SuccessConverges
    SuccessUnthrottles
\* a poll loop may wait until its run is interrupted
CHECK_DEADLOCK FALSE
