SPECIFICATION Spec
CONSTANTS
    Topics <- SoloTopics
    Brokers <- MCBrokers
    Appliers <- PairAppliers
    Operator = Operator
    Nobody = Nobody
    BrokerMode = FALSE
    FlakyReads = TRUE
    Conf <- DryConf
    NewLists <- MCLists
    InitialClusters <- DryClusters
    MaxRuns = 1
    MaxFaults = 0
PROPERTIES
    DryRunsWriteNothing
    PartitionsOnlyAdded
\* a poll loop may wait until its run is interrupted
CHECK_DEADLOCK FALSE
