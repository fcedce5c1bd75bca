SPECIFICATION FairSpec
CONSTANTS
    Procs <- MCProcs
    BrokerNodes = {"b"}
    TopicNodes = {"t"}
    PartNodes = {"p"}
    Keys <- MCKeys
    Values <- MCValues
    Unset = Unset
    Throttles <- MCThrottles
    Requests <- MCRequests
    InitialStores <- MCStores
    MaxOps = 2
    MaxFaults = 1
INVARIANTS
    HoldersExclusive
    
    SilentOnlyBroken
PROPERTIES
    ImplementsStore
    LockComesFree
\* every process may have closed its client
CHECK_DEADLOCK FALSE
