SPECIFICATION FairSpec
CONSTANTS
    Brokers <- MCBrokers
    Jobs <- Removals
    MaxLoops = 10
PROPERTIES
    RemovalsEnd
\* a call ends
CHECK_DEADLOCK FALSE
