SPECIFICATION FairSpec
CONSTANTS
    Brokers <- MCBrokers
    Jobs <- MCJobs
    MaxLoops = 10
INVARIANTS
    TypeOK
    Delivered
    ExtensionKeepsStrategy
    FewestMoves
    FailsOnlyForWant
PROPERTIES
    CallsReturn
\* a call ends
CHECK_DEADLOCK FALSE
