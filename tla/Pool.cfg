SPECIFICATION FairSpec
CONSTANTS
    Workers = 2
    Topics <- MCTopics
    Parts <- MCParts
    MaxPoolSize = 2
    MaxScans = 2
    MaxErrors = 1
INVARIANTS
    TypeOK
    
    PanicsOnlyAbandoned
PROPERTIES
    ScansReturn
\* the process ends
CHECK_DEADLOCK FALSE
