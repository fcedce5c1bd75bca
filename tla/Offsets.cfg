SPECIFICATION FairSpec
CONSTANTS
    Partitions = {0, 1}
    MaxOffset = 3
    MaxErrors = 1
    MaxMoves = 4
    InitialLogs <- MCLogs
    InitialOffsets <- MCOffsets
INVARIANTS
    TypeOK
    
    LagsComplete
PROPERTIES
    ResetSkipsNothing
    CommandEnds
\* the command has ended
CHECK_DEADLOCK FALSE
