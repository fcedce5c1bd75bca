SPECIFICATION FairSpec
CONSTANTS
    half = half
    half0 = half0
    onehalf = onehalf
    Absent = Absent
    Blank = Blank
    Null = Null
    NoTopic = NoTopic
    NoFile = NoFile
    OtherKeys <- MCKeys
    Texts <- MCTexts
    Numbers <- MCNumbers
    Printed <- MCPrinted
    Minute = 2
    Step = 4
    Files <- MCFiles
    Foreign <- MCForeign
    MaxDisturbances = 5
INVARIANTS
    TypeOK
    
PROPERTIES
    AppliedChecks
    FiniteDropsBounded
    RebalanceKeepsRetention
    Converges
\* nothing left to do
CHECK_DEADLOCK FALSE
