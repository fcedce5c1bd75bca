SPECIFICATION Spec
CONSTANTS
    half = half
    half0 = half0
    onehalf = onehalf
    Absent = Absent
    Blank = Blank
    Null = Null
    NoTopic = NoTopic
    NoFile = NoFile
    OtherKeys <- MCKeys
    Texts <- MCTexts
    Numbers <- MCNumbers
    Printed <- MCPrinted
    Minute = 2
    Step = 4
    Files <- MCFiles
    Foreign <- MCForeign
    MaxDisturbances = 3
PROPERTIES
    DropsBounded
\* nothing left to do
CHECK_DEADLOCK FALSE
