SPECIFICATION Spec
CONSTANTS
    read1 = read1
    write1 = write1
    read2 = read2
    c1 = c1
    c2 = c2
    d1 = d1
    d2 = d2
    Acls <- MCAcls
    Creators <- MCCreators
    Deleters <- MCDeleters
    Conf <- MCConf
    InitialAcls <- MCInitial
INVARIANTS
    SuccessMeansDone
PROPERTIES
    OnlyShownChanges
