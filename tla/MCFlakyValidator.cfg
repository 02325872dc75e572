CONSTANTS
    o1 = o1
    d1 = d1
    d2 = d2
    OutFiles <- MCOutFiles
    Data <- MCData
    RawOutputs <- MCRawOutputs
    Configs <- MCConfigs
    Absent = Absent
    None = None
    flakiness = 2
    Unbound = Unbound
SPECIFICATION FSpec
INVARIANTS
    FTypeOK
    AttemptStartsClean
    WrapperReturnMeansReaped
PROPERTY
    FlakinessRefined
CHECK_DEADLOCK FALSE
