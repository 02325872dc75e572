CONSTANTS
    o1 = o1
    d1 = d1
    d2 = d2
    OutFiles <- MCOutFiles
    Data <- MCData
    RawOutputs <- MCRawOutputs
    Configs <- MCConfigs
    Absent = Absent
    None = None
SPECIFICATION Spec
INVARIANTS
    TypeOK
    SuccessMeansCandidateFiles
    GoldEnvReleased
PROPERTY
    ValidatorImplementsDiffTest
CHECK_DEADLOCK FALSE
