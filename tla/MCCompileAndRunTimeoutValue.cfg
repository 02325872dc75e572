CONSTANTS
    o1 = o1
    d1 = d1
    d2 = d2
    OutFiles <- MCOutFiles
    Data <- MCData
    RawOutputs <- MCRawOutputs
    Absent = Absent
    None = None
SPECIFICATION RunSpec
INVARIANT
    TimeoutByValue
CHECK_DEADLOCK FALSE
