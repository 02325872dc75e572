CONSTANTS
    p1 = p1
    p2 = p2
    t1 = t1
    t2 = t2
    NoOne = NoOne
    Procs <- MCProcs
    Threads <- MCThreads
INIT GateInit
NEXT GateNext
SYMMETRY MCSymmetry
INVARIANTS
    DataReadyWhenUsed
    MarkerMeansComplete
PROPERTY
    GateRefinesRuntimeData
