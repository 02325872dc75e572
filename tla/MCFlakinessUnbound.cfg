CONSTANTS
    flakiness = 4
    e1 = e1
    e2 = e2
    x1 = x1
    Errors <- MCErrors
    Escaping <- MCEscaping
    NoError = NoError
    Unbound = Unbound
SPECIFICATION Spec
INVARIANT
    NeverUnbound
CHECK_DEADLOCK FALSE
