SPECIFICATION Spec
CONSTANTS
    Ids = {a, b, c, d}
    PerMs = 2
    Timeout = 1
    MaxNow = 4
    MaxBack = 1
SYMMETRY IdSymmetry
INVARIANTS
    RefExact
PROPERTIES
    ImplementsExpirySet
CHECK_DEADLOCK FALSE
