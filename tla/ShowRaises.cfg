SPECIFICATION Spec
CONSTANTS
    MaxRows = 3
    m_ = 2
INVARIANT NeverRaises
CHECK_DEADLOCK FALSE
