SPECIFICATION Spec
CONSTANTS
    Participant = {p1}
    Waiters = {p1}
    Lossy = {p1}
PROPERTY TrueMeansNoError
CHECK_DEADLOCK FALSE
