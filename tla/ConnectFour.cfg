SPECIFICATION Spec
CONSTANTS
    Columns = 7
    Rows = 6
    Side = 3
    Givens = {}
    MaxGivens = 0
INVARIANT WinsAreFours
CHECK_DEADLOCK FALSE
