SPECIFICATION SheetSpec
CONSTANTS
  NumCells = 4
  Numbers = {1}
  MaxRefused = 0
INVARIANT SheetUpToDate
CHECK_DEADLOCK FALSE
