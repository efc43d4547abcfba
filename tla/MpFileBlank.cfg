SPECIFICATION FileSpec
CONSTANTS
    NumProcesses = 2
    MaxLines = 4
    Kinds = {"kept", "blank"}
    PipeCapacity = 2
INVARIANT OutputInOrder
CHECK_DEADLOCK FALSE
