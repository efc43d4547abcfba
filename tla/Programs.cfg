SPECIFICATION ProgramsSpec
CONSTANTS
    Item = {i1, i2, i3, i4}
    Worker = {w1, w2}
    ItemQueueSize = 1
    MayStop = TRUE
    N = 5
    Domain = {d1, d2}
    MaxPending = 3
    MaxPendingPerDomain = 2
    MaxAbandons = 1
    NumProcesses = 3
    MaxLines = 6
    Kinds = {"kept", "skipped"}
    PipeCapacity = 2
    TrainerCounts = {2, 3}
    MaxTrainers = 3
    NumEpochs = 2
    Responses = {r1, r2}
INVARIANTS OnePlace QuotaKept StartedInOrder LinesInOrder TrainersInStep
PROPERTIES WaitMeansProcessed EveryItemIsProcessed StopEnds ProgramsEnd
CHECK_DEADLOCK FALSE
