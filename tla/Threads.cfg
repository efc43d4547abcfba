SPECIFICATION ThreadsSpec
CONSTANTS
    Call = {c1, c2, c3, c4}
    MaxConcurrentCommits = 2
    MayRaise = TRUE
    MaxThreads = 5
    QueueThreads = 3
    Workers = {w1, w2, w3, w4}
    Entries = 2
    Repeats = 2
    Permits = 2
    Producers = {p1, p2}
    Consumers = {n1, n2}
    Items = 2
INVARIANTS ExactlyOnce FollowerHasLeader ReduceIsExact OutputInTurn NothingIsLost
PROPERTIES RefinesService EveryCallReturns ThreadsReturn
CHECK_DEADLOCK FALSE
