SPECIFICATION Spec
CONSTANTS
  LruKey = {k1, k2, k3, k4}
  LruValue = {v1, v2}
  maxItems_ = 3
  nullptr = nullptr
  Key = {k1, k2, k3, k4}
  CounterKey = {k1, k2, k3, k4}
  NoNode = NoNode
  Value = {v1, v2}
  None = None
  capacity_ = 3
  MaxUses = 3
  MaxCount = 3
  Index <- MCIndex
  Edges <- MCEdges
  Vertices <- MCVertices
  Keys <- MCKeys
  MaxVersion = 3
  MaxLength = 3
  MaxTexts = 2
  Member = {1, 2, 3}
  Iterators = {i1}
  MaxSegments = 3
  NumCells = 3
  Numbers = {1}
  MaxRefused = 1
  MaxRows = 3
  m_ = 2
  M = 7
  FirstSize = 3
  MaxSize = 8
  MaxPoints = 5
  MaxOps = 2
  MaxKey = 5
  MaxValue = 1
  MaxHeapified = 4
  MaxScans = 2
  Side = 2
  WordBits = 8
  BitsPerBlock = {0, 1, 2, 3, 4}
  NumColumns = 2
  MaxCalls = 2
  NumEntries = 5
  NumTitles = 2
  TopSize = 1
  MaxNumber = 3
  MaxK = 2
  MaxSeen = 6
  NumVertices = 4
  MaxEdges = 5
  NumNodes = 4
  Weights = {1, 3}
  FirstEdges = 1
  MaxAdded = 3
  MaxDay = 3
  Amounts = {1, 2}
  MaxLots = 2
  MaxNeeds = 2
INVARIANTS PastIsKept SnapshotIsIsolated SheetIsAcyclic TreesAgree RanksAgree GraphsAgree AllocationsAgree AnswersAgree QueriesAgree ReturnTypeIsExact LockIsKept
PROPERTIES EvictsLeastRecent EvictsLeastUsed CountersAgree
CHECK_DEADLOCK FALSE
