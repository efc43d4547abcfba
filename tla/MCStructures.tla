---------------------------- MODULE MCStructures ----------------------------
(***************************************************************************)
(* The data structures, one of them per behaviour: the others stay in an   *)
(* initial state of theirs.                                                *)
(***************************************************************************)
EXTENDS LruCache, LfuCache, MinMaxCounters, Sheet, VersionedStores, SnapshotSet, WorldScan

CONSTANTS
    MaxRows, m_,
    M, FirstSize, MaxSize, MaxPoints, MaxOps,
    MaxKey, MaxValue, MaxHeapified,
    NumEntries, NumTitles, TopSize,
    NumColumns, MaxCalls,
    MaxNumber, MaxK, MaxSeen,
    NumVertices, MaxEdges,
    NumNodes, Weights, FirstEdges, MaxAdded,
    MaxDay, Amounts, MaxLots, MaxNeeds

VARIABLES
    structure,                                          \* the one that is used
    lang, n, tree, seats, seatsDue, taken,
    variant, size, segs_, points_, n_, ops, pointsDue,
    heap_, hpos_, room, values, aborted,
    unrented_movies, rented_movies, search_cache, report_cache, rented,
    task, max_heap, min_heap, arr, k, ended, seen,
    digraph,
    edges_, shortestD_, nextEdge_, dist,
    lots, needs,
    rows, query,
    params, written, output, calls,
    kvs, fighters, buildings, word, word2, tokens, stack,
    segs, is_abs, trail, links, board, grid, roads, target

showVars == <<lang, n, tree, seats, seatsDue, taken>>
rangeVars == <<variant, size, segs_, points_, n_, ops, pointsDue>>
heapVars == <<heap_, hpos_, room, values, aborted>>
movieVars == <<unrented_movies, rented_movies, search_cache, report_cache, rented>>
rankVars == <<task, max_heap, min_heap, arr, k, ended, seen>>
digraphVars == digraph
pathVars == <<edges_, shortestD_, nextEdge_, dist>>
lotVars == <<lots, needs>>
sqlVars == <<rows, query>>
typeVars == <<params, written, output, calls>>
programVars == <<sqlVars, typeVars, scanVars>>
dataVars == <<lruVars, lfuVars, cntVars, verVars, setVars, sheetVars, showVars, rangeVars,
              heapVars, movieVars, rankVars, digraphVars, pathVars, lotVars, programVars>>

\* The inputs of the algorithms.
lineVars == <<fighters, buildings>>
wordVars == <<word, word2>>
tokenVars == <<tokens, stack>>
linkVars == <<segs, is_abs, trail, links>>
gameVars == <<board, grid>>
roadVars == <<roads, target>>
inputVars == <<kvs, lineVars, wordVars, tokenVars, linkVars, gameVars, roadVars>>

MCIndex == {0, 1}
MCKeys == {<<>>, <<1>>}
MCVertices == 0 .. 2
MCGivens == {<<0, 0>>, <<0, 1>>, <<1, 2>>, <<1, 3>>, <<2, 3>>}
MCEdges == {<<0, 1>>, <<0, 2>>, <<1, 2>>, <<1, 0>>}

\* Full rows, one without its first column, and one with a column that is not in the table;
\* conditions that differ in whether None satisfies them.
MCInserts == {<<<<1, 2>>, <<1, 1>>>>, <<<<2, 1>>, <<1, 2>>>>, <<<<2>>, <<1>>>>, <<<<1, 3, 2>>, <<2, 2, 2>>>>}
MCConditions ==
    {[column |-> 1, op |-> ">=", value |-> 2], [column |-> 1, op |-> "<", value |-> 2],
     [column |-> 2, op |-> "!=", value |-> 0]}

Show == INSTANCE BookMyShow WITH result <- seats, expected <- seatsDue
Rng == INSTANCE RangeTrees WITH expected <- pointsDue
Hp == INSTANCE ErasingHeaps
Rk == INSTANCE StreamRanks WITH Tokens <- {1, 2}, Budgets <- {4, 5, 8}, MaxPairs <- 5
Comp == INSTANCE Components WITH edges_ <- digraph
Sp == INSTANCE ShortestPaths WITH NumPlaces <- 4, RoadWeights <- {2}, MaxRoads <- 4, MaxTarget <- 3
Sweep == INSTANCE Sweeps WITH
    MaxDamage <- 3, MaxHealth <- 3, MaxFighters <- 4, Width <- 4, MaxHeight <- 2, MaxBuildings <- 3
Word == INSTANCE SequenceAnswers WITH s <- word, t <- word2, Letters <- {1, 2}, MaxWord <- 5, Modulus <- 7
Text == INSTANCE ParsedTexts WITH
    Digits <- {1, 2}, MaxTokens <- 7, Names <- {"a", "b"}, MaxTrail <- 4, MaxLinks <- 2, MaxDepth <- 6
Game == INSTANCE GameSearch WITH
    Columns <- 7, Rows <- 1, Side <- 2, Givens <- MCGivens, MaxGivens <- 4
Tower == INSTANCE GameSearch WITH
    Columns <- 2, Rows <- 6, Side <- 2, Givens <- {}, MaxGivens <- 0
Sql == INSTANCE MiniSql WITH Inserts <- MCInserts, Conditions <- MCConditions
Types == INSTANCE TypeVar

\* A fixed initial state for a structure that is not used.
IdleLru == structure # "lru" => cache = "pointers"
IdleVersions == structure # "versions" => store = "array"
IdleShow == structure # "show" => lang = "cpp" /\ n = 1
IdleRanges == structure # "ranges" => variant = "sum"
IdleRanks == structure # "ranks" => task = "median"
IdleHeap == heap_ = Hp!Empty /\ hpos_ = Hp!Empty /\ room = 0 /\ values = Hp!Empty /\ aborted = "none"
IdleLinks == structure # "links" => is_abs
IdleRoads == structure # "roads" => target = 1
IdleTypes == params = <<>> /\ written = Types!T /\ output = Types!T /\ calls = <<>>
IdleWorld ==
    /\ scans = {} /\ world = <<>> /\ lock = 0 /\ backup = 0 /\ held = {} /\ pc = <<>>
    /\ original_existed = <<>> /\ found = 0 /\ disturbed = FALSE /\ listing = <<>>
IdlePaths == edges_ = <<>> /\ shortestD_ = <<>> /\ nextEdge_ = <<>> /\ dist = <<>>

Init ==
    /\ structure \in {"lru", "lfu", "counters", "versions", "set", "sheet", "show", "ranges",
                      "heap", "movies", "ranks", "components", "paths", "allocation",
                      "sql", "types", "world",
                      "sorting", "lines", "words", "tokens", "links", "games", "towers", "roads"}
    /\ LruInit /\ IdleLru
    /\ LfuInit
    /\ CountersInit
    /\ VersionInit /\ IdleVersions
    /\ SetInit
    /\ SheetInit
    /\ Show!Init /\ IdleShow
    /\ Rng!Init /\ IdleRanges
    /\ IF structure = "heap" THEN Hp!HeapInit ELSE IdleHeap
    /\ Hp!MovieInit
    /\ Rk!StreamInit /\ IdleRanks
    /\ Comp!Init
    /\ IF structure = "paths" THEN Sp!GraphInit ELSE IdlePaths
    /\ Sweep!LotInit
    /\ Sql!Init
    /\ IF structure = "types" THEN Types!Init ELSE IdleTypes
    /\ IF structure = "world" THEN ScanInit ELSE IdleWorld
    /\ Rk!SortInit
    /\ Sweep!LineInit
    /\ Word!Init
    /\ Text!Init /\ IdleLinks
    /\ IF structure = "towers" THEN Tower!Init ELSE Game!Init
    /\ Sp!RoadInit /\ IdleRoads

UseLru ==
    /\ structure = "lru" /\ LruNext
    /\ UNCHANGED <<structure, inputVars, lfuVars, cntVars, verVars, setVars, sheetVars, showVars, rangeVars,
                   heapVars, movieVars, rankVars, digraphVars, pathVars, lotVars, programVars>>
UseLfu ==
    /\ structure = "lfu" /\ LfuNext
    /\ UNCHANGED <<structure, inputVars, lruVars, cntVars, verVars, setVars, sheetVars, showVars, rangeVars,
                   heapVars, movieVars, rankVars, digraphVars, pathVars, lotVars, programVars>>
UseCounters ==
    /\ structure = "counters" /\ CountersNext
    /\ UNCHANGED <<structure, inputVars, lruVars, lfuVars, verVars, setVars, sheetVars, showVars, rangeVars,
                   heapVars, movieVars, rankVars, digraphVars, pathVars, lotVars, programVars>>
UseVersions ==
    /\ structure = "versions" /\ VersionNext
    /\ UNCHANGED <<structure, inputVars, lruVars, lfuVars, cntVars, setVars, sheetVars, showVars, rangeVars,
                   heapVars, movieVars, rankVars, digraphVars, pathVars, lotVars, programVars>>
UseSet ==
    /\ structure = "set" /\ SetNext
    /\ UNCHANGED <<structure, inputVars, lruVars, lfuVars, cntVars, verVars, sheetVars, showVars, rangeVars,
                   heapVars, movieVars, rankVars, digraphVars, pathVars, lotVars, programVars>>
UseSheet ==
    /\ structure = "sheet" /\ SheetNext
    /\ UNCHANGED <<structure, inputVars, lruVars, lfuVars, cntVars, verVars, setVars, showVars, rangeVars,
                   heapVars, movieVars, rankVars, digraphVars, pathVars, lotVars, programVars>>
UseShow ==
    /\ structure = "show" /\ Show!Next
    /\ UNCHANGED <<structure, inputVars, lruVars, lfuVars, cntVars, verVars, setVars, sheetVars, rangeVars,
                   heapVars, movieVars, rankVars, digraphVars, pathVars, lotVars, programVars>>
UseRanges ==
    /\ structure = "ranges" /\ Rng!Next
    /\ UNCHANGED <<structure, inputVars, lruVars, lfuVars, cntVars, verVars, setVars, sheetVars, showVars,
                   heapVars, movieVars, rankVars, digraphVars, pathVars, lotVars, programVars>>
UseHeap ==
    /\ structure = "heap" /\ Hp!HeapNext
    /\ UNCHANGED <<structure, inputVars, lruVars, lfuVars, cntVars, verVars, setVars, sheetVars, showVars,
                   rangeVars, movieVars, rankVars, digraphVars, pathVars, lotVars, programVars>>
UseMovies ==
    /\ structure = "movies" /\ Hp!MovieNext
    /\ UNCHANGED <<structure, inputVars, lruVars, lfuVars, cntVars, verVars, setVars, sheetVars, showVars,
                   rangeVars, heapVars, rankVars, digraphVars, pathVars, lotVars, programVars>>
UseRanks ==
    /\ structure = "ranks" /\ Rk!ReadNumbers
    /\ UNCHANGED <<structure, inputVars, lruVars, lfuVars, cntVars, verVars, setVars, sheetVars, showVars,
                   rangeVars, heapVars, movieVars, digraphVars, pathVars, lotVars, programVars>>
UseComponents ==
    /\ structure = "components" /\ Comp!Next
    /\ UNCHANGED <<structure, inputVars, lruVars, lfuVars, cntVars, verVars, setVars, sheetVars, showVars,
                   rangeVars, heapVars, movieVars, rankVars, pathVars, lotVars, programVars>>
UsePaths ==
    /\ structure = "paths" /\ Sp!GrowGraph
    /\ UNCHANGED <<structure, inputVars, lruVars, lfuVars, cntVars, verVars, setVars, sheetVars, showVars,
                   rangeVars, heapVars, movieVars, rankVars, digraphVars, lotVars, programVars>>
UseAllocation ==
    /\ structure = "allocation" /\ Sweep!LotNext
    /\ UNCHANGED <<structure, inputVars, lruVars, lfuVars, cntVars, verVars, setVars, sheetVars, showVars,
                   rangeVars, heapVars, movieVars, rankVars, digraphVars, pathVars, programVars>>
UseSql ==
    /\ structure = "sql" /\ Sql!Next
    /\ UNCHANGED <<structure, inputVars, lruVars, lfuVars, cntVars, verVars, setVars, sheetVars, showVars,
                   rangeVars, heapVars, movieVars, rankVars, digraphVars, pathVars, lotVars, typeVars, scanVars>>
UseTypes ==
    /\ structure = "types" /\ Types!Next
    /\ UNCHANGED <<structure, inputVars, lruVars, lfuVars, cntVars, verVars, setVars, sheetVars, showVars,
                   rangeVars, heapVars, movieVars, rankVars, digraphVars, pathVars, lotVars, sqlVars, scanVars>>
UseWorld ==
    /\ structure = "world" /\ ScanNext
    /\ UNCHANGED <<structure, inputVars, lruVars, lfuVars, cntVars, verVars, setVars, sheetVars, showVars,
                   rangeVars, heapVars, movieVars, rankVars, digraphVars, pathVars, lotVars, sqlVars, typeVars>>
UseSorting ==
    /\ structure = "sorting" /\ Rk!ReadPairs
    /\ UNCHANGED <<structure, dataVars, lineVars, wordVars, tokenVars, linkVars, gameVars, roadVars>>
UseLines ==
    /\ structure = "lines" /\ Sweep!LineNext
    /\ UNCHANGED <<structure, dataVars, kvs, wordVars, tokenVars, linkVars, gameVars, roadVars>>
UseWords ==
    /\ structure = "words" /\ Word!Extend
    /\ UNCHANGED <<structure, dataVars, kvs, lineVars, tokenVars, linkVars, gameVars, roadVars>>
UseTokens ==
    /\ structure = "tokens" /\ Text!ReadToken
    /\ UNCHANGED <<structure, dataVars, kvs, lineVars, wordVars, gameVars, roadVars>>
UseLinks ==
    /\ structure = "links" /\ Text!ChangePath
    /\ UNCHANGED <<structure, dataVars, kvs, lineVars, wordVars, gameVars, roadVars>>
UseGames ==
    /\ \/ structure = "games" /\ Game!Next
       \/ structure = "towers" /\ Tower!Next
    /\ UNCHANGED <<structure, dataVars, kvs, lineVars, wordVars, tokenVars, linkVars, roadVars>>
UseRoads ==
    /\ structure = "roads" /\ Sp!GrowRoads
    /\ UNCHANGED <<structure, dataVars, kvs, lineVars, wordVars, tokenVars, linkVars, gameVars>>

Next ==
    \/ UseLru \/ UseLfu \/ UseCounters \/ UseVersions \/ UseSet \/ UseSheet \/ UseShow \/ UseRanges
    \/ UseHeap \/ UseMovies \/ UseRanks \/ UseComponents \/ UsePaths \/ UseAllocation
    \/ UseSql \/ UseTypes \/ UseWorld
    \/ UseSorting \/ UseLines \/ UseWords \/ UseTokens \/ UseLinks \/ UseGames \/ UseRoads

vars == <<structure, dataVars, inputVars>>

Spec == Init /\ [][Next]_vars

-----------------------------------------------------------------------------
\* Each structure keeps its promise of the module it comes from; those of the modules that
\* this one extends are there already.
ReturnTypeIsExact == structure = "types" => Types!ReturnTypeIsExact

\* What is asked of a store is answered from what is in it then: of the table with rows, of
\* the graph with versions by its readers, and of the database of a world by a scan.
QueriesAgree ==
    /\ structure = "sql" => Sql!QueryIsExact
    /\ structure = "versions" => ReadersAgree
    /\ structure = "world" => ListingIsReliable

\* The trees over ranges give what arrays would give.
TreesAgree ==
    /\ structure = "show" => Show!SeatsAgree
    /\ structure = "ranges" => Rng!RangesAgree

\* The heap, the first movies, the ranks in a stream and the external sort: what is kept in
\* heaps and files gives what sorting everything would give.
RanksAgree ==
    /\ structure = "heap" => Hp!HeapAgrees
    /\ structure = "movies" => Hp!RentingAgrees
    /\ structure = "ranks" => Rk!RanksAgree
    /\ structure = "sorting" => Rk!SortsEveryPair

\* The algorithms on graphs give what the definitions of components, of a largest matching,
\* of least distances and of weights give.
GraphsAgree ==
    /\ structure = "components" => Comp!ComponentsAgree
    /\ structure = "paths" => Sp!DistancesAgree
    /\ structure = "roads" => Sp!WeightsAgree

\* The greedy sweeps find what the definitions of a best allocation, of an envelope and of the
\* rooms that are needed give.
AllocationsAgree ==
    /\ structure = "allocation" => Sweep!AllocationsAgree
    /\ structure = "lines" => Sweep!EnvelopesAgree

\* The answers about inputs that grow by one item at a time are those of the plain
\* definitions: questions about words, expressions, paths with links, and the two searches.
AnswersAgree ==
    /\ structure = "words" => Word!AnswersAgree
    /\ structure = "tokens" => Text!ExpressionsAgree
    /\ structure = "links" => Text!PathsAgree
    /\ structure = "games" => Game!SearchesAgree
    /\ structure = "towers" => Tower!SearchesAgree
=============================================================================
