# Verification of code_recipes

TLA+ models of the concurrent and stateful programs of this repository, the TLC
runs that check them on small instances, and proofs, checked by TLAPS, of what
holds for every size.

The repository is a collection: each file is a program or a library of its own,
and few of them call another. "The system" is therefore a set of components,
each with its own state and its own threads or callers. The models are ordered
by how hard a component is to test: first what runs concurrently and may fail,
then the data structures with many kinds of calls, then the algorithms.

Contents: [Inventory](#inventory) -
[Modules and the code](#modules-and-the-code) - [Runs](#runs) -
[Fairness](#fairness) - [Proofs](#proofs) - [Where the code and its words
disagree](#where-the-code-and-its-words-disagree) - [Not
modelled](#not-modelled) - [Plan](#plan) - [How to run](#how-to-run)

## Inventory

### Concurrent components

| Component | State | Operations | What is hard | What makes it correct |
|---|---|---|---|---|
| `PhilosophersSync` with its `BinarySemaphore`s (`cpp/Dining_philosophers_problem.cc`) | `states_`, one semaphore per philosopher, the mutex `m_`; in a semaphore `v_`, a mutex and a condition variable | `takeForks`, `putForks`, `tryToEat`, `acquire`, `release`; the threads of the test | a grant may be given before the philosopher waits for it; `notify_one` runs outside the mutex; a neighbour tries on behalf of another | neighbours never eat together, no wake-up is lost, nobody hungry is forgotten, somebody eats |
| `Semaphore`, `BinarySemaphore` (same file, own tests) | `v_`, the waiters | `acquire`, `release` | spurious wake-ups, a permit taken by a thread that never slept | permits are neither lost nor doubled |
| `GroupCommit` (`python/group_commit.py`) | the queue, its lock, a semaphore, an event per call | `commit` | who is the leader is decided in one section and used in another; `commit_func` may raise | each datum commits once, no call returns before, nobody waits without a leader |
| `LeaderElection` (`golang/etcd_leader_election/`) | channels and atomics of an object, its etcd session and key | `StartLeaderElectionAsync`, `BlockingWaitForLeadership`, `Close`; two goroutines per object | `Close` races with the campaign; sessions expire, calls to the servers fail; random `select` | one leader with its key, an error ends the leadership, `Close` ends, a closed participant's key goes |
| `HttpClientPool` (`golang/http_client_pool/`) | a bounded channel, a `WaitGroup`, `stopCh`, workers | `Start`, `Submit`, `WaitForPendingItems`, `Stop` | counting before sending, a full channel, stop with items left | an item is called once, waiting means processed, stop ends |
| `AsyncCrawler` (`python/async_crawler.py`) | pending tasks, a counter and a queue per domain, the shared iterator | `crawl_all_with_client`, `crawl_all`, `populate_pending_tasks` | the event loop runs during a yield; the consumer may leave; quotas | counters and limits are exact, tasks start in order, all are yielded |
| `MpFileProcess` (`python/mp_file_process.py`) | a queue and a temporary file per worker, the output, a reporter thread | `run`, `mfpWorker` | the order is restored only by dealing and merging in turn; pipes fill up; poison pills | the output keeps the order of the input, `run` returns |
| Reductions (`cpp/reduce.cc`, `cpp/message_queue.h`) | a vector, a `Fence` per round, a queue per thread | `binaryTreeTreadRun`, `binaryTreeTreadRunWithMsg`, `ringAllReduceThreadRun` | unprotected `+=` ordered only by fences; messages of other rounds | every value is counted once, with any number of threads |
| `OrderedSync`, `QueueSync`, `Foo` (`cpp/` and `python/simple-concurrency-control`) | latches, an atomic, barriers, a turn | `first`, `second`, `third`, `run` | one condition variable for all turns | output in turn, all threads return |
| `RpcTraining`: the tests of `ai-ml/ddp_with_rpc.py` and `ai-ml/drlm_with_ddp.py` | a master, a remote worker with two modules, trainers with replicas of a model | `do_test_on_master`, `Trainer.__init__`, `do_mini_batch`, `do_forward_without_grad`, `do_one_example` | remote calls that do not wait, constructors that run late, collective operations that all trainers have to enter | trainers meet at the same place, no epoch starts before all have ended the last, the master gets all its answers |
| `open_db_readonly`, `scan_world` (`from-ai/minecraft/bedrock_list_non_natural.py`) | the files `LOCK` and `LOCK.scan_bak`; what is listed | moving the lock aside and back, decoding subchunks and entities | several scans of one world, a scan that is killed, records that end early | the lock of before is kept, every record is listed, every block at its place (fails for 3, 5 and 6 bits) |
| finder of the server URL (`from-ai/minecraft/get_latest_bedrock_url.py`) | `found_url`, filled by handlers of responses | `get_linux_download_url`, `try_browser`, `on_response` | handlers run during the calls of the program; every call may raise | a browser whose calls do not raise returns the first URL that came to it |
| `SharedResource` (`python/threading_queue_example.py`) | one queue | `produce`, `consume`, main with its sentinels | sentinels behind the items | everything is consumed once |

None of these shares state with another, but several use the same parts: the
philosophers use the semaphores, the reductions the message queue and the fence.
`RpcTraining` and the scan of a world meet libraries at every turn (collective
operations, LevelDB, a browser); what the code relies on of them is modelled and marked external.
A part that a component uses is modelled inside it, step by step, and not
assumed to work.

### Data structures

| Component | State | Operations | What is hard | What makes it correct |
|---|---|---|---|---|
| LRU caches (`cpp/lru_cache.cc`) | a map and a list, of pointers or `std::list` | `set`, `get` | pointer surgery at the ends of the list | the least recently used key goes |
| LFU cache (`cpp/lfu_cache.cc`) | two maps, lists per count, `lowestFreq_` | `put`, `get` | `lowestFreq_` cached | the least used key goes |
| `MinMaxCounters`, `AllOne`, `DoubleLinks` (`python/cross-double-links.py`, `doubly_linked_list.py`) | lists of lists | `inc`, `dec`, `get_max`, `get_min` | a head-node vanishes between two uses of it | the extremes are right |
| `SnapshotArray` (Go), `VersionedDirectedGraph`, `KvStore` (python) | lists of versions | `Set`/`Snap`/`Get`; edges, iterators, `bfs`; `set`/`get`/`persist`/`load` with `KvCodec` | three binary searches; iterators while edges change; files that end early | the past does not change, a file gives back what was persisted |
| `SnapshotSet` (`cpp/SnapshotSet.cc`) | segments of additions and removals | `add`, `remove`, `get`, `begin`, `++` | iterators over a set that changes | an iterator sees its snapshot |
| `Sheet` (`python/spreadsheet_graph.py`) | cells with edges to dependants | `set_cell`, `get_cell` | breadth-first recalculation, refused formulas | no cycles; no stale cells (fails) |
| `BookMyShow` on segment trees (`cpp/segment-tree.cc`, `python/segment-tree.py`) | a tree over rows | `gather`, `scatter` | segments filled as a whole | answers as by the plain rows, no assertion fails (one does) |
| `FenwickTree`, `Fancy` (`cpp/fenwick-tree.cc`, `python/segment-tree-2.py`) | operations noted in segments, trees that grow | `append`, `addAll`, `multAll`, `getIndex` | operations noted before a value exists | every point has its value |
| `BinaryHeap` (`cpp/binary-heap.cc`) | a heap and the position of each key | `push`, `pop`, `erase`, changes of values | keys in the middle move | heap order, positions right |
| `MovieRentingSystem` (`python/min_heap.py`) | heaps with marks for removed entries, caches | `rent`, `drop`, `search`, `report` | an entry removed and pushed again; stale caches | the first entries are right |
| `MedianFinder`, `streaming_top_k` (`python/`) | two heaps; an array of 2k numbers | `addNum`, `findMedian`; `quick_select` | equal numbers, indices of the partition | ranks are right |
| `DirectEdgeList`, components, matching (`cpp/graph.h`, `cpp/` and `python/Strongly-connected-components`, `cpp/Bipartite-matching.cc`) | edges and `start_` | three algorithms for components, the longest visit, augmenting paths | flags that outlive a search | the definitions of component and matching |
| `FloydWarshall`, `Dijkstra` (`cpp/`) | distances, first edges | constructor, `addEdge`, `run`, `shortestPath` | distances updated while edges come | least distances, real paths |
| `Table`, `Query` (`python/min_sql.py`) | rows; what a query selects, filters and orders by | `insert`, `select`, `where`, `order_by`, `commit` | a row stays when its insertion fails; `None` in comparisons; the order of equal keys | the rows that satisfy the conditions, in order |
| `get_return_type` (`python/type_var.py`) | the output type of a function | calls, one after the other | the output is changed in place | a call returns the type its arguments give; later ones what the first gave |
| `Scheduler`, `GiftPoints` (`python/worker_scheduling.py`, `gift_points_heapq.py`) | lots and needs | `maxUnitsOnDay`, `query` | greedy passes in both directions of time | as good as the best allocation |

### Algorithms

| Component | Input that grows | Functions | What is hard | What makes it correct |
|---|---|---|---|---|
| external sort (`python/external-sorting.py`) | pairs, under a memory budget | `split_into_files`, `merge_files`, `sort_kvs` | files left over by a round of merges; a budget that is used up within a file | all pairs come out, in order |
| `PiecewiseMax`, `getSkyline`, `scheduleMeetings` (`python/piecewise-max-function.py`, `python/heapq-example.py`, `cpp/4fun/ScheduleMeetings.cpp`) | fighters; buildings or meetings | `append`, `prepend`, `max_y_for`; the two loops over a heap | segments cut where lines cross; entries of the heap that have ended | the best pair, the outline, the fewest rooms |
| questions about sequences (`cpp/LCS.cc`, `python/median-2-sorted-arrays.py`, `python/shortest-palindrome.py`, `python/Cartesian-tree.py`, `cpp/linked-list.cc`) | one or two words | as named | indices of a binary search, tables of failures, prefix sums modulo a number | the definition of each answer |
| `SerializedStringSet` (`cpp/serialized_string_set.cc`) | words in one buffer | constructor, `hasStr` | offsets, comparison with a part of the buffer | membership |
| `Calculator`, `path_cd` (`python/`) | tokens; segments and links | `push_num`, `push_right`; `cd`, `resolve_links` | a stack evaluated while it is read; cycles of links | the value of the expression; the path, or a cycle |
| connect four, Sudoku (`cpp/connext_4.cc`, `cpp/4fun/Sudoku-Solver.cpp`) | a position; the givens | `isWinningMove`, `treeSearch`; `setDigit`, `solve_` | a memo, moves that are taken back | a move that wins makes four in a row (fails); the value of the position; a solution exactly if there is one |
| `modifiedGraphEdges` (`cpp/4fun/LC-2699.cc`) | edges, some without weight | `run`, `modifiedGraphEdges` | two tables of distances kept right while edges change | an answer exactly if there is one |

Calls arrive one after the other in the structures (none of these is used by several
threads); what is hard is a long sequence of legal calls. In the models every
sequence within the bounds is explored, and what a structure answers is compared
with plain contents that are kept beside it, or with a definition.

The remaining files are listed under [Not modelled](#not-modelled).

## Modules and the code

An action has the name of the function, or of the section of one, that it
models; `PROJECT.json` maps every definition to its lines. Sections under a
mutex that do not wait inside are one action; everything else that other
threads can interleave with is a step of its own.

| Module | Models | State and actions |
|---|---|---|
| `PhilosopherTable` | what the philosophers see | `doing`; hungry, eating only beside neighbours who do not, thinking |
| `DiningPhilosophers` | `PhilosophersSync`, its semaphores and threads | `m` (who holds `m_`), `states`, `v_`, who waits for which notification, a location per thread; implements `PhilosopherTable` by `Doing` |
| `CommitService` | what callers of `commit` see | `status`, `log` |
| `GroupCommit` | `GroupCommit.commit` | queue, batches, events, permits, a location per call; implements `CommitService` by `Status` |
| `LeaderElection` | one object per participant, its goroutines, `Close` and a waiter | a record per participant, the keys in etcd in the order they were written; etcd and its client are external and only what the code relies on is assumed of them |
| `HttpClientPool` | the pool, its workers and callers | channel, senders that block, counter, `stopCh` |
| `AsyncCrawler` | the generator, the crawls and the consumer | the place of each task, counters and queues per domain |
| `MpFileProcess` | main process, workers, merge, reporter | queues, temporary files, output; kinds of lines instead of texts |
| `RpcTraining` | both training programs | where the master is, the constructor and the calls of each trainer, how many collective operations it has entered; parameters are the set of gradients that went into them |
| `UrlFinder` | both browsers and the handlers of responses | the call the program is in, the handlers that wait, what was found and from where; any call may raise, and what a browser found by then is dropped |
| `Reduce`, `TurnTaking`, `Semaphores`, `SharedResource` | the small threaded programs | composed in `MCThreads` |
| `BoundedCache` | what a cache promises | `content`, `uses`, `order` (which of two keys was used less recently), `result` |
| `LruCache`, `LfuCache` | the caches node by node | the pointers `prev` and `next`, or a list; the lists per count and `lowestFreq_`; both implement `BoundedCache` |
| `Counters`, `MinMaxCounters` | plain counters; the lists behind `inc` and `dec` | `MinMaxCounters` implements `Counters` |
| `VersionedStores` | the three stores with versions | `store` says which; `saved` keeps what each version was; a file of the `KvStore` is a sequence of bytes, and `Load` reads any beginning of it |
| `SnapshotSet`, `Sheet`, `BookMyShow`, `RangeTrees` | as named | contents kept beside the structure to compare with |
| `ErasingHeaps` | `BinaryHeap`, and `MovieRentingSystem` on its heaps with marks | `heap_` and `hpos_` compared with each other and with the order; the first entries compared with sorting |
| `StreamRanks` | ranks in a stream; the external sort of the python program | answers compared with sorting; a pair is read per step, and the sort with every budget is compared with a sort in memory |
| `Components`, `ShortestPaths` | graphs that get edges; `modifiedGraphEdges` | compared with reachability, with the theorem of Koenig and Hall, with least walks, with distances by rounds over all edges |
| `MiniSql`, `TypeVar` | the table and its query; a function and its calls | compared with the rows that satisfy the conditions, ranked; with all assignments of types to variables |
| `WorldScan` | the lock file and the scans; the decoders | the files `lock` and `backup` by who created them, a location per scan; opening a LevelDB may create a `LOCK` before it fails; the records of a world, compared with what the game has packed |
| `Sweeps` | both allocators on one state; the piecewise maximum, the skyline, the rooms | lots and needs, compared with the condition of Hall over sets of days; fighters, or buildings that are also meetings, compared with all pairs, with the height at every point, with the meetings at one time |
| `SequenceAnswers` | six functions of words, and the string set | two words that grow; compared with definitions over all subsequences, ranks, palindromes, subarrays |
| `ParsedTexts` | the calculator and `path_cd` | a token or a segment per step; compared with an evaluation by precedence, and with links followed one at a time |
| `GameSearch` | the two searches | a move or a given per step; compared with the four in a row of the rules, with the value that follows from those of the next positions, and with all fillings |
| `MCPrograms`, `MCThreads`, `MCStructures` | instances for TLC | several modules side by side, one used per behaviour |
| `*_proofs` | theorems | see [Proofs](#proofs) |

`MCPrograms`, `MCThreads` and `MCStructures` do not make components interact that do
not in the code: a variable says which one is used, and the others stay in an initial
state. This only shares one TLC run among small models. All three EXTEND
modules that are proved about, whose names are prefixed for that reason (`CrawlerNext`,
`FileNext`, `TrainingNext`; `SemNext`, `TurnNext`, `SharedNext`; `LruNext`, `LfuNext`,
`CountersNext`, `SheetNext`, `VersionNext`, `SetNext`, `ScanNext`), so that a property of
a run is the very definition that the theorem states (in `MCThreads` the names without a
prefix are those of `GroupCommit`); the others are instances.

## Runs

| Run | Question | Bounds, and why they are enough |
|---|---|---|
| `dining` | Is a wake-up ever lost or a hungry philosopher forgotten? Does the code implement the table? Does somebody eat? | 5 philosophers, as in the test: the smallest ring where two philosophers at distance two have different other neighbours; the safety part is proved for every number |
| `dining_starvation` | Is starvation avoided "by design"? | 4 philosophers: the smallest ring with two pairs of opposite ones (violated) |
| `leader_liveness` | Is there one leader with its key, and none after an error? Does `Close` end, does the key go, does somebody lead? | 2 participants, one may lose contact at any point; a call of `BlockingWaitForLeadership`, which no other step reads, is followed only while the other participant has not started (`WaitersAlone`, a constraint: all behaviours without such calls are explored in full); the proofs of the safety part cover any number of both |
| `leader_waiter` | Does `BlockingWaitForLeadership` return false once an error has happened? | 1 participant with a waiter (violated) |
| `programs` | The pool: is every item called once, does waiting mean processed, does `Stop` end? The crawler: are limits exact, and tasks started in order? The file processor: is the output in order? The training: do trainers stay in step? Does each of them end, and the finder with what it has found? | pool: 4 items, buffer 1, 2 workers: two items run, one is buffered, one blocks; crawler: 5 tasks of 2 domains in every assignment, 3 pending, 2 per domain, one abandonment: a domain can be at its limit with a queue while the other is not; files: 3 workers, up to 6 lines, pipes of 2 lines: two full rounds, uneven last rounds, a full pipe; training: 2 and 3 trainers, which divide 8 examples with and without a rest, 2 epochs, every test of both files; finder: 2 responses with the URL |
| `mp_file_blank` | The order of the output with blank lines | 2 workers, up to 4 lines (violated) |
| `threads` | The group commit: does every datum commit once and every call return? Do the small threaded programs keep their promises and end? | group commit: 4 calls, 2 permits, exceptions: two groups of two that commit at once, or a group of three behind a leader that raises; one participant of the election with a waiter, which may lose contact; reductions of 1 to 5 threads (both sides of a power of two), 3 threads in turn, 4 workers that enter twice each on 2 permits, 2 producers and consumers |
| `structures` | Does each data structure or algorithm answer as its contents say? | small domains, listed in `Structures.cfg`: more keys than places in a cache, trees that split unevenly and grow, all graphs of 4 nodes with up to 5 edges, all edges with two weights on 4 nodes, all pairs of lots and needs on 4 days; for the algorithms see below |
| `show_raises` | Does a legal call of `BookMyShow` fail in an assertion? | up to 3 rows of 2 seats (violated with 2 rows) |
| `connect_four` | Does a move that is taken for a win make four in a row? | the board of the program, 7 columns and 6 rows (violated after five moves) |
| `sheet_stale` | Does a cell show the sum of its operands after a change? | 4 cells (violated) |
| `subchunk` | Is every block of a subchunk listed at its place? | 8 blocks of 3 bits in words of 8 bits, which hold two and have two bits left over, as a word of 32 bits does (violated) |

Of the bounds of `structures`, the newer ones: texts of the `KvStore` with one and
two bytes per character, two versions per key; sheets in which one cell names
itself; worlds of two records, the last of any kind and cut anywhere, words of 8 bits
with none to four bits per block, of which 3 leaves bits over, and two scans of one world; tables
of two columns and three rows, two conditions, two columns to order by; functions
of up to two parameters, called twice.

The bounds of the algorithms in `structures` are in the `INSTANCE ... WITH` of
`MCStructures`. Their comparisons are parts of `RanksAgree` (the sort), `AllocationsAgree`
(envelopes), `GraphsAgree` (roads) and `AnswersAgree` (the others):

* the sort: 5 pairs of tokens of length 1 or 2, budgets 4, 5 and 8: two files
  are merged at once, of up to three, so that a round leaves one over;
* envelopes: 4 fighters (damage and health up to 3), so that segments are
  dropped from both ends; 3 buildings or meetings within 0 .. 4: nested, touching, apart;
* words: pairs of words of 2 letters with up to 5 letters, sums modulo 7, so that
  sums wrap around;
* texts: expressions of up to 7 tokens, which have both precedences and a
  parenthesis; paths of 4 segments with 2 links, followed up to a depth of 6;
* games: a board of one row with 7 columns, as wide as the program's, which has lines with a
  gap, and one of 2 columns with 6 rows; on these a line lies or stands, diagonals are
  only in the run `connect_four`; boxes of side 2 with up to 4 givens, contradictory ones too;
* roads: 4 nodes, 4 edges, targets up to 3.

The run takes about two and a half minutes with two workers, as `threads` does; no other takes longer.

Counters that grow without bound in the code (versions, uses, calls) are bounded
by constants named `Max...` in the guards. Deadlock is checked in the two dining
runs; the other programs end, or stop at a bound.

The properties of each run:

* `dining`: `NoLostWakeup`, `HungryIsCovered`, `RefinesTable`, `SomebodyEats`
* `dining_starvation`: `NoStarvation`
* `leader_liveness`: `ElectedIsFirst`, `NoLeaderAfterError`, `CloseEnds`, `KeyIsReleased`,
  `SomebodyLeads`
* `leader_waiter`: `TrueMeansNoError`
* `programs`: `OnePlace`, `QuotaKept`, `StartedInOrder`, `LinesInOrder`,
  `TrainersInStep`, `WaitMeansProcessed`, `EveryItemIsProcessed`, `StopEnds`,
  `ProgramsEnd`
* `mp_file_blank`: `OutputInOrder`
* `threads`: `ExactlyOnce`, `FollowerHasLeader`, `ReduceIsExact`, `OutputInTurn`,
  `NothingIsLost`, `RefinesService`, `EveryCallReturns`, `ThreadsReturn`
* `structures`: `PastIsKept`, `SnapshotIsIsolated`, `SheetIsAcyclic`, `TreesAgree`,
  `RanksAgree`, `GraphsAgree`, `AllocationsAgree`, `AnswersAgree`, `QueriesAgree`,
  `ReturnTypeIsExact`, `LockIsKept`, `EvictsLeastRecent`, `EvictsLeastUsed`,
  `CountersAgree`
* `show_raises`: `NeverRaises`
* `connect_four`: `WinsAreFours`
* `sheet_stale`: `SheetUpToDate`
* `subchunk`: `ListingIsExact`

What the properties say is at their definitions. The ones that say most:
`RefinesTable`, `RefinesService`, `EvictsLeastRecent`, `EvictsLeastUsed` and
`CountersAgree` are refinements of abstract specifications; `NoLostWakeup`,
`FollowerHasLeader`, `ElectedIsFirst`, `QuotaKept`, `LinesInOrder`,
`TrainersInStep` and `NothingIsLost` relate several actors; `EveryCallReturns`,
`KeyIsReleased`, `SomebodyLeads`, `EveryItemIsProcessed`, `StopEnds`, `ProgramsEnd`
and `ThreadsReturn` say what must eventually happen.

Some properties of a run have parts, each from a module of its own: `LinesInOrder`
(`DealtInTurn`, `OutputInOrder`), `NothingIsLost` (`PermitsKept`,
`EverythingConsumed`), `TreesAgree` (`SeatsAgree`, `RangesAgree`), `RanksAgree`,
`GraphsAgree`, `AllocationsAgree`, `AnswersAgree`, `QueriesAgree` (`QueryIsExact` of the table,
`ReadersAgree` of the graph and the `KvStore`, `ListingIsReliable` of the scan of a world) and `ProgramsEnd`.

Some also say what is left of a promise where the code does not keep it:

* `EveryCallReturns` leaves out the followers of a leader that raised, who wait for ever;
* `ReturnTypeIsExact`: second calls of a function; `SheetIsAcyclic`: formulas that were refused;
* `TreesAgree`: only `scatter` of the python program may raise, and only when there are seats enough;
* `RanksAgree`: a CHECK of the heap fails in `erase` of the last position, and nowhere else;
* `LockIsKept` leaves out scans that overlap or are killed while they open the database,
  and names the one `LOCK` that may be left where there was none: that of an opening which failed;
* `QueriesAgree`: in a scan with a width that does not divide the word only the blocks of the first
  word are in place; a record that raises ends the scan;
* `ProgramsEnd`: the finder returns nothing only when a call of each browser has raised; a URL that a
  browser had found by then is dropped.

## Fairness

Weak fairness of a thread's step says that the operating system, the Go runtime
or the event loop runs a thread that can run. Beyond that:

* `DiningPhilosophers`: strong fairness of `PutForks`: a thread that asks for
  `m_` again and again gets it. Thinking may last for ever; `BusySpec`, of the
  starvation run only, adds strong fairness of `TakeForks`, as the loops of the
  test ask for the forks again and again.
* `GroupCommit`: `commit_func` ends.
* `LeaderElection`: a session that has a reason to end ends, the lease of a
  session that is done expires (that is what leases are for), and the owner closes
  an object that reported an error, as the comment on `ErrorCh` asks. Nothing forces a
  participant to start, to be closed otherwise, or to lose contact.
* `HttpClientPool`: strong fairness of `Send`: the Go runtime queues blocked
  senders in order. An item that is called returns.
* `AsyncCrawler`: a crawl completes (the client has a timeout) and the consumer
  asks for the next result, unless it abandons the generator.
* `RpcTraining`: every process runs, calls and answers arrive, a collective
  operation that all trainers have entered returns. Nothing is said of the order.
* `UrlFinder`: every call of the browser ends, or raises, by its timeout at the latest;
  responses and links need not come.
* `WorldScan` has no liveness property: a scan may be killed at any time.
* `MpFileProcess`, `MCThreads`: every process or thread runs. Spurious wake-ups
  may happen or not, and nothing forces a call of `commit` to raise.

## Proofs

The concurrent components and the data structures without recursive operators have proofs,
in `_proofs` modules: an inductive invariant, that it holds initially, that every action
preserves it, one step or lemma per action, and the theorems that follow.
None of them bounds a constant: what is assumed is named at each.

* `DiningPhilosophers_proofs`, for every `N \in Nat \ {0}` (`NAssumption`).
  `IInv` says which thread is inside `m_` (`MutexInv`), that a philosopher's
  state, semaphore and location agree (`GrantInv`), who holds the forks
  (`ForkInv`), and the properties `NeighboursApart`, `NoLostWakeup`,
  `HungryIsCovered`. The last needs the first: while a philosopher inside `putForks` still has a
  neighbour to try, that neighbour may be HUNGRY between neighbours who do not
  eat; `MutexInv` says there is only one such place at a time. `ImplementsTable`
  shows that every step is a step of the table or a stutter.
* `GroupCommit_proofs`, for every set of calls and number of permits
  (`CommitsAssumption`, `MayRaiseAssumption`). `IInv` says that a datum is in one
  place (`ExactlyOnce`), that a leader heads the group it took
  (`LeaderHeadsGroup`), who is in the queue (`QueueInv`), whose event is set
  (`WakeInv`), and what is durable (`DurableInv`). `ImplementsService` is the
  refinement. `PermitInv` is proved beside them.
* `LeaderElection_proofs`, for every set of participants
  (`WaitersAssumption`, `LossyAssumption`): the oldest key is the elected
  participant's, the order of a campaign's steps, errors and closed channels: nobody
  becomes leader after an error, and `cancelCh` is closed only after the error was sent.
* `Clients_proofs`, about the two programs that limit how many requests run. The pool, for
  every finite set of items and any workers and buffer (`ItemAssumption`,
  `SizeAssumption`): the counter is exact, which needs cardinalities of the sets of items in
  each place; an item is in one place. The crawler, for every number of tasks, assignment
  of domains, limits and number of abandonments (`CrawlerAssumption`): `QuotaInv`, the
  counters, needs nothing else. `StartedInOrder` does: a task starts when it is taken from
  the iterator, or later when one of its domain has ended, so the invariant also says that
  a domain with delayed tasks is at its limit (`DelayedAtLimit`), that its queue is
  ordered (`QueuesAreOrdered`) and that the iterator is past all of them
  (`IteratorIsBehind`), except while `done` is being emptied (`DoneIsEmptied`).
* `MpFileProcess_proofs`, for every number of processes, length of the input and
  capacity of the pipes (`FileAssumption`). `FileInvariant` and `LinesStayInOrder` have
  the hypothesis `PlainKinds`, that no line is blank and no result has only blanks: with
  those the order is lost, which the run `mp_file_blank` shows. The run `programs`, whose
  kinds are `kept` and `skipped`, is an instance of the hypothesis. `Ind` says where each
  line that was dealt is (queue, temporary file or output), that the pill comes
  last, and which lines the merge has read (`MergedUpTo`).
* `Threads_proofs`, about three of the threaded programs and their composition in
  `MCThreads`. Semaphores (`SemaphoreAssumption`): `SemInv` adds to `PermitsKept` that who
  asks for a permit has entries left. `SharedResource` (`SharedAssumption`): `SharedInv`
  says that an item is in the queue, at a consumer or consumed, in one of these places
  once, and that sentinels stand behind all items (`Boundary`), which is why a consumer
  that ends leaves nothing. `TurnTaking` (`TurnAssumption`): `TurnInv` says how far the
  output is from where each thread is and from what was signalled; for `QueueSync` by
  rounds and turns (`RoundsRun`). `ProgramsAreKept` shows that the composition implements
  the three specifications, and the properties of the run follow.
* `RpcTraining_proofs`, for every number of trainers and of epochs and every test
  (`TrainingAssumption`). `TrainingInv` says which calls the master has made and whose
  answers it has (`Made`, `Awaited`), and how the number of collective operations a trainer
  has entered follows from where it is (`EnteredOK`, `LevelOK`): one for the group, one
  per net in the constructor, one per net and epoch. Equal numbers then mean the same
  place, which is `CollectivesMatch`. Under DDP the gradients of an epoch go into a
  replica all together (`LocalOK`), which gives `ReplicasAgree`. The master cannot have
  failed because two opposite gradients cancel (`TheGradientsCancel`), and the shares of
  the examples need the division of eight by any number (`ExamplesOfEach`).

* `Structures_proofs`, about seven of the components of `structures`. Where the model has a loop, it is a
  recursive function, and the proof shows that the function exists and what each turn keeps
  by looking for the least turn that fails (`LeastNatural`, `LoopExists`, `LoopKeeps`,
  `TurnsExist`, `TurnsStay`): an induction over a number that needs no library theorem
  with an operator parameter.
  * `VersionedStores` (`VersionAssumption`): `VersionInv` says that each list is in
    the order of its versions and how it gives what was saved under each of them;
    `SearchFindsLast` that the binary searches with their different roundings find the last
    one up to a version. `PastIsKept` follows for the three stores, with `Load`
    and `Persist`.
  * `SnapshotSet` (`SegmentsAssumption`): `SetInv` says that the segments an iterator has to come
    to are frozen and end where its snapshot ends, and that what it has yielded and has
    still to yield is the set of its `begin`. `SnapshotIsIsolated` is a part of it.
  * `LfuCache` (`LfuAssumption`): `LfuInv` says that the lists hold the keys by their counts,
    each once and in the order of use, and that `lowestFreq_` is the lowest count with a
    key. `LfuImplements` maps the abstract order of use to the positions in the lists: only
    keys of one count are compared, and only their order is promised.
  * `LruCache` (`LruAssumption`): `LruInv` says that the nodes are chained from `head_` to
    `tail_` through the keys of the map, both ways, or that the list holds each key once; in
    both, `PlaceOf` is the order of use. `LruImplements` is the refinement, for both caches.
  * `MinMaxCounters` (`CountersAssumption`): `CountersInv` says that the head-nodes in use are
    linked both ways from `max_head` to `min_tail` in the order of their counts, which differ
    (`HeadsLinked`), and that each owns a list of its own, linked both ways, of keys that know
    it (`ElementsLinked`). That a list has no loop is said by a rank that grows along it: a
    first element that no other follows is then alone, and its head-node goes with it
    (`AloneInList`). One head-node for each key is enough, whatever the sequence of calls
    (`OneIsFree`). `remove`, a neighbour or a new head-node, and `add` each keep a part of the
    invariant (`RemovingElement`, `NeighbourFound`, `Placed`); where the code inserts is right
    although a head-node it has read before may be gone (`WhereIncInserts`,
    `WhereDecInserts`). `CountersImplement` is the refinement of `Counters`.
  * `Sheet` (`SheetAssumption`): `SheetInv` says that until the refusal of a longer cycle
    the edges are those of the operands, and that every set of cells has one without
    an operand in the set (`Acyclic`). `Searching` says that a search reaches
    everything impacted by what it reaches, although the model gives it `NumCells` turns
    only: a cell is queued once. New edges then close no cycle (`StaysAcyclic`), which gives
    `SheetIsAcyclic` (`NoneDependsOnItself`). What a recalculation shows is no part of it:
    that `SheetUpToDate` fails is shown by the run `sheet_stale`.
  * `WorldScan` (`ScansAssumption`): `ScanInv` says where the `LOCK` that was found is while a
    scan opens the database (`FoundIsKnown`), and who created the one in its place, for every
    number of scans; `LockIsKept`.

TLC has checked the inductive invariants, or the properties they imply, before.

Model-checked only:

* liveness and fairness: TLAPS proves neither; so `SomebodyEats`, `EveryCallReturns`,
  `CloseEnds`, `KeyIsReleased`, `SomebodyLeads`, `EveryItemIsProcessed`, `StopEnds`,
  `ProgramsEnd` and `ThreadsReturn` stay with TLC;
* `ReduceIsExact`: that sums over parts of a vector add up, in rounds that are powers of two,
  is an induction over the data;
* the finder, which has only a liveness property;
* of `structures`: `TreesAgree`, `RanksAgree`, `GraphsAgree`, `AllocationsAgree`, `AnswersAgree`
  and `ReturnTypeIsExact`, whose models are recursive operators on trees, graphs, words
  and types, which the prover does not handle; `QueriesAgree`, which compares a sort by folds with a
  definition of ranks, the codec on bytes with a list, and indices in words with a grid.

## Where the code and its words disagree

* `dining_starvation`: the comment says that starvation is avoided by design;
  two opposite philosophers can take turns for ever.
* `mp_file_blank`: a blank line is taken for the poison pill, and the later lines
  of its worker are lost.
* `sheet_stale`: the recalculation is breadth-first and computes a cell once,
  possibly before its operands.
* `leader_waiter`: the comment of `BlockingWaitForLeadership` says "Return false if
  any error happens"; its `select` may take the closed `BecomeLeaderCh` although the
  error was sent and `cancelCh` is closed too.
* `subchunk`: the loop takes one index too many out of each word when the number of bits
  does not divide 32 (3, 5, 6), so that the blocks of all later words are listed at wrong places.
* `show_raises`: the assertion of `python/segment-tree.py:97` fails for `BookMyShow(2, 2)`,
  `gather(1, 0)`, `gather(2, 1)`, `scatter(1, 0)`.
* `connect_four`: `COUNT` of `cpp/connext_4.cc` is said to count the pieces in a row, but counts
  those behind a gap too: with red on columns 0, 1 and 4 of the bottom row, column 3 is
  taken for a win.

Seen while modelling, but not stated by a run:

* `SnapshotSet`: a member that is added again after a `begin` is yielded twice
  (`IteratesOnce` does not hold).
* `cpp/binary-heap.cc:76`: erasing the key at the last position of a heap fails a
  CHECK (`HeapAgrees` says exactly that); `push` can shrink `hpos_` below a live key.
* `cpp/graph.h:60`: `edgeIterator` of a vertex beyond the last one of an edge
  reads past the end of `start_`; `solve` asks for all `N` vertices.
* `cpp/Dijkstra.cc:36`: `run` from a node whose distance is the upper limit wraps
  around; the comment of `run` excludes it.
* `cpp/Dijkstra.cc:25-29`: several sources are not made a heap before `pop_heap`.
* `python/min_heap.py:75`: the entries are a class variable, shared by all systems.
* `SemaphoreTest` expects that three threads were inside at once, which depends
  on the scheduler.
* `python/external-sorting.py:42-43`: the docstring says that no file is larger than
  the memory budget; the last pair of a file may exceed it (`FilesFitBudget` does not hold).
* `python/path_cd.py:57`: a link to a path below itself is followed without end.
* `cpp/serialized_string_set.cc:43-54`: the search compares characters as signed
  numbers, the sort before it as unsigned ones; the model has no characters
  with the sign bit.
* `cpp/external-sorting.cc:72,75`: at most ten files are merged, and `pop_heap`
  lacks the comparator of the other calls.
* `python/persist_kv_store.py:46`: the end of a file may be missing without notice: the
  last value is then shorter (`FileReads` states exactly that).
* `python/spreadsheet_graph.py:85-94`: a refused formula leaves the operands of the
  cell and its edges apart, and the next `set_cell` of it raises `KeyError`.
* `python/type_var.py:81`: the type variables of a list are replaced in the function's own
  output; its next call returns the types of the first.
* `python/min_sql.py:46`: a row whose insertion raised `NoSuchColumn` stays.
* `ai-ml/ddp_with_rpc.py:304`: with three trainers two of the eight examples are not trained.
* `bedrock_list_non_natural.py:361`: a record of three bytes of version 9 ends the
  scan with an `IndexError`, and an entity whose `Pos` is not of numbers ends it at l. 553;
  two scans that open one world at once, or one that is killed then, lose its `LOCK`; an
  opening that fails may leave a `LOCK` where there was none.
* `get_latest_bedrock_url.py:89`: `get_attribute` raises when there is no link, so the
  search of l. 96-100 is never reached. Any call that raises, `browser.close` of l. 106
  included, drops a URL that was found before.
* The comment of `QueueSync` gives the ids as `[0, n-1)`; they are `[0, n-1]`.
* The example in `python/cross-double-links.py:24-26` swaps `a` and `b`.

## Not modelled

See the components with the status `not_modelled` in `PROJECT.json`. In short:

* numeric and learning code (`ai-ml/simple-feed-forward-net.py`, `ai-ml/mlight`, the regressions
  in `cpp/`): floating point and external libraries;
* scripts, containers, dotfiles, deployment files, the e-mail script:
  they call other programs and keep no state;
* demonstrations of C++ features: no behaviour beyond what the compiler does;
* lazy arrays, intrusive lists, two puzzles: see the plan;
* `cpp/async_work_monitor.cpp`: unfinished, it does not compile;
* `cpp/snapshot_map.h`: declares nothing that works;
* tests: they say how the code is used, and the models call it that way.

Within modelled components: `LruCacheWithIndexes` is never instantiated; caches
of capacity 0 are excluded; texts, logging and layout are left out; the `NBTReader` of the
world scan is abstracted to what a record says and where its bytes end; the numbers of
the tensors in the training are left out; `path_cd` has no home directory; meetings that end
when they begin are left out; the calculator gets valid expressions only.

## Plan

1. Done: the concurrent components, their proofs; the training programs, the scan of a
   world, the finder; the data structures and the algorithms of the tables above,
   compared with definitions in one run; the proofs about seven data structures.
2. Next: what is left of the algorithms: the lazy arrays and intrusive lists, the two
   puzzles with an answer to compare with (`IntAndEnglish`, `ninjias`), the C++
   external sort as far as it goes. Each joins the module of its kind
   (`SnapshotSet`, `SequenceAnswers`, `StreamRanks`) and `AnswersAgree`.
3. Then: `ReduceIsExact` for the ring, where the chunk a message carries (`ChunkIsExpected`)
   needs only the arithmetic of the rounds.

## How to run

    tlc -workers 2 -config Dining.cfg DiningPhilosophers
    tlapm DiningPhilosophers_proofs.tla

`PROJECT.json` lists the runs with their modules and configurations, the mutants
that show that each property can fail, and the theorems.
