---------------------------- MODULE StreamRanks -----------------------------
(***************************************************************************)
(* Ranks in a stream of numbers: MedianFinder of python/stream_median.py   *)
(* ("median") and streaming_top_k with quick_select of                     *)
(* python/streaming-top-k.py ("top").                                      *)
(*                                                                         *)
(* A heapq is modelled by the bag of what is in it, the stream by its      *)
(* values in any order.                                                    *)
(*                                                                         *)
(* python/external-sorting.py: pairs of a key and a value are sorted within*)
(* a memory budget.  They are split into sorted files, and the files merged*)
(* in rounds, as many at once as the budget has room for.  A token is a    *)
(* number here, which is its length as well as its place in the order.  A  *)
(* file is the sequence of its pairs; those with one key are one line.     *)
(***************************************************************************)
EXTENDS Integers, Bags, SequencesExt

CONSTANTS
    MaxNumber,          \* the numbers are 1 .. MaxNumber
    MaxK,               \* bounds k
    MaxSeen,            \* bounds the length of the stream
    Tokens,
    Budgets,            \* what memory_budget may be
    MaxPairs

VARIABLES
    task,
    max_heap, min_heap, \* "median"; the numbers of max_heap are not negated here
    arr, k, ended,      \* "top": ended once the stream has no more
    seen,               \* history: the numbers of the stream so far, sorted
    kvs                 \* external sort: the pairs that are read

streamVars == <<task, max_heap, min_heap, arr, k, ended, seen>>
vars == <<streamVars, kvs>>

Number == 1 .. MaxNumber
Pair == [k : Tokens, v : Tokens]
Sentinel == 1000000     \* 10**6, the number that is always in min_heap

Sorted(s) == SortSeq(s, <)
Least(h) == Min(BagToSet(h))
Greatest(h) == Max(BagToSet(h))
Size(h) == BagCardinality(h)
Only(num) == SetToBag({num})

TypeOK ==
    /\ task \in {"median", "top"}
    /\ IsABag(max_heap) /\ IsABag(min_heap)
    /\ arr \in Seq(Number) /\ k \in 1 .. MaxK /\ ended \in BOOLEAN
    /\ seen \in Seq(Number)
    /\ kvs \in Seq(Pair)

StreamInit ==
    /\ task \in {"median", "top"}
    /\ max_heap = EmptyBag /\ min_heap = Only(Sentinel)
    /\ arr = <<>> /\ k \in (IF task = "top" THEN 1 .. MaxK ELSE {1}) /\ ended = FALSE
    /\ seen = <<>>

-----------------------------------------------------------------------------
\* The two loops of addNum that keep the halves at most one apart.
RECURSIVE LowerDown(_, _)
LowerDown(low, high) ==
    IF Size(low) - 2 >= Size(high) - 1
    THEN LowerDown(low (-) Only(Greatest(low)), high (+) Only(Greatest(low))) ELSE <<low, high>>

RECURSIVE UpperDown(_, _)
UpperDown(low, high) ==
    IF Size(high) - 1 - 2 >= Size(low)
    THEN UpperDown(low (+) Only(Least(high)), high (-) Only(Least(high))) ELSE <<low, high>>

addNum(num) ==
    LET below == num < Least(min_heap)
        down == LowerDown(IF below THEN max_heap (+) Only(num) ELSE max_heap,
                          IF below THEN min_heap ELSE min_heap (+) Only(num))
        even == UpperDown(down[1], down[2])
    IN  /\ task = "median"
        /\ max_heap' = even[1] /\ min_heap' = even[2]
        /\ seen' = Sorted(Append(seen, num))
        /\ UNCHANGED <<task, arr, k, ended>>

\* Twice the median.
findMedian ==
    IF Size(max_heap) = Size(min_heap) - 1 THEN Greatest(max_heap) + Least(min_heap)
    ELSE IF Size(max_heap) > Size(min_heap) - 1 THEN 2 * Greatest(max_heap)
    ELSE 2 * Least(min_heap)

-----------------------------------------------------------------------------
(***************************************************************************)
(* quick_select of the element with n smaller or equal ones before it, in  *)
(* arr[l:r]; l and r count from 0 as in the code.                          *)
(***************************************************************************)
RECURSIVE Partition(_, _, _, _)
Partition(a, pivot, i, j) ==
    LET up == Min({x \in i .. Len(a) - 1 : a[x + 1] >= pivot})
        down == Max({x \in 0 .. j : a[x + 1] <= pivot})
    IN IF i >= j THEN [a |-> a, i |-> i, j |-> j]
       ELSE IF up < down THEN Partition([a EXCEPT ![up + 1] = a[down + 1], ![down + 1] = a[up + 1]], pivot, up + 1, down - 1)
       ELSE [a |-> a, i |-> up, j |-> down]

RECURSIVE Select(_, _, _, _)
Select(a, n, l, r) ==
    LET pivot == a[((l + r) \div 2) + 1]
        p == Partition(a, pivot, l, r - 1)
        i == IF p.i = p.j /\ p.a[p.i + 1] < pivot THEN p.i + 1 ELSE p.i
    IN IF l + 1 >= r THEN [a |-> a, value |-> a[l + 1]]
       ELSE IF n < i - l THEN Select(p.a, n, l, i)
       ELSE Select(p.a, n - (i - l), i, r)

quick_select(a, n) == Select(a, n, 0, Len(a))

\* The k largest: those above the k-th, and the k-th as often as it takes.
\* Slip: the k-th itself counts as larger.
LargestWithTies(a) ==
    LET s == quick_select(a, Len(a) - k)
        larger == SelectSeq(s.a, LAMBDA v : v >= s.value)
    IN SubSeq(larger, 1, Min({k, Len(larger)}))

Largest(a) ==
    LET s == quick_select(a, Len(a) - k)
        larger == SelectSeq(s.a, LAMBDA v : v > s.value)
    IN larger \o [i \in 1 .. k - Len(larger) |-> s.value]

\* append_from_yielder of at most n numbers; fewer when the stream ends.
Take(n, kept, chunk) ==
    /\ Len(chunk) <= n
    /\ arr' = kept \o chunk
    /\ ended' = (Len(chunk) < n)
    /\ seen' = Sorted(seen \o chunk)
    /\ UNCHANGED <<task, max_heap, min_heap, k>>

\* The first numbers, and one round of the loop each.  The stream has k numbers at least.
streaming_top_k(chunk) ==
    /\ task = "top"
    /\ Len(seen) + Len(chunk) <= MaxSeen
    /\ \/ seen = <<>> /\ Len(chunk) >= k /\ Take(2 * k, <<>>, chunk)
       \/ Len(arr) > k /\ (ended => chunk = <<>>) /\ Take(k, Largest(arr), chunk)

ReadNumbers ==
    \/ Len(seen) < MaxSeen /\ \E num \in Number : addNum(num)
    \/ \E n \in 0 .. 2 * MaxK : \E chunk \in [1 .. n -> Number] : streaming_top_k(chunk)

-----------------------------------------------------------------------------
(***************************************************************************)
(* The external sort.                                                      *)
(***************************************************************************)
read_kv(p) == Len(kvs) < MaxPairs /\ kvs' = Append(kvs, p)

ReadPairs == \E p \in Pair : read_kv(p)

Before(x, y) == x.k < y.k \/ (x.k = y.k /\ x.v < y.v)

SizeOf(p) == p.k + p.v
max_kv_bytes(input) == Max({SizeOf(input[i]) : i \in DOMAIN input})

\* How many pairs are read before the budget is used up, which the last of them may exceed.
NumRead(input, budget) ==
    LET UsedUp(n) == FoldLeft(LAMBDA size, p : size + SizeOf(p), 0, SubSeq(input, 1, n)) >= budget
    IN Min({n \in 1 .. Len(input) : UsedUp(n)} \union {Len(input)})

RECURSIVE split_into_files(_, _)
split_into_files(input, budget) ==
    LET n == NumRead(input, budget) IN
    IF input = <<>> THEN <<>>
    ELSE <<SortSeq(SubSeq(input, 1, n), Before)>> \o split_into_files(SubSeq(input, n + 1, Len(input)), budget)

\* The least of the pairs on the heap, one from every file that is not at its end, goes out.
RECURSIVE merge_files(_)
merge_files(files) ==
    LET open == {i \in DOMAIN files : files[i] # <<>>}
        least == CHOOSE i \in open : \A j \in open : ~Before(files[j][1], files[i][1])
    IN IF open = {} THEN <<>>
       ELSE <<files[least][1]>> \o merge_files([files EXCEPT ![least] = Tail(@)])

\* Slip: the files that do not fill a batch are lost.
RECURSIVE MergeRoundWithoutRest(_, _)
MergeRoundWithoutRest(files, batch) ==
    IF Len(files) < batch THEN <<>>
    ELSE <<merge_files(SubSeq(files, 1, batch))>> \o MergeRoundWithoutRest(SubSeq(files, batch + 1, Len(files)), batch)

\* A round merges batch after batch, and takes over the files that do not fill a batch.
RECURSIVE MergeRound(_, _)
MergeRound(files, batch) ==
    IF Len(files) < batch THEN files
    ELSE <<merge_files(SubSeq(files, 1, batch))>> \o MergeRound(SubSeq(files, batch + 1, Len(files)), batch)

RECURSIVE MergeRounds(_, _)
MergeRounds(files, batch) ==
    IF Len(files) > batch THEN MergeRounds(MergeRound(files, batch), batch) ELSE merge_files(files)

file_batch_size(input, budget) == budget \div max_kv_bytes(input)

\* With a budget that has no room for two pairs, an assertion fails; without pairs, there is a division by 0.
sort_kvs(input, budget) == MergeRounds(split_into_files(input, budget), file_batch_size(input, budget))

-----------------------------------------------------------------------------
SortInit == kvs = <<>>

Init == StreamInit /\ SortInit

Next == (ReadNumbers /\ UNCHANGED kvs) \/ (ReadPairs /\ UNCHANGED streamVars)

Spec == Init /\ [][Next]_vars

-----------------------------------------------------------------------------
Middle == seen[(Len(seen) + 1) \div 2] + seen[(Len(seen) + 2) \div 2]
Top(s) == SubSeq(Sorted(s), Len(s) - k + 1, Len(s))

\* At every point of the stream the halves give the median and the array has the k largest
\* numbers so far, with as many equal ones as there were.
RanksAgree ==
    seen # <<>> =>
        IF task = "median" THEN findMedian = Middle
        ELSE Len(arr) >= k /\ Top(arr) = Top(seen)

\* Whatever the budget, and however many rounds it takes, what comes out are all the pairs in order.
SortsEveryPair ==
    \A budget \in Budgets :
        kvs # <<>> /\ file_batch_size(kvs, budget) >= 2 => sort_kvs(kvs, budget) = SortSeq(kvs, Before)

\* The docstring of split_into_files has no file larger than the budget, which is not so.
FilesFitBudget ==
    \A budget \in Budgets : \A f \in Range(split_into_files(kvs, budget)) :
        FoldLeft(LAMBDA size, p : size + SizeOf(p), 0, f) <= budget
=============================================================================
