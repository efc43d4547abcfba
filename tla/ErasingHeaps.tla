---------------------------- MODULE ErasingHeaps ----------------------------
(***************************************************************************)
(* Heaps from which entries are removed that are not on top.               *)
(*                                                                         *)
(* MovieRentingSystem of python/min_heap.py on TopK on MinHeap.  A TopK    *)
(* keeps the first k entries sorted and the others in a MinHeap, which     *)
(* forgets an entry by marking it: the entry stays in the heap until it is *)
(* popped, or comes back when the same entry is pushed.  Entry e is the    *)
(* e-th of all entries by price, shop and movie, which is how HctIndex     *)
(* compares; heapq is modelled by the bag of what is in it.                *)
(*                                                                         *)
(* BinaryHeap of cpp/binary-heap.cc: a heap of keys that knows where each  *)
(* key is, so that a key can move when its value changes and be erased     *)
(* from the middle.  The order is that of Cmp in the file: the key with    *)
(* the greatest value is on top, of equal values the greater key.          *)
(* Positions count from 0.  Entries of hpos_ for keys that are not in the  *)
(* heap are never read and are not kept.                                   *)
(***************************************************************************)
EXTENDS Integers, Bags, SequencesExt

CONSTANTS
    NumEntries,
    NumTitles,          \* title t is that of every NumTitles-th entry
    TopSize,            \* 5 in the code
    MaxKey, MaxValue,
    MaxHeapified        \* bounds the keys of the second constructor

VARIABLES
    unrented_movies,    \* the TopK of each movie
    rented_movies,
    search_cache,
    report_cache,
    rented,             \* history: the entries that are rented
    heap_,              \* the keys in the heap, by position
    hpos_,              \* the position of each key in the heap
    room,               \* heap_.size() and hpos_.size()
    values,             \* the value of each key
    aborted             \* which CHECK has failed: "none", "last" (see erase), or any other

movieVars == <<unrented_movies, rented_movies, search_cache, report_cache, rented>>
heapVars == <<heap_, hpos_, room, values, aborted>>
vars == <<movieVars, heapVars>>

Entry == 1 .. NumEntries
Title == 1 .. NumTitles
TitleOf(e) == 1 + (e % NumTitles)
NotCached == <<0>>

-----------------------------------------------------------------------------
(***************************************************************************)
(* MinHeap, as a pair of fields of a TopK: h and removed.                  *)
(***************************************************************************)
\* heappop of the smallest entry, and of its mark.
PopOne(t) ==
    LET e == Min(BagToSet(t.h)) IN
    [t EXCEPT !.h = @ (-) SetToBag({e}), !.removed = @ \ {e}]

\* popN(1): t without what was popped, and the first entry without a mark.
RECURSIVE popFirst(_)
popFirst(t) ==
    IF t.h = EmptyBag THEN [t |-> t, res |-> <<>>]
    ELSE LET e == Min(BagToSet(t.h)) IN
         IF e \in t.removed THEN popFirst(PopOne(t)) ELSE [t |-> PopOne(t), res |-> <<e>>]

MinHeapPush(t, e) ==
    IF e \in t.removed THEN [t EXCEPT !.removed = @ \ {e}] ELSE [t EXCEPT !.h = @ (+) SetToBag({e})]

-----------------------------------------------------------------------------
\* bisect_right: how many of the sorted entries are not after e.
bisect_right(s, e) == Cardinality({i \in DOMAIN s : s[i] <= e})

\* The new entry moves those after its place by one.
add(t, e) ==
    LET top == InsertAt(t.top_k, bisect_right(t.top_k, e) + 1, e) IN
    IF Len(top) > TopSize THEN MinHeapPush([t EXCEPT !.top_k = Front(top)], Last(top))
    ELSE [t EXCEPT !.top_k = top]

\* The entry leaves the first ones, and the next one moves up; or it is only marked.
remove(t, e) ==
    LET p == bisect_right(t.top_k, e)
        first == popFirst([t EXCEPT !.top_k = RemoveAt(@, p)])
    IN IF p = 0 \/ t.top_k[p] # e THEN [t EXCEPT !.removed = @ \union {e}]
       ELSE IF first.res = <<>> THEN first.t
       ELSE add(first.t, first.res[1])

EmptyTopK == [top_k |-> <<>>, h |-> EmptyBag, removed |-> {}]

-----------------------------------------------------------------------------
(***************************************************************************)
(* MovieRentingSystem.                                                     *)
(***************************************************************************)
MovieInit ==
    /\ unrented_movies = [t \in Title |->
           FoldLeft(add, EmptyTopK, SetToSortSeq({e \in Entry : TitleOf(e) = t}, <))]
    /\ rented_movies = EmptyTopK
    /\ search_cache = [t \in Title |-> NotCached]
    /\ report_cache = NotCached
    /\ rented = {}

Invalidate(t) == search_cache' = [search_cache EXCEPT ![t] = NotCached] /\ report_cache' = NotCached

rent(e) ==
    /\ e \notin rented
    /\ unrented_movies' = [unrented_movies EXCEPT ![TitleOf(e)] = remove(@, e)]
    /\ rented_movies' = add(rented_movies, e)
    /\ Invalidate(TitleOf(e))
    /\ rented' = rented \union {e}

drop(e) ==
    /\ e \in rented
    /\ unrented_movies' = [unrented_movies EXCEPT ![TitleOf(e)] = add(@, e)]
    /\ rented_movies' = remove(rented_movies, e)
    /\ Invalidate(TitleOf(e))
    /\ rented' = rented \ {e}

search(t) ==
    /\ search_cache[t] = NotCached
    /\ search_cache' = [search_cache EXCEPT ![t] = unrented_movies[t].top_k]
    /\ UNCHANGED <<unrented_movies, rented_movies, report_cache, rented>>

report ==
    /\ report_cache = NotCached
    /\ report_cache' = rented_movies.top_k
    /\ UNCHANGED <<unrented_movies, rented_movies, search_cache, rented>>

MovieNext ==
    \/ \E e \in Entry : rent(e) \/ drop(e)
    \/ \E t \in Title : search(t)
    \/ report

-----------------------------------------------------------------------------
(***************************************************************************)
(* BinaryHeap.                                                             *)
(***************************************************************************)
HeapKey == 0 .. MaxKey

cmpLess_(v, a, b) == v[a] > v[b] \/ (v[a] = v[b] /\ a > b)

Empty == [x \in {} |-> 0]

-----------------------------------------------------------------------------
(***************************************************************************)
(* What the calls compute on, and compare with, s.                         *)
(***************************************************************************)
Now(v) == [at |-> heap_, pos |-> hpos_, v |-> v, ok |-> TRUE]

Place(s, p, key) ==
    [s EXCEPT !.at = [q \in DOMAIN @ \union {p} |-> IF q = p THEN key ELSE @[q]],
              !.pos = [k \in DOMAIN @ \union {key} |-> IF k = key THEN p ELSE @[k]]]

\* The position of key is where the key is: the CHECKs.
Found(s, key) == s.pos[key] \in DOMAIN s.at /\ s.at[s.pos[key]] = key

Parent(p) == (p - 1) \div 2

RECURSIVE Up(_, _, _)
Up(s, key, p) ==
    IF p > 0 /\ cmpLess_(s.v, key, s.at[Parent(p)]) THEN Up(Place(s, p, s.at[Parent(p)]), key, Parent(p))
    ELSE Place(s, p, key)

adjustUp(s, key) == IF s.ok /\ Found(s, key) THEN Up(s, key, s.pos[key]) ELSE [s EXCEPT !.ok = FALSE]

Smaller(s, p) ==
    LET mm == 2 * p + 1 IN
    IF mm + 1 \in DOMAIN s.at /\ cmpLess_(s.v, s.at[mm + 1], s.at[mm]) THEN mm + 1 ELSE mm

RECURSIVE Down(_, _, _)
Down(s, key, p) ==
    IF 2 * p + 1 \notin DOMAIN s.at \/ cmpLess_(s.v, key, s.at[Smaller(s, p)]) THEN Place(s, p, key)
    ELSE Down(Place(s, p, s.at[Smaller(s, p)]), key, Smaller(s, p))

adjustDown(s, key) == IF s.ok /\ Found(s, key) THEN Down(s, key, s.pos[key]) ELSE [s EXCEPT !.ok = FALSE]

RECURSIVE Heapify(_, _)
Heapify(s, i) == IF i < 0 THEN s ELSE Heapify(adjustDown(s, s.at[i]), i - 1)

\* hs_ goes down by one; gone is no longer in the heap.
Shrink(s, gone) ==
    [s EXCEPT !.at = [q \in 0 .. Cardinality(DOMAIN @) - 2 |-> @[q]],
              !.pos = [k \in DOMAIN @ \ {gone} |-> @[k]]]

Become(s) == heap_' = s.at /\ hpos_' = s.pos /\ values' = s.v /\ aborted' = IF s.ok THEN "none" ELSE "other"

-----------------------------------------------------------------------------
\* The constructors: an empty heap with a capacity, and one of given keys.  The second one
\* makes hpos_ as large as the number of keys, so the keys are those below that number.
HeapInit ==
    \E v \in [HeapKey -> 0 .. MaxValue], n \in 0 .. MaxHeapified :
    \E keys \in Bijection(0 .. n - 1, 0 .. n - 1) :
        LET s == Heapify([at |-> keys, pos |-> AntiFunction(keys), v |-> v, ok |-> TRUE], n - 1)
        IN  /\ heap_ = s.at /\ hpos_ = s.pos /\ values = v /\ aborted = IF s.ok THEN "none" ELSE "other"
            /\ room \in IF n = 0 THEN {0, MaxKey + 1} ELSE {n}

hs_ == Cardinality(DOMAIN heap_)

\* resize gives the vectors max(hs_ + 1, key + 1) elements, which may be fewer than there
\* were.  Keys are pushed so that every key in the heap keeps its element of hpos_.
push(key) ==
    LET grows == hs_ >= room \/ key >= hs_
        size == IF key > hs_ THEN key + 1 ELSE hs_ + 1
    IN  /\ key \notin DOMAIN hpos_
        /\ grows => \A other \in DOMAIN hpos_ : other < size
        /\ room' = IF grows THEN size ELSE room
        /\ Become(adjustUp(Place(Now(values), hs_, key), key))

pop ==
    LET last == heap_[hs_ - 1]
        s == Shrink(Now(values), heap_[0])
    IN  /\ hs_ > 0
        /\ Become(IF hs_ = 1 THEN s ELSE adjustDown(Place(s, 0, last), last))
        /\ UNCHANGED room

Settle(s, p) ==
    LET up == adjustUp(s, s.at[p]) IN IF up.ok THEN adjustDown(up, up.at[p]) ELSE up

\* Erasing the key of the last position fails a CHECK unless it is the only one: the key
\* that adjustUp is called with is the erased one, and its position is hs_.
erase(key) ==
    LET p == hpos_[key]
        last == heap_[hs_ - 1]
        s == Shrink(Now(values), key)
    IN  /\ key \in DOMAIN hpos_
        /\ IF hs_ > 1 /\ p = hs_ - 1 THEN aborted' = "last" /\ UNCHANGED <<heap_, hpos_, values>>
           ELSE Become(IF hs_ = 1 THEN s ELSE Settle(Place(s, p, last), p))
        /\ UNCHANGED room

\* The user changes a value and tells the heap which way the key goes.
ChangeValue(key, value) ==
    LET v == [values EXCEPT ![key] = value] IN
    /\ key \in DOMAIN hpos_ /\ value # values[key]
    /\ Become(IF value > values[key] THEN adjustUp(Now(v), key) ELSE adjustDown(Now(v), key))
    /\ UNCHANGED room

clear == heap_' = Empty /\ hpos_' = Empty /\ UNCHANGED <<room, values, aborted>>

HeapNext ==
    /\ aborted = "none"
    /\ \/ \E key \in HeapKey : push(key) \/ erase(key) \/ \E value \in 0 .. MaxValue : ChangeValue(key, value)
       \/ pop
       \/ clear

-----------------------------------------------------------------------------
TypeOK ==
    /\ \A t \in Title : unrented_movies[t].top_k \in Seq(Entry) /\ IsABag(unrented_movies[t].h)
    /\ rented_movies.top_k \in Seq(Entry) /\ IsABag(rented_movies.h)
    /\ search_cache \in [Title -> Seq(0 .. NumEntries)]
    /\ report_cache \in Seq(0 .. NumEntries)
    /\ rented \in SUBSET Entry
    /\ heap_ \in [0 .. Cardinality(DOMAIN hpos_) - 1 -> HeapKey]
    /\ \A key \in DOMAIN hpos_ : key \in HeapKey /\ hpos_[key] \in DOMAIN heap_
    /\ room \in Nat
    /\ values \in [HeapKey -> 0 .. MaxValue]
    /\ aborted \in {"none", "last", "other"}

Init == MovieInit /\ HeapInit

Next == (MovieNext /\ UNCHANGED heapVars) \/ (HeapNext /\ UNCHANGED movieVars)

Spec == Init /\ [][Next]_vars

-----------------------------------------------------------------------------
FirstOf(S) ==
    LET s == SetToSortSeq(S, <) IN IF Len(s) > TopSize THEN SubSeq(s, 1, TopSize) ELSE s

\* search and report say which entries are the first, whatever was rented and dropped
\* before, and however many entries are in the heaps only to be forgotten.
RentingAgrees ==
    /\ \A t \in Title :
         LET unrented == FirstOf({e \in Entry \ rented : TitleOf(e) = t}) IN
         /\ unrented_movies[t].top_k = unrented
         /\ search_cache[t] \in {NotCached, unrented}
    /\ rented_movies.top_k = FirstOf(rented)
    /\ report_cache \in {NotCached, FirstOf(rented)}

\* Every key is where its position says, and none comes before its parent, so that the key
\* on top is the first of all: after changes of values and erasures from the middle too.
\* The CHECKs of adjustUp and adjustDown hold in every call but erase of the last position.
HeapAgrees ==
    /\ aborted # "other"
    /\ aborted = "none" =>
        /\ \A key \in DOMAIN hpos_ : heap_[hpos_[key]] = key
        /\ \A p \in DOMAIN heap_ : p > 0 => cmpLess_(values, heap_[Parent(p)], heap_[p])
=============================================================================
