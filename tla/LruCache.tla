------------------------------ MODULE LruCache ------------------------------
(***************************************************************************)
(* The two LRU caches of cpp/lru_cache.cc that its test runs: "pointers"   *)
(* (LruCacheWithPointers), whose nodes are linked from head_ to tail_ by   *)
(* their own prev and next, and "list" (LruCacheList), which keeps a list  *)
(* of keys beside its map.  The caches hold one item at least: the code    *)
(* does not look at a size of 0.                                           *)
(***************************************************************************)
EXTENDS Naturals, SequencesExt

CONSTANTS LruKey, LruValue, maxItems_, nullptr

Head_ == "head_"
Tail_ == "tail_"
Node == LruKey \union {Head_, Tail_}

\* A cache holds one item at least; the node of a key is neither of the two ends.
ASSUME LruAssumption == maxItems_ \in Nat \ {0} /\ {Head_, Tail_, nullptr} \intersect LruKey = {}

VARIABLES
    cache,              \* "pointers" or "list"
    nodes_,             \* the value of each key in the cache (k2Node_ of the list)
    next, prev,         \* "pointers": of the nodes, of head_ and of tail_
    recencyList_,       \* "list"
    lruResult           \* of the last get

lruVars == <<cache, nodes_, next, prev, recencyList_, lruResult>>

LruTypeOK ==
    /\ cache \in {"pointers", "list"}
    /\ DOMAIN nodes_ \subseteq LruKey /\ \A k \in DOMAIN nodes_ : nodes_[k] \in LruValue
    /\ next \in [Node -> Node \union {nullptr}] /\ prev \in [Node -> Node \union {nullptr}]
    /\ recencyList_ \in Seq(LruKey)
    /\ lruResult \in LruValue \union {nullptr}

LruInit ==
    /\ cache \in {"pointers", "list"}
    /\ nodes_ = <<>>
    /\ next = [p \in Node |-> IF p = Head_ THEN Tail_ ELSE nullptr]
    /\ prev = [p \in Node |-> IF p = Tail_ THEN Head_ ELSE nullptr]
    /\ recencyList_ = <<>>
    /\ lruResult = nullptr

-----------------------------------------------------------------------------
(***************************************************************************)
(* The links: each operation takes and returns a record of next and prev.  *)
(***************************************************************************)
Links == [next |-> next, prev |-> prev]

\* Slip: only one direction is unlinked.
UnlinkNext(l, p) == [l EXCEPT !.next[l.prev[p]] = l.next[p]]

unlinkNode(l, p) ==
    [l EXCEPT !.next[l.prev[p]] = l.next[p], !.prev[l.next[p]] = l.prev[p]]

pushToHead(l, p) ==
    LET first == l.next[Head_] IN
    [next |-> [l.next EXCEPT ![p] = first, ![Head_] = p],
     prev |-> [l.prev EXCEPT ![first] = p, ![p] = Head_]]

\* popTail and the erase of the node it returns.
Evict(l) ==
    LET p == l.prev[Tail_]
        before == l.prev[p]
    IN [next |-> [l.next EXCEPT ![before] = Tail_, ![p] = nullptr],
        prev |-> [l.prev EXCEPT ![Tail_] = before, ![p] = nullptr]]

SetLinks(l) == next' = l.next /\ prev' = l.prev

-----------------------------------------------------------------------------
\* Where the itr of a node points.
PlaceOf(k) == CHOOSE i \in 1 .. Len(recencyList_) : recencyList_[i] = k

\* getImp, or get of the list: a key in the cache moves to the front.
Touch(k) ==
    /\ k \in DOMAIN nodes_
    /\ \/ /\ cache = "pointers"
          /\ SetLinks(pushToHead(unlinkNode(Links, k), k))
          /\ UNCHANGED recencyList_
       \/ /\ cache = "list"
          /\ recencyList_' = <<k>> \o RemoveAt(recencyList_, PlaceOf(k))
          /\ UNCHANGED <<next, prev>>

LruGet(k) ==
    /\ \/ Touch(k) /\ lruResult' = nodes_[k]
       \/ k \notin DOMAIN nodes_ /\ lruResult' = nullptr /\ UNCHANGED <<next, prev, recencyList_>>
    /\ UNCHANGED <<cache, nodes_>>

\* set of a key in the cache.
SetAgain(k, v) ==
    /\ Touch(k)
    /\ nodes_' = [nodes_ EXCEPT ![k] = v]
    /\ lruResult' = nullptr
    /\ UNCHANGED cache

\* The key that set evicts for another one, nullptr while there is room.
Victim ==
    IF Cardinality(DOMAIN nodes_) # maxItems_ THEN nullptr
    ELSE IF cache = "pointers" THEN prev[Tail_] ELSE Last(recencyList_)

\* set of a key that is not in the cache.
SetNew(k, v) ==
    /\ k \notin DOMAIN nodes_
    /\ nodes_' = [j \in (DOMAIN nodes_ \ {Victim}) \union {k} |-> IF j = k THEN v ELSE nodes_[j]]
    /\ \/ /\ cache = "pointers"
          /\ SetLinks(pushToHead(IF Victim = nullptr THEN Links ELSE Evict(Links), k))
          /\ UNCHANGED recencyList_
       \/ /\ cache = "list"
          /\ recencyList_' =
               <<k>> \o (IF Victim = nullptr THEN recencyList_ ELSE Front(recencyList_))
          /\ UNCHANGED <<next, prev>>
    /\ lruResult' = nullptr
    /\ UNCHANGED cache

LruNext == \E k \in LruKey : LruGet(k) \/ \E v \in LruValue : SetAgain(k, v) \/ SetNew(k, v)

LruSpec == LruInit /\ [][LruNext]_lruVars

-----------------------------------------------------------------------------
\* The keys in the order in which next links them, or in that of the list: a comes before b.
Linked(a, b) ==
    \E m \in 2 .. Cardinality(DOMAIN nodes_) : \E p \in [1 .. m -> DOMAIN nodes_] :
        p[1] = a /\ p[m] = b /\ \A i \in 1 .. m - 1 : next[p[i]] = p[i + 1]
Listed(a, b) ==
    \E i, j \in 1 .. Len(recencyList_) : i < j /\ recencyList_[i] = a /\ recencyList_[j] = b
Recency ==
    {p \in (DOMAIN nodes_) \X (DOMAIN nodes_) :
        IF cache = "list" THEN Listed(p[1], p[2]) ELSE Linked(p[1], p[2])}

\* The abstract cache behind this one.
Lru == INSTANCE BoundedCache WITH
    Key <- LruKey, Value <- LruValue, None <- nullptr, result <- lruResult,
    Policy <- "lru", Capacity <- maxItems_, content <- nodes_, order <- Recency,
    uses <- [k \in DOMAIN nodes_ |-> 1]

\* Both caches evict what was used least recently, and get returns what was set last:
\* they implement the abstract cache.
EvictsLeastRecent == Lru!Spec
=============================================================================
