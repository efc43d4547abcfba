--------------------------- MODULE MinMaxCounters ---------------------------
(***************************************************************************)
(* MinMaxCounters of python/cross-double-links.py (AllOne forwards to it)  *)
(* on the DoubleLinks of python/doubly_linked_list.py: the head-nodes of   *)
(* the counts form one list, from max_head to min_tail, and each owns the  *)
(* list of the element-nodes with its count.                               *)
(*                                                                         *)
(* An element-node is named by its key.  A head-node that nothing refers   *)
(* to any more is free, and the next one that is created takes its place.  *)
(***************************************************************************)
EXTENDS Integers, FiniteSets

CONSTANTS
    CounterKey, NoNode,
    MaxCount            \* bounds the counts

VARIABLES
    index,              \* the keys that have an element-node
    heap                \* the fields of the nodes

cntVars == <<index, heap>>

MaxHead == 0
MinTail == Cardinality(CounterKey) + 1
HeadNode == MaxHead .. MinTail
Dnode == CounterKey \union HeadNode
DnodeOrNone == Dnode \union {NoNode}

ASSUME CountersAssumption ==
    /\ IsFiniteSet(CounterKey) /\ CounterKey \intersect HeadNode = {}
    /\ NoNode \notin Dnode
    /\ MaxCount \in Nat

Heaps == [prev : [Dnode -> DnodeOrNone], next : [Dnode -> DnodeOrNone],
          cnt : [HeadNode -> 0 .. MaxCount], l : [HeadNode -> CounterKey \union {NoNode}],
          head : [CounterKey -> HeadNode \union {NoNode}]]

CountersInit ==
    /\ index = {}
    /\ heap = [prev |-> [p \in Dnode |-> IF p = MinTail THEN MaxHead ELSE NoNode],
               next |-> [p \in Dnode |-> IF p = MaxHead THEN MinTail ELSE NoNode],
               cnt |-> [p \in HeadNode |-> 0],
               l |-> [p \in HeadNode |-> NoNode],
               head |-> [k \in CounterKey |-> NoNode]]

-----------------------------------------------------------------------------
(***************************************************************************)
(* DoubleLinks: remove and insert of a node p of the heap h.               *)
(***************************************************************************)
SetField(f, p, x) == IF p = NoNode THEN f ELSE [f EXCEPT ![p] = x]

DoubleLinksRemove(h, p) ==
    [h EXCEPT !.next = SetField(@, h.prev[p], h.next[p]),
              !.prev = SetField(@, h.next[p], h.prev[p])]

\* q goes after p.
DoubleLinksInsert(h, p, q) ==
    [h EXCEPT !.next = [@ EXCEPT ![p] = q, ![q] = h.next[p]],
              !.prev = SetField([@ EXCEPT ![q] = p], h.next[p], q)]

-----------------------------------------------------------------------------
\* Key k leaves the list of its head-node.
LeaveList(h, k) ==
    LET links == DoubleLinksRemove(h, k) IN
    [links EXCEPT !.l = IF h.l[h.head[k]] = k THEN [@ EXCEPT ![h.head[k]] = links.next[k]] ELSE @,
                  !.head[k] = NoNode, !.prev[k] = NoNode, !.next[k] = NoNode]

\* The head-node p is no longer in the count list.
DropHead(h, p) ==
    [DoubleLinksRemove(h, p) EXCEPT !.prev[p] = NoNode, !.next[p] = NoNode, !.cnt[p] = 0]

\* remove: a head-node goes with its last element.
RemoveElement(h, k) ==
    LET phead == h.head[k]
        left == LeaveList(h, k)
    IN IF left.l[phead] = NoNode /\ phead \notin {MaxHead, MinTail} THEN DropHead(left, phead) ELSE left

\* add: k goes after the first element of phead, or becomes it.
AddElement(h, k, phead) ==
    LET h1 == [h EXCEPT !.head[k] = phead]
    IN IF h.l[phead] = NoNode THEN [h1 EXCEPT !.l[phead] = k] ELSE DoubleLinksInsert(h1, h.l[phead], k)

\* A new head-node with count c, after p.
Free(h) == {q \in HeadNode \ {MaxHead, MinTail} : h.next[q] = NoNode}
InsertHead(h, p, c) ==
    LET new == CHOOSE q \in Free(h) : \A r \in Free(h) : q <= r
    IN [heap |-> DoubleLinksInsert([h EXCEPT !.cnt[new] = c], p, new), node |-> new]

\* Slip: a new head-node is inserted whether or not there is one with the count.
NeighbourAlwaysNew(h, p, after, c) == InsertHead(h, after, c)

\* The head-node for count c: the neighbour p of the old one, or a new one after "after".
Neighbour(h, p, after, c) ==
    IF h.cnt[p] = c THEN [heap |-> h, node |-> p] ELSE InsertHead(h, after, c)

inc(k) ==
    LET created == IF k \in index THEN heap ELSE [heap EXCEPT !.head[k] = MinTail]
        phead == created.head[k]
        new_cnt == created.cnt[phead] + 1
        phead_prev == created.prev[phead]
        target == Neighbour(RemoveElement(created, k), phead_prev, phead_prev, new_cnt)
    IN  /\ new_cnt <= MaxCount
        /\ index' = index \union {k}
        /\ heap' = AddElement(target.heap, k, target.node)

dec(k) ==
    LET phead == heap.head[k]
        new_cnt == heap.cnt[phead] - 1
        phead_next == heap.next[phead]
        removed == RemoveElement(heap, k)
        target == Neighbour(removed, phead_next, removed.prev[phead_next], new_cnt)
    IN  /\ k \in index
        /\ IF new_cnt = 0
             THEN index' = index \ {k} /\ heap' = removed
             ELSE UNCHANGED index /\ heap' = AddElement(target.heap, k, target.node)

CountersNext == \E k \in CounterKey : inc(k) \/ dec(k)

CountersSpec == CountersInit /\ [][CountersNext]_cntVars

-----------------------------------------------------------------------------
\* get_max and get_min look at one end of the list each.
First(p) == IF heap.l[p] = NoNode THEN <<NoNode, 0>> ELSE <<heap.l[p], heap.cnt[p]>>
get_max == First(heap.next[MaxHead])
get_min == First(heap.prev[MinTail])

\* The counters without their lists.
Plain == INSTANCE Counters WITH
    Key <- CounterKey, None <- NoNode,
    count <- [k \in CounterKey |-> IF k \in index THEN heap.cnt[heap.head[k]] ELSE 0],
    max <- get_max, min <- get_min

\* The lists stay in order and complete through every sequence of calls: get_max and
\* get_min name a key with the highest and with the lowest count.
CountersAgree == Plain!Spec
=============================================================================
