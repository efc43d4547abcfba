---------------------------- MODULE BoundedCache ----------------------------
(***************************************************************************)
(* What a cache with an eviction policy promises.  order relates each key  *)
(* to those that are evicted before it: by recency for "lru"; by the       *)
(* number of uses, and by recency among equals, for "lfu".                 *)
(***************************************************************************)
EXTENDS Naturals, FiniteSets

CONSTANTS Key, Value, Capacity, Policy, None

VARIABLES
    content,            \* the value of each key in the cache
    uses,               \* "lfu": how often it was written or read since it was put
    order,              \* <<a, b>>: a is kept longer than b
    result              \* of the last get, None when the key was missing

vars == <<content, uses, order, result>>

Init == content = <<>> /\ uses = <<>> /\ order = {} /\ result = None

\* A key that was just used, u times now, goes before j.
Outranks(u, j) == Policy = "lfu" => uses[j] <= u

\* The order with k, used u times, among the keys that are kept.
Ranked(k, u, kept) ==
    {p \in order : p[1] \in kept /\ p[2] \in kept}
    \union {<<k, j>> : j \in {j \in kept : Outranks(u, j)}}
    \union {<<j, k>> : j \in {j \in kept : ~ Outranks(u, j)}}

Counted(k) == IF Policy = "lfu" THEN uses[k] + 1 ELSE 1

\* A key in the cache is used, and then has the value v.
Use(k, v) ==
    /\ k \in DOMAIN content
    /\ content' = [content EXCEPT ![k] = v]
    /\ uses' = [uses EXCEPT ![k] = Counted(k)]
    /\ order' = Ranked(k, Counted(k), DOMAIN content \ {k})

\* The keys that stay when another one is put: in a full cache, all but the last of the order.
Kept ==
    IF Cardinality(DOMAIN content) < Capacity THEN {DOMAIN content}
    ELSE {DOMAIN content \ {last} :
            last \in {j \in DOMAIN content : \A i \in DOMAIN content \ {j} : <<i, j>> \in order}}

Insert(k, v) ==
    /\ k \notin DOMAIN content
    /\ \E kept \in Kept :
         /\ content' = [j \in kept \union {k} |-> IF j = k THEN v ELSE content[j]]
         /\ uses' = [j \in kept \union {k} |-> IF j = k THEN 1 ELSE uses[j]]
         /\ order' = Ranked(k, 1, kept)

Put(k, v) == (Use(k, v) \/ Insert(k, v)) /\ result' = None

Get(k) ==
    \/ k \in DOMAIN content /\ Use(k, content[k]) /\ result' = content[k]
    \/ k \notin DOMAIN content /\ result' = None /\ UNCHANGED <<content, uses, order>>

Next == \E k \in Key : Get(k) \/ \E v \in Value : Put(k, v)

Spec == Init /\ [][Next]_vars
=============================================================================
