--------------------------- MODULE ShortestPaths ----------------------------
(***************************************************************************)
(* Shortest paths in a graph that gets more edges: FloydWarshall of        *)
(* cpp/FloydWarshall.cc, which updates all distances when an edge is       *)
(* added, and Dijkstra of cpp/Dijkstra.cc, which is run again from the     *)
(* start of the new edge on the distances it has, as its test does.        *)
(*                                                                         *)
(* modifiedGraphEdges of cpp/4fun/LC-2699.cc: edges without a weight get   *)
(* one, such that the distance from node 0 to the last node is target.     *)
(* Two tables of distances are kept right while edges get shorter, with a  *)
(* run of Dijkstra's algorithm from both ends of each edge.                *)
(***************************************************************************)
EXTENDS Integers, SequencesExt

CONSTANTS
    NumNodes,
    Weights,
    FirstEdges,         \* bounds the edges the constructor gets
    MaxAdded,           \* bounds all edges
    NumPlaces,          \* modifiedGraphEdges: n
    RoadWeights,        \* the weights that are given
    MaxRoads,
    MaxTarget

VARIABLES
    edges_,             \* the edges [a, b, w], in the order they were added
    shortestD_,         \* FloydWarshall: the distance of <<i, j>>
    nextEdge_,          \* FloydWarshall: the first edge on the way, or NoEdge
    dist,               \* Dijkstra: the distance from node 0
    roads,              \* edges: [e |-> the two ends, w |-> the weight or Open]
    target

graphVars == <<edges_, shortestD_, nextEdge_, dist>>
roadVars == <<roads, target>>
vars == <<graphVars, roadVars>>

Node == 0 .. NumNodes - 1
Edge == [a : Node, b : Node, w : Weights]
NoEdge == 0             \* -1 in the code, where edges count from 0

\* More than any sum of weights, three of it without overflow.
Inf == 1000

Place == 0 .. NumPlaces - 1
Open == -1
Ends == {e \in Place \X Place : e[1] < e[2]}

TypeOK ==
    /\ edges_ \in Seq(Edge)
    /\ shortestD_ \in [Node \X Node -> Nat]
    /\ nextEdge_ \in [Node \X Node -> 0 .. Len(edges_) + 1]
    /\ dist \in [Node -> Nat]
    /\ roads \in Seq([e : Ends, w : RoadWeights \union {Open}])
    /\ target \in 1 .. MaxTarget

-----------------------------------------------------------------------------
(***************************************************************************)
(* FloydWarshall: f holds shortestD_ and nextEdge_.                        *)
(***************************************************************************)
\* The shorter way from i to j of length w, which starts with edge e.
Improve(f, i, j, w, e) ==
    IF f.d[i, j] > w THEN [f EXCEPT !.d[i, j] = w, !.next[i, j] = e] ELSE f

\* The entries of nextEdge_ on the diagonal are never followed.
Start == [d |-> [p \in Node \X Node |-> IF p[1] = p[2] THEN 0 ELSE Inf],
          next |-> [p \in Node \X Node |-> IF p[1] = p[2] THEN 1 ELSE NoEdge]]

ByEdges(edges) ==
    LET One(f, ei) == Improve(f, edges[ei].a, edges[ei].b, edges[ei].w, ei)
    IN FoldLeft(One, Start, [ei \in DOMAIN edges |-> ei])

\* What the loops over i and j, and over k, i and j, go through.
Pairs == [x \in 1 .. NumNodes ^ 2 |-> <<(x - 1) \div NumNodes, (x - 1) % NumNodes>>]
Triples == [x \in 1 .. NumNodes ^ 3 |->
    <<(x - 1) \div NumNodes ^ 2, ((x - 1) \div NumNodes) % NumNodes, (x - 1) % NumNodes>>]

\* The three loops, with k outermost.
AllPairs(edges) ==
    LET Way(f, t) == Improve(f, t[2], t[3], f.d[t[2], t[1]] + f.d[t[1], t[3]], f.next[t[2], t[1]])
    IN FoldLeft(Way, ByEdges(edges), Triples)

\* Slip: the way to the new edge is taken to be known already.
ThroughEdgeOnly(f, e, eIdx) ==
    LET Way(g, t) == Improve(g, t[1], t[2], g.d[t[1], e.a] + e.w + g.d[e.b, t[2]], eIdx)
    IN IF f.d[e.a, e.b] <= e.w THEN f ELSE FoldLeft(Way, f, Pairs)

\* addEdge, with the ways that lead through the new edge.
Through(f, e, eIdx) ==
    LET Way(g, t) == Improve(g, t[1], t[2], g.d[t[1], e.a] + e.w + g.d[e.b, t[2]],
                             IF t[1] = e.a THEN eIdx ELSE g.next[t[1], e.a])
    IN IF f.d[e.a, e.b] <= e.w THEN f ELSE FoldLeft(Way, f, Pairs)

\* At most as many edges as there are nodes: a longer one would go round in circles.
RECURSIVE PathFrom(_, _, _)
PathFrom(src, dst, most) ==
    LET e == nextEdge_[src, dst] IN
    IF src = dst \/ most = 0 THEN <<>> ELSE <<e>> \o PathFrom(edges_[e].b, dst, most - 1)

shortestPath(src, dst) == PathFrom(src, dst, NumNodes)

distance(src, dst) ==
    IF src = dst THEN 0 ELSE IF nextEdge_[src, dst] # NoEdge THEN shortestD_[src, dst] ELSE Inf

-----------------------------------------------------------------------------
(***************************************************************************)
(* Dijkstra: the heap is the set of the pairs <<distance, node>> in it.    *)
(***************************************************************************)
Relax(s, e) ==
    IF s.d + e.w < s.dist[e.b]
    THEN [s EXCEPT !.dist[e.b] = s.d + e.w, !.heap = @ \union {<<s.d + e.w, e.b>>}] ELSE s

RECURSIVE run(_, _, _)
run(edges, heap, ds) ==
    LET top == CHOOSE t \in heap : \A u \in heap : t[1] < u[1] \/ (t[1] = u[1] /\ t[2] <= u[2])
        s == FoldLeft(Relax, [d |-> top[1], dist |-> ds, heap |-> heap \ {top}],
                      SelectSeq(edges, LAMBDA e : e.a = top[2]))
    IN IF heap = {} THEN ds
       ELSE IF top[1] > ds[top[2]] THEN run(edges, heap \ {top}, ds)
       ELSE run(edges, s.heap, s.dist)

-----------------------------------------------------------------------------
Keep(f) == shortestD_' = f.d /\ nextEdge_' = f.next

GraphInit ==
    /\ edges_ \in UNION {[1 .. n -> Edge] : n \in 0 .. FirstEdges}
    /\ LET f == AllPairs(edges_) IN shortestD_ = f.d /\ nextEdge_ = f.next
    /\ dist = run(edges_, {<<0, 0>>}, [v \in Node |-> IF v = 0 THEN 0 ELSE Inf])

\* run assumes that the distance of its source is not the upper limit.
addEdge(e) ==
    /\ Len(edges_) < MaxAdded
    /\ edges_' = Append(edges_, e)
    /\ Keep(Through([d |-> shortestD_, next |-> nextEdge_], e, Len(edges_) + 1))
    /\ dist' = IF dist[e.a] = Inf THEN dist ELSE run(edges_', {<<dist[e.a], e.a>>}, dist)

GrowGraph == \E e \in Edge : addEdge(e)

-----------------------------------------------------------------------------
(***************************************************************************)
(* modifiedGraphEdges.                                                     *)
(***************************************************************************)
RoadInit == roads = <<>> /\ target \in 1 .. MaxTarget

AddRoad(e, w) ==
    /\ Len(roads) < MaxRoads /\ \A i \in DOMAIN roads : roads[i].e # e
    /\ roads' = Append(roads, [e |-> e, w |-> w])
    /\ UNCHANGED target

GrowRoads == \E e \in Ends, w \in RoadWeights \union {Open} : AddRoad(e, w)

kInf == 1000

\* An edge <<from, to, w>> each way.
EdgesOf(e, w) == {<<e[1], e[2], w>>, <<e[2], e[1], w>>}

\* The distances after the edges of v, and what is pushed on the heap for them.
CloserBy(el, ds, d, v) ==
    LET Better(x) == {d + l[3] : l \in {m \in el : m[1] = v /\ m[2] = x}}
    IN [x \in Place |-> Min(Better(x) \union {ds[x]})]

Pushed(old, new) == {<<new[x], x>> : x \in {y \in Place : new[y] < old[y]}}

RECURSIVE DrainHeap(_, _, _)
DrainHeap(el, heap, ds) ==
    LET top == CHOOSE h \in heap : \A g \in heap : h[1] < g[1] \/ (h[1] = g[1] /\ h[2] <= g[2])
        closer == CloserBy(el, ds, top[1], top[2])
    IN IF heap = {} THEN ds
       ELSE IF top[1] > ds[top[2]] THEN DrainHeap(el, heap \ {top}, ds)
       ELSE DrainHeap(el, (heap \ {top}) \union Pushed(ds, closer), closer)

\* srcs is not made a heap first: the first of them leaves it first.
rerun(el, srcs, ds) ==
    LET first == Head(srcs)
        closer == CloserBy(el, ds, ds[first], first)
    IN DrainHeap(el, {<<ds[v], v>> : v \in Range(Tail(srcs))} \union Pushed(ds, closer), closer)

DistancesFrom(el, v) == rerun(el, <<v>>, [x \in Place |-> IF x = v THEN 0 ELSE kInf])

\* Slip: the 1 that the shortest way counts for the edge itself is forgotten.
GiveWeightTooLow(s, i) ==
    LET e == roads[i].e
        through == Min({s.dSrc[e[1]] + 1 + s.dDst[e[2]], s.dSrc[e[2]] + 1 + s.dDst[e[1]]})
        w == IF through < target THEN target - through ELSE 1
        el == s.el \union EdgesOf(e, w)
    IN IF roads[i].w # Open THEN s
       ELSE [el |-> el, dSrc |-> rerun(el, e, s.dSrc), dDst |-> rerun(el, e, s.dDst),
             edges |-> [s.edges EXCEPT ![i].w = w]]

\* An open edge gets 1, or what makes the shortest way through it as long as target.
GiveWeight(s, i) ==
    LET e == roads[i].e
        through == Min({s.dSrc[e[1]] + 1 + s.dDst[e[2]], s.dSrc[e[2]] + 1 + s.dDst[e[1]]})
        w == IF through < target THEN 1 + target - through ELSE 1
        el == s.el \union EdgesOf(e, w)
    IN IF roads[i].w # Open THEN s
       ELSE [el |-> el, dSrc |-> rerun(el, e, s.dSrc), dDst |-> rerun(el, e, s.dDst),
             edges |-> [s.edges EXCEPT ![i].w = w]]

NoAnswer == <<>>

\* An open edge is as long as target at first.
modifiedGraphEdges ==
    LET el == UNION {EdgesOf(roads[i].e, IF roads[i].w = Open THEN target ELSE roads[i].w) : i \in DOMAIN roads}
        start == [el |-> el, dSrc |-> DistancesFrom(el, 0), dDst |-> DistancesFrom(el, NumPlaces - 1), edges |-> roads]
        final == FoldLeft(GiveWeight, start, [i \in DOMAIN roads |-> i])
    IN IF start.dSrc[NumPlaces - 1] = kInf \/ start.dSrc[NumPlaces - 1] < target \/ final.dSrc[NumPlaces - 1] # target THEN NoAnswer
       ELSE final.edges

-----------------------------------------------------------------------------
Init == GraphInit /\ RoadInit

Next == (GrowGraph /\ UNCHANGED roadVars) \/ (GrowRoads /\ UNCHANGED graphVars)

Spec == Init /\ [][Next]_vars

-----------------------------------------------------------------------------
\* The least weight of a walk from i to j with at most n edges.
RECURSIVE Least(_, _, _)
Least(i, j, n) ==
    IF i = j THEN 0
    ELSE IF n = 0 THEN Inf
    ELSE Min({Inf} \union {edges_[e].w + Least(edges_[e].b, j, n - 1) : e \in {x \in DOMAIN edges_ : edges_[x].a = i}})

Weight(path) == FoldLeft(LAMBDA sum, e : sum + edges_[e].w, 0, path)

\* Both know the least distances, and the path of FloydWarshall leads from one node to the
\* other along edges of that weight, whatever edges were added since the distances were
\* first computed.
DistancesAgree ==
    /\ \A i, j \in Node :
         LET least == Least(i, j, NumNodes)
             path == shortestPath(i, j)
         IN /\ distance(i, j) = least
            /\ (least < Inf /\ i # j) =>
                 /\ Weight(path) = least
                 /\ edges_[Head(path)].a = i /\ edges_[Last(path)].b = j
                 /\ \A x \in 2 .. Len(path) : edges_[path[x - 1]].b = edges_[path[x]].a
    /\ \A v \in Node : dist[v] = Least(0, v, NumNodes)

\* The distance of 0 and NumPlaces - 1 if open edges have the weight w, by rounds over all edges.
Distance(edges, w) ==
    LET LengthOf(i) == IF edges[i].w = Open THEN w ELSE edges[i].w
        Round(ds, n) == [x \in Place |-> Min({ds[x]} \union
            {ds[IF edges[i].e[1] = x THEN edges[i].e[2] ELSE edges[i].e[1]] + LengthOf(i) :
                i \in {j \in DOMAIN edges : x \in Range(edges[j].e)}})]
    IN FoldLeft(Round, [x \in Place |-> IF x = 0 THEN 0 ELSE kInf], [n \in 1 .. NumPlaces |-> n])[NumPlaces - 1]

\* There is an answer exactly if target is between the least and the greatest distance that
\* the open edges allow; it keeps the weights that were given, and its distance is target.
WeightsAgree ==
    LET answer == modifiedGraphEdges IN
    /\ answer # NoAnswer <=> Distance(roads, 1) <= target /\ target <= Distance(roads, target) /\ Distance(roads, 1) < kInf
    /\ answer # NoAnswer =>
           /\ Distance(answer, 1) = target
           /\ \A i \in DOMAIN roads :
                  answer[i].e = roads[i].e /\ IF roads[i].w = Open THEN answer[i].w >= 1 ELSE answer[i].w = roads[i].w
=============================================================================
