----------------------------- MODULE Components -----------------------------
(***************************************************************************)
(* Algorithms on a directed graph whose edges were added one by one: the   *)
(* strongly connected components of cpp/Strongly-connected-components.cc,  *)
(* in two passes and in one, and of python/Strongly-connected-components   *)
(* .py, what both make of them, and the matching of                        *)
(* cpp/Bipartite-matching.cc, with the vertices as left and right ones.    *)
(* The C++ code keeps the edges in the DirectEdgeList of cpp/graph.h.      *)
(***************************************************************************)
EXTENDS Integers, SequencesExt

CONSTANTS
    NumVertices,
    MaxEdges            \* bounds the edges

VARIABLE edges_         \* the edges <<a, b>>, sorted

vars == edges_

Vertex == 0 .. NumVertices - 1
Far == NumVertices      \* numeric_limits::max(), the ends of the edge after the last

Precedes(e, f) == e[1] < f[1] \/ (e[1] = f[1] /\ e[2] < f[2])

TypeOK == edges_ \in Seq(Vertex \X Vertex)

Init == edges_ = <<>>

addEdge(a, b) ==
    /\ Len(edges_) < MaxEdges
    /\ edges_' = SortSeq(Append(edges_, <<a, b>>), Precedes)

\* No edge is added twice here.
Next == \E a, b \in Vertex : ~Contains(edges_, <<a, b>>) /\ addEdge(a, b)

Spec == Init /\ [][Next]_vars

-----------------------------------------------------------------------------
(***************************************************************************)
(* DirectEdgeList: the sorted edges and one more, and where those of each  *)
(* vertex start.                                                           *)
(***************************************************************************)
finalize(edges) == Append(SortSeq(edges, Precedes), <<Far, Far>>)
reverse(el) == finalize([i \in DOMAIN el |-> <<el[i][2], el[i][1]>>])
start_(el, v) == Min({i \in DOMAIN el : el[i][1] >= v})

\* start_ has an element for each vertex up to the last one of an edge.
numVerts_ == IF edges_ = <<>> THEN 0 ELSE 1 + Max({e[1] : e \in ToSet(edges_)} \union {e[2] : e \in ToSet(edges_)})

\* What an iterator of v yields before it is no longer valid.
RECURSIVE TailsFrom(_, _, _)
TailsFrom(el, v, idx) == IF el[idx][1] = v THEN <<el[idx][2]>> \o TailsFrom(el, v, idx + 1) ELSE <<>>
Tails(el) == [v \in Vertex |-> TailsFrom(el, v, start_(el, v))]

-----------------------------------------------------------------------------
(***************************************************************************)
(* KosarajuAlgorithm: s is a depth-first search with its stack, the        *)
(* visited vertices and, for each root, the vertices in the order they are *)
(* finished in.  An iterator only skips what is visited, so its next       *)
(* vertex is the first one that is not.                                    *)
(***************************************************************************)
RECURSIVE Dfs(_, _)
Dfs(tails, s) ==
    LET v == Last(s.stack)
        open == SelectSeq(tails[v], LAMBDA u : u \notin s.visited)
    IN IF s.stack = <<>> THEN s
       ELSE IF open = <<>> THEN Dfs(tails, [s EXCEPT !.stack = Front(@), !.trees[Len(s.trees)] = Append(@, v)])
       ELSE Dfs(tails, [s EXCEPT !.stack = Append(@, open[1]), !.visited = @ \union {open[1]}])

DfsFrom(tails, nodeOrder) ==
    LET Root(s, root) ==
            IF root \in s.visited THEN s
            ELSE Dfs(tails, [stack |-> <<root>>, visited |-> s.visited \union {root}, trees |-> Append(s.trees, <<>>)])
    IN FoldLeft(Root, [stack |-> <<>>, visited |-> {}, trees |-> <<>>], nodeOrder).trees

Ascending == [i \in 1 .. NumVertices |-> i - 1]

KosarajuAlgorithm(el) ==
    LET dfsOrder == FlattenSeq(DfsFrom(Tails(el), Ascending))
    IN DfsFrom(Tails(reverse(el)), Reverse(dfsOrder))

-----------------------------------------------------------------------------
(***************************************************************************)
(* onePassAlgorithm, and findSCC, which is the same with the edges of a    *)
(* vertex in the order they were added in and the result the other way     *)
(* round.  A flag is the number of a vertex, or one of two marks.          *)
(***************************************************************************)
Unvisited == 0
InAnotherScc == -1

pushToStack(s, v) ==
    [s EXCEPT !.stack = Append(@, v), !.firstSeen = Append(@, v), !.gOrder = @ + 1,
              !.flags[v] = s.gOrder + 1, !.low[v] = s.gOrder + 1]

Lower(s, v, u) == IF s.flags[u] = InAnotherScc THEN s ELSE [s EXCEPT !.low[v] = Min({@, s.low[u]})]

\* v's iterator moves over the vertices that have a flag.
RECURSIVE SkipVisited(_, _, _)
SkipVisited(tails, s, v) ==
    LET u == tails[v][s.p[v]] IN
    IF s.p[v] > Len(tails[v]) \/ s.flags[u] = Unvisited THEN s
    ELSE SkipVisited(tails, Lower([s EXCEPT !.p[v] = @ + 1], v, u), v)

\* v is finished; if it is the first seen of its component, that is complete.
Finish(s, v) ==
    LET rest == Front(s.stack)
        up == IF rest = <<>> THEN s ELSE [s EXCEPT !.low[Last(rest)] = Min({@, s.low[v]})]
        at == CHOOSE i \in DOMAIN s.firstSeen : s.firstSeen[i] = v
        component == SubSeq(s.firstSeen, at, Len(s.firstSeen))
    IN IF s.low[v] # s.flags[v] THEN [up EXCEPT !.stack = rest]
       ELSE [up EXCEPT !.stack = rest, !.scc = Append(@, Reverse(component)),
                       !.firstSeen = SubSeq(@, 1, at - 1),
                       !.flags = [x \in Vertex |-> IF Contains(component, x) THEN InAnotherScc ELSE @[x]]]

RECURSIVE Grow(_, _)
Grow(tails, s) ==
    LET v == Last(s.stack)
        t == SkipVisited(tails, s, v)
    IN IF s.stack = <<>> THEN s
       ELSE IF t.p[v] > Len(tails[v]) THEN Grow(tails, Finish(t, v))
       ELSE Grow(tails, pushToStack([t EXCEPT !.p[v] = @ + 1], tails[v][t.p[v]]))

findSCC(tails) ==
    LET Root(s, root) == IF s.flags[root] # Unvisited THEN s ELSE Grow(tails, pushToStack(s, root))
    IN FoldLeft(Root, [stack |-> <<>>, firstSeen |-> <<>>, gOrder |-> 0, scc |-> <<>>,
                       flags |-> [v \in Vertex |-> Unvisited], low |-> [v \in Vertex |-> 0],
                       p |-> [v \in Vertex |-> 1]], Ascending).scc

onePassAlgorithm(el) == Reverse(findSCC(Tails(el)))

\* solve and getMaxVisitableWebpages, from the components with the last ones first.
MaxVisits(scc) ==
    LET Of(v) == CHOOSE i \in DOMAIN scc : Contains(scc[i], v)
        visits[i \in DOMAIN scc] ==
            Max({Len(scc[i])} \union {Len(scc[i]) + visits[Of(e[2])] :
                    e \in {f \in ToSet(edges_) : Of(f[1]) = i /\ Of(f[2]) # i}})
    IN Max({visits[i] : i \in DOMAIN scc})

-----------------------------------------------------------------------------
(***************************************************************************)
(* maximumCardinalityBipartiteMatch.  A search that fails leaves its flags *)
(* to the next one.                                                        *)
(***************************************************************************)
Unmatched == Far

\* The search from l with its edges from the i-th.
RECURSIVE recurseAugment(_, _, _, _)
recurseAugment(tails, s, l, i) ==
    LET r == tails[l][i]
        flagged == [s EXCEPT !.flags = @ \union {r}]
        on == recurseAugment(tails, flagged, s.rightMatches[r], 1)
        found == IF s.rightMatches[r] = Unmatched THEN [flagged EXCEPT !.ok = TRUE] ELSE on
    IN IF i > Len(tails[l]) THEN [s EXCEPT !.ok = FALSE]
       ELSE IF r \in s.flags THEN recurseAugment(tails, s, l, i + 1)
       ELSE IF found.ok THEN [found EXCEPT !.rightMatches[r] = l]
       ELSE recurseAugment(tails, found, l, i + 1)

maximumCardinalityBipartiteMatch(tails) ==
    LET Run(s, l) == LET t == recurseAugment(tails, s, l, 1) IN IF t.ok THEN [t EXCEPT !.flags = {}] ELSE t
    IN FoldLeft(Run, [ok |-> FALSE, flags |-> {}, rightMatches |-> [r \in Vertex |-> Unmatched]], Ascending).rightMatches

-----------------------------------------------------------------------------
\* Reachability, by Warshall.
RECURSIVE Via(_, _)
Via(r, k) ==
    IF k = NumVertices THEN r
    ELSE Via(r \union {<<a, b>> \in Vertex \X Vertex : <<a, k>> \in r /\ <<k, b>> \in r}, k + 1)
Reaches == Via(ToSet(edges_) \union {<<v, v>> : v \in Vertex}, 0)

IsComponents(scc) ==
    LET r == Reaches IN
    /\ \A i \in DOMAIN scc : \A v \in ToSet(scc[i]) :
           ToSet(scc[i]) = {u \in Vertex : <<u, v>> \in r /\ <<v, u>> \in r}
    /\ UNION {ToSet(scc[i]) : i \in DOMAIN scc} = Vertex
    /\ Len(FlattenSeq(scc)) = NumVertices

\* No edge leads from a component to an earlier one.
InTopologicalOrder(scc) ==
    \A i, j \in DOMAIN scc : i < j =>
        ~\E e \in ToSet(edges_) : Contains(scc[j], e[1]) /\ Contains(scc[i], e[2])

\* A walk can visit the vertices of a set if of any two one reaches the other.
LongestVisit ==
    LET r == Reaches IN
    Max({Cardinality(S) : S \in {T \in SUBSET Vertex : \A u, v \in T : <<u, v>> \in r \/ <<v, u>> \in r}})

\* The size of a largest matching, by the sets of left vertices with few neighbours.
LargestMatching ==
    LET Neighbours(S) == {e[2] : e \in {f \in ToSet(edges_) : f[1] \in S}}
    IN Min({NumVertices - Cardinality(S) + Cardinality(Neighbours(S)) : S \in SUBSET Vertex})

IsMatching(m) ==
    LET matched == {r \in Vertex : m[r] # Unmatched} IN
    /\ \A r \in matched : Contains(edges_, <<m[r], r>>)
    /\ \A r, q \in matched : m[r] = m[q] => r = q

SccAgree(tails) == LET scc == findSCC(tails) IN IsComponents(scc) /\ InTopologicalOrder(Reverse(scc))

EdgeListAgrees(el) ==
    LET scc == KosarajuAlgorithm(el)
        onePass == onePassAlgorithm(el)
        match == maximumCardinalityBipartiteMatch(Tails(el))
    IN  /\ IsComponents(scc) /\ InTopologicalOrder(scc)
        /\ IsComponents(onePass) /\ InTopologicalOrder(onePass)
        /\ MaxVisits(Reverse(onePass)) = LongestVisit
        /\ IsMatching(match)
        /\ Cardinality({r \in Vertex : match[r] # Unmatched}) = LargestMatching

\* All three algorithms find the components, in topological order, whatever the vertices of
\* earlier searches have left in flags and low; the most that can be visited follows; and
\* the matching is a largest one although failed searches leave their flags behind.  The
\* C++ ones may only be asked about vertices that start_ has an element for.
ComponentsAgree ==
    LET el == finalize(edges_)
        tails == [v \in Vertex |-> Reverse(Tails(el)[v])]
    IN  /\ SccAgree(tails)
        /\ MaxVisits(findSCC(tails)) = LongestVisit
        /\ numVerts_ = NumVertices => EdgeListAgrees(el)
=============================================================================
