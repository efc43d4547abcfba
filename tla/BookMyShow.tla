----------------------------- MODULE BookMyShow -----------------------------
(***************************************************************************)
(* BookMyShow on a segment tree over the rows of a hall: of                *)
(* cpp/segment-tree.cc ("cpp"), which counts the seats that are taken in   *)
(* a tree over a power of two of rows, and of python/segment-tree.py       *)
(* ("py"), which counts the free ones.  A segment that scatter fills as a  *)
(* whole is marked, and the segments below it are left as they are.        *)
(*                                                                         *)
(* A segment is <<l, r>>: the rows from l up to, but without, r.           *)
(***************************************************************************)
EXTENDS Integers, FiniteSetsExt

CONSTANTS
    MaxRows,            \* bounds n
    m_                  \* seats of a row

VARIABLES
    lang,
    n,                  \* rows
    tree,               \* "cpp": the least and the total occupancy of the rows of each
                        \* segment; "py": the greatest and the total number of free seats
    result,             \* of the last call
    expected,           \* history: what it should have been
    taken               \* history: the occupied seats of each row

vars == <<lang, n, tree, result, expected, taken>>

ceilingTwo(x) == Min({p \in {1, 2, 4, 8} : p >= x})

Mid(g) == (g[1] + g[2]) \div 2
Left(g) == <<g[1], Mid(g)>>
Right(g) == <<Mid(g), g[2]>>
IsLeaf(g) == g[1] + 1 = g[2]
Size(g) == g[2] - g[1]

Root == <<0, IF lang = "cpp" THEN ceilingTwo(n) ELSE n>>

RECURSIVE SegmentsOf(_)
SegmentsOf(g) == {g} \union (IF IsLeaf(g) THEN {} ELSE SegmentsOf(Left(g)) \union SegmentsOf(Right(g)))

\* Results: a row and its first seat, or one of these.
NoRow == <<>>            \* no row found
Booked == <<"true">>
Refused == <<"false">>
Raised == <<"AssertionError">>

TypeOK ==
    /\ lang \in {"cpp", "py"} /\ n \in 1 .. MaxRows
    /\ tree \in [SegmentsOf(Root) -> [best : 0 .. m_, sum : 0 .. m_ * 2 * MaxRows]]
    /\ taken \in [0 .. n - 1 -> 0 .. m_]

Init ==
    /\ lang \in {"cpp", "py"}
    /\ n \in 1 .. MaxRows
    /\ tree = [g \in SegmentsOf(Root) |-> IF lang = "cpp" THEN [best |-> 0, sum |-> 0]
                                          ELSE [best |-> m_, sum |-> m_ * Size(g)]]
    /\ result = NoRow /\ expected = NoRow
    /\ taken = [row \in 0 .. n - 1 |-> 0]

-----------------------------------------------------------------------------
(***************************************************************************)
(* cpp: dfsIf goes down the tree as far as a callback lets it.  s is what  *)
(* the callbacks of a call capture, with the tree.                         *)
(***************************************************************************)
\* Slip: a full segment is not recognised.
FilterOutBeyond(s, g) == s.maxR <= g[1]

filterOutSeg(s, g) == s.tree[g].best = m_ \/ s.maxR <= g[1]

canGather(s, g) ==
    LET seg == s.tree[g] IN
    IF s.row # NoRow \/ filterOutSeg(s, g) \/ seg.best + s.k > m_ THEN [s EXCEPT !.descend = FALSE]
    ELSE IF ~IsLeaf(g) THEN [s EXCEPT !.descend = TRUE]
    ELSE [s EXCEPT !.descend = TRUE, !.row = <<g[1], seg.best>>,
                   !.tree[g] = [best |-> @.best + s.k, sum |-> @.sum + s.k]]

\* The first pass of scatter counts, the second one updates too.
scatterSeg(s, g) ==
    LET seg == s.tree[g]
        seats == Size(g) * m_ - seg.sum
        Taken(k, node) == [s EXCEPT !.descend = FALSE, !.k = @ - k,
                                    !.tree[g] = IF s.call = "scatter" THEN node ELSE @]
    IN IF s.k = 0 \/ filterOutSeg(s, g) THEN [s EXCEPT !.descend = FALSE]
       ELSE IF s.maxR >= g[2] /\ seats <= s.k THEN Taken(seats, [best |-> m_, sum |-> m_ * Size(g)])
       ELSE IF s.maxR >= g[2] /\ IsLeaf(g) THEN Taken(s.k, [best |-> seg.best + s.k, sum |-> seg.best + s.k])
       ELSE [s EXCEPT !.descend = TRUE]

updateSegment(t, g) ==
    [t EXCEPT ![g] = [best |-> Min({t[Left(g)].best, t[Right(g)].best}),
                      sum |-> t[Left(g)].sum + t[Right(g)].sum]]

RECURSIVE dfsIf(_, _)
dfsIf(s, g) ==
    LET at == IF s.call = "gather" THEN canGather(s, g) ELSE scatterSeg(s, g)
        below == dfsIf(dfsIf(at, Left(g)), Right(g))
    IN IF ~at.descend \/ IsLeaf(g) THEN at
       ELSE IF s.call = "count" THEN below ELSE [below EXCEPT !.tree = updateSegment(@, g)]

Traverse(call, k, maxRow) ==
    dfsIf([call |-> call, k |-> k, maxR |-> maxRow + 1, row |-> NoRow, descend |-> TRUE, tree |-> tree], Root)

-----------------------------------------------------------------------------
(***************************************************************************)
(* py: recursive functions on the free seats.                              *)
(***************************************************************************)
updateSeg(t, g) ==
    [t EXCEPT ![g] = [best |-> Max({t[Left(g)].best, t[Right(g)].best}),
                      sum |-> t[Left(g)].sum + t[Right(g)].sum]]

Reduce(t, g, k) == [t EXCEPT ![g] = [best |-> @.best - k, sum |-> @.sum - k]]

RECURSIVE gather(_, _, _, _)
gather(t, g, k, maxRow) ==
    IF t[g].best < k THEN [tree |-> t, row |-> NoRow]
    ELSE IF IsLeaf(g) THEN [tree |-> Reduce(t, g, k), row |-> <<g[1], m_ - t[g].sum>>]
    ELSE LET l_res == gather(t, Left(g), k, maxRow)
             r_res == gather(t, Right(g), k, maxRow)
         IN IF l_res.row # NoRow THEN [l_res EXCEPT !.tree = updateSeg(@, g)]
            ELSE IF maxRow >= Mid(g) /\ r_res.row # NoRow THEN [r_res EXCEPT !.tree = updateSeg(@, g)]
            ELSE [tree |-> t, row |-> NoRow]

RECURSIVE can_scatter(_, _, _)
can_scatter(g, k, maxRow) ==
    /\ tree[g].sum >= k
    /\ \/ IsLeaf(g)
       \/ maxRow < Mid(g) /\ can_scatter(Left(g), k, maxRow)
       \/ /\ maxRow >= Mid(g)
          /\ \/ k <= tree[Left(g)].sum
             \/ can_scatter(Right(g), k - tree[Left(g)].sum, maxRow)

\* The tree after scatter, and whether an assertion has failed on the way.
RECURSIVE scatter(_, _, _, _)
scatter(t, g, k, maxRow) ==
    IF IsLeaf(g) THEN [tree |-> Reduce(t, g, k), ok |-> TRUE]
    ELSE IF k = t[g].sum THEN
        IF g[2] - 1 <= maxRow THEN [tree |-> [t EXCEPT ![g] = [best |-> 0, sum |-> 0]], ok |-> TRUE]
        ELSE [tree |-> t, ok |-> FALSE]
    ELSE LET inLeft == maxRow < Mid(g) \/ k <= t[Left(g)].sum
             l_seats == t[Left(g)].sum
             l == scatter(t, Left(g), IF inLeft THEN k ELSE l_seats, maxRow)
             s == IF inLeft \/ ~l.ok THEN l ELSE scatter(l.tree, Right(g), k - l_seats, maxRow)
         IN IF s.ok THEN [s EXCEPT !.tree = updateSeg(@, g)] ELSE s

-----------------------------------------------------------------------------
(***************************************************************************)
(* What the calls promise, on the rows: gather takes k seats side by side  *)
(* in the first row with room, scatter takes k seats in the first rows, or *)
(* none if there are not enough.                                           *)
(***************************************************************************)
FreeIn(row) == m_ - taken[row]
FreeBefore(row) == MapThenSumSet(FreeIn, 0 .. row - 1)

GatherExpected(k, maxRow) ==
    LET rows == {row \in 0 .. maxRow : FreeIn(row) >= k}
        row == Min(rows)
    IN IF rows = {} THEN expected' = NoRow /\ UNCHANGED taken
       ELSE expected' = <<row, taken[row]>> /\ taken' = [taken EXCEPT ![row] = @ + k]

ScatterExpected(k, maxRow) ==
    LET fits == k <= FreeBefore(maxRow + 1)
        Given(row) == Min({FreeIn(row), Max({0, k - FreeBefore(row)})})
    IN /\ expected' = IF fits THEN Booked ELSE Refused
       /\ taken' = IF fits THEN [row \in DOMAIN taken |-> taken[row] + (IF row <= maxRow THEN Given(row) ELSE 0)]
                   ELSE taken

-----------------------------------------------------------------------------
Gather(k, maxRow) ==
    /\ LET s == IF lang = "cpp" THEN Traverse("gather", k, maxRow) ELSE gather(tree, Root, k, maxRow)
       IN tree' = s.tree /\ result' = s.row
    /\ GatherExpected(k, maxRow)
    /\ UNCHANGED <<lang, n>>

ScatterCpp(k, maxRow) ==
    /\ lang = "cpp"
    /\ IF Traverse("count", k, maxRow).k > 0 THEN result' = Refused /\ UNCHANGED tree
       ELSE result' = Booked /\ tree' = Traverse("scatter", k, maxRow).tree

ScatterPy(k, maxRow) ==
    LET s == scatter(tree, Root, k, maxRow) IN
    /\ lang = "py"
    /\ IF ~can_scatter(Root, k, maxRow) THEN result' = Refused /\ UNCHANGED tree
       ELSE tree' = s.tree /\ result' = IF s.ok THEN Booked ELSE Raised

Scatter(k, maxRow) ==
    /\ ScatterCpp(k, maxRow) \/ ScatterPy(k, maxRow)
    /\ ScatterExpected(k, maxRow)
    /\ UNCHANGED <<lang, n>>

\* Nobody calls again after an AssertionError.
Next ==
    /\ result # Raised
    /\ \E maxRow \in 0 .. n - 1 :
         \/ \E k \in 1 .. m_ + 1 : Gather(k, maxRow)
         \/ \E k \in 1 .. m_ * n : Scatter(k, maxRow)

Spec == Init /\ [][Next]_vars

-----------------------------------------------------------------------------
\* What the calls return is what the rows of the hall say, with segments that were filled
\* as a whole and never looked into again.  Only scatter of python/segment-tree.py may fail
\* in an assertion, and only when there are seats enough.
SeatsAgree == result = expected \/ (result = Raised /\ lang = "py" /\ expected = Booked)

\* "assert seg.r - 1 <= maxRow" (l. 97 of python/segment-tree.py), whatever was booked before.
NeverRaises == result # Raised
=============================================================================
