----------------------------- MODULE RangeTrees -----------------------------
(***************************************************************************)
(* Trees that note an operation on a range in a few segments and put it    *)
(* together again when a point is read: the FenwickTree of                 *)
(* cpp/fenwick-tree.cc, as its test uses it ("sum") and as Fancy does      *)
(* ("fenwick"), and the segment tree of Fancy in python/segment-tree-2.py  *)
(* ("segments").  All of them grow.                                        *)
(*                                                                         *)
(* Every segment and every point holds a function a * x + b.  The modulus  *)
(* of the code is 10^9 + 7, here it is M: both stay in range, as the code  *)
(* does with 64 bits, and nothing depends on its value.                    *)
(***************************************************************************)
EXTENDS Integers, SequencesExt

CONSTANTS
    M,
    FirstSize,          \* of "segments": rows at the start, 10 in the code
    MaxSize,            \* bounds the growth
    MaxPoints,          \* bounds the appended values
    MaxOps              \* bounds the operations on ranges

VARIABLES
    variant,
    size,               \* n_, or root.r
    segs_,              \* the function of each segment
    points_,            \* the value of each point, and its own function
    n_,                 \* Fancy: how many values were appended
    ops,                \* counts the operations on ranges
    expected            \* history: the value of each point

vars == <<variant, size, segs_, points_, n_, ops, expected>>

Function == [a : 0 .. M - 1, b : 0 .. M - 1]
Identity == [a |-> 1, b |-> 0]
Apply(f, x) == (f.a * x + f.b) % M
\* g after f.
Then(f, g) == [a |-> (f.a * g.a) % M, b |-> (f.b * g.a + g.b) % M]

Plus(inc) == [a |-> 1, b |-> inc % M]
Times(by) == [a |-> by % M, b |-> 0]

Tree == variant # "segments"

-----------------------------------------------------------------------------
(***************************************************************************)
(* The segments.  Segment i of a FenwickTree is (i - LSB(i), i]; one of    *)
(* the segment tree is <<l, r>>, the points from l + 1 to r here.          *)
(***************************************************************************)
LSB(x) == Max({p \in {1, 2, 4, 8, 16} : x % p = 0})

\* traverseParentSegments.
Parents(p) ==
    LET from[i \in 1 .. 2 * MaxSize] == IF i > size THEN <<>> ELSE <<i>> \o from[i + LSB(i)]
    IN from[p]

\* traverseSegmentsFor of (l, r]: <<i>> is segment i and <<i, "point">> point i.
Cover(l, r) ==
    LET from[i \in 0 .. MaxSize] ==
            IF i <= l THEN <<>>
            ELSE IF i - LSB(i) >= l THEN <<<<i>>>> \o from[i - LSB(i)]
            ELSE <<<<i, "point">>>> \o from[i - 1]
    IN from[r]

Mid(g) == (g[1] + g[2]) \div 2
Lc(g) == <<g[1], Mid(g)>>
Rc(g) == <<Mid(g), g[2]>>
IsLeaf(g) == g[1] + 1 = g[2]

RECURSIVE constructSegmentTree(_)
constructSegmentTree(g) ==
    {g} \union (IF IsLeaf(g) THEN {} ELSE constructSegmentTree(Lc(g)) \union constructSegmentTree(Rc(g)))

\* The segments after the root was doubled until it has "to" points: each new root has the
\* old one on its left, which need not be where the middle of a fresh tree would be.
RECURSIVE Grown(_)
Grown(to) == IF to = FirstSize THEN constructSegmentTree(<<0, to>>)
             ELSE {<<0, to>>} \union Grown(to \div 2) \union constructSegmentTree(<<to \div 2, to>>)

\* The path from segment g down to the leaf of point p; the left half ends at Mid(g).
RECURSIVE PathTo(_, _)
PathTo(g, p) == IF IsLeaf(g) THEN <<g>> ELSE <<g>> \o PathTo(IF p <= Mid(g) THEN Lc(g) ELSE Rc(g), p)

\* opForAll of the first r points.
RECURSIVE CoverFirst(_, _)
CoverFirst(g, r) ==
    IF g[2] <= r THEN <<g>>
    ELSE IF r > Mid(g) THEN <<Lc(g)>> \o CoverFirst(Rc(g), r)
    ELSE CoverFirst(Lc(g), r)

-----------------------------------------------------------------------------
Segments(v, s) == IF v = "segments" THEN Grown(s) ELSE 1 .. s
Values == [x : 0 .. M - 1, f : Function]

TypeOK ==
    /\ variant \in {"sum", "fenwick", "segments"}
    /\ segs_ \in [Segments(variant, size) -> Function]
    /\ points_ \in [1 .. size -> Values]
    /\ n_ \in 0 .. size /\ ops \in 0 .. MaxOps
    /\ expected \in [1 .. n_ -> 0 .. M - 1]

Init ==
    /\ variant \in {"sum", "fenwick", "segments"}
    /\ size = CASE variant = "sum" -> 4 [] variant = "fenwick" -> 2 [] OTHER -> FirstSize
    /\ segs_ = [g \in Segments(variant, size) |-> Identity]
    /\ points_ = [p \in 1 .. size |-> [x |-> 0, f |-> Identity]]
    /\ n_ = (IF variant = "sum" THEN size ELSE 0)
    /\ ops = 0
    /\ expected = [p \in 1 .. n_ |-> 0]

\* What grow and growTree leave when there are s points: what there was stays.
Extend(s) ==
    /\ size' = s
    /\ segs_' = [g \in Segments(variant, s) |-> IF g \in DOMAIN segs_ THEN segs_[g] ELSE Identity]

Points(s) == [p \in 1 .. s |-> IF p <= size THEN points_[p] ELSE [x |-> 0, f |-> Identity]]

\* The test grows its tree by hand.
grow ==
    /\ variant = "sum"
    /\ 2 * size <= MaxSize
    /\ Extend(2 * size)
    /\ points_' = Points(2 * size)
    /\ n_' = 2 * size
    /\ expected' = [p \in 1 .. n_' |-> IF p <= n_ THEN expected[p] ELSE 0]
    /\ UNCHANGED <<variant, ops>>

\* append of Fancy, which makes room first.  The python one resets a, but not b.
append(val) ==
    LET room == IF n_ < size THEN size ELSE 2 * size
        p == n_ + 1
        leaf == <<n_, p>>
    IN  /\ variant # "sum"
        /\ n_ < MaxPoints /\ room <= MaxSize
        /\ size' = room
        /\ LET grown == [g \in Segments(variant, room) |-> IF g \in DOMAIN segs_ THEN segs_[g] ELSE Identity]
           IN segs_' = IF Tree THEN grown ELSE [grown EXCEPT ![leaf].a = 1]
        /\ points_' = [Points(room) EXCEPT ![p].x = val]
        /\ n_' = p
        /\ expected' = Append(expected, val)
        /\ UNCHANGED <<variant, ops>>

\* Note f in the segments, and the points, of the cover.
Note(cover, f) ==
    /\ segs_' = [g \in DOMAIN segs_ |->
           IF Contains(cover, IF Tree THEN <<g>> ELSE g) THEN Then(segs_[g], f) ELSE segs_[g]]
    /\ points_' = [p \in DOMAIN points_ |->
           IF Tree /\ Contains(cover, <<p, "point">>) THEN [points_[p] EXCEPT !.f = Then(@, f)] ELSE points_[p]]

CoverAll(r) == IF Tree THEN Cover(0, r) ELSE CoverFirst(<<0, size>>, r)

\* addAll and multAll; nothing happens to an empty sequence.
OpForAll(f) ==
    /\ variant # "sum"
    /\ n_ > 0
    /\ Note(CoverAll(n_), f)
    /\ expected' = [p \in 1 .. n_ |-> Apply(f, expected[p])]

\* The test adds to ranges, and to single points.
AddToRange(l, r, inc) ==
    /\ variant = "sum"
    /\ Note(Cover(l, r), Plus(inc))
    /\ expected' = [p \in 1 .. n_ |-> IF l < p /\ p <= r THEN Apply(Plus(inc), expected[p]) ELSE expected[p]]

AddToPoint(p, inc) ==
    /\ variant = "sum"
    /\ Note(<<<<p, "point">>>>, Plus(inc))
    /\ expected' = [expected EXCEPT ![p] = Apply(Plus(inc), @)]

Next ==
    \/ grow
    \/ \E val \in {1, 2} : append(val)
    \/ /\ ops < MaxOps
       /\ ops' = ops + 1
       /\ UNCHANGED <<variant, size, n_>>
       /\ \/ \E k \in {2, 3} : OpForAll(Plus(k)) \/ OpForAll(Times(k))
          \/ \E l \in 0 .. size - 1, r \in 1 .. size, inc \in {1, -2} : l < r /\ AddToRange(l, r, inc)
          \/ \E p \in 1 .. size : AddToPoint(p, 3)

Spec == Init /\ [][Next]_vars

-----------------------------------------------------------------------------
\* getIndex, and the expect of the test: the functions from the point outwards.
getIndex(p) ==
    LET own == IF Tree THEN Apply(points_[p].f, points_[p].x) ELSE points_[p].x
        around == IF Tree THEN Parents(p) ELSE Reverse(PathTo(<<0, size>>, p))
    IN FoldLeft(LAMBDA x, g : Apply(segs_[g], x), own, around)

\* Every point has the value that all operations on ranges with it, in their order, give
\* it, although the operations are noted in segments of different sizes, in trees that grow.
RangesAgree == \A p \in 1 .. n_ : getIndex(p) = expected[p]
=============================================================================
