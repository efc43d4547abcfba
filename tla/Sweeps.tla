------------------------------- MODULE Sweeps -------------------------------
(***************************************************************************)
(* Sweeps over days, or along a line, with a heap of what has begun.       *)
(*                                                                         *)
(* Units that are on hand from one day to another and needs of some day:   *)
(* the Scheduler of python/worker_scheduling.py, where a worker (a, b, c)  *)
(* can do c units of work on the days a to b, and the GiftPoints of        *)
(* python/gift_points_heapq.py, where points can be used from start to     *)
(* end.  Both serve the needs in order of their days from what ends first. *)
(* A lot is such a worker or such points.  Of lots that end on the same    *)
(* day any one may be on top of a heap.                                    *)
(*                                                                         *)
(* Upper envelopes: the PiecewiseMax of python/piecewise-max-function.py   *)
(* with getMaxDamageDealt, which uses it from both ends; and getSkyline of *)
(* python/heapq-example.py, and scheduleMeetings of                        *)
(* cpp/4fun/ScheduleMeetings.cpp.  A coordinate of a segment is a fraction *)
(* <<numerator, denominator>>, exact where the program has a float.  INF   *)
(* stands for 1e40: larger than every x at which a function is evaluated   *)
(* or two lines cross.                                                     *)
(***************************************************************************)
EXTENDS Integers, SequencesExt

CONSTANTS
    MaxDay,
    Amounts,            \* the units of a lot, or of a need
    MaxLots, MaxNeeds,
    MaxDamage, MaxHealth, MaxFighters,
    Width, MaxHeight, MaxBuildings

VARIABLES
    lots,               \* self.workers, self.points: [start, end, units]
    needs,              \* self.projects, self.uses: [day, units]
    fighters,           \* the lists D and H
    buildings           \* [x1, x2, h], ordered by x1; or meetings from x1 to x2

lotVars == <<lots, needs>>
lineVars == <<fighters, buildings>>
vars == <<lotVars, lineVars>>

Day == 0 .. MaxDay
Lot == {l \in [start : Day, end : Day, units : Amounts] : l.start <= l.end}
Need == [day : Day, units : Amounts]
Fighter == [d : 1 .. MaxDamage, h : 1 .. MaxHealth]
Building == {b \in [x1 : 0 .. Width, x2 : 0 .. Width, h : 1 .. MaxHeight] : b.x1 < b.x2}

TypeOK == lots \in Seq(Lot) /\ needs \in Seq(Need) /\ fighters \in Seq(Fighter) /\ buildings \in Seq(Building)

LotInit == lots = <<>> /\ needs = <<>>

\* The lists are kept in order here; every query of the code sorts them first.
addLot(l) ==
    /\ Len(lots) < MaxLots
    /\ lots' = SortSeq(Append(lots, l), LAMBDA x, y :
           x.start < y.start \/ (x.start = y.start /\ (x.end < y.end \/ (x.end = y.end /\ x.units < y.units))))
    /\ UNCHANGED needs

addNeed(n) ==
    /\ Len(needs) < MaxNeeds
    /\ needs' = SortSeq(Append(needs, n), LAMBDA x, y : x.day < y.day \/ (x.day = y.day /\ x.units < y.units))
    /\ UNCHANGED lots

LotNext == (\E l \in Lot : addLot(l)) \/ (\E n \in Need : addNeed(n))

-----------------------------------------------------------------------------
(***************************************************************************)
(* A pass over needs in the order of their days.  s holds the lots with    *)
(* what is left of them, those that were pushed, those in the heap, and    *)
(* whether all needs so far were met.                                      *)
(***************************************************************************)
Pass(p) == [lots |-> p, pushed |-> {}, heap |-> {}, ok |-> TRUE]

Top(s) == CHOOSE i \in s.heap : \A j \in s.heap : s.lots[i].end <= s.lots[j].end

\* Take n units of the lots in the heap on a day.
RECURSIVE Take(_, _, _)
Take(s, day, n) ==
    LET quota == s.lots[Top(s)]
        used == Min({quota.units, n})
        without == s.heap \ {Top(s)}
    IN IF n = 0 \/ s.heap = {} THEN [s EXCEPT !.ok = @ /\ n = 0]
       ELSE IF quota.end < day THEN Take([s EXCEPT !.heap = without], day, n)
       ELSE Take([s EXCEPT !.lots[Top(s)].units = @ - used,
                           !.heap = IF used = quota.units THEN without ELSE @], day, n - used)

\* The lots that have started by a day and were not pushed before.
Started(s, day) == {i \in DOMAIN s.lots \ s.pushed : s.lots[i].start <= day}

\* Scheduler: the workers that are over already are left out of the heap.
move(s, need) ==
    LET new == Started(s, need.day) IN
    Take([s EXCEPT !.pushed = @ \union new,
                   !.heap = @ \union {i \in new : s.lots[i].end >= need.day}], need.day, need.units)

feasible(x, y) ==
    LET projects == SortSeq(Append(needs, [day |-> x, units |-> y]), LAMBDA p, q : p.day < q.day)
    IN FoldLeft(move, Pass(lots), projects).ok

\* The binary search for the most units that can be met on top of the projects.
RECURSIVE Most(_, _, _)
Most(x, low, high) ==
    LET mid == (low + high + 1) \div 2 IN
    IF low >= high THEN low
    ELSE IF feasible(x, mid) THEN Most(x, mid, high) ELSE Most(x, low, mid - 1)

UnitsOf(i) == lots[i].units

maxUnitsOnDay(x) ==
    Most(x, 0, MapThenSumSet(UnitsOf, {i \in DOMAIN lots : lots[i].start <= x /\ x <= lots[i].end}))

-----------------------------------------------------------------------------
ScanOne(s, us) ==
    LET new == Started(s, us.day) IN
    IF ~s.ok THEN s
    ELSE Take([s EXCEPT !.pushed = @ \union new, !.heap = @ \union new], us.day, us.units)

_scan(p, u) == FoldLeft(ScanOne, Pass(p), u)

\* Time backwards: the last day of a lot becomes its first one.
MirroredLots(p) == [i \in DOMAIN p |-> [p[i] EXCEPT !.start = -p[i].end, !.end = -p[i].start]]

\* Slip: the uses after ts are served in the order of time as well.
Forwards(p, u) == _scan(p, u)

\* The uses after ts, the last one first, from the points that start last.
Backwards(p, u) ==
    LET s == _scan(MirroredLots(p), Reverse([i \in DOMAIN u |-> [u[i] EXCEPT !.day = -@]]))
    IN [s EXCEPT !.lots = MirroredLots(@)]

CantMeetUses == -1

\* First the uses up to ts, then the others.
query(ts) ==
    LET left == _scan(lots, SelectSeq(needs, LAMBDA u : u.day <= ts))
        right == Backwards(left.lots, SelectSeq(needs, LAMBDA u : u.day > ts))
        Left(i) == right.lots[i].units
    IN IF ~left.ok \/ ~right.ok THEN CantMeetUses
       ELSE MapThenSumSet(Left, {i \in DOMAIN lots : lots[i].start <= ts /\ ts <= lots[i].end})

-----------------------------------------------------------------------------
LineInit == fighters = <<>> /\ buildings = <<>>

AddFighter(f) ==
    /\ Len(fighters) < MaxFighters /\ buildings = <<>>
    /\ fighters' = Append(fighters, f)
    /\ UNCHANGED buildings

AddBuilding(b) ==
    /\ Len(buildings) < MaxBuildings /\ fighters = <<>>
    /\ buildings # <<>> => Last(buildings).x1 <= b.x1
    /\ buildings' = Append(buildings, b)
    /\ UNCHANGED fighters

LineNext == (\E f \in Fighter : AddFighter(f)) \/ (\E b \in Building : AddBuilding(b))

-----------------------------------------------------------------------------
INF == 1000

\* PiecewiseMax: q is what self.q holds from head to tail.
add_first(a, b) == <<[a |-> a, b |-> b, x1 |-> <<0, 1>>, x2 |-> <<INF, 1>>]>>

Below(s, x, a, b) == (s.a - a) * x[1] + (s.b - b) * x[2] <= 0
x1_below(s, a, b) == Below(s, s.x1, a, b)
x2_below(s, a, b) == Below(s, s.x2, a, b)

\* Where a segment crosses a line; the denominator is made positive.
intersection(s, a, b) == IF s.a > a THEN <<b - s.b, s.a - a>> ELSE <<s.b - b, a - s.a>>

RECURSIVE prepend(_, _, _)
prepend(q, a, b) ==
    LET mx == intersection(Head(q), a, b) IN
    IF q = <<>> THEN add_first(a, b)
    ELSE IF x2_below(Head(q), a, b) THEN prepend(Tail(q), a, b)
    ELSE IF ~x1_below(Head(q), a, b) THEN q
    ELSE <<[a |-> a, b |-> b, x1 |-> <<0, 1>>, x2 |-> mx]>> \o [q EXCEPT ![1].x1 = mx]

RECURSIVE append(_, _, _)
append(q, a, b) ==
    LET mx == intersection(Last(q), a, b) IN
    IF q = <<>> THEN add_first(a, b)
    ELSE IF x1_below(Last(q), a, b) THEN append(Front(q), a, b)
    ELSE IF Last(q).a = a THEN q
    ELSE Append([q EXCEPT ![Len(q)].x2 = mx], [a |-> a, b |-> b, x1 |-> mx, x2 |-> <<INF, 1>>])

\* The binary search for the first segment that ends at x or later.
RECURSIVE SegmentFor(_, _, _, _)
SegmentFor(q, x, h, t) ==
    LET m == (h + t) \div 2 IN
    IF h >= t THEN h
    ELSE IF q[m].x2[1] < x * q[m].x2[2] THEN SegmentFor(q, x, m + 1, t) ELSE SegmentFor(q, x, h, m)

max_y_for(q, x) ==
    LET s == q[SegmentFor(q, x, 1, Len(q) + 1)] IN IF q = <<>> THEN -INF ELSE s.a * x + s.b

\* One of the two loops: the best pair of a fighter with one before it.
Loop(dh, atTail) ==
    LET Fight(s, f) == [res |-> Max({s.res, f.d * f.h + max_y_for(s.pw, f.h)}),
                        pw |-> IF atTail THEN append(s.pw, f.d, f.d * f.h) ELSE prepend(s.pw, f.d, f.d * f.h)]
    IN FoldLeft(Fight, [res |-> 0, pw |-> <<>>], dh)

\* The final division by B is left out.
getMaxDamageDealt ==
    LET dh == SortSeq(fighters, LAMBDA x, y : x.d < y.d \/ (x.d = y.d /\ x.h > y.h))
    IN Max({Loop(dh, TRUE).res, Loop(Reverse(dh), FALSE).res})

-----------------------------------------------------------------------------
\* getSkyline: the heap holds buildings, the highest on top, of which those that have ended
\* go only when they get there.
Higher(b, c) == b.h > c.h \/ (b.h = c.h /\ b.x2 <= c.x2)

RECURSIVE DropEnded(_, _)
DropEnded(heap, x) ==
    LET top == CHOOSE i \in heap : \A j \in heap : Higher(buildings[i], buildings[j])
    IN IF heap # {} /\ buildings[top].x2 <= x THEN DropEnded(heap \ {top}, x) ELSE heap

At(s, x) ==
    LET heap == DropEnded(s.heap, x) \union {i \in DOMAIN buildings : buildings[i].x1 = x}
        y == Max({0} \union {buildings[i].h : i \in heap})
    IN [heap |-> heap,
        res |-> IF s.res # <<>> /\ Last(s.res)[2] = y THEN s.res ELSE Append(s.res, <<x, y>>)]

getSkyline ==
    LET X == {buildings[i].x1 : i \in DOMAIN buildings} \union {buildings[i].x2 : i \in DOMAIN buildings}
    IN FoldLeft(At, [heap |-> {}, res |-> <<>>], SetToSortSeq(X, <)).res

-----------------------------------------------------------------------------
\* Slip: a room is not free yet when a meeting ends as the next one begins.
PlaceMeetingLater(s, m) ==
    LET earliest == CHOOSE r \in DOMAIN s.rooms : \A q \in DOMAIN s.rooms :
                        s.rooms[r] < s.rooms[q] \/ (s.rooms[r] = s.rooms[q] /\ r <= q)
    IN IF s.rooms = <<>> \/ s.rooms[earliest] >= m.x1
       THEN [rooms |-> Append(s.rooms, m.x2), ret |-> Append(s.ret, Len(s.rooms) + 1)]
       ELSE [rooms |-> [s.rooms EXCEPT ![earliest] = m.x2], ret |-> Append(s.ret, earliest)]

\* scheduleMeetings: the rooms with the time when they are free again.  A meeting takes the
\* room that is free first if it is free in time, otherwise a new one.
PlaceMeeting(s, m) ==
    LET earliest == CHOOSE r \in DOMAIN s.rooms : \A q \in DOMAIN s.rooms :
                        s.rooms[r] < s.rooms[q] \/ (s.rooms[r] = s.rooms[q] /\ r <= q)
    IN IF s.rooms = <<>> \/ s.rooms[earliest] > m.x1
       THEN [rooms |-> Append(s.rooms, m.x2), ret |-> Append(s.ret, Len(s.rooms) + 1)]
       ELSE [rooms |-> [s.rooms EXCEPT ![earliest] = m.x2], ret |-> Append(s.ret, earliest)]

scheduleMeetings == FoldLeft(PlaceMeeting, [rooms |-> <<>>, ret |-> <<>>], buildings).ret

-----------------------------------------------------------------------------
Init == LotInit /\ LineInit

Next == (LotNext /\ UNCHANGED lineVars) \/ (LineNext /\ UNCHANGED lotVars)

Spec == Init /\ [][Next]_vars

-----------------------------------------------------------------------------
\* Needs can be met if the lots that reach into any set of days suffice for these days.
CanMeet(ns) ==
    \A days \in SUBSET Day :
        LET Asked(i) == ns[i].units
            reaching == {i \in DOMAIN lots : \E d \in days : lots[i].start <= d /\ d <= lots[i].end}
        IN MapThenSumSet(Asked, {i \in DOMAIN ns : ns[i].day \in days}) <= MapThenSumSet(UnitsOf, reaching)

MostOn(d) ==
    LET all == MapThenSumSet(UnitsOf, DOMAIN lots)
    IN Max({y \in 0 .. all : y = 0 \/ CanMeet(Append(needs, [day |-> d, units |-> y]))})

\* The greedy passes are as good as the best allocation: maxUnitsOnDay is the most that can
\* be asked for in addition, and query the most that is left for a day when all uses, those
\* that come later too, are met as sparingly as can be; it raises only if they cannot be.
AllocationsAgree ==
    \A d \in Day :
        /\ maxUnitsOnDay(d) = MostOn(d)
        /\ query(d) = IF CanMeet(needs) THEN MostOn(d) ELSE CantMeetUses

\* The damage of a pair: the second one goes on alone.
Damage(f, g) == f.h * (f.d + g.d) + g.h * g.d

Over(x) == {i \in DOMAIN buildings : buildings[i].x1 <= x /\ x < buildings[i].x2}
HeightAt(x) == Max({0} \union {buildings[i].h : i \in Over(x)})

\* What is kept as few segments is the maximum everywhere: of all pairs of fighters the loops
\* find the best one, and the skyline changes exactly where the greatest height does.  No two
\* meetings are in a room at once, and there are as many rooms as meetings at the busiest time.
EnvelopesAgree ==
    /\ getMaxDamageDealt = Max({0} \union {Damage(fighters[p[1]], fighters[p[2]]) :
                                  p \in {r \in (DOMAIN fighters) \X (DOMAIN fighters) : r[1] # r[2]}})
    /\ LET changes == {x \in 0 .. Width : IF x = 0 THEN HeightAt(0) # 0 ELSE HeightAt(x) # HeightAt(x - 1)}
       IN getSkyline = [i \in 1 .. Cardinality(changes) |->
              LET x == SetToSortSeq(changes, <)[i] IN <<x, HeightAt(x)>>]
    /\ \A x \in 0 .. Width : \A i, j \in Over(x) : i # j => scheduleMeetings[i] # scheduleMeetings[j]
    /\ Cardinality(Range(scheduleMeetings)) = Max({Cardinality(Over(x)) : x \in 0 .. Width})
=============================================================================
