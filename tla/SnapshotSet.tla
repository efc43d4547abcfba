---------------------------- MODULE SnapshotSet ----------------------------
(***************************************************************************)
(* SnapshotSet of cpp/SnapshotSet.cc: a set kept as segments of additions  *)
(* and removals, whose iterators are meant to go over the set as it was    *)
(* when begin() was called, while it is changed.                           *)
(*                                                                         *)
(* An iterator goes over the added elements of a segment in the order of a *)
(* hash table: in any order.  That the vector moves its segments when it   *)
(* grows changes nothing here, the elements of a moved set stay in place.  *)
(***************************************************************************)
EXTENDS Integers, Sequences

CONSTANTS
    Member,
    Iterators,          \* the calls of begin
    MaxSegments         \* bounds the segments

ASSUME SegmentsAssumption == MaxSegments \in Nat \ {0}

VARIABLES
    segments_,          \* from the oldest to the newest
    itr,                \* the state of each iterator
    contents            \* history: the members of the set

setVars == <<segments_, itr, contents>>

Segment == [added : SUBSET Member, removed : SUBSET Member]
EmptySegment == [added |-> {}, removed |-> {}]

\* left: the added elements of its segment that the iterator has not come to;
\* seen and again: the elements it came to once, and more than once.
IteratorState ==
    [segIdx : 1 .. MaxSegments, left : SUBSET Member, removed_ : SUBSET Member,
     at : SUBSET Member, seen : SUBSET Member, again : SUBSET Member, snapshot : SUBSET Member]
Unused == [segIdx |-> 0]

SetTypeOK ==
    /\ segments_ \in Seq(Segment) /\ Len(segments_) \in 1 .. MaxSegments
    /\ itr \in [Iterators -> IteratorState \union {Unused}]
    /\ contents \subseteq Member

SetInit ==
    /\ segments_ = <<EmptySegment>>
    /\ itr = [i \in Iterators |-> Unused]
    /\ contents = {}

Newest == segments_[Len(segments_)]
SetBack(segment) == segments_' = [segments_ EXCEPT ![Len(segments_)] = segment]

-----------------------------------------------------------------------------
add(k) ==
    /\ SetBack([added |-> Newest.added \union {k}, removed |-> Newest.removed \ {k}])
    /\ contents' = contents \union {k}
    /\ UNCHANGED itr

remove(k) ==
    /\ SetBack([added |-> Newest.added \ {k}, removed |-> Newest.removed \union {k}])
    /\ contents' = contents \ {k}
    /\ UNCHANGED itr

\* get: the newest segment that knows k decides.
get(k) ==
    \E i \in 1 .. Len(segments_) :
        /\ k \in segments_[i].added
        /\ \A j \in i + 1 .. Len(segments_) : k \notin segments_[j].removed

-----------------------------------------------------------------------------
\* The iterator `it` after it has moved to segment j (moveToNextSeg, as often as needed):
\* it remembers what the segments it came through remove.
Moved(it, j) ==
    IF j = it.segIdx THEN it
    ELSE [it EXCEPT !.segIdx = j, !.left = segments_[j].added,
                    !.removed_ = @ \union UNION {segments_[m].removed : m \in j .. it.segIdx - 1}]

\* What findNextItr would stop at: the elements that were removed later are passed over.
Shown(it) == it.left \ it.removed_

\* Iterator i goes on from `it`: to the newest segment that shows something, where it
\* stops at any element that is shown, or else to the end.
GoOn(i, it) ==
    \E j \in 1 .. it.segIdx :
        LET stop == Moved(it, j) IN
        /\ \A m \in j + 1 .. it.segIdx : Shown(Moved(it, m)) = {}
        /\ \/ \E k \in Shown(stop) :
                itr' = [itr EXCEPT ![i] = [stop EXCEPT !.left = @ \ {k}, !.at = {k}, !.seen = @ \union {k},
                                             !.again = IF k \in stop.seen THEN @ \union {k} ELSE @]]
           \/ /\ j = 1 /\ Shown(stop) = {}
              /\ itr' = [itr EXCEPT ![i] = [stop EXCEPT !.left = {}, !.at = {}]]

\* Slip: begin leaves the newest segment to the calls that follow.
BeginInPlace == UNCHANGED segments_

\* begin opens a segment for the later changes, unless the newest one is still empty.
OpenSegment ==
    IF Newest # EmptySegment
      THEN Len(segments_) < MaxSegments /\ segments_' = Append(segments_, EmptySegment)
      ELSE UNCHANGED segments_

begin(i) ==
    /\ itr[i] = Unused
    /\ LET n == Len(segments_)
           start == [segIdx |-> n, left |-> segments_[n].added, removed_ |-> segments_[n].removed,
                     at |-> {}, seen |-> {}, again |-> {}, snapshot |-> contents]
       IN GoOn(i, start)
    /\ OpenSegment
    /\ UNCHANGED contents

\* operator++.  The set may have changed under the iterator: it goes on with what is
\* there now, except for what it passed already.
Advance(i) ==
    /\ itr[i] # Unused /\ itr[i].at # {}
    /\ GoOn(i, [itr[i] EXCEPT !.left = @ \intersect segments_[itr[i].segIdx].added])
    /\ UNCHANGED <<segments_, contents>>

\* The comparison with end() holds: nothing is left in the oldest segment.
AtEnd(it) == it.segIdx = 1 /\ it.at = {}

SetNext ==
    \/ \E k \in Member : add(k) \/ remove(k)
    \/ \E i \in Iterators : begin(i) \/ Advance(i)

SetSpec == SetInit /\ [][SetNext]_setVars

-----------------------------------------------------------------------------
\* get tells the members at all times.  An iterator never points at an element that was
\* erased under it, comes to members of its snapshot only, and to all of them, whatever
\* is added or removed meanwhile.  (It may come to a member twice, see "again".)
SnapshotIsIsolated ==
    /\ \A k \in Member : get(k) <=> k \in contents
    /\ \A i \in Iterators : itr[i] # Unused =>
         /\ itr[i].at \subseteq segments_[itr[i].segIdx].added
         /\ itr[i].seen \subseteq itr[i].snapshot
         /\ AtEnd(itr[i]) => itr[i].seen = itr[i].snapshot

\* What the iterator of a set should do: come to each member once.
IteratesOnce == \A i \in Iterators : itr[i] # Unused => itr[i].again = {}
=============================================================================
