------------------------------ MODULE LfuCache ------------------------------
(***************************************************************************)
(* LfuCache of cpp/lfu_cache.cc: the keys in one list per access count,    *)
(* the last used first, and lowestFreq_, the count of the list that the    *)
(* next eviction looks at.                                                 *)
(***************************************************************************)
EXTENDS Naturals, SequencesExt

CONSTANTS
    Key, Value, capacity_, None,
    MaxUses             \* bounds the access counts

\* The CHECK_GT of the constructor, and the count of a new key.
ASSUME LfuAssumption == capacity_ \in Nat \ {0} /\ MaxUses \in Nat \ {0}

VARIABLES
    key2Node_,          \* the value and the access count of each key in the cache
    freq2Keys_,         \* the list of each count that has one
    lowestFreq_,
    result              \* of the last get

lfuVars == <<key2Node_, freq2Keys_, lowestFreq_, result>>

LfuTypeOK ==
    /\ DOMAIN key2Node_ \subseteq Key
    /\ \A k \in DOMAIN key2Node_ : key2Node_[k] \in [v : Value, f : 1 .. MaxUses]
    /\ DOMAIN freq2Keys_ \subseteq 1 .. MaxUses
    /\ \A f \in DOMAIN freq2Keys_ : freq2Keys_[f] \in Seq(Key)
    /\ lowestFreq_ \in 1 .. MaxUses
    /\ result \in Value \union {None}

LfuInit ==
    /\ key2Node_ = <<>>
    /\ freq2Keys_ = <<>>
    /\ lowestFreq_ = 1
    /\ result = None

\* freq2Keys_[f], which operator[] creates when it is missing.
KeysAt(lists, f) == IF f \in DOMAIN lists THEN lists[f] ELSE <<>>

\* Give list f the contents s; an empty list is erased.
SetKeys(lists, f, s) ==
    LET freqs == IF s = <<>> THEN DOMAIN lists \ {f} ELSE DOMAIN lists \union {f}
    IN [g \in freqs |-> IF g = f THEN s ELSE lists[g]]

\* The splice takes k out at its place, itr.
Without(s, k) == RemoveAt(s, CHOOSE i \in 1 .. Len(s) : s[i] = k)

\* ++lowestFreq_ when a key of the lowest count was the last of its list.
LowestAfter(lists, f) ==
    IF f \notin DOMAIN lists /\ lowestFreq_ = f THEN f + 1 ELSE lowestFreq_

\* incrementAccess, and then the value of the node is v (unchanged by get).
Use(k, v) ==
    LET f == key2Node_[k].f
        lists == SetKeys(SetKeys(freq2Keys_, f, Without(KeysAt(freq2Keys_, f), k)),
                         f + 1, <<k>> \o KeysAt(freq2Keys_, f + 1))
    IN  /\ f < MaxUses
        /\ freq2Keys_' = lists
        /\ lowestFreq_' = LowestAfter(lists, f)
        /\ key2Node_' = [key2Node_ EXCEPT ![k] = [v |-> v, f |-> f + 1]]

LfuGet(k) ==
    \/ k \in DOMAIN key2Node_ /\ Use(k, key2Node_[k].v) /\ result' = key2Node_[k].v
    \/ k \notin DOMAIN key2Node_ /\ result' = None /\ UNCHANGED <<key2Node_, freq2Keys_, lowestFreq_>>

\* put of a key in the cache: get, and an assignment through its pointer.
Overwrite(k, v) ==
    /\ k \in DOMAIN key2Node_
    /\ Use(k, v)
    /\ result' = None

\* Slip: the count of the new key is not taken for the lowest one.
KeepLowest == lowestFreq_' = lowestFreq_

ResetLowest == lowestFreq_' = 1

\* put of another key: a full cache loses the last key of the lowest list.
Insert(k, v) ==
    LET full == Cardinality(DOMAIN key2Node_) = capacity_
        lowest == freq2Keys_[lowestFreq_]
        lists == IF full THEN SetKeys(freq2Keys_, lowestFreq_, Front(lowest)) ELSE freq2Keys_
        kept == IF full THEN DOMAIN key2Node_ \ {Last(lowest)} ELSE DOMAIN key2Node_
    IN  /\ k \notin DOMAIN key2Node_
        /\ ResetLowest
        /\ freq2Keys_' = SetKeys(lists, 1, <<k>> \o KeysAt(lists, 1))
        /\ key2Node_' = [j \in kept \union {k} |-> IF j = k THEN [v |-> v, f |-> 1] ELSE key2Node_[j]]
        /\ result' = None

LfuNext == \E k \in Key : LfuGet(k) \/ \E v \in Value : Overwrite(k, v) \/ Insert(k, v)

LfuSpec == LfuInit /\ [][LfuNext]_lfuVars

-----------------------------------------------------------------------------
\* The order that the counts and the lists give: a comes before b.
Before(s, a, b) == \E i, j \in 1 .. Len(s) : i < j /\ s[i] = a /\ s[j] = b
Precedes(a, b) ==
    \/ key2Node_[a].f > key2Node_[b].f
    \/ key2Node_[a].f = key2Node_[b].f /\ Before(KeysAt(freq2Keys_, key2Node_[a].f), a, b)
Order == {p \in (DOMAIN key2Node_) \X (DOMAIN key2Node_) : Precedes(p[1], p[2])}

\* The abstract cache behind this one.
Abstract == INSTANCE BoundedCache WITH
    Policy <- "lfu", Capacity <- capacity_, order <- Order,
    content <- [k \in DOMAIN key2Node_ |-> key2Node_[k].v],
    uses <- [k \in DOMAIN key2Node_ |-> key2Node_[k].f]

\* The cache evicts, of the keys with the fewest uses, the one used least recently; the
\* CHECK that the lowest list is not empty holds with it.
EvictsLeastUsed == Abstract!Spec
=============================================================================
