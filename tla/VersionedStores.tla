-------------------------- MODULE VersionedStores --------------------------
(***************************************************************************)
(* Three stores that answer reads of the past from one list of versions    *)
(* per slot: SnapshotArray (golang/leetcode/snapshot_array.go),            *)
(* VersionedDirectedGraph (python/versioned_graph.py), whose slots are its *)
(* edges and whose values say whether the edge exists, and KvStore         *)
(* (python/persist_kv_store.py), whose versions are the times its caller   *)
(* gives, which never go back.  The KvStore is saved and loaded again.     *)
(*                                                                         *)
(* The texts of the KvStore, its keys too, are sequences of bytes: 1 is a  *)
(* character, and 2 and 3 make one together.  In a file a length is        *)
(* followed by as many bytes; it takes one place there, as a part of it is *)
(* as good as none.                                                        *)
(***************************************************************************)
EXTENDS Integers, FiniteSets, SequencesExt

CONSTANTS
    Index,              \* slots of the array
    Edges,              \* slots of the graph: pairs of Vertices
    Vertices,
    Keys,               \* slots of the KvStore
    MaxVersion,         \* bounds version
    MaxLength,          \* bounds the lists of the array
    MaxTexts            \* and those of the KvStore

ASSUME VersionAssumption == MaxVersion \in Nat

VARIABLES
    store,              \* "array", "graph" or "kv"
    lists,              \* of each slot: its versions, with their values
    version,            \* sid, version, or the caller's clock
    file,               \* what the last persist was to write: the pairs, in some order
    iterator,           \* an EdgeIterator of the graph
    saved               \* history: the contents at each version

verVars == <<store, lists, version, file, iterator, saved>>

Texts == {<<>>, <<1>>, <<1, 2, 3>>}
Slots == CASE store = "array" -> Index [] store = "graph" -> Edges [] OTHER -> Keys
\* What a read finds in a slot without versions: 0, no edge, and None.
Missing == CASE store = "array" -> 0 [] store = "graph" -> FALSE [] OTHER -> <<0>>
Values == CASE store = "array" -> {0, 1} [] store = "graph" -> BOOLEAN [] OTHER -> Texts \union {Missing}

NoIterator == [start |-> -1]

VersionTypeOK ==
    /\ lists \in [Slots -> Seq([v : 0 .. MaxVersion, x : Values])]
    /\ version \in 0 .. MaxVersion
    /\ DOMAIN saved = 0 .. version /\ \A v \in 0 .. version : saved[v] \in [Slots -> Values]

VersionInit ==
    /\ store \in {"array", "graph", "kv"}
    /\ lists = [s \in Slots |-> <<>>]
    /\ version = 0
    /\ file = <<>>
    /\ iterator = NoIterator
    /\ saved = [v \in {0} |-> [s \in Slots |-> Missing]]

-----------------------------------------------------------------------------
(***************************************************************************)
(* Writes.  Record(v, s, x) notes that slot s holds x from version v on.   *)
(***************************************************************************)
Record(v, s, x) ==
    saved' = [w \in 0 .. v |-> IF w = v THEN [saved[version] EXCEPT ![s] = x]
                               ELSE IF w \in DOMAIN saved THEN saved[w] ELSE saved[version]]

\* Slip: a change of what is there replaces the version.
AppendReplacing(s, v, x) ==
    lists' = [lists EXCEPT ![s] = IF @ = <<>> THEN <<[v |-> v, x |-> x]>>
                                  ELSE Append(Front(@), [v |-> Last(@).v, x |-> x])]

AppendVersion(s, v, x) == lists' = [lists EXCEPT ![s] = Append(@, [v |-> v, x |-> x])]

\* SnapshotArray.Set, at the current snapshot id.
Set(s, x) ==
    /\ store = "array"
    /\ Len(lists[s]) < MaxLength
    /\ AppendVersion(s, version, x)
    /\ Record(version, s, x)
    /\ UNCHANGED <<store, version, file, iterator>>

Snap ==
    /\ store = "array"
    /\ version < MaxVersion
    /\ version' = version + 1
    /\ saved' = [v \in 0 .. version + 1 |-> saved[IF v > version THEN version ELSE v]]
    /\ UNCHANGED <<store, lists, file, iterator>>

\* add_edge and delete_edge: a version without a change of the edge leaves no trace,
\* but the deletion of an edge that never was does.
ChangeEdge(e, x) ==
    /\ store = "graph"
    /\ version < MaxVersion
    /\ version' = version + 1
    /\ IF lists[e] # <<>> /\ Last(lists[e]).x = x THEN UNCHANGED lists
       ELSE AppendVersion(e, version', x)
    /\ Record(version', e, x)
    /\ UNCHANGED <<store, file, iterator>>

\* KvStore.set, at the time of the last call or at the next.
SetKey(k, x) ==
    /\ store = "kv"
    /\ x \notin {Missing, <<>>}      \* an empty text is as good as <<1>>
    /\ Len(lists[k]) < MaxTexts
    /\ \E ts \in {version, version + 1} :
         /\ ts <= MaxVersion
         /\ version' = ts
         /\ AppendVersion(k, ts, x)
         /\ Record(ts, k, x)
    /\ UNCHANGED <<store, file, iterator>>

-----------------------------------------------------------------------------
(***************************************************************************)
(* KvCodec, and the file.                                                  *)
(***************************************************************************)
write_str(s) == <<Len(s)>> \o s

encode_kvs(kvs) ==
    FoldLeft(LAMBDA bytes, kv : bytes \o write_str(kv[1]) \o write_str(kv[2]), <<Len(kvs)>>, kvs)

\* What bytes can be decoded.
IsText(s) == \A i \in DOMAIN s :
    /\ s[i] = 2 => i < Len(s) /\ s[i + 1] = 3
    /\ s[i] = 3 => i > 1 /\ s[i - 1] = 2

\* read_next_str: a length is missed at the end of the input, but not some of the bytes
\* that should follow it.
read_next_str(r, bytes) ==
    IF ~r.ok \/ r.at > Len(bytes) THEN [r EXCEPT !.ok = FALSE]
    ELSE LET end == r.at + bytes[r.at]
             s == SubSeq(bytes, r.at + 1, IF end <= Len(bytes) THEN end ELSE Len(bytes))
         IN [ok |-> IsText(s), strs |-> Append(r.strs, s), at |-> end + 1]

decode_kvs(bytes) ==
    LET num_kvs == IF bytes = <<>> THEN 0 ELSE bytes[1]
        r == FoldLeft(LAMBDA q, i : read_next_str(q, bytes), [ok |-> bytes # <<>>, strs |-> <<>>, at |-> 2],
                      [i \in 1 .. 2 * num_kvs |-> i])
    IN [ok |-> r.ok, kvs |-> IF r.ok THEN [i \in 1 .. num_kvs |-> <<r.strs[2 * i - 1], r.strs[2 * i]>>] ELSE <<>>]

\* persist: the last value of every key that has one, in the order of the dictionary.
Persist ==
    /\ store = "kv"
    /\ \E order \in SetToSeqs({k \in Keys : lists[k] # <<>>}) :
         file' = [i \in DOMAIN order |-> <<order[i], Last(lists[order[i]]).x>>]
    /\ UNCHANGED <<store, lists, version, iterator, saved>>

Beginnings(bytes) == {SubSeq(bytes, 1, n) : n \in 0 .. Len(bytes)}
Loaded(kvs, k) == {i \in DOMAIN kvs : kvs[i][1] = k}
ValueOf(kvs, k) == kvs[CHOOSE i \in Loaded(kvs, k) : TRUE][2]

\* load, into this store or a new one: every value has the time 0.  The input ends early
\* when a write of persist has failed; what cannot be decoded leaves the store as it is.
Load ==
    \E bytes \in Beginnings(encode_kvs(file)) :
        LET kvs == decode_kvs(bytes).kvs IN
        /\ store = "kv"
        /\ decode_kvs(bytes).ok
        /\ lists' = [k \in Keys |-> IF Loaded(kvs, k) = {} THEN <<>> ELSE <<[v |-> 0, x |-> ValueOf(kvs, k)]>>]
        /\ version' = 0
        /\ saved' = [v \in {0} |-> [k \in Keys |-> IF Loaded(kvs, k) = {} THEN Missing ELSE ValueOf(kvs, k)]]
        /\ UNCHANGED <<store, file, iterator>>

-----------------------------------------------------------------------------
(***************************************************************************)
(* Reads.                                                                  *)
(***************************************************************************)
\* The middle of l < h: l < m <= h.  The graph rounds differently from the array.
Middle(l, h) == IF store = "array" THEN (l + h + 1) \div 2 ELSE (l + h) \div 2 + 1

\* One turn of the loop: the last version up to v is one from low to high.
Halve(list, v, r) ==
    LET m == Middle(r.low, r.high) IN
    IF r.low >= r.high THEN r
    ELSE IF list[m + 1].v <= v THEN [r EXCEPT !.low = m] ELSE [r EXCEPT !.high = m - 1]

\* The last version up to v; the first is one.
Search(list, v) ==
    LET turn[i \in 0 .. Len(list)] ==
            IF i = 0 THEN [low |-> 0, high |-> Len(list) - 1] ELSE Halve(list, v, turn[i - 1])
    IN turn[Len(list)].low + 1

\* Get, has_edge and get of slot s at version v (bisect_right finds the same place).
Read(s, v) ==
    LET list == lists[s] IN
    IF list = <<>> \/ list[1].v > v THEN Missing ELSE list[Search(list, v)].x

\* EdgeIterator: the ends of the edges that ever were, in order, at its creation; each
\* is looked up when it is its turn.
get_edge_iterator(start, v) ==
    /\ store = "graph"
    /\ iterator = NoIterator
    /\ LET ends == {e[2] : e \in {e \in Edges : e[1] = start /\ lists[e] # <<>>}} IN
       iterator' = [start |-> start, v |-> v, ends |-> SetToSortSeq(ends, <), got |-> <<>>]
    /\ UNCHANGED <<store, lists, version, file, saved>>

\* One turn of the loop of __next__.
LookAtEnd ==
    /\ iterator # NoIterator
    /\ iterator.ends # <<>>
    /\ LET end == Head(iterator.ends) IN
       iterator' = [iterator EXCEPT !.ends = Tail(@),
                        !.got = IF Read(<<iterator.start, end>>, iterator.v) THEN Append(@, end) ELSE @]
    /\ UNCHANGED <<store, lists, version, file, saved>>

VersionNext ==
    \/ \E s \in Slots, x \in Values : Set(s, x) \/ ChangeEdge(s, x) \/ SetKey(s, x)
    \/ Snap \/ Persist \/ Load
    \/ \E start \in Vertices, v \in 0 .. version : get_edge_iterator(start, v)
    \/ LookAtEnd

VersionSpec == VersionInit /\ [][VersionNext]_verVars

-----------------------------------------------------------------------------
(***************************************************************************)
(* bfs and common_connections: read one snapshot of the graph.             *)
(***************************************************************************)
Successors(a, v) == {b \in Vertices : <<a, b>> \in Edges /\ Read(<<a, b>>, v)}

\* The vertices at distance 0, 1, ..., max_dist.
bfs(start, v, max_dist) ==
    LET res[d \in 0 .. max_dist] ==
            IF d = 0 THEN {start}
            ELSE (UNION {Successors(a, v) : a \in res[d - 1]}) \ UNION {res[e] : e \in 0 .. d - 1}
    IN res

\* The merge of the two sorted lists of ends.
common_connections(a, b, v) ==
    LET as == SetToSortSeq(Successors(a, v), <)
        bs == SetToSortSeq(Successors(b, v), <)
        merge[i \in 1 .. Len(as) + 1, j \in 1 .. Len(bs) + 1] ==
            IF i > Len(as) \/ j > Len(bs) THEN <<>>
            ELSE IF bs[j] < as[i] THEN merge[i, j + 1]
            ELSE IF bs[j] = as[i] THEN <<as[i]>> \o merge[i + 1, j]
            ELSE merge[i + 1, j]
    IN merge[1, 1]

Edge(a, b, v) == <<a, b>> \in Edges /\ saved[v][<<a, b>>]

\* A path of d edges at version v, by the recorded contents.
Path(a, b, v, d) ==
    \E p \in [0 .. d -> Vertices] : p[0] = a /\ p[d] = b /\ \A i \in 1 .. d : Edge(p[i - 1], p[i], v)

GraphReads(v) ==
    \A a, b \in Vertices :
        /\ \A d \in 0 .. 2 : b \in bfs(a, v, 2)[d] <=>
               Path(a, b, v, d) /\ \A e \in 0 .. d - 1 : ~Path(a, b, v, e)
        /\ common_connections(a, b, v) =
               SetToSortSeq({c \in Vertices : Edge(a, c, v) /\ Edge(b, c, v)}, <)

\* An iterator that has come to its end has the edges of its version, in order, whatever
\* was added or deleted meanwhile.
IteratorReads ==
    iterator # NoIterator /\ iterator.ends = <<>> =>
        iterator.got = SetToSortSeq({b \in Vertices : Edge(iterator.start, b, iterator.v)}, <)

\* The whole file gives back what was persisted; of one that ends early, either nothing is
\* loaded or all pairs but for the end of the last value.
FileReads ==
    LET bytes == encode_kvs(file)
        Decoded(n) == decode_kvs(SubSeq(bytes, 1, n)) IN
    /\ Decoded(Len(bytes)) = [ok |-> TRUE, kvs |-> file]
    /\ \A n \in 0 .. Len(bytes) - 1 : Decoded(n).ok =>
         /\ file # <<>>
         /\ Decoded(n).kvs = Append(Front(file), <<Last(file)[1], Last(Decoded(n).kvs)[2]>>)
         /\ IsStrictPrefix(Last(Decoded(n).kvs)[2], Last(file)[2])

\* Whatever is written later, a read of version v finds the contents at v, for every
\* version the store has had since it was loaded.
PastIsKept == \A v \in 0 .. version, s \in Slots : Read(s, v) = saved[v][s]

\* So do the iterators and the algorithms on the graph.  What is persisted can be loaded.
ReadersAgree ==
    /\ store = "graph" => IteratorReads /\ \A v \in 0 .. version : GraphReads(v)
    /\ store = "kv" => FileReads
=============================================================================
