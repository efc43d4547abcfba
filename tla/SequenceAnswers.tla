--------------------------- MODULE SequenceAnswers ---------------------------
(***************************************************************************)
(* Algorithms that answer a question about one or two sequences:           *)
(* cpp/LCS.cc, python/median-2-sorted-arrays.py,                           *)
(* python/shortest-palindrome.py, python/Cartesian-tree.py, swapEvery2 of  *)
(* cpp/linked-list.cc and cpp/serialized_string_set.cc.                    *)
(*                                                                         *)
(* Arrays keep their indices from 0; At(x, i) is x[i].                     *)
(***************************************************************************)
EXTENDS Integers, SequencesExt

CONSTANTS
    Letters,            \* the items of the sequences, positive numbers
    MaxWord,            \* how long they get
    Modulus             \* M of totalStrength

VARIABLES s, t

vars == <<s, t>>

TypeOK == s \in Seq(Letters) /\ t \in Seq(Letters)

Init == s = <<>> /\ t = <<>>

Extend ==
    \E c \in Letters :
        \/ Len(s) < MaxWord /\ s' = Append(s, c) /\ UNCHANGED t
        \/ Len(t) < MaxWord /\ t' = Append(t, c) /\ UNCHANGED s

Spec == Init /\ [][Extend]_vars

At(x, i) == x[i + 1]

-----------------------------------------------------------------------------
\* cpp/LCS.cc, with str1 the shorter word.  nextPos[a][c] is the first place from a on that holds c.
nextPos(str, a, c) == Min({i \in a .. Len(str) - 1 : At(str, i) = c} \union {Len(str)})

\* A match at c goes into the first entry from k on that is not before it, and moves what was there on.
RECURSIVE Insert(_, _, _, _, _)
Insert(match, k, c, str, letter) ==
    IF c >= Len(str) THEN match
    ELSE IF match[k] < c THEN Insert(match, k + 1, c, str, letter)
    ELSE Insert([match EXCEPT ![k] = c], k + 1, nextPos(str, match[k] + 1, letter), str, letter)

\* Row i, then column i, from the entry low on.
MatchAt(str1, str2, state, i) ==
    LET onCol == state.col[state.low] = i
        c == nextPos(str2, IF onCol THEN state.row[state.low] + 1 ELSE i, At(str1, i))
        low1 == IF onCol THEN state.low + 1 ELSE state.low
        row1 == Insert(state.row, low1, c, str2, At(str1, i))
        onRow == row1[low1] = i
        r == nextPos(str1, IF onRow THEN state.col[low1] + 1 ELSE i + 1, At(str2, i))
        low2 == IF onRow THEN low1 + 1 ELSE low1
    IN [row |-> row1, low |-> low2, col |-> Insert(state.col, low2, r, str1, At(str2, i))]

longestCommonSubsequence(x, y) ==
    LET str1 == IF Len(x) > Len(y) THEN y ELSE x
        str2 == IF Len(x) > Len(y) THEN x ELSE y
        Nothing(n) == [k \in 0 .. Len(str1) + 1 |-> IF k = 0 THEN -1 ELSE n]
        final == FoldLeft(LAMBDA state, i : MatchAt(str1, str2, state, i - 1),
                          [row |-> Nothing(Len(str2)), col |-> Nothing(Len(str1)), low |-> 1],
                          [i \in 1 .. Len(str1) |-> i])
    IN Min({k \in final.low .. Len(str1) + 1 : final.row[k] >= Len(str2)}) - 1

-----------------------------------------------------------------------------
\* python/median-2-sorted-arrays.py: the item of rank r of two ordered sequences.
RECURSIVE find_rank(_, _, _)
find_rank(x, y, r) ==
    LET swap == At(x, Len(x) \div 2) > At(y, Len(y) \div 2)
        a == IF swap THEN y ELSE x
        b == IF swap THEN x ELSE y
        ma == Len(a) \div 2
        mb == Len(b) \div 2
    IN IF x = <<>> THEN At(y, r)
       ELSE IF y = <<>> THEN At(x, r)
       ELSE IF r < ma + mb + 1 THEN find_rank(a, SubSeq(b, 1, mb), r)
       ELSE find_rank(SubSeq(a, ma + 2, Len(a)), b, r - (ma + 1))

\* Twice the median.
findMedianSortedArrays(x, y) ==
    LET n == Len(x) + Len(y)
        m == n \div 2
    IN find_rank(x, y, m) + (IF m * 2 < n THEN find_rank(x, y, m) ELSE find_rank(x, y, m - 1))

-----------------------------------------------------------------------------
\* python/shortest-palindrome.py: how far a prefix of x is matched after one more item c.
RECURSIVE Matched(_, _, _, _)
Matched(x, kmp, p, c) ==
    IF At(x, p) = c THEN p + 1
    ELSE IF p = 0 THEN 0
    ELSE Matched(x, kmp, At(kmp, p - 1), c)

getKMP(x) == FoldLeft(LAMBDA kmp, c : Append(kmp, Matched(x, kmp, Last(kmp), c)), <<0>>, Tail(x))

shortestPalindrome(x) ==
    LET p == FoldLeft(LAMBDA q, c : Matched(x, getKMP(x), q, c), 0, Reverse(x))
    IN IF x = <<>> THEN <<>> ELSE Reverse(SubSeq(x, p + 1, Len(x))) \o x

-----------------------------------------------------------------------------
(***************************************************************************)
(* python/Cartesian-tree.py.  The stack holds the rightmost path, the      *)
(* lowest node last; the children are functions of the indices.            *)
(***************************************************************************)
NoChild == -1

AddNode(x, tree, i) ==
    LET keep == SelectSeq(tree.stack, LAMBDA j : At(x, j) < At(x, i))
        popped == Len(tree.stack) > Len(keep)
    IN [stack |-> Append(keep, i),
        l_child |-> [tree.l_child EXCEPT ![i] = IF popped THEN tree.stack[Len(keep) + 1] ELSE NoChild],
        r_child |-> IF keep = <<>> THEN tree.r_child ELSE [tree.r_child EXCEPT ![Last(keep)] = i]]

getCartesianTree(x) ==
    LET Leaves == [i \in 0 .. Len(x) - 1 |-> NoChild]
    IN FoldLeft(LAMBDA tree, i : AddNode(x, tree, i - 1), [stack |-> <<>>, l_child |-> Leaves, r_child |-> Leaves],
                [i \in DOMAIN x |-> i])

\* The sums of the first i items, and of the items from i on; and the sums of these sums.
PrefixSum(x, i) == FoldLeft(LAMBDA a, b : (a + b) % Modulus, 0, SubSeq(x, 1, i))
SuffixSum(x, i) == FoldLeft(LAMBDA a, b : (a + b) % Modulus, 0, SubSeq(x, i + 1, Len(x)))
PrefixSums(x, i) == FoldLeft(LAMBDA a, j : (a + PrefixSum(x, j)) % Modulus, 0, [j \in 1 .. i |-> j])
SuffixSums(x, i) == FoldLeft(LAMBDA a, j : (a + SuffixSum(x, i + j - 1)) % Modulus, 0, [j \in 1 .. Len(x) - i |-> j])

\* The strength of the subarrays from b up to e that hold m, their least item.
StrengthAround(x, b, e, m) ==
    LET left == (SuffixSums(x, b) + Modulus - SuffixSums(x, m) + Modulus - (((m - b) * SuffixSum(x, m)) % Modulus))
                * (e - m)
        right == (PrefixSums(x, e) + Modulus - PrefixSums(x, m + 1) + Modulus
                  - (((e - 1 - m) * PrefixSum(x, m + 1)) % Modulus)) * (m - b + 1)
        own == ((At(x, m) * (m + 1 - b)) % Modulus) * (e - m)
    IN (((left % Modulus) + (right % Modulus) + (own % Modulus)) * At(x, m)) % Modulus

\* The loop goes on with the longer side and recurs into the other; the sum is the same.
RECURSIVE solve(_, _, _, _, _)
solve(x, tree, root, b, e) ==
    IF root = NoChild THEN 0
    ELSE (StrengthAround(x, b, e, root) + solve(x, tree, tree.l_child[root], b, root)
          + solve(x, tree, tree.r_child[root], root + 1, e)) % Modulus

totalStrength(x) == LET tree == getCartesianTree(x) IN solve(x, tree, tree.stack[1], 0, Len(x))

-----------------------------------------------------------------------------
(***************************************************************************)
(* swapEvery2 on a list of nodes 1 to n; 0 is the sentinel, and Null ends  *)
(* the list.                                                               *)
(***************************************************************************)
Null == -1

RECURSIVE SwapFrom(_, _, _, _)
SwapFrom(next, p0, p1, p2) ==
    LET swapped == [next EXCEPT ![p1] = next[p2], ![p2] = p1, ![p0] = p2]
        p == swapped[p1]
    IN IF p1 = Null \/ p2 = Null THEN next
       ELSE SwapFrom(swapped, p1, p, IF p = Null THEN p2 ELSE swapped[p])

RECURSIVE toVector(_, _)
toVector(next, node) == IF node = Null THEN <<>> ELSE <<node>> \o toVector(next, next[node])

fromVector(n) == [node \in 0 .. n |-> IF node = n THEN Null ELSE node + 1]

swapEvery2(n) ==
    LET next == fromVector(n) IN
    IF n = 0 THEN <<>>
    ELSE toVector(SwapFrom(next, 0, 1, next[1]), SwapFrom(next, 0, 1, next[1])[0])

-----------------------------------------------------------------------------
(***************************************************************************)
(* cpp/serialized_string_set.cc: the strings in order, one after the other,*)
(* and the offsets where they start.  The order of the strings is that of  *)
(* the characters without sign; hasStr compares them as char, with sign on *)
(* most machines, so that the letters here are those where both agree.     *)
(***************************************************************************)
RECURSIVE StringBefore(_, _)
StringBefore(x, y) ==
    y # <<>> /\ (x = <<>> \/ Head(x) < Head(y) \/ (Head(x) = Head(y) /\ StringBefore(Tail(x), Tail(y))))

Serialize(strings) ==
    LET sorted == SortSeq(strings, StringBefore)
    IN [offsets |-> FoldLeft(LAMBDA o, x : Append(o, Last(o) + Len(x)), <<0>>, sorted),
        chars |-> FoldLeft(LAMBDA x, y : x \o y, <<>>, sorted)]

\* Slip: a string that the other one begins with is taken for the same.
CompPrefix(chars, str, start, end) ==
    LET Differ == {i \in 0 .. Min({Len(str), end - start}) - 1 : At(str, i) # At(chars, start + i)}
        i == Min(Differ)
    IN IF Differ = {} THEN 0 ELSE IF At(chars, start + i) < At(str, i) THEN -1 ELSE 1

\* -1 if what is stored from start to end comes before str, 1 if after, 0 if it is str.
compTarget(chars, str, start, end) ==
    LET Differ == {i \in 0 .. Min({Len(str), end - start}) - 1 : At(str, i) # At(chars, start + i)}
        i == Min(Differ)
    IN IF Differ # {} THEN IF At(chars, start + i) < At(str, i) THEN -1 ELSE 1
       ELSE IF end - start = Len(str) THEN 0
       ELSE IF end - start < Len(str) THEN -1 ELSE 1

RECURSIVE LowerBound(_, _, _, _)
LowerBound(buf, str, low, high) ==
    LET mid == (low + high) \div 2 IN
    IF low >= high THEN high
    ELSE IF compTarget(buf.chars, str, At(buf.offsets, mid), At(buf.offsets, mid + 1)) < 0
         THEN LowerBound(buf, str, mid + 1, high)
         ELSE LowerBound(buf, str, low, mid)

hasStr(strings, str) ==
    LET buf == Serialize(strings)
        high == LowerBound(buf, str, 0, Len(strings))
    IN high < Len(strings) /\ compTarget(buf.chars, str, At(buf.offsets, high), At(buf.offsets, high + 1)) = 0

-----------------------------------------------------------------------------
RECURSIVE LongestCommon(_, _)
LongestCommon(x, y) ==
    IF x = <<>> \/ y = <<>> THEN 0
    ELSE IF Head(x) = Head(y) THEN 1 + LongestCommon(Tail(x), Tail(y))
    ELSE Max({LongestCommon(Tail(x), y), LongestCommon(x, Tail(y))})

Sorted(x) == SortSeq(x, <)

Strengths(x) ==
    MapThenSumSet(LAMBDA p : Min({x[k] : k \in p[1] .. p[2]}) * FoldLeft(+, 0, SubSeq(x, p[1], p[2])),
                  {p \in (DOMAIN x) \X (DOMAIN x) : p[1] <= p[2]})

\* The fast algorithms give the answers of the plain ones, for every two short sequences.
AnswersAgree ==
    LET both == Sorted(s \o t)
        n == Len(both)
        added == Len(shortestPalindrome(s)) - Len(s)
        strings == [i \in 1 .. Len(s) |-> SubSeq(s, 1, i)] \o <<t>>
    IN /\ s # <<>> /\ t # <<>> => longestCommonSubsequence(s, t) = LongestCommon(s, t)
       /\ n > 0 => findMedianSortedArrays(Sorted(s), Sorted(t)) = At(both, n \div 2) + At(both, (n - 1) \div 2)
       /\ Reverse(shortestPalindrome(s)) = shortestPalindrome(s)
       /\ \A k \in 0 .. added - 1 :
              LET x == Reverse(SubSeq(s, Len(s) - k + 1, Len(s))) \o s IN Reverse(x) # x
       /\ s # <<>> => totalStrength(s) = (Strengths(s) % Modulus)
       /\ swapEvery2(Len(s)) = [i \in DOMAIN s |-> IF i % 2 = 0 THEN i - 1 ELSE IF i < Len(s) THEN i + 1 ELSE i]
       /\ \A i, j \in 1 .. Len(t) + 1 :
              hasStr(strings, SubSeq(t, i, j - 1)) = (SubSeq(t, i, j - 1) \in Range(strings))
=============================================================================
