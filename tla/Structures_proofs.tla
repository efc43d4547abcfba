------------------------- MODULE Structures_proofs -------------------------
EXTENDS LfuCache, LruCache, VersionedStores, SnapshotSet, WorldScan, Sheet, MinMaxCounters,
        WellFoundedInduction, SequenceTheorems, FiniteSetTheorems, TLAPS

-----------------------------------------------------------------------------
(***************************************************************************)
(* Loops: functions that are defined by recursion on the turns of a loop.  *)
(***************************************************************************)
Less == {ss \in Nat \X Nat : ss[1] < ss[2]}

LEMMA LessWellFounded == IsWellFoundedOn(Less, Nat)
  BY NatLessThanWellFounded DEF OpToRel, Less

\* Every set of natural numbers that is not empty has a least member.
LEMMA LeastNatural ==
    ASSUME NEW T, T \subseteq Nat, T # {}
    PROVE  \E x \in T : \A y \in T : x <= y
<1>1. PICK x \in T : \A y \in T : ~ (<<y, x>> \in Less)
  BY LessWellFounded, WFMin
<1>2. ASSUME NEW y \in T PROVE x <= y
  <2>1. x \in Nat /\ y \in Nat /\ ~ (<<y, x>> \in Less)
    BY <1>1
  <2> QED BY <2>1 DEF Less
<1> QED BY <1>1, <1>2

\* The states of a loop after each of its N turns.
Loops(S, start, step, N) == {f \in [0 .. N -> S] : f[0] = start /\ \A i \in 1 .. N : f[i] = step[f[i - 1]]}

\* There are such states, so that a recursive definition has them.
LEMMA LoopExists ==
    ASSUME NEW S, NEW start \in S, NEW step \in [S -> S], NEW N \in Nat
    PROVE  Loops(S, start, step, N) # {}
<1> DEFINE Defined(n) ==
             \E f \in [0 .. n -> S] : f[0] = start /\ \A i \in 1 .. n : f[i] = step[f[i - 1]]
           T == {n \in Nat : ~ Defined(n)}
<1>1. Defined(0)
  <2> DEFINE f == [i \in 0 .. 0 |-> start]
  <2>1. f \in [0 .. 0 -> S] /\ f[0] = start /\ \A i \in 1 .. 0 : f[i] = step[f[i - 1]]
    OBVIOUS
  <2> QED BY <2>1
<1>2. ASSUME NEW n \in Nat, Defined(n) PROVE Defined(n + 1)
  <2>1. PICK f \in [0 .. n -> S] : f[0] = start /\ \A i \in 1 .. n : f[i] = step[f[i - 1]]
    BY <1>2
  <2> DEFINE g == [i \in 0 .. n + 1 |-> IF i = n + 1 THEN step[f[n]] ELSE f[i]]
  <2>2. g \in [0 .. n + 1 -> S]
    <3>1. ASSUME NEW i \in 0 .. n + 1, i # n + 1 PROVE f[i] \in S
      BY <3>1
    <3>2. step[f[n]] \in S
      OBVIOUS
    <3> QED BY <3>1, <3>2
  <2>3. g[0] = start
    BY <2>1
  <2>4. ASSUME NEW i \in 1 .. n + 1 PROVE g[i] = step[g[i - 1]]
    <3>1. CASE i = n + 1
      BY <3>1
    <3>2. CASE i # n + 1
      <4>1. i \in 1 .. n /\ g[i] = f[i] /\ i - 1 \in 0 .. n /\ g[i - 1] = f[i - 1]
        BY <3>2
      <4> QED BY <4>1, <2>1
    <3> QED BY <3>1, <3>2
  <2> HIDE DEF g
  <2> QED BY <2>2, <2>3, <2>4
<1> HIDE DEF Defined
<1>3. T = {}
  <2> SUFFICES ASSUME T # {} PROVE FALSE
    OBVIOUS
  <2>1. PICK n \in T : \A m \in T : n <= m
    BY LeastNatural
  <2>2. n \in Nat /\ ~ Defined(n) /\ n # 0
    BY <1>1, <2>1
  <2>3. n - 1 \in Nat /\ n - 1 \notin T
    BY <2>1, <2>2
  <2>4. Defined(n - 1)
    BY <2>3
  <2>5. Defined((n - 1) + 1)
    BY <2>3, <2>4, <1>2
  <2> QED BY <2>2, <2>5
<1>4. Defined(N)
  BY <1>3
<1> QED BY <1>4 DEF Defined, Loops

\* What holds when a loop begins and is kept by each turn holds when it ends.
\* (What is kept is given as the set of the states it holds in.)
LEMMA LoopKeeps ==
    ASSUME NEW S, NEW start, NEW step \in [S -> S], NEW N \in Nat,
           NEW f, f[0] = start, \A i \in 1 .. N : f[i] = step[f[i - 1]],
           NEW Good, start \in Good[0],
           \A i \in 1 .. N : \A r \in Good[i - 1] : r \in S /\ step[r] \in Good[i]
    PROVE  f[N] \in Good[N]
<1> DEFINE T == {n \in 0 .. N : f[n] \notin Good[n]}
<1>1. T = {}
  <2> SUFFICES ASSUME T # {} PROVE FALSE
    OBVIOUS
  <2>0. T \subseteq Nat
    OBVIOUS
  <2> HIDE DEF T
  <2>1. PICK n \in T : \A m \in T : n <= m
    BY <2>0, LeastNatural
  <2> USE DEF T
  <2>2. n # 0
    BY <2>1
  <2>3. n - 1 \in 0 .. N /\ f[n - 1] \in Good[n - 1]
    BY <2>1, <2>2
  <2>4. f[n] = step[f[n - 1]]
    BY <2>1, <2>2
  <2> QED BY <2>1, <2>2, <2>3, <2>4
<1>2. N \in 0 .. N
  OBVIOUS
<1> QED BY <1>1, <1>2

\* A loop of N turns: turn i takes what there is from Good[i - 1] to Good[i].  A recursive
\* definition of what there is after each turn has a value.
LoopTurns(f, N, Good, start, step) ==
    /\ f = [i \in 0 .. N |-> IF i = 0 THEN start ELSE step[i][f[i - 1]]]
    /\ \A i \in 0 .. N : f[i] \in Good[i]

LEMMA TurnsExist ==
    ASSUME NEW N \in Nat, NEW Good, NEW start \in Good[0], NEW step,
           \A i \in 1 .. N : \A r \in Good[i - 1] : step[i][r] \in Good[i]
    PROVE  \E f : LoopTurns(f, N, Good, start, step)
<1> DEFINE Defined(n) ==
             \E f : /\ f = [i \in 0 .. n |-> IF i = 0 THEN start ELSE step[i][f[i - 1]]]
                    /\ \A i \in 0 .. n : f[i] \in Good[i]
           T == {n \in 0 .. N : ~ Defined(n)}
<1>1. Defined(0)
  <2> DEFINE f == [i \in 0 .. 0 |-> start]
  <2>1. f = [i \in 0 .. 0 |-> IF i = 0 THEN start ELSE step[i][f[i - 1]]]
    OBVIOUS
  <2>2. \A i \in 0 .. 0 : f[i] \in Good[i]
    OBVIOUS
  <2> HIDE DEF f
  <2> QED BY <2>1, <2>2
<1>2. ASSUME NEW n \in 0 .. N, n # N, Defined(n) PROVE Defined(n + 1)
  <2>1. PICK f : /\ f = [i \in 0 .. n |-> IF i = 0 THEN start ELSE step[i][f[i - 1]]]
                 /\ \A i \in 0 .. n : f[i] \in Good[i]
    BY <1>2
  <2> DEFINE g == [i \in 0 .. n + 1 |-> IF i = n + 1 THEN step[n + 1][f[n]] ELSE f[i]]
  <2>0. \A i \in 0 .. n : f[i] = IF i = 0 THEN start ELSE step[i][f[i - 1]]
    BY <2>1
  <2>2. ASSUME NEW i \in 0 .. n + 1
        PROVE  g[i] = (IF i = 0 THEN start ELSE step[i][g[i - 1]]) /\ g[i] \in Good[i]
    <3>1. CASE i = n + 1
      <4>1. n \in 0 .. n /\ n + 1 \in 1 .. N /\ (n + 1) - 1 = n /\ n # n + 1 /\ n + 1 # 0
        BY <1>2
      <4>2. step[n + 1][f[n]] \in Good[n + 1]
        BY <4>1, <2>1
      <4>3. g[n + 1] = step[n + 1][f[n]] /\ g[n] = f[n]
        BY <4>1, SMTT(30)
      <4> QED BY <3>1, <4>1, <4>2, <4>3
    <3>2. CASE i # n + 1
      <4>1. i \in 0 .. n /\ (i # 0 => i - 1 \in 0 .. n /\ i - 1 # n + 1)
        BY <3>2
      <4>2. g[i] = f[i] /\ (i # 0 => g[i - 1] = f[i - 1])
        BY <4>1, <3>2
      <4> QED BY <4>1, <4>2, <2>0, <2>1
    <3> QED BY <3>1, <3>2
  <2>3. g = [i \in 0 .. n + 1 |-> g[i]]
    OBVIOUS
  <2> HIDE DEF g
  <2>4. g = [i \in 0 .. n + 1 |-> IF i = 0 THEN start ELSE step[i][g[i - 1]]]
    BY <2>2, <2>3
  <2> QED BY <2>2, <2>4
<1> HIDE DEF Defined
<1>3. T = {}
  <2> SUFFICES ASSUME T # {} PROVE FALSE
    OBVIOUS
  <2>1. PICK n \in T : \A m \in T : n <= m
    <3>1. T \subseteq Nat
      OBVIOUS
    <3> HIDE DEF T
    <3> QED BY <3>1, LeastNatural
  <2>2. n \in 0 .. N /\ ~ Defined(n) /\ n # 0
    BY <1>1, <2>1
  <2>3. n - 1 \in 0 .. N /\ n - 1 # N /\ n - 1 \notin T
    BY <2>1, <2>2
  <2>4. Defined((n - 1) + 1)
    BY <2>3, <1>2
  <2> QED BY <2>2, <2>4
<1>4. Defined(N)
  BY <1>3
<1> QED BY <1>4 DEF Defined, LoopTurns

\* What is kept by every turn there is after the last.
LEMMA TurnsStay ==
    ASSUME NEW N \in Nat, NEW Good, NEW f, f[0] \in Good[0],
           \A i \in 1 .. N : f[i - 1] \in Good[i - 1] => f[i] \in Good[i]
    PROVE  f[N] \in Good[N]
<1> DEFINE T == {n \in 0 .. N : f[n] \notin Good[n]}
<1>1. T = {}
  <2> SUFFICES ASSUME T # {} PROVE FALSE
    OBVIOUS
  <2>1. PICK n \in T : \A m \in T : n <= m
    <3>1. T \subseteq Nat
      OBVIOUS
    <3> HIDE DEF T
    <3> QED BY <3>1, LeastNatural
  <2>2. n \in 1 .. N /\ n - 1 \in 0 .. N /\ n - 1 \notin T
    BY <2>1
  <2> QED BY <2>1, <2>2
<1> QED BY <1>1

-----------------------------------------------------------------------------
(***************************************************************************)
(* VersionedStores.                                                        *)
(***************************************************************************)
\* The binary search finds the last version up to v.
THEOREM SearchFindsLast ==
    ASSUME NEW list, NEW V, list \in Seq(V), Len(list) >= 1, NEW v \in Int,
           \A i \in 1 .. Len(list) : list[i].v \in Int,
           \A i, j \in 1 .. Len(list) : i <= j => list[i].v <= list[j].v,
           list[1].v <= v
    PROVE  /\ Search(list, v) \in 1 .. Len(list)
           /\ list[Search(list, v)].v <= v
           /\ \A j \in Search(list, v) + 1 .. Len(list) : list[j].v > v
<1> DEFINE N == Len(list)
           S == [low : Int, high : Int]
           start == [low |-> 0, high |-> N - 1]
           step == [r \in S |-> Halve(list, v, r)]
           Between(r) == /\ r \in S /\ 0 <= r.low /\ r.low <= r.high /\ r.high < N
                         /\ list[r.low + 1].v <= v
                         /\ \A j \in r.high + 2 .. N : list[j].v > v
           Good == [i \in 0 .. N |-> {r \in S : Between(r) /\ (r.low = r.high \/ r.high - r.low < N - i)}]
<1>0. N \in Nat /\ N >= 1
  OBVIOUS
<1>1. start \in S /\ step \in [S -> S]
  <2>1. ASSUME NEW r \in S PROVE Middle(r.low, r.high) \in Int
    BY DEF Middle
  <2>2. ASSUME NEW r \in S PROVE Halve(list, v, r) \in S
    BY <2>1 DEF Halve
  <2> QED BY <2>2, <1>0
<1>2. PICK f \in [0 .. N -> S] : f[0] = start /\ \A i \in 1 .. N : f[i] = step[f[i - 1]]
  <2>1. N \in Nat
    BY <1>0
  <2> HIDE DEF N, S, start, step
  <2>2. start \in S /\ step \in [S -> S]
    BY <1>1
  <2>3. Loops(S, start, step, N) # {}
    BY <2>1, <2>2, LoopExists
  <2> QED BY <2>3 DEF Loops
<1>3. start \in Good[0]
  <2>1. Between(start)
    BY <1>0
  <2> QED BY <2>1, <1>0
<1>4. ASSUME NEW i \in 1 .. N, NEW r \in Good[i - 1] PROVE r \in S /\ step[r] \in Good[i]
  <2> DEFINE m == Middle(r.low, r.high)
  <2>0. i - 1 \in 0 .. N /\ i \in 0 .. N
    BY <1>0
  <2>1. r \in S /\ Between(r) /\ (r.low = r.high \/ r.high - r.low < N - (i - 1))
    BY <2>0
  <2>2. step[r] = Halve(list, v, r)
    BY <2>1
  <2>3. CASE r.low >= r.high
    <3>1. Halve(list, v, r) = r
      BY <2>3 DEF Halve
    <3>2. r.low = r.high
      BY <2>1, <2>3
    <3> QED BY <2>0, <2>1, <2>2, <3>1, <3>2
  <2>4. CASE r.low < r.high
    <3>1. m \in Int /\ r.low < m /\ m <= r.high
      <4>1. PICK lo \in Nat, hi \in Nat : lo = r.low /\ hi = r.high
        BY <2>1
      <4>2. lo < hi
        BY <2>4, <4>1
      <4>3. m = (lo + hi + 1) \div 2 \/ m = (lo + hi) \div 2 + 1
        BY <4>1 DEF Middle
      <4> HIDE DEF m
      <4>4. lo < (lo + hi + 1) \div 2 /\ (lo + hi + 1) \div 2 <= hi
        BY <4>2
      <4>5. lo < (lo + hi) \div 2 + 1 /\ (lo + hi) \div 2 + 1 <= hi
        BY <4>2
      <4>6. (lo + hi + 1) \div 2 \in Int /\ (lo + hi) \div 2 \in Int
        OBVIOUS
      <4> QED BY <4>1, <4>3, <4>4, <4>5, <4>6
    <3>2. CASE list[m + 1].v <= v
      <4> DEFINE q == [r EXCEPT !.low = m]
      <4>1. Halve(list, v, r) = q
        BY <2>1, <2>4, <3>2 DEF Halve
      <4>2. q \in S /\ q.low = m /\ q.high = r.high
        BY <2>1, <3>1
      <4> HIDE DEF q, m
      <4>3. Between(q) /\ q.high - q.low < N - i
        BY <2>1, <2>4, <3>1, <3>2, <4>2, <1>0
      <4> QED BY <2>0, <2>1, <2>2, <4>1, <4>2, <4>3
    <3>3. CASE ~ (list[m + 1].v <= v)
      <4> DEFINE q == [r EXCEPT !.high = m - 1]
      <4>1. Halve(list, v, r) = q
        BY <2>1, <2>4, <3>3 DEF Halve
      <4>0. m - 1 \in Int
        BY <3>1
      <4>2. q \in S /\ q.low = r.low /\ q.high = m - 1
        <5> HIDE DEF m
        <5> QED BY <2>1, <4>0
      <4> HIDE DEF q, m
      <4>3. ASSUME NEW j \in m + 1 .. N PROVE list[j].v > v
        <5>1. m + 1 \in 1 .. N /\ j \in 1 .. N /\ m + 1 <= j
          BY <2>1, <3>1, <1>0
        <5>2. list[m + 1].v <= list[j].v /\ list[m + 1].v \in Int /\ list[j].v \in Int
          BY <5>1
        <5> QED BY <3>3, <5>2
      <4>4. \A j \in q.high + 2 .. N : list[j].v > v
        BY <4>2, <4>3, <3>1 DEF m
      <4>5. Between(q) /\ q.high - q.low < N - i
        BY <2>1, <2>4, <3>1, <4>2, <4>4, <1>0
      <4> QED BY <2>0, <2>1, <2>2, <4>1, <4>2, <4>5
    <3> QED BY <3>2, <3>3
  <2> QED BY <2>1, <2>3, <2>4
<1>5. f[N] \in Good[N]
  <2> HIDE DEF S, start, step, Good
  <2> QED BY <1>0, <1>1, <1>2, <1>3, <1>4, LoopKeeps
<1>6. Between(f[N]) /\ f[N].low = f[N].high
  BY <1>5, <1>0
<1>7. Search(list, v) = f[N].low + 1
  <2> DEFINE Turns(t) == t = [i \in 0 .. N |-> IF i = 0 THEN start ELSE Halve(list, v, t[i - 1])]
             turn == CHOOSE t : Turns(t)
  <2>1. \A i \in 1 .. N : f[i - 1] \in S /\ step[f[i - 1]] = Halve(list, v, f[i - 1])
    <3>1. N \in Nat
      BY <1>0
    <3>2. ASSUME NEW r \in S PROVE step[r] = Halve(list, v, r)
      OBVIOUS
    <3>3. ASSUME NEW i \in 1 .. N PROVE f[i - 1] \in S
      <4> HIDE DEF N, S, step
      <4> QED BY <3>1
    <3> HIDE DEF N, S, step
    <3> QED BY <3>2, <3>3
  <2>2. Turns(f)
    <3>1. \A i \in 0 .. N : f[i] = IF i = 0 THEN start ELSE Halve(list, v, f[i - 1])
      <4> HIDE DEF S, start, step
      <4> QED BY <1>0, <1>2, <2>1
    <3> HIDE DEF S, start, step
    <3> QED BY <3>1, <1>2
  <2>3. Turns(turn)
    <3> HIDE DEF Turns
    <3> QED BY <2>2
  <2>4. turn[N] = f[N]
    <3> DEFINE T == {i \in 0 .. N : turn[i] # f[i]}
    <3> SUFFICES ASSUME T # {} PROVE FALSE
      <4>1. N \in 0 .. N
        BY <1>0
      <4> HIDE DEF N, turn
      <4> QED BY <4>1
    <3>0. T \subseteq Nat
      OBVIOUS
    <3> HIDE DEF T
    <3>1. PICK i \in T : \A j \in T : i <= j
      BY <3>0, LeastNatural
    <3> USE DEF T
    <3> HIDE DEF S, start, step, turn
    <3>2. i \in 0 .. N /\ turn[i] = IF i = 0 THEN start ELSE Halve(list, v, turn[i - 1])
      BY <3>1, <2>3
    <3>3. f[i] = IF i = 0 THEN start ELSE Halve(list, v, f[i - 1])
      BY <3>2, <2>2
    <3>4. i # 0 => i - 1 \in 0 .. N /\ turn[i - 1] = f[i - 1]
      BY <3>1, <3>2
    <3> QED BY <3>1, <3>2, <3>3, <3>4
  <2>5. Search(list, v) = turn[N].low + 1
    BY DEF Search
  <2> QED BY <2>4, <2>5
<1>8. f[N].low + 1 \in 1 .. N
  BY <1>6, <1>0
<1> QED BY <1>6, <1>7, <1>8

\* x is what a slot with these versions holds at version v.
HeldAt(list, v, x) ==
    \/ (\A i \in 1 .. Len(list) : list[i].v > v) /\ x = Missing
    \/ \E i \in 1 .. Len(list) :
         list[i].v <= v /\ (\A j \in i + 1 .. Len(list) : list[j].v > v) /\ x = list[i].x

\* The versions of a slot are in order, none of them later than ver.
InOrder(list, ver) ==
    /\ list \in Seq({list[i] : i \in DOMAIN list})
    /\ \A i \in 1 .. Len(list) : list[i].v \in 0 .. ver
    /\ \A i, j \in 1 .. Len(list) : i <= j => list[i].v <= list[j].v

VersionInv ==
    /\ version \in 0 .. MaxVersion
    /\ DOMAIN lists = Slots /\ \A s \in Slots : InOrder(lists[s], version)
    /\ DOMAIN saved = 0 .. version /\ \A v \in 0 .. version : DOMAIN saved[v] = Slots
    /\ \A v \in 0 .. version, s \in Slots : HeldAt(lists[s], v, saved[v][s])

\* Reading finds what is held.
LEMMA ReadFindsHeld ==
    ASSUME VersionInv, NEW s \in Slots, NEW v \in 0 .. version
    PROVE  Read(s, v) = saved[v][s]
<1> USE VersionAssumption
<1> DEFINE list == lists[s]
           N == Len(list)
<1>1. /\ list \in Seq({list[i] : i \in DOMAIN list}) /\ N \in Nat /\ v \in Int
      /\ \A i \in 1 .. N : list[i].v \in Int
      /\ \A i, j \in 1 .. N : i <= j => list[i].v <= list[j].v
  <2>1. InOrder(list, version) /\ version \in Nat
    BY DEF VersionInv
  <2> HIDE DEF list
  <2>2. list \in Seq({list[i] : i \in DOMAIN list}) /\ N \in Nat
    BY <2>1 DEF InOrder
  <2>3. \A i \in 1 .. N : list[i].v \in Int
    BY <2>1 DEF InOrder
  <2>4. \A i, j \in 1 .. N : i <= j => list[i].v <= list[j].v
    BY <2>1 DEF InOrder
  <2> QED BY <2>2, <2>3, <2>4
<1>2. HeldAt(list, v, saved[v][s])
  BY DEF VersionInv
<1>3. CASE list = <<>>
  <2>1. N = 0
    BY <1>3
  <2> QED BY <1>1, <1>2, <1>3, <2>1 DEF Read, HeldAt
<1>4. CASE list # <<>> /\ list[1].v > v
  <2>1. N >= 1
    BY <1>1, <1>4
  <2>2. \A i \in 1 .. N : list[i].v > v
    BY <1>1, <1>4, <2>1
  <2>3. saved[v][s] = Missing
    BY <1>1, <1>2, <2>2 DEF HeldAt
  <2> QED BY <1>4, <2>3 DEF Read
<1>5. CASE list # <<>> /\ ~ (list[1].v > v)
  <2> DEFINE m == Search(list, v)
  <2>1. N >= 1 /\ list[1].v <= v
    BY <1>1, <1>5
  <2>2. m \in 1 .. N /\ list[m].v <= v /\ \A j \in m + 1 .. N : list[j].v > v
    <3> HIDE DEF list
    <3> QED BY <1>1, <2>1, SearchFindsLast
  <2> HIDE DEF m
  <2>3. PICK i \in 1 .. N : list[i].v <= v /\ (\A j \in i + 1 .. N : list[j].v > v) /\ saved[v][s] = list[i].x
    <3>1. ~ (list[m].v > v)
      BY <1>1, <2>2
    <3> QED BY <1>1, <1>2, <2>2, <3>1 DEF HeldAt
  <2>4. i = m
    <3>1. ~ (i < m)
      <4> SUFFICES ASSUME i < m PROVE FALSE
        OBVIOUS
      <4>1. m \in i + 1 .. N
        BY <1>1, <2>2
      <4> QED BY <4>1, <1>1, <2>2, <2>3
    <3>2. ~ (m < i)
      <4> SUFFICES ASSUME m < i PROVE FALSE
        OBVIOUS
      <4>1. i \in m + 1 .. N
        BY <1>1, <2>2
      <4> QED BY <4>1, <1>1, <2>2, <2>3
    <3> QED BY <3>1, <3>2, <2>2
  <2>5. Read(s, v) = list[m].x
    BY <1>5 DEF Read, m
  <2> QED BY <2>3, <2>4, <2>5
<1> QED BY <1>3, <1>4, <1>5

\* A sequence over another set that has its elements.
LEMMA SequenceOf ==
    ASSUME NEW T, NEW q \in Seq(T), NEW W, \A i \in 1 .. Len(q) : q[i] \in W
    PROVE  q \in Seq(W)
<1>1. Len(q) \in Nat /\ DOMAIN q = 1 .. Len(q) /\ q = [i \in 1 .. Len(q) |-> q[i]]
  OBVIOUS
<1>2. q \in [1 .. Len(q) -> W]
  BY <1>1
<1> QED BY <1>1, <1>2, SeqDef

LEMMA SequenceOfItsElements ==
    ASSUME NEW T, NEW q \in Seq(T)
    PROVE  q \in Seq({q[i] : i \in DOMAIN q})
<1> DEFINE W == {q[i] : i \in DOMAIN q}
<1>1. \A i \in 1 .. Len(q) : q[i] \in W
  OBVIOUS
<1> HIDE DEF W
<1>2. q \in Seq(W)
  BY <1>1, SequenceOf
<1> QED BY <1>2 DEF W

\* One more version, not earlier than the others, leaves what was held before it.
LEMMA Appending ==
    ASSUME NEW list, NEW ver \in Nat, NEW new \in Nat, InOrder(list, ver), ver <= new, NEW x
    PROVE  LET longer == Append(list, [v |-> new, x |-> x]) IN
           /\ InOrder(longer, new)
           /\ HeldAt(longer, new, x)
           /\ \A v \in 0 .. new - 1 : \A y : HeldAt(list, v, y) => HeldAt(longer, v, y)
<1> DEFINE N == Len(list)
           e == [v |-> new, x |-> x]
           longer == Append(list, e)
           V == {list[i] : i \in DOMAIN list}
<1>1. list \in Seq(V) /\ N \in Nat
  BY DEF InOrder
<1>2. /\ longer \in Seq(V \union {e}) /\ Len(longer) = N + 1
      /\ longer[N + 1] = e /\ \A i \in 1 .. N : longer[i] = list[i]
  <2> HIDE DEF V
  <2> QED BY <1>1
<1>3. e.v = new /\ e.x = x
  OBVIOUS
<1> HIDE DEF e, longer
<1>4. longer \in Seq({longer[i] : i \in DOMAIN longer})
  <2> DEFINE T == V \union {e}
  <2>1. longer \in Seq(T)
    BY <1>2
  <2> HIDE DEF T
  <2> QED BY <2>1, SequenceOfItsElements
<1>5. \A i \in 1 .. N + 1 : longer[i].v \in 0 .. new
  BY <1>1, <1>2, <1>3, SMTT(30) DEF InOrder
<1>6. ASSUME NEW i \in 1 .. N + 1, NEW j \in 1 .. N + 1, i <= j PROVE longer[i].v <= longer[j].v
  <2>1. CASE j = N + 1
    BY <2>1, <1>2, <1>3, <1>5
  <2>2. CASE j # N + 1
    <3>1. i \in 1 .. N /\ j \in 1 .. N
      BY <2>2, <1>1, <1>6
    <3> QED BY <3>1, <1>2, <1>6 DEF InOrder
  <2> QED BY <2>1, <2>2
<1>7. InOrder(longer, new)
  BY <1>2, <1>4, <1>5, <1>6 DEF InOrder
<1>8. HeldAt(longer, new, x)
  <2>1. N + 1 \in 1 .. Len(longer) /\ longer[N + 1].v <= new /\ x = longer[N + 1].x
    BY <1>1, <1>2, <1>3
  <2>2. \A j \in (N + 1) + 1 .. Len(longer) : longer[j].v > new
    BY <1>1, <1>2
  <2> QED BY <2>1, <2>2 DEF HeldAt
<1>9. ASSUME NEW v \in 0 .. new - 1, NEW y, HeldAt(list, v, y) PROVE HeldAt(longer, v, y)
  <2>1. longer[N + 1].v > v
    BY <1>2, <1>3
  <2>2. CASE (\A i \in 1 .. N : list[i].v > v) /\ y = Missing
    <3>1. \A i \in 1 .. N + 1 : i = N + 1 \/ i \in 1 .. N
      BY <1>1
    <3>2. \A i \in 1 .. N + 1 : longer[i].v > v
      BY <2>1, <2>2, <3>1, <1>2
    <3> QED BY <2>2, <3>2, <1>2 DEF HeldAt
  <2>3. CASE \E i \in 1 .. N : list[i].v <= v /\ (\A j \in i + 1 .. N : list[j].v > v) /\ y = list[i].x
    <3>1. PICK i \in 1 .. N : list[i].v <= v /\ (\A j \in i + 1 .. N : list[j].v > v) /\ y = list[i].x
      BY <2>3
    <3>2. \A j \in i + 1 .. Len(longer) : longer[j].v > v
      <4>1. \A j \in i + 1 .. N + 1 : j = N + 1 \/ j \in i + 1 .. N
        BY <1>1
      <4>2. \A j \in i + 1 .. N : longer[j] = list[j]
        BY <1>1, <1>2
      <4> QED BY <3>1, <2>1, <4>1, <4>2, <1>2
    <3>3. i \in 1 .. Len(longer) /\ longer[i] = list[i]
      BY <1>1, <1>2
    <3> QED BY <3>1, <3>2, <3>3 DEF HeldAt
  <2> QED BY <1>9, <2>2, <2>3 DEF HeldAt
<1> QED BY <1>7, <1>8, <1>9 DEF longer, e

\* What a slot holds at the version of all versions so far, it holds later.
LEMMA HeldLater ==
    ASSUME NEW list, NEW ver \in Nat, NEW new \in Nat, InOrder(list, ver), ver <= new, NEW x,
           HeldAt(list, ver, x)
    PROVE  InOrder(list, new) /\ HeldAt(list, new, x)
<1>1. list \in Seq({list[i] : i \in DOMAIN list}) /\ Len(list) \in Nat
  BY DEF InOrder
<1>2. \A i \in 1 .. Len(list) : list[i].v \in 0 .. ver
  BY DEF InOrder
<1>3. InOrder(list, new)
  BY <1>2 DEF InOrder
<1>4. CASE \A i \in 1 .. Len(list) : list[i].v > ver
  <2>1. Len(list) = 0
    BY <1>1, <1>2, <1>4
  <2> QED BY <1>3, <2>1 DEF HeldAt
<1>5. CASE \E i \in 1 .. Len(list) : list[i].v <= ver
  <2>1. PICK i \in 1 .. Len(list) : /\ list[i].v <= ver /\ x = list[i].x
                                    /\ \A j \in i + 1 .. Len(list) : list[j].v > ver
    BY <1>2, <1>5 DEF HeldAt
  <2>2. ASSUME NEW j \in i + 1 .. Len(list) PROVE list[j].v > new
    <3>1. list[j].v > ver /\ j \in 1 .. Len(list)
      BY <1>1, <2>1
    <3>2. list[j].v \in 0 .. ver
      BY <3>1, <1>2
    <3> QED BY <3>1, <3>2
  <2>3. list[i].v <= new
    BY <1>2, <2>1
  <2> QED BY <1>3, <2>1, <2>2, <2>3 DEF HeldAt
<1> QED BY <1>2, <1>4, <1>5

LEMMA VersionsInitially == VersionInit => VersionInv
<1> SUFFICES ASSUME VersionInit PROVE VersionInv
  OBVIOUS
<1>1. /\ version = 0 /\ lists = [s \in Slots |-> <<>>]
      /\ saved = [v \in {0} |-> [s \in Slots |-> Missing]]
  BY DEF VersionInit
<1>2. 0 .. 0 = {0} /\ version \in 0 .. MaxVersion
  BY <1>1, VersionAssumption
<1>3. InOrder(<<>>, 0) /\ HeldAt(<<>>, 0, Missing)
  <2>1. Len(<<>>) = 0 /\ \A T : <<>> \in Seq(T)
    BY EmptySeq
  <2> QED BY <2>1 DEF InOrder, HeldAt
<1>4. \A v \in 0 .. 0 : v = 0
  OBVIOUS
<1>5. /\ DOMAIN lists = Slots /\ \A s \in Slots : lists[s] = <<>>
      /\ DOMAIN saved = {0} /\ DOMAIN saved[0] = Slots /\ \A s \in Slots : saved[0][s] = Missing
  BY <1>1
<1> QED BY <1>1, <1>2, <1>3, <1>4, <1>5 DEF VersionInv

\* A write of slot s, which becomes part of the contents at version v.
LEMMA WritingKeepsVersionInv ==
    ASSUME VersionInv, NEW s \in Slots, NEW x, NEW v \in {version, version + 1}, v <= MaxVersion,
           version' = v, store' = store, Record(v, s, x),
           \/ AppendVersion(s, v, x)
           \/ lists' = lists /\ lists[s] # <<>> /\ Last(lists[s]).x = x
    PROVE  VersionInv'
<1> USE VersionAssumption
<1>1. /\ version \in Nat /\ v \in Nat /\ version <= v /\ v \in 0 .. MaxVersion /\ Slots' = Slots
      /\ \A w \in 0 .. v : w # v => w \in 0 .. version /\ w <= v - 1
  BY DEF VersionInv, Slots
<1>2. /\ DOMAIN lists = Slots
      /\ \A t \in Slots : InOrder(lists[t], version)
      /\ DOMAIN saved = 0 .. version /\ \A w \in 0 .. version : DOMAIN saved[w] = Slots
      /\ \A w \in 0 .. version, t \in Slots : HeldAt(lists[t], w, saved[w][t])
  BY DEF VersionInv
<1>3. /\ DOMAIN saved' = 0 .. v
      /\ saved'[v] = [saved[version] EXCEPT ![s] = x]
      /\ \A w \in 0 .. v : w # v => saved'[w] = saved[w]
  BY <1>1, <1>2 DEF Record
<1>4. /\ \A w \in 0 .. v : DOMAIN saved'[w] = Slots
      /\ saved'[v][s] = x
      /\ \A t \in Slots \ {s} : saved'[v][t] = saved[version][t]
  BY <1>1, <1>2, <1>3
<1>5. /\ DOMAIN lists' = Slots
      /\ \A t \in Slots \ {s} : lists'[t] = lists[t]
  BY <1>2 DEF AppendVersion
<1>6. /\ InOrder(lists'[s], v) /\ HeldAt(lists'[s], v, x)
      /\ \A w \in 0 .. v - 1 : \A y : HeldAt(lists[s], w, y) => HeldAt(lists'[s], w, y)
  <2>1. CASE AppendVersion(s, v, x)
    <3>1. lists'[s] = Append(lists[s], [v |-> v, x |-> x])
      BY <2>1, <1>2 DEF AppendVersion
    <3> QED BY <3>1, <1>1, <1>2, Appending
  <2>2. CASE lists' = lists /\ lists[s] # <<>> /\ Last(lists[s]).x = x
    <3> DEFINE list == lists[s]
               N == Len(list)
    <3>1. /\ list \in Seq({list[i] : i \in DOMAIN list})
          /\ \A i \in 1 .. N : list[i].v \in 0 .. version
      BY <1>2 DEF InOrder
    <3>2. N \in Nat /\ N >= 1 /\ list[N].x = x
      BY <2>2, <3>1 DEF Last
    <3>3. HeldAt(list, version, x)
      <4>1. list[N].v <= version
        BY <3>1, <3>2, <1>1
      <4>2. \A j \in N + 1 .. N : list[j].v > version
        BY <3>2
      <4> QED BY <3>2, <4>1, <4>2 DEF HeldAt
    <3>4. InOrder(list, v) /\ HeldAt(list, v, x)
      <4> HIDE DEF list
      <4> QED BY <1>1, <1>2, <3>3, HeldLater DEF list
    <3> QED BY <2>2, <3>4
  <2> QED BY <2>1, <2>2
<1>7. ASSUME NEW t \in Slots PROVE InOrder(lists'[t], v)
  <2>1. CASE t = s
    BY <2>1, <1>6
  <2>2. CASE t # s
    <3>1. HeldAt(lists[t], version, saved[version][t])
      BY <1>1, <1>2
    <3> QED BY <2>2, <3>1, <1>1, <1>2, <1>5, HeldLater
  <2> QED BY <2>1, <2>2
<1>8. ASSUME NEW w \in 0 .. v, NEW t \in Slots PROVE HeldAt(lists'[t], w, saved'[w][t])
  <2>1. CASE w # v
    <3>1. HeldAt(lists[t], w, saved[w][t]) /\ saved'[w][t] = saved[w][t] /\ w \in 0 .. v - 1
      BY <2>1, <1>1, <1>2, <1>3
    <3> QED BY <3>1, <1>5, <1>6
  <2>2. CASE w = v /\ t = s
    BY <2>2, <1>4, <1>6
  <2>3. CASE w = v /\ t # s
    <3>1. HeldAt(lists[t], version, saved[version][t])
      BY <1>1, <1>2
    <3>2. HeldAt(lists[t], v, saved[version][t])
      BY <3>1, <1>1, <1>2, HeldLater
    <3> QED BY <2>3, <3>2, <1>4, <1>5
  <2> QED BY <2>1, <2>2, <2>3
<1>9. Missing' = Missing
  BY DEF Missing
<1>10. \A list, w, y : HeldAt(list, w, y)' <=> HeldAt(list, w, y)
  BY <1>9 DEF HeldAt
<1> QED BY <1>1, <1>3, <1>4, <1>5, <1>7, <1>8, <1>9 DEF VersionInv, HeldAt

LEMMA SnapKeepsVersionInv ==
    ASSUME VersionInv, Snap
    PROVE  VersionInv'
<1> USE VersionAssumption
<1> DEFINE v == version + 1
<1>1. /\ version \in Nat /\ v \in 0 .. MaxVersion /\ v \in Nat /\ version <= v /\ version' = v
      /\ Slots' = Slots /\ lists' = lists /\ Missing' = Missing
      /\ \A w \in 0 .. v : w # v => w \in 0 .. version
  BY DEF VersionInv, Snap, Slots, Missing
<1>2. /\ DOMAIN saved' = 0 .. v
      /\ saved'[v] = saved[version]
      /\ \A w \in 0 .. version : saved'[w] = saved[w]
  BY <1>1 DEF Snap
<1>3. ASSUME NEW t \in Slots
      PROVE  /\ InOrder(lists[t], v) /\ HeldAt(lists[t], v, saved[version][t])
             /\ \A w \in 0 .. version : HeldAt(lists[t], w, saved[w][t])
  <2>1. InOrder(lists[t], version) /\ \A w \in 0 .. version : HeldAt(lists[t], w, saved[w][t])
    BY DEF VersionInv
  <2>2. HeldAt(lists[t], version, saved[version][t])
    BY <1>1, <2>1
  <2> HIDE DEF v
  <2> QED BY <2>1, <2>2, <1>1, HeldLater
<1>4. DOMAIN lists = Slots /\ \A w \in 0 .. v : DOMAIN saved'[w] = Slots
  BY <1>1, <1>2 DEF VersionInv
<1>5. ASSUME NEW w \in 0 .. v, NEW t \in Slots PROVE HeldAt(lists[t], w, saved'[w][t])
  BY <1>1, <1>2, <1>3
<1> QED BY <1>1, <1>2, <1>3, <1>4, <1>5 DEF VersionInv, HeldAt

LEMMA LoadKeepsVersionInv ==
    ASSUME VersionInv, Load
    PROVE  VersionInv'
<1> USE VersionAssumption
<1>1. PICK bytes \in Beginnings(encode_kvs(file)) :
        LET pairs == decode_kvs(bytes).kvs IN
        /\ store = "kv"
        /\ lists' = [k \in Keys |-> IF Loaded(pairs, k) = {} THEN <<>> ELSE <<[v |-> 0, x |-> ValueOf(pairs, k)]>>]
        /\ version' = 0
        /\ saved' = [v \in {0} |-> [k \in Keys |-> IF Loaded(pairs, k) = {} THEN Missing ELSE ValueOf(pairs, k)]]
        /\ UNCHANGED <<store, file, iterator>>
  BY DEF Load
<1> DEFINE pairs == decode_kvs(bytes).kvs
           one(k) == [v |-> 0, x |-> ValueOf(pairs, k)]
<1> HIDE DEF pairs, one
<1>2. /\ Slots' = Keys /\ Missing' = Missing /\ version' = 0
      /\ DOMAIN lists' = Keys /\ DOMAIN saved' = {0} /\ DOMAIN saved'[0] = Keys
      /\ \A k \in Keys : \/ lists'[k] = <<>> /\ saved'[0][k] = Missing
                         \/ lists'[k] = <<one(k)>> /\ saved'[0][k] = ValueOf(pairs, k)
  <2>1. store = "kv" /\ store' = "kv" /\ version' = 0
    BY <1>1
  <2>2. Slots' = Keys /\ Missing' = Missing
    BY <2>1 DEF Slots, Missing
  <2>3. /\ lists' = [k \in Keys |-> IF Loaded(pairs, k) = {} THEN <<>> ELSE <<one(k)>>]
        /\ saved' = [v \in {0} |-> [k \in Keys |-> IF Loaded(pairs, k) = {} THEN Missing ELSE ValueOf(pairs, k)]]
    BY <1>1 DEF pairs, one
  <2>4. /\ DOMAIN lists' = Keys /\ DOMAIN saved' = {0}
        /\ saved'[0] = [k \in Keys |-> IF Loaded(pairs, k) = {} THEN Missing ELSE ValueOf(pairs, k)]
    BY <2>3
  <2>5. ASSUME NEW k \in Keys
        PROVE  \/ lists'[k] = <<>> /\ saved'[0][k] = Missing
               \/ lists'[k] = <<one(k)>> /\ saved'[0][k] = ValueOf(pairs, k)
    BY <2>3, <2>4
  <2>6. DOMAIN saved'[0] = Keys
    BY <2>4
  <2> QED BY <2>1, <2>2, <2>4, <2>5, <2>6
<1>3. InOrder(<<>>, 0) /\ HeldAt(<<>>, 0, Missing)
  <2>1. Len(<<>>) = 0 /\ \A T : <<>> \in Seq(T)
    BY EmptySeq
  <2> QED BY <2>1 DEF InOrder, HeldAt
<1>4. ASSUME NEW x
      PROVE  InOrder(<<[v |-> 0, x |-> x]>>, 0) /\ HeldAt(<<[v |-> 0, x |-> x]>>, 0, x)
  <2>1. Append(<<>>, [v |-> 0, x |-> x]) = <<[v |-> 0, x |-> x]>>
    OBVIOUS
  <2>2. 0 \in Nat /\ 0 <= 0 /\ InOrder(<<>>, 0)
    BY <1>3
  <2>3. InOrder(Append(<<>>, [v |-> 0, x |-> x]), 0) /\ HeldAt(Append(<<>>, [v |-> 0, x |-> x]), 0, x)
    BY <2>2, Appending
  <2> QED BY <2>1, <2>3
<1>5. ASSUME NEW k \in Keys PROVE InOrder(lists'[k], 0) /\ HeldAt(lists'[k], 0, saved'[0][k])
  BY <1>2, <1>3, <1>4 DEF one
<1>6. 0 .. 0 = {0} /\ (\A w \in 0 .. 0 : w = 0) /\ 0 \in 0 .. MaxVersion
  OBVIOUS
<1> QED BY <1>2, <1>5, <1>6 DEF VersionInv, HeldAt

LEMMA VersionStepKeepsVersionInv == VersionInv /\ [VersionNext]_verVars => VersionInv'
<1> SUFFICES ASSUME VersionInv, [VersionNext]_verVars PROVE VersionInv'
  OBVIOUS
<1>0. version \in Nat
  BY DEF VersionInv
<1>1. ASSUME UNCHANGED <<store, lists, version, saved>> PROVE VersionInv'
  BY <1>1 DEF VersionInv, Slots, Missing, HeldAt
<1>2. ASSUME NEW s \in Slots, NEW x, Set(s, x) PROVE VersionInv'
  <2>1. version <= MaxVersion
    BY VersionAssumption DEF VersionInv
  <2> QED BY <1>2, <2>1, WritingKeepsVersionInv DEF Set
<1>3. ASSUME NEW s \in Slots, NEW x, ChangeEdge(s, x) PROVE VersionInv'
  <2> DEFINE v == version + 1
  <2>1. v <= MaxVersion
    BY <1>0, <1>3, VersionAssumption DEF ChangeEdge
  <2>2. /\ version' = v /\ store' = store /\ Record(v, s, x)
        /\ \/ AppendVersion(s, v, x)
           \/ lists' = lists /\ lists[s] # <<>> /\ Last(lists[s]).x = x
    BY <1>3 DEF ChangeEdge, AppendVersion, Record
  <2> QED BY <2>1, <2>2, WritingKeepsVersionInv
<1>4. ASSUME NEW s \in Slots, NEW x, SetKey(s, x) PROVE VersionInv'
  <2>1. PICK v \in {version, version + 1} :
          v <= MaxVersion /\ version' = v /\ AppendVersion(s, v, x) /\ Record(v, s, x)
    BY <1>4 DEF SetKey
  <2>2. store' = store
    BY <1>4 DEF SetKey
  <2> QED BY <2>1, <2>2, WritingKeepsVersionInv
<1>5. CASE Persist \/ LookAtEnd \/ \E start \in Vertices, v \in 0 .. version : get_edge_iterator(start, v)
  BY <1>1, <1>5 DEF Persist, LookAtEnd, get_edge_iterator
<1>6. CASE UNCHANGED verVars
  BY <1>1, <1>6 DEF verVars
<1> QED BY <1>2, <1>3, <1>4, <1>5, <1>6, SnapKeepsVersionInv, LoadKeepsVersionInv DEF VersionNext

\* PastIsKept: whatever is written later, and whatever is loaded, a read of a version finds
\* the contents at that version: in the array, the graph and the store with keys.
THEOREM PastIsAlwaysKept == VersionSpec => []PastIsKept
<1>1. VersionInv => PastIsKept
  BY ReadFindsHeld DEF PastIsKept
<1> QED BY <1>1, VersionsInitially, VersionStepKeepsVersionInv, PTL DEF VersionSpec

-----------------------------------------------------------------------------
(***************************************************************************)
(* SnapshotSet.                                                            *)
(***************************************************************************)
\* The members that an iterator has still to come to in the segments before its own.
Below(it, segs) ==
    {k \in Member : \E i \in 1 .. it.segIdx - 1 :
        /\ k \in segs[i].added
        /\ k \notin it.removed_
        /\ \A m \in i .. it.segIdx - 1 : k \notin segs[m].removed}

\* What an iterator has shown, and will show, is its snapshot; what it looks at is frozen.
IteratorOK(it, segs) ==
    /\ it.segIdx \in 1 .. Len(segs)
    /\ it.at # {} =>
         /\ it.segIdx < Len(segs)
         /\ it.at \union it.left \subseteq segs[it.segIdx].added
         /\ it.snapshot = it.seen \union Shown(it) \union Below(it, segs)
    /\ it.at = {} => it.segIdx = 1 /\ it.snapshot = it.seen

SegmentsApart == \A j \in 1 .. Len(segments_) : segments_[j].added \intersect segments_[j].removed = {}
GetsContents == \A k \in Member : get(k) <=> k \in contents

SetInv ==
    /\ SetTypeOK
    /\ SegmentsApart
    /\ GetsContents
    /\ \A i \in Iterators : itr[i] # Unused => IteratorOK(itr[i], segments_)

\* An iterator is not disturbed by changes behind the segments it goes over.
LEMMA FrozenSegments ==
    ASSUME NEW it \in IteratorState, NEW segs \in Seq(Segment), NEW segs2 \in Seq(Segment),
           IteratorOK(it, segs), Len(segs2) >= Len(segs),
           \A j \in 1 .. Len(segs) - 1 : segs2[j] = segs[j]
    PROVE  IteratorOK(it, segs2)
<1> USE SegmentsAssumption
<1>1. CASE it.at = {}
  BY <1>1 DEF IteratorOK, IteratorState
<1>2. CASE it.at # {}
  <2>1. \A j \in 1 .. it.segIdx : segs2[j] = segs[j]
    BY <1>2 DEF IteratorOK, IteratorState
  <2>2. Below(it, segs2) = Below(it, segs)
    <3>1. ASSUME NEW k \in Member, NEW i \in 1 .. it.segIdx - 1
          PROVE  /\ k \in segs2[i].added <=> k \in segs[i].added
                 /\ (\A m \in i .. it.segIdx - 1 : k \notin segs2[m].removed)
                      <=> (\A m \in i .. it.segIdx - 1 : k \notin segs[m].removed)
      <4>1. i \in 1 .. it.segIdx /\ \A m \in i .. it.segIdx - 1 : m \in 1 .. it.segIdx
        BY DEF IteratorState
      <4> QED BY <4>1, <2>1
    <3> QED BY <3>1 DEF Below
  <2> QED BY <1>2, <2>1, <2>2 DEF IteratorOK, IteratorState
<1> QED BY <1>1, <1>2

\* Going on shows what was left to show, from a segment nearer to the oldest.
LEMMA GoingOn ==
    ASSUME SetTypeOK, NEW i \in Iterators, NEW it \in IteratorState,
           it.segIdx <= Len(segments_),
           it.left \subseteq segments_[it.segIdx].added,
           it.snapshot = it.seen \union Shown(it) \union Below(it, segments_),
           GoOn(i, it)
    PROVE  \E new \in IteratorState :
             /\ itr' = [itr EXCEPT ![i] = new]
             /\ new.segIdx <= it.segIdx
             /\ new.at # {} =>
                  /\ new.at \union new.left \subseteq segments_[new.segIdx].added
                  /\ new.snapshot = new.seen \union Shown(new) \union Below(new, segments_)
             /\ new.at = {} => new.segIdx = 1 /\ new.snapshot = new.seen
<1> USE SegmentsAssumption
<1> DEFINE s == it.segIdx
<1>1. s \in 1 .. Len(segments_) /\ s <= MaxSegments /\ segments_ \in Seq(Segment)
  BY DEF IteratorState, SetTypeOK
<1>2. PICK j \in 1 .. s :
        /\ \A m \in j + 1 .. s : Shown(Moved(it, m)) = {}
        /\ \/ \E k \in Shown(Moved(it, j)) :
                itr' = [itr EXCEPT ![i] = [Moved(it, j) EXCEPT !.left = @ \ {k}, !.at = {k}, !.seen = @ \union {k},
                                             !.again = IF k \in Moved(it, j).seen THEN @ \union {k} ELSE @]]
           \/ /\ j = 1 /\ Shown(Moved(it, j)) = {}
              /\ itr' = [itr EXCEPT ![i] = [Moved(it, j) EXCEPT !.left = {}, !.at = {}]]
  BY DEF GoOn
<1> DEFINE stop == Moved(it, j)
<1>3. /\ stop \in IteratorState
      /\ stop.segIdx = j
      /\ stop.left \subseteq segments_[j].added
      /\ stop.seen = it.seen /\ stop.snapshot = it.snapshot
  <2>1. \A m \in 1 .. s : segments_[m] \in Segment
    BY <1>1
  <2>2. UNION {segments_[m].removed : m \in j .. it.segIdx - 1} \subseteq Member
    BY <2>1, <1>1 DEF Segment
  <2>3. segments_[j].added \subseteq Member
    BY <2>1, <1>1 DEF Segment
  <2>4. j \in 1 .. MaxSegments
    BY <1>1
  <2> QED BY <2>2, <2>3, <2>4, <1>1 DEF Moved, IteratorState
<1>4. \A k \in Member : k \in Shown(it) \union Below(it, segments_) <=> k \in Shown(stop) \union Below(stop, segments_)
  <2> SUFFICES ASSUME NEW k \in Member
               PROVE  k \in Shown(it) \union Below(it, segments_) <=> k \in Shown(stop) \union Below(stop, segments_)
    OBVIOUS
  <2> DEFINE Comes(n) == /\ k \in segments_[n].added /\ k \notin it.removed_
                         /\ \A m \in n .. s - 1 : k \notin segments_[m].removed
  <2>1. \A n \in 1 .. s - 1 : k \in Shown(Moved(it, n)) <=> Comes(n)
    BY <1>1 DEF Shown, Moved, IteratorState
  <2>2. k \in Below(it, segments_) <=> \E n \in 1 .. s - 1 : Comes(n)
    BY DEF Below
  <2>3. CASE j = s
    BY <2>3 DEF Moved
  <2>4. CASE j < s
    <3>1. Shown(it) = {}
      <4>1. Moved(it, s) = it /\ s \in j + 1 .. s
        BY <2>4, <1>1 DEF Moved
      <4> QED BY <4>1, <1>2
    <3>2. \A n \in j + 1 .. s - 1 : ~ Comes(n)
      <4> SUFFICES ASSUME NEW n \in j + 1 .. s - 1 PROVE ~ Comes(n)
        OBVIOUS
      <4>1. n \in 1 .. s - 1 /\ n \in j + 1 .. s
        BY <1>1
      <4>2. k \notin Shown(Moved(it, n))
        BY <1>2, <4>1
      <4> QED BY <4>1, <4>2, <2>1
    <3>3. k \in Below(stop, segments_) <=> \E n \in 1 .. j - 1 : Comes(n)
      <4>1. k \notin stop.removed_ <=> k \notin it.removed_ /\ \A m \in j .. s - 1 : k \notin segments_[m].removed
        BY <2>4, <1>1 DEF Moved, IteratorState
      <4>2. ASSUME NEW n \in 1 .. j - 1
            PROVE  Comes(n) <=> /\ k \in segments_[n].added /\ k \notin stop.removed_
                                /\ \A m \in n .. j - 1 : k \notin segments_[m].removed
        BY <4>1, <1>1
      <4> QED BY <4>2, <1>3 DEF Below
    <3>4. k \in Shown(stop) <=> Comes(j)
      BY <2>1, <2>4, <1>1
    <3>5. (\E n \in 1 .. s - 1 : Comes(n)) <=> Comes(j) \/ \E n \in 1 .. j - 1 : Comes(n)
      BY <3>2, <2>4, <1>1
    <3> QED BY <3>1, <3>3, <3>4, <3>5, <2>2
  <2> QED BY <2>3, <2>4, <1>1
<1>5. stop.snapshot = stop.seen \union Shown(stop) \union Below(stop, segments_)
  <2>1. Shown(it) \subseteq Member /\ Shown(stop) \subseteq Member
    BY <1>3 DEF Shown, IteratorState
  <2>2. Below(it, segments_) \subseteq Member /\ Below(stop, segments_) \subseteq Member
    BY DEF Below
  <2> QED BY <1>3, <1>4, <2>1, <2>2
<1>6. CASE \E k \in Shown(stop) :
             itr' = [itr EXCEPT ![i] = [stop EXCEPT !.left = @ \ {k}, !.at = {k}, !.seen = @ \union {k},
                                          !.again = IF k \in stop.seen THEN @ \union {k} ELSE @]]
  <2>1. PICK k \in Shown(stop) :
             itr' = [itr EXCEPT ![i] = [stop EXCEPT !.left = @ \ {k}, !.at = {k}, !.seen = @ \union {k},
                                          !.again = IF k \in stop.seen THEN @ \union {k} ELSE @]]
    BY <1>6
  <2> DEFINE new == [stop EXCEPT !.left = @ \ {k}, !.at = {k}, !.seen = @ \union {k},
                                 !.again = IF k \in stop.seen THEN @ \union {k} ELSE @]
  <2>2. k \in stop.left /\ k \in Member
    BY <1>3 DEF Shown, IteratorState
  <2> HIDE DEF stop
  <2>3. /\ new \in IteratorState
        /\ new.segIdx = j /\ new.at = {k} /\ new.left = stop.left \ {k} /\ new.removed_ = stop.removed_
        /\ new.seen = stop.seen \union {k} /\ new.snapshot = stop.snapshot
    BY <1>3, <2>2 DEF IteratorState
  <2> HIDE DEF new
  <2>4. Below(new, segments_) = Below(stop, segments_)
    BY <2>3, <1>3 DEF Below
  <2>5. new.seen \union Shown(new) = stop.seen \union Shown(stop)
    BY <2>3, <2>1 DEF Shown
  <2>6. itr' = [itr EXCEPT ![i] = new]
    BY <2>1 DEF new
  <2>7. new.snapshot = new.seen \union Shown(new) \union Below(new, segments_)
    BY <2>3, <2>4, <2>5, <1>5
  <2>8. new.at \union new.left \subseteq segments_[new.segIdx].added
    BY <2>2, <2>3, <1>3
  <2>9. new \in IteratorState
    BY <2>3
  <2> WITNESS new \in IteratorState
  <2> QED BY <2>3, <2>6, <2>7, <2>8, <1>1
<1>7. CASE /\ j = 1 /\ Shown(stop) = {}
           /\ itr' = [itr EXCEPT ![i] = [stop EXCEPT !.left = {}, !.at = {}]]
  <2> DEFINE new == [stop EXCEPT !.left = {}, !.at = {}]
  <2>1. Below(stop, segments_) = {}
    BY <1>3, <1>7 DEF Below
  <2> HIDE DEF stop
  <2>2. /\ new \in IteratorState
        /\ new.segIdx = j /\ new.at = {} /\ new.seen = stop.seen /\ new.snapshot = stop.snapshot
    BY <1>3 DEF IteratorState
  <2>3. itr' = [itr EXCEPT ![i] = new]
    BY <1>7
  <2> HIDE DEF new
  <2>4. new.snapshot = new.seen
    BY <2>1, <2>2, <1>5, <1>7
  <2>5. new \in IteratorState
    BY <2>2
  <2> WITNESS new \in IteratorState
  <2> QED BY <2>2, <2>3, <2>4, <1>7, <1>1
<1> QED BY <1>2, <1>6, <1>7

LEMMA SetInitially == SetInit => SetInv
<1> USE SegmentsAssumption
<1> SUFFICES ASSUME SetInit PROVE SetInv
  OBVIOUS
<1>1. segments_ \in Seq(Segment) /\ Len(segments_) = 1 /\ segments_[1] = EmptySegment
  BY DEF SetInit, Segment, EmptySegment
<1>2. SetTypeOK
  BY <1>1 DEF SetInit, SetTypeOK
<1>3. SegmentsApart /\ GetsContents
  BY <1>1 DEF SegmentsApart, GetsContents, get, EmptySegment, SetInit
<1>4. \A i \in Iterators : itr[i] = Unused
  BY DEF SetInit
<1> QED BY <1>2, <1>3, <1>4 DEF SetInv

\* add and remove change the newest segment only, and what get finds as they change the set.
LEMMA ChangingKeepsSetInv ==
    ASSUME SetInv, NEW k \in Member, add(k) \/ remove(k)
    PROVE  SetInv'
<1> USE SegmentsAssumption
<1> DEFINE n == Len(segments_)
<1>1. n \in 1 .. MaxSegments /\ segments_ \in Seq(Segment) /\ contents \subseteq Member
  BY DEF SetInv, SetTypeOK
<1>2. \A j \in 1 .. n : segments_[j] \in Segment
  BY <1>1
<1>3. PICK s \in Segment :
        /\ segments_' = [segments_ EXCEPT ![n] = s]
        /\ s.added \intersect s.removed = {}
        /\ \A x \in Member \ {k} : /\ x \in s.added <=> x \in segments_[n].added
                                   /\ x \in s.removed <=> x \in segments_[n].removed
        /\ \/ k \in s.added /\ contents' = contents \union {k}
           \/ k \notin s.added /\ k \in s.removed /\ contents' = contents \ {k}
  <2>1. segments_[n].added \intersect segments_[n].removed = {}
    BY <1>1 DEF SetInv, SegmentsApart
  <2>2. segments_[n] \in Segment
    BY <1>1, <1>2
  <2>3. CASE add(k)
    <3> DEFINE s == [added |-> Newest.added \union {k}, removed |-> Newest.removed \ {k}]
    <3>1. s \in Segment
      BY <2>2 DEF Segment, Newest
    <3> QED BY <2>1, <2>2, <2>3, <3>1 DEF add, SetBack, Newest, Segment
  <2>4. CASE remove(k)
    <3> DEFINE s == [added |-> Newest.added \ {k}, removed |-> Newest.removed \union {k}]
    <3>1. s \in Segment
      BY <2>2 DEF Segment, Newest
    <3> QED BY <2>1, <2>2, <2>4, <3>1 DEF remove, SetBack, Newest, Segment
  <2> QED BY <2>3, <2>4
<1>4. /\ segments_' \in Seq(Segment) /\ Len(segments_') = n
      /\ segments_'[n] = s /\ \A j \in 1 .. n - 1 : segments_'[j] = segments_[j]
  BY <1>1, <1>3
<1>5. SetTypeOK' /\ itr' = itr
  BY <1>1, <1>3, <1>4 DEF SetInv, SetTypeOK, add, remove
<1>6. SegmentsApart'
  BY <1>1, <1>3, <1>4 DEF SetInv, SegmentsApart
<1>7. GetsContents'
  <2> SUFFICES ASSUME NEW x \in Member PROVE get(x)' <=> x \in contents'
    BY DEF GetsContents
  <2>1. CASE x = k
    <3>1. CASE k \in s.added /\ contents' = contents \union {k}
      BY <2>1, <3>1, <1>1, <1>4 DEF get
    <3>2. CASE k \notin s.added /\ k \in s.removed /\ contents' = contents \ {k}
      BY <2>1, <3>2, <1>1, <1>4 DEF get
    <3> QED BY <3>1, <3>2, <1>3
  <2>2. CASE x # k
    <3>1. \A j \in 1 .. n : /\ x \in segments_'[j].added <=> x \in segments_[j].added
                            /\ x \in segments_'[j].removed <=> x \in segments_[j].removed
      <4>1. /\ x \in segments_'[n].added <=> x \in segments_[n].added
            /\ x \in segments_'[n].removed <=> x \in segments_[n].removed
        BY <2>2, <1>3, <1>4
      <4> QED BY <4>1, <1>1, <1>4
    <3>2. get(x)' <=> get(x)
      BY <3>1, <1>1, <1>4, SMTT(30) DEF get
    <3>3. x \in contents' <=> x \in contents
      BY <2>2, <1>3
    <3> QED BY <3>2, <3>3 DEF SetInv, GetsContents
  <2> QED BY <2>1, <2>2
<1>8. ASSUME NEW i \in Iterators, itr'[i] # Unused
      PROVE  IteratorOK(itr[i], segments_')
  <2>1. itr[i] \in IteratorState /\ IteratorOK(itr[i], segments_)
    BY <1>5, <1>8 DEF SetInv, SetTypeOK
  <2> QED BY <2>1, <1>1, <1>4, FrozenSegments
<1> QED BY <1>5, <1>6, <1>7, <1>8 DEF SetInv

\* A segment that begin opens says nothing of any member.
LEMMA OpeningKeepsContents ==
    ASSUME SetInv, OpenSegment, UNCHANGED contents
    PROVE  /\ segments_' \in Seq(Segment) /\ Len(segments_') \in 1 .. MaxSegments
           /\ Len(segments_') >= Len(segments_)
           /\ \A j \in 1 .. Len(segments_) : segments_'[j] = segments_[j]
           /\ SegmentsApart' /\ GetsContents'
           /\ Len(segments_') = Len(segments_) => Newest = EmptySegment
<1> USE SegmentsAssumption
<1>1. Len(segments_) \in 1 .. MaxSegments /\ segments_ \in Seq(Segment) /\ EmptySegment \in Segment
  BY DEF SetInv, SetTypeOK, EmptySegment, Segment
<1>2. CASE UNCHANGED segments_ /\ Newest = EmptySegment
  BY <1>1, <1>2 DEF SetInv, SegmentsApart, GetsContents, get
<1>3. CASE Len(segments_) < MaxSegments /\ segments_' = Append(segments_, EmptySegment)
  <2> DEFINE n == Len(segments_)
  <2>1. /\ segments_' \in Seq(Segment) /\ Len(segments_') = n + 1
        /\ segments_'[n + 1] = EmptySegment /\ \A j \in 1 .. n : segments_'[j] = segments_[j]
    BY <1>1, <1>3
  <2>2. SegmentsApart'
    BY <1>1, <2>1 DEF SetInv, SegmentsApart, EmptySegment
  <2>3. ASSUME NEW k \in Member PROVE get(k)' <=> get(k)
    <3>1. k \notin segments_'[n + 1].added /\ k \notin segments_'[n + 1].removed
      BY <2>1 DEF EmptySegment
    <3> QED BY <3>1, <2>1, <1>1, SMTT(30) DEF get
  <2> QED BY <1>1, <1>3, <2>1, <2>2, <2>3 DEF SetInv, GetsContents
<1> QED BY <1>2, <1>3 DEF OpenSegment

LEMMA BeginKeepsSetInv ==
    ASSUME SetInv, NEW i \in Iterators, begin(i)
    PROVE  SetInv'
<1> USE SegmentsAssumption
<1> DEFINE n == Len(segments_)
           start == [segIdx |-> n, left |-> segments_[n].added, removed_ |-> segments_[n].removed,
                     at |-> {}, seen |-> {}, again |-> {}, snapshot |-> contents]
<1>1. /\ n \in 1 .. MaxSegments /\ segments_ \in Seq(Segment) /\ contents \subseteq Member
      /\ itr \in [Iterators -> IteratorState \union {Unused}] /\ SetTypeOK
  BY DEF SetInv, SetTypeOK
<1>2. \A j \in 1 .. n : /\ segments_[j].added \subseteq Member /\ segments_[j].removed \subseteq Member
                        /\ segments_[j].added \intersect segments_[j].removed = {}
  <2>1. \A j \in 1 .. n : segments_[j] \in Segment
    BY <1>1
  <2> QED BY <2>1 DEF SetInv, SegmentsApart, Segment
<1>3. start \in IteratorState
  BY <1>1, <1>2 DEF IteratorState
<1>4. \A k \in Member : k \in contents <=> k \in Shown(start) \union Below(start, segments_)
  <2> SUFFICES ASSUME NEW k \in Member
               PROVE  get(k) <=> k \in Shown(start) \union Below(start, segments_)
    BY DEF SetInv, GetsContents
  <2>1. k \in Shown(start) <=> k \in segments_[n].added
    BY <1>1, <1>2 DEF Shown
  <2>2. k \in Below(start, segments_) <=>
          \E j \in 1 .. n - 1 : /\ k \in segments_[j].added
                                /\ \A m \in j + 1 .. n : k \notin segments_[m].removed
    <3>1. ASSUME NEW j \in 1 .. n - 1, k \in segments_[j].added
          PROVE  (k \notin segments_[n].removed /\ \A m \in j .. n - 1 : k \notin segments_[m].removed)
                   <=> \A m \in j + 1 .. n : k \notin segments_[m].removed
      <4>1. k \notin segments_[j].removed
        BY <3>1, <1>1, <1>2
      <4>2. \A m \in j .. n - 1 : m = j \/ m \in j + 1 .. n
        BY <1>1
      <4>3. \A m \in j + 1 .. n : m = n \/ m \in j .. n - 1
        BY <1>1
      <4>4. n \in j + 1 .. n
        BY <1>1
      <4> QED BY <4>1, <4>2, <4>3, <4>4
    <3> QED BY <3>1 DEF Below
  <2>3. get(k) <=> \/ k \in segments_[n].added
                   \/ \E j \in 1 .. n - 1 : /\ k \in segments_[j].added
                                             /\ \A m \in j + 1 .. n : k \notin segments_[m].removed
    BY <1>1 DEF get
  <2> QED BY <2>1, <2>2, <2>3
<1>5. start.snapshot = start.seen \union Shown(start) \union Below(start, segments_)
  <2>1. Shown(start) \subseteq Member /\ Below(start, segments_) \subseteq Member
    BY <1>1, <1>2 DEF Shown, Below
  <2> QED BY <2>1, <1>4, <1>1
<1>6. /\ start.segIdx = n /\ start.left = segments_[n].added
  OBVIOUS
<1>7. itr[i] = Unused /\ GoOn(i, start) /\ OpenSegment /\ contents' = contents
  BY DEF begin
<1> HIDE DEF start
<1>8. PICK new \in IteratorState :
        /\ itr' = [itr EXCEPT ![i] = new]
        /\ new.segIdx <= n
        /\ new.at # {} =>
             /\ new.at \union new.left \subseteq segments_[new.segIdx].added
             /\ new.snapshot = new.seen \union Shown(new) \union Below(new, segments_)
        /\ new.at = {} => new.segIdx = 1 /\ new.snapshot = new.seen
  BY <1>1, <1>3, <1>5, <1>6, <1>7, GoingOn
<1>9. /\ segments_' \in Seq(Segment) /\ Len(segments_') \in 1 .. MaxSegments
      /\ Len(segments_') >= n
      /\ \A j \in 1 .. n : segments_'[j] = segments_[j]
      /\ SegmentsApart' /\ GetsContents'
      /\ Len(segments_') = n => Newest = EmptySegment
  BY <1>7, OpeningKeepsContents
<1>10. SetTypeOK'
  BY <1>1, <1>7, <1>8, <1>9 DEF SetTypeOK
<1>11. IteratorOK(new, segments_')
  <2>1. new.segIdx \in 1 .. n
    BY <1>8, <1>1 DEF IteratorState
  <2>2. new.at # {} => new.segIdx < Len(segments_')
    <3> SUFFICES ASSUME new.at # {}, Len(segments_') = n, new.segIdx = n PROVE FALSE
      BY <2>1, <1>1, <1>9
    <3>1. segments_[n].added = {}
      BY <1>9 DEF Newest, EmptySegment
    <3> QED BY <3>1, <1>8
  <2>3. \A j \in 1 .. new.segIdx : segments_'[j] = segments_[j]
    BY <2>1, <1>9, <1>1
  <2>4. Below(new, segments_') = Below(new, segments_)
    <3>1. ASSUME NEW k \in Member, NEW j \in 1 .. new.segIdx - 1
          PROVE  /\ k \in segments_'[j].added <=> k \in segments_[j].added
                 /\ (\A m \in j .. new.segIdx - 1 : k \notin segments_'[m].removed)
                      <=> (\A m \in j .. new.segIdx - 1 : k \notin segments_[m].removed)
      <4>1. j \in 1 .. new.segIdx /\ \A m \in j .. new.segIdx - 1 : m \in 1 .. new.segIdx
        BY <2>1
      <4> QED BY <4>1, <2>3
    <3> QED BY <3>1 DEF Below
  <2> QED BY <2>1, <2>2, <2>3, <2>4, <1>8, <1>9 DEF IteratorOK
<1>12. ASSUME NEW u \in Iterators, itr'[u] # Unused
       PROVE  IteratorOK(itr'[u], segments_')
  <2>1. CASE u = i
    BY <2>1, <1>1, <1>8, <1>11
  <2>2. CASE u # i
    <3>1. itr'[u] = itr[u] /\ itr[u] \in IteratorState /\ IteratorOK(itr[u], segments_)
      BY <2>2, <1>1, <1>8, <1>12 DEF SetInv
    <3>2. \A j \in 1 .. n - 1 : segments_'[j] = segments_[j]
      BY <1>9, <1>1
    <3> QED BY <3>1, <3>2, <1>1, <1>9, FrozenSegments
  <2> QED BY <2>1, <2>2
<1> QED BY <1>9, <1>10, <1>12 DEF SetInv

LEMMA AdvanceKeepsSetInv ==
    ASSUME SetInv, NEW i \in Iterators, Advance(i)
    PROVE  SetInv'
<1> USE SegmentsAssumption
<1> DEFINE it == itr[i]
           now == [it EXCEPT !.left = @ \intersect segments_[it.segIdx].added]
<1>1. /\ SetTypeOK /\ it # Unused /\ it.at # {} /\ it \in IteratorState /\ IteratorOK(it, segments_)
      /\ itr \in [Iterators -> IteratorState \union {Unused}]
      /\ GoOn(i, now) /\ segments_' = segments_ /\ contents' = contents
  BY DEF SetInv, SetTypeOK, Advance
<1>2. now = it
  <2>1. it.left \intersect segments_[it.segIdx].added = it.left
    BY <1>1 DEF IteratorOK
  <2> QED BY <2>1, <1>1 DEF IteratorState
<1> HIDE DEF now
<1>3. PICK new \in IteratorState :
        /\ itr' = [itr EXCEPT ![i] = new]
        /\ new.segIdx <= it.segIdx
        /\ new.at # {} =>
             /\ new.at \union new.left \subseteq segments_[new.segIdx].added
             /\ new.snapshot = new.seen \union Shown(new) \union Below(new, segments_)
        /\ new.at = {} => new.segIdx = 1 /\ new.snapshot = new.seen
  <2>1. GoOn(i, it)
    BY <1>1, <1>2
  <2>2. /\ it.segIdx <= Len(segments_) /\ it.left \subseteq segments_[it.segIdx].added
        /\ it.snapshot = it.seen \union Shown(it) \union Below(it, segments_)
    BY <1>1 DEF IteratorOK
  <2> HIDE DEF it
  <2> QED BY <1>1, <2>1, <2>2, GoingOn
<1>4. IteratorOK(new, segments_)
  <2>1. it.segIdx \in 1 .. Len(segments_) /\ it.segIdx < Len(segments_) /\ Len(segments_) \in Nat
    BY <1>1 DEF IteratorOK, SetTypeOK
  <2>2. new.segIdx \in 1 .. MaxSegments
    BY DEF IteratorState
  <2> HIDE DEF it
  <2> QED BY <2>1, <2>2, <1>3 DEF IteratorOK
<1>5. SetTypeOK'
  BY <1>1, <1>3 DEF SetTypeOK
<1>6. ASSUME NEW u \in Iterators, itr'[u] # Unused
      PROVE  IteratorOK(itr'[u], segments_')
  BY <1>1, <1>3, <1>4, <1>6 DEF SetInv
<1>7. SegmentsApart' /\ GetsContents'
  BY <1>1 DEF SetInv, SegmentsApart, GetsContents, get
<1> QED BY <1>5, <1>6, <1>7 DEF SetInv

\* The inductive invariant of SnapshotSet: whatever is added, removed or iterated over, the
\* segments tell the members, and an iterator has its snapshot left to show or shown.
THEOREM SnapshotSetInvariant == SetSpec => []SetInv
<1>1. ASSUME SetInv, [SetNext]_setVars
      PROVE  SetInv'
  <2>1. ASSUME NEW k \in Member, add(k) \/ remove(k) PROVE SetInv'
    BY <1>1, <2>1, ChangingKeepsSetInv
  <2>2. ASSUME NEW i \in Iterators, begin(i) PROVE SetInv'
    BY <1>1, <2>2, BeginKeepsSetInv
  <2>3. ASSUME NEW i \in Iterators, Advance(i) PROVE SetInv'
    BY <1>1, <2>3, AdvanceKeepsSetInv
  <2>4. CASE UNCHANGED setVars
    BY <1>1, <2>4 DEF setVars, SetInv, SetTypeOK, SegmentsApart, GetsContents, get
  <2> QED BY <1>1, <2>1, <2>2, <2>3, <2>4 DEF SetNext
<1> QED BY <1>1, SetInitially, PTL DEF SetSpec

\* SnapshotSet::get and the iterators of SnapshotSet::begin: the members are told at all
\* times, and an iterator shows the members of its snapshot, all of them and no others, for
\* every set of members, iterators and number of segments.
THEOREM SnapshotsAreIsolated == SetSpec => []SnapshotIsIsolated
<1>1. SetInv => SnapshotIsIsolated
  <2> SUFFICES ASSUME SetInv PROVE SnapshotIsIsolated
    OBVIOUS
  <2>1. ASSUME NEW i \in Iterators, itr[i] # Unused
        PROVE  /\ itr[i].at \subseteq segments_[itr[i].segIdx].added
               /\ itr[i].seen \subseteq itr[i].snapshot
               /\ AtEnd(itr[i]) => itr[i].seen = itr[i].snapshot
    BY <2>1 DEF SetInv, IteratorOK, AtEnd
  <2> QED BY <2>1 DEF SetInv, GetsContents, SnapshotIsIsolated
<1> QED BY <1>1, SnapshotSetInvariant, PTL

-----------------------------------------------------------------------------
(***************************************************************************)
(* Lists of keys, each of them once.                                       *)
(***************************************************************************)
\* A list of the keys in K, each once.
ListOf(s, K) ==
    /\ s \in Seq(K)
    /\ \A k \in K : \E i \in 1 .. Len(s) : s[i] = k
    /\ \A i, j \in 1 .. Len(s) : s[i] = s[j] => i = j

LEMMA ListOfNone == ListOf(<<>>, {})
  BY DEF ListOf

\* What is where after the removal of the element at p.
LEMMA Removing ==
    ASSUME NEW T, NEW s \in Seq(T), NEW p \in 1 .. Len(s)
    PROVE  /\ RemoveAt(s, p) \in Seq(T) /\ Len(RemoveAt(s, p)) = Len(s) - 1
           /\ \A i \in 1 .. Len(s) - 1 : RemoveAt(s, p)[i] = IF i < p THEN s[i] ELSE s[i + 1]
<1> DEFINE r == RemoveAt(s, p)
           N == Len(s)
<1>0. N \in Nat /\ p \in 1 .. N
  OBVIOUS
<1> DEFINE u == SubSeq(s, 1, p - 1)
           w == SubSeq(s, p + 1, N)
<1>1. u \in Seq(T) /\ Len(u) = p - 1 /\ \A i \in 1 .. p - 1 : u[i] = s[i]
  BY <1>0
<1>2. w \in Seq(T) /\ Len(w) = N - p /\ \A i \in 1 .. N - p : w[i] = s[p + i]
  BY <1>0
<1>3. r = u \o w
  BY DEF RemoveAt
<1> HIDE DEF u, w, r
<1>4. r \in Seq(T) /\ Len(r) = N - 1
  BY <1>0, <1>1, <1>2, <1>3
<1>5. ASSUME NEW i \in 1 .. N - 1 PROVE r[i] = IF i < p THEN s[i] ELSE s[i + 1]
  <2>1. CASE i < p
    BY <2>1, <1>0, <1>1, <1>2, <1>3
  <2>2. CASE i >= p
    <3>1. i - (p - 1) \in 1 .. N - p
      BY <2>2, <1>0
    <3>2. r[i] = w[i - (p - 1)]
      <4>1. i \in 1 .. Len(u) + Len(w) /\ ~ (i <= Len(u))
        BY <2>2, <1>0, <1>1, <1>2
      <4>2. (u \o w)[i] = w[i - Len(u)]
        BY <4>1, <1>1, <1>2, ConcatProperties
      <4> QED BY <4>2, <1>1, <1>3
    <3>3. p + (i - (p - 1)) = i + 1
      BY <1>0
    <3> QED BY <2>2, <3>1, <3>2, <3>3, <1>2
  <2> QED BY <2>1, <2>2, <1>0
<1> QED BY <1>4, <1>5 DEF r

\* A key that is taken out of a list leaves the others in their order.
LEMMA TakingOut ==
    ASSUME NEW K, NEW s, ListOf(s, K), NEW p \in 1 .. Len(s)
    PROVE  /\ ListOf(RemoveAt(s, p), K \ {s[p]})
           /\ \A a, b \in K \ {s[p]} : Before(RemoveAt(s, p), a, b) <=> Before(s, a, b)
<1> DEFINE r == RemoveAt(s, p)
           N == Len(s)
<1>1. s \in Seq(K) /\ N \in Nat /\ p \in 1 .. N
  BY DEF ListOf
<1>2. /\ r \in Seq(K) /\ Len(r) = N - 1
      /\ \A i \in 1 .. N - 1 : r[i] = IF i < p THEN s[i] ELSE s[i + 1]
  BY <1>1, Removing
<1> HIDE DEF r
\* Where the keys that stay are, before and after.
<1> DEFINE Old(i) == IF i < p THEN i ELSE i + 1
           New(i) == IF i < p THEN i ELSE i - 1
<1>3. \A i \in 1 .. N - 1 : Old(i) \in 1 .. N /\ Old(i) # p /\ r[i] = s[Old(i)]
  BY <1>1, <1>2
<1>4. \A i \in 1 .. N : i # p => New(i) \in 1 .. N - 1 /\ r[New(i)] = s[i]
  BY <1>1, <1>2
<1>5. \A i, j \in 1 .. N - 1 : i < j => Old(i) < Old(j)
  BY <1>1
<1>6. \A i, j \in 1 .. N : i # p /\ j # p /\ i < j => New(i) < New(j)
  BY <1>1
<1> HIDE DEF Old, New
<1>7. \A i, j \in 1 .. N : s[i] = s[j] => i = j
  BY DEF ListOf
<1>8. ListOf(r, K \ {s[p]})
  <2>1. \A i \in 1 .. N - 1 : r[i] \in K \ {s[p]}
    <3>1. \A i \in 1 .. N : s[i] \in K
      BY <1>1, ElementOfSeq
    <3> QED BY <1>1, <1>3, <1>7, <3>1
  <2>2. ASSUME NEW k \in K \ {s[p]} PROVE \E i \in 1 .. N - 1 : r[i] = k
    <3>1. PICK i \in 1 .. N : s[i] = k
      BY DEF ListOf
    <3> QED BY <3>1, <1>4
  <2>3. ASSUME NEW i \in 1 .. N - 1, NEW j \in 1 .. N - 1, r[i] = r[j] PROVE i = j
    <3>1. Old(i) = Old(j)
      BY <2>3, <1>3, <1>7
    <3> QED BY <3>1, <1>1 DEF Old
  <2>4. r \in Seq(K \ {s[p]})
    BY <1>2, <2>1, SequenceOf
  <2> QED BY <1>2, <2>2, <2>3, <2>4 DEF ListOf
<1>9. ASSUME NEW a \in K \ {s[p]}, NEW b \in K \ {s[p]} PROVE Before(r, a, b) <=> Before(s, a, b)
  <2>1. ASSUME Before(r, a, b) PROVE Before(s, a, b)
    <3>1. PICK i \in 1 .. N - 1, j \in 1 .. N - 1 : i < j /\ r[i] = a /\ r[j] = b
      BY <2>1, <1>2 DEF Before
    <3> QED BY <3>1, <1>3, <1>5 DEF Before
  <2>2. ASSUME Before(s, a, b) PROVE Before(r, a, b)
    <3>1. PICK i \in 1 .. N, j \in 1 .. N : i < j /\ s[i] = a /\ s[j] = b
      BY <2>2 DEF Before
    <3>2. New(i) \in 1 .. Len(r) /\ New(j) \in 1 .. Len(r) /\ New(i) < New(j) /\ r[New(i)] = a /\ r[New(j)] = b
      BY <3>1, <1>2, <1>4, <1>6
    <3> QED BY <3>2 DEF Before
  <2> QED BY <2>1, <2>2
<1> QED BY <1>8, <1>9 DEF r

\* A key that is put first precedes the others, which stay in their order.
LEMMA PuttingFirst ==
    ASSUME NEW K, NEW s, ListOf(s, K), NEW k, k \notin K
    PROVE  LET r == <<k>> \o s IN
           /\ ListOf(r, K \union {k})
           /\ \A a, b \in K : Before(r, a, b) <=> Before(s, a, b)
           /\ \A j \in K : Before(r, k, j)
           /\ \A j : ~ Before(r, j, k)
<1> DEFINE r == <<k>> \o s
           N == Len(s)
<1>1. s \in Seq(K \union {k}) /\ N \in Nat
  <2>1. s \in Seq(K) /\ N \in Nat /\ \A i \in 1 .. Len(s) : s[i] \in K \union {k}
    BY DEF ListOf
  <2> QED BY <2>1, SequenceOf
<1>2. /\ r \in Seq(K \union {k}) /\ Len(r) = N + 1 /\ r[1] = k
      /\ \A i \in 1 .. N : r[i + 1] = s[i]
  <2>1. <<k>> \in Seq(K \union {k}) /\ Len(<<k>>) = 1 /\ <<k>>[1] = k
    OBVIOUS
  <2>2. r \in Seq(K \union {k}) /\ Len(r) = N + 1
    BY <1>1, <2>1
  <2>3. r[1] = k
    BY <1>1, <2>1
  <2>4. ASSUME NEW i \in 1 .. N PROVE r[i + 1] = s[i]
    BY <1>1, <2>1
  <2> QED BY <2>2, <2>3, <2>4
<1> HIDE DEF r
<1>3. \A i \in 1 .. N + 1 : i # 1 => i - 1 \in 1 .. N /\ r[i] = s[i - 1]
  <2> TAKE i \in 1 .. N + 1
  <2>1. ASSUME i # 1 PROVE i - 1 \in 1 .. N /\ (i - 1) + 1 = i
    BY <1>1, <2>1
  <2> QED BY <2>1, <1>2
<1>4. \A i \in 1 .. N : s[i] \in K /\ s[i] # k
  BY DEF ListOf
<1>5. ListOf(r, K \union {k})
  <2>1. \A i \in 1 .. N + 1 : r[i] \in K \union {k}
    BY <1>2, <1>3, <1>4
  <2>2. ASSUME NEW j \in K \union {k} PROVE \E i \in 1 .. N + 1 : r[i] = j
    <3>1. CASE j = k
      BY <3>1, <1>1, <1>2
    <3>2. CASE j \in K
      <4>1. PICK i \in 1 .. N : s[i] = j
        BY <3>2 DEF ListOf
      <4>2. i + 1 \in 1 .. N + 1
        BY <1>1
      <4> QED BY <4>1, <4>2, <1>2
    <3> QED BY <3>1, <3>2
  <2>3. ASSUME NEW i \in 1 .. N + 1, NEW j \in 1 .. N + 1, r[i] = r[j] PROVE i = j
    <3>1. CASE i = 1 \/ j = 1
      BY <3>1, <2>3, <1>2, <1>3, <1>4
    <3>2. CASE i # 1 /\ j # 1
      <4>1. i - 1 \in 1 .. N /\ j - 1 \in 1 .. N /\ s[i - 1] = s[j - 1]
        BY <3>2, <2>3, <1>3
      <4>2. i - 1 = j - 1
        BY <4>1 DEF ListOf
      <4> QED BY <4>2, <1>1
    <3> QED BY <3>1, <3>2
  <2> QED BY <1>2, <2>1, <2>2, <2>3 DEF ListOf
<1>6. ASSUME NEW a \in K, NEW b \in K PROVE Before(r, a, b) <=> Before(s, a, b)
  <2>1. ASSUME Before(r, a, b) PROVE Before(s, a, b)
    <3>1. PICK i \in 1 .. N + 1, j \in 1 .. N + 1 : i < j /\ r[i] = a /\ r[j] = b
      BY <2>1, <1>2 DEF Before
    <3>2. i # 1 /\ j # 1
      BY <3>1, <1>1, <1>2
    <3>3. i - 1 < j - 1
      BY <3>1, <1>1
    <3> QED BY <3>1, <3>2, <3>3, <1>3 DEF Before
  <2>2. ASSUME Before(s, a, b) PROVE Before(r, a, b)
    <3>1. PICK i \in 1 .. N, j \in 1 .. N : i < j /\ s[i] = a /\ s[j] = b
      BY <2>2 DEF Before
    <3>2. i + 1 \in 1 .. N + 1 /\ j + 1 \in 1 .. N + 1 /\ i + 1 < j + 1
      BY <3>1, <1>1
    <3> QED BY <3>1, <3>2, <1>2 DEF Before
  <2> QED BY <2>1, <2>2
<1>7. ASSUME NEW j \in K PROVE Before(r, k, j)
  <2>1. PICK i \in 1 .. N : s[i] = j
    BY DEF ListOf
  <2>2. 1 \in 1 .. N + 1 /\ i + 1 \in 1 .. N + 1 /\ 1 < i + 1
    BY <1>1
  <2> QED BY <2>1, <2>2, <1>2 DEF Before
<1>8. ASSUME NEW j, Before(r, j, k) PROVE FALSE
  <2>1. PICK i \in 1 .. N + 1, m \in 1 .. N + 1 : i < m /\ r[m] = k
    BY <1>2, <1>8 DEF Before
  <2>2. m # 1
    BY <2>1, <1>1
  <2> QED BY <2>1, <2>2, <1>3, <1>4
<1> QED BY <1>5, <1>6, <1>7, <1>8 DEF r

\* The last of a list: all the others precede it.
LEMMA TakingLast ==
    ASSUME NEW K, NEW s, ListOf(s, K), K # {}
    PROVE  /\ s # <<>> /\ Last(s) \in K
           /\ ListOf(Front(s), K \ {Last(s)})
           /\ \A a, b \in K \ {Last(s)} : Before(Front(s), a, b) <=> Before(s, a, b)
           /\ \A j \in K \ {Last(s)} : Before(s, j, Last(s))
<1> DEFINE N == Len(s)
<1>1. s \in Seq(K) /\ N \in Nat
  BY DEF ListOf
<1>2. PICK k \in K : TRUE
  OBVIOUS
<1>3. PICK i \in 1 .. N : s[i] = k
  BY DEF ListOf
<1>4. N \in 1 .. N /\ s # <<>> /\ Last(s) = s[N] /\ s[N] \in K
  BY <1>1, <1>3, ElementOfSeq DEF Last
<1>5. Front(s) = RemoveAt(s, N)
  <2>1. SubSeq(s, N + 1, N) = <<>> /\ SubSeq(s, 1, N - 1) \in Seq(K)
    BY <1>1, <1>4
  <2>2. SubSeq(s, 1, N - 1) \o <<>> = SubSeq(s, 1, N - 1)
    BY <2>1, ConcatEmptySeq
  <2> QED BY <2>1, <2>2 DEF Front, RemoveAt
<1>6. ASSUME NEW j \in K \ {s[N]} PROVE Before(s, j, s[N])
  <2>1. PICK m \in 1 .. N : s[m] = j
    BY DEF ListOf
  <2>2. m < N
    BY <1>1, <2>1
  <2> QED BY <1>4, <2>1, <2>2 DEF Before
<1> QED BY <1>4, <1>5, <1>6, TakingOut

-----------------------------------------------------------------------------
(***************************************************************************)
(* LfuCache.                                                               *)
(***************************************************************************)
\* What setting one list does to the lists, and to their counts.
LEMMA SettingKeys ==
    ASSUME NEW freqs, NEW f, NEW s, NEW g
    PROVE  KeysAt(SetKeys(freqs, f, s), g) = IF g = f THEN s ELSE KeysAt(freqs, g)
<1> DEFINE fs == IF s = <<>> THEN DOMAIN freqs \ {f} ELSE DOMAIN freqs \union {f}
<1>1. SetKeys(freqs, f, s) = [h \in fs |-> IF h = f THEN s ELSE freqs[h]]
  BY DEF SetKeys
<1> HIDE DEF fs
<1>2. /\ DOMAIN SetKeys(freqs, f, s) = fs
      /\ \A h \in fs : SetKeys(freqs, f, s)[h] = IF h = f THEN s ELSE freqs[h]
  BY <1>1
<1>3. CASE g \in fs
  <2>1. g # f => g \in DOMAIN freqs
    BY <1>3 DEF fs
  <2> QED BY <1>3, <2>1, <1>2 DEF KeysAt
<1>4. CASE g \notin fs
  <2>1. (g = f => s = <<>>) /\ (g # f => g \notin DOMAIN freqs)
    BY <1>4 DEF fs
  <2> QED BY <1>4, <2>1, <1>2 DEF KeysAt
<1> QED BY <1>3, <1>4

LEMMA SettingCounts ==
    ASSUME NEW freqs, NEW f, NEW s
    PROVE  DOMAIN SetKeys(freqs, f, s) = IF s = <<>> THEN DOMAIN freqs \ {f} ELSE DOMAIN freqs \union {f}
  BY DEF SetKeys

\* The lists of some of the keys in the cache, by their counts.
KeysOf(kept, f) == {j \in kept : key2Node_[j].f = f}
ListsOf(freqs, kept) ==
    /\ DOMAIN freqs = {f \in Nat : KeysOf(kept, f) # {}}
    /\ \A f \in Nat : ListOf(KeysAt(freqs, f), KeysOf(kept, f))

\* The lists hold the keys of the cache; lowestFreq_ is the lowest count of them.
LfuInv ==
    /\ DOMAIN key2Node_ \subseteq Key
    /\ IsFiniteSet(DOMAIN key2Node_) /\ Cardinality(DOMAIN key2Node_) <= capacity_
    /\ \A k \in DOMAIN key2Node_ : key2Node_[k].f \in Nat \ {0}
    /\ ListsOf(freq2Keys_, DOMAIN key2Node_)
    /\ lowestFreq_ \in Nat
    /\ \A k \in DOMAIN key2Node_ : lowestFreq_ <= key2Node_[k].f
    /\ DOMAIN key2Node_ # {} => \E k \in DOMAIN key2Node_ : lowestFreq_ = key2Node_[k].f

\* The lists of the keys that are kept, in the order in which they are in the lists.
Leaves(freqs, kept) ==
    /\ ListsOf(freqs, kept)
    /\ \A f \in Nat, a, b \in kept : key2Node_[a].f = f /\ key2Node_[b].f = f =>
         (Before(KeysAt(freqs, f), a, b) <=> Before(KeysAt(freq2Keys_, f), a, b))

\* A list that loses one key.
LEMMA Losing ==
    ASSUME LfuInv, NEW k \in DOMAIN key2Node_, NEW s, NEW f, f = key2Node_[k].f,
           ListOf(s, KeysOf(DOMAIN key2Node_, f) \ {k}),
           \A a, b \in KeysOf(DOMAIN key2Node_, f) \ {k} :
               Before(s, a, b) <=> Before(KeysAt(freq2Keys_, f), a, b)
    PROVE  Leaves(SetKeys(freq2Keys_, f, s), DOMAIN key2Node_ \ {k})
<1> DEFINE D == DOMAIN key2Node_
           kept == D \ {k}
           freqs == SetKeys(freq2Keys_, f, s)
<1>1. f \in Nat
  BY DEF LfuInv
<1>2. /\ KeysAt(freqs, f) = s
      /\ \A g : g # f => KeysAt(freqs, g) = KeysAt(freq2Keys_, g)
      /\ s = <<>> => DOMAIN freqs = DOMAIN freq2Keys_ \ {f}
      /\ s # <<>> => DOMAIN freqs = DOMAIN freq2Keys_ \union {f}
  <2>1. \A g : KeysAt(freqs, g) = IF g = f THEN s ELSE KeysAt(freq2Keys_, g)
    BY SettingKeys
  <2>2. DOMAIN freqs = IF s = <<>> THEN DOMAIN freq2Keys_ \ {f} ELSE DOMAIN freq2Keys_ \union {f}
    BY SettingCounts
  <2> HIDE DEF freqs
  <2> QED BY <2>1, <2>2
<1> HIDE DEF freqs
<1>3. KeysOf(kept, f) = KeysOf(D, f) \ {k} /\ \A g : g # f => KeysOf(kept, g) = KeysOf(D, g)
  BY DEF KeysOf
<1>4. ListOf(s, KeysOf(kept, f)) /\ (s = <<>> <=> KeysOf(kept, f) = {})
  <2>1. ListOf(s, KeysOf(kept, f))
    BY <1>3
  <2>2. Len(s) \in Nat /\ (s = <<>> <=> Len(s) = 0)
    BY <2>1 DEF ListOf
  <2>3. Len(s) = 0 <=> KeysOf(kept, f) = {}
    <3>1. ASSUME Len(s) # 0 PROVE KeysOf(kept, f) # {}
      <4>1. 1 \in 1 .. Len(s)
        BY <2>2, <3>1
      <4> QED BY <2>1, <4>1, ElementOfSeq DEF ListOf
    <3>2. ASSUME Len(s) = 0 PROVE KeysOf(kept, f) = {}
      <4>1. \A i \in 1 .. Len(s) : FALSE
        BY <3>2
      <4> QED BY <2>1, <4>1 DEF ListOf
    <3> QED BY <3>1, <3>2
  <2> QED BY <2>1, <2>2, <2>3
<1>5. /\ DOMAIN freq2Keys_ = {g \in Nat : KeysOf(D, g) # {}}
      /\ \A g \in Nat : ListOf(KeysAt(freq2Keys_, g), KeysOf(D, g))
  BY DEF LfuInv, ListsOf
<1>6. DOMAIN freqs = {g \in Nat : KeysOf(kept, g) # {}}
  BY <1>1, <1>2, <1>3, <1>4, <1>5
<1>7. \A g \in Nat : ListOf(KeysAt(freqs, g), KeysOf(kept, g))
  BY <1>2, <1>3, <1>4, <1>5
<1>8. ASSUME NEW g \in Nat, NEW a \in kept, NEW b \in kept, key2Node_[a].f = g, key2Node_[b].f = g
      PROVE  Before(KeysAt(freqs, g), a, b) <=> Before(KeysAt(freq2Keys_, g), a, b)
  BY <1>2, <1>8 DEF KeysOf
<1> QED BY <1>6, <1>7, <1>8 DEF Leaves, ListsOf, freqs

\* The list of a count that a key joins at the front: the order of the keys is that of the
\* abstract cache.
LEMMA Joining ==
    ASSUME LfuInv, NEW k \in Key, NEW kept, kept \subseteq DOMAIN key2Node_ \ {k},
           NEW u \in Nat \ {0}, NEW freqs, Leaves(freqs, kept),
           freq2Keys_' = SetKeys(freqs, u, <<k>> \o KeysAt(freqs, u)),
           DOMAIN key2Node_' = kept \union {k},
           key2Node_'[k].f = u, \A j \in kept : key2Node_'[j].f = key2Node_[j].f
    PROVE  /\ ListsOf(freq2Keys_, DOMAIN key2Node_)'
           /\ Order' = {p \in Order : p[1] \in kept /\ p[2] \in kept}
                        \union {<<k, j>> : j \in {j \in kept : key2Node_[j].f <= u}}
                        \union {<<j, k>> : j \in {j \in kept : ~ (key2Node_[j].f <= u)}}
<1> DEFINE new == <<k>> \o KeysAt(freqs, u)
           count(j) == key2Node_[j].f
<1>1. /\ \A j \in kept : count(j) \in Nat /\ j \in DOMAIN key2Node_
      /\ u \in Nat /\ k \notin kept
  BY DEF LfuInv
<1>2. /\ DOMAIN freqs = {f \in Nat : KeysOf(kept, f) # {}}
      /\ \A f \in Nat : ListOf(KeysAt(freqs, f), KeysOf(kept, f))
      /\ \A f \in Nat, a, b \in kept : count(a) = f /\ count(b) = f =>
           (Before(KeysAt(freqs, f), a, b) <=> Before(KeysAt(freq2Keys_, f), a, b))
  BY DEF Leaves, ListsOf
<1>3. k \notin KeysOf(kept, u)
  BY <1>1 DEF KeysOf
<1>4. /\ ListOf(new, KeysOf(kept, u) \union {k})
      /\ \A a, b \in KeysOf(kept, u) : Before(new, a, b) <=> Before(KeysAt(freqs, u), a, b)
      /\ \A j \in KeysOf(kept, u) : Before(new, k, j)
      /\ \A j : ~ Before(new, j, k)
  BY <1>1, <1>2, <1>3, PuttingFirst
<1>5. new # <<>>
  BY <1>4 DEF ListOf
<1> HIDE DEF new
<1>6. /\ KeysAt(freq2Keys_', u) = new
      /\ \A g : g # u => KeysAt(freq2Keys_', g) = KeysAt(freqs, g)
      /\ DOMAIN freq2Keys_' = DOMAIN freqs \union {u}
  <2>1. \A g : KeysAt(SetKeys(freqs, u, new), g) = IF g = u THEN new ELSE KeysAt(freqs, g)
    BY SettingKeys
  <2>2. DOMAIN SetKeys(freqs, u, new) = IF new = <<>> THEN DOMAIN freqs \ {u} ELSE DOMAIN freqs \union {u}
    BY SettingCounts
  <2>3. freq2Keys_' = SetKeys(freqs, u, new)
    BY DEF new
  <2> QED BY <2>1, <2>2, <2>3, <1>5
<1>7. \A f : KeysOf(DOMAIN key2Node_, f)' = IF f = u THEN KeysOf(kept, u) \union {k} ELSE KeysOf(kept, f)
  BY <1>1 DEF KeysOf
<1>8. ListsOf(freq2Keys_, DOMAIN key2Node_)'
  <2>1. DOMAIN freq2Keys_' = {f \in Nat : KeysOf(DOMAIN key2Node_, f)' # {}}
    BY <1>1, <1>2, <1>6, <1>7
  <2>2. ASSUME NEW f \in Nat PROVE ListOf(KeysAt(freq2Keys_', f), KeysOf(DOMAIN key2Node_, f)')
    <3>1. CASE f = u
      <4>1. KeysAt(freq2Keys_', f) = new /\ KeysOf(DOMAIN key2Node_, f)' = KeysOf(kept, u) \union {k}
        BY <3>1, <1>6, <1>7
      <4> QED BY <4>1, <1>4
    <3>2. CASE f # u
      <4>1. KeysAt(freq2Keys_', f) = KeysAt(freqs, f) /\ KeysOf(DOMAIN key2Node_, f)' = KeysOf(kept, f)
        BY <3>2, <1>6, <1>7
      <4> QED BY <4>1, <1>2
    <3> QED BY <3>1, <3>2
  <2> QED BY <2>1, <2>2 DEF ListsOf
<1>9. ASSUME NEW a \in kept, NEW b \in kept PROVE Precedes(a, b)' <=> Precedes(a, b)
  <2>1. key2Node_'[a].f = count(a) /\ key2Node_'[b].f = count(b) /\ count(a) \in Nat
    BY <1>1
  <2>2. ASSUME count(a) = count(b)
        PROVE  Before(KeysAt(freq2Keys_', count(a)), a, b) <=> Before(KeysAt(freq2Keys_, count(a)), a, b)
    <3>1. Before(KeysAt(freqs, count(a)), a, b) <=> Before(KeysAt(freq2Keys_, count(a)), a, b)
      BY <2>1, <2>2, <1>2
    <3>2. CASE count(a) = u
      <4>1. a \in KeysOf(kept, u) /\ b \in KeysOf(kept, u)
        BY <2>2, <3>2 DEF KeysOf
      <4> QED BY <3>1, <3>2, <4>1, <1>4, <1>6
    <3>3. CASE count(a) # u
      BY <3>1, <3>3, <1>6
    <3> QED BY <3>2, <3>3
  <2>3. Precedes(a, b)' <=>
          count(a) > count(b) \/ (count(a) = count(b) /\ Before(KeysAt(freq2Keys_', count(a)), a, b))
    BY <2>1 DEF Precedes, KeysAt, Before
  <2> QED BY <2>2, <2>3 DEF Precedes
<1>10. ASSUME NEW b \in kept PROVE Precedes(k, b)' <=> count(b) <= u
  <2>1. key2Node_'[k].f = u /\ key2Node_'[b].f = count(b) /\ count(b) \in Nat
    BY <1>1
  <2>2. Precedes(k, b)' <=> u > count(b) \/ (u = count(b) /\ Before(new, k, b))
    BY <2>1, <1>6 DEF Precedes, KeysAt, Before
  <2>3. u = count(b) => Before(new, k, b)
    BY <1>4 DEF KeysOf
  <2> QED BY <2>1, <2>2, <2>3, <1>1
<1>11. ASSUME NEW a \in kept PROVE Precedes(a, k)' <=> ~ (count(a) <= u)
  <2>1. key2Node_'[k].f = u /\ key2Node_'[a].f = count(a) /\ count(a) \in Nat
    BY <1>1
  <2>2. Precedes(a, k)' <=> count(a) > u \/ (count(a) = u /\ Before(new, a, k))
    BY <2>1, <1>6 DEF Precedes, KeysAt, Before
  <2> QED BY <2>1, <2>2, <1>1, <1>4
<1>12. ~ Precedes(k, k)'
  <2>1. Precedes(k, k)' <=> u > u \/ (u = u /\ Before(new, k, k))
    BY <1>6 DEF Precedes, KeysAt, Before
  <2> QED BY <2>1, <1>1, <1>4
<1>13. Order' = {p \in (kept \union {k}) \X (kept \union {k}) : Precedes(p[1], p[2])'}
  BY DEF Order
<1>14. ASSUME NEW a \in kept \union {k}, NEW b \in kept \union {k}
       PROVE  <<a, b>> \in Order' <=> Precedes(a, b)'
  BY <1>13
<1> DEFINE R == {p \in Order : p[1] \in kept /\ p[2] \in kept}
                \union {<<k, j>> : j \in {j \in kept : count(j) <= u}}
                \union {<<j, k>> : j \in {j \in kept : ~ (count(j) <= u)}}
<1>15. R \subseteq (kept \union {k}) \X (kept \union {k})
  BY DEF Order
<1>16. ASSUME NEW a \in kept \union {k}, NEW b \in kept \union {k}
       PROVE  <<a, b>> \in R <=> Precedes(a, b)'
  <2>1. CASE a \in kept /\ b \in kept
    <3>1. <<a, b>> \in Order <=> Precedes(a, b)
      BY <2>1, <1>1 DEF Order
    <3>2. <<a, b>> \in R <=> <<a, b>> \in Order
      BY <2>1, <1>1
    <3> QED BY <3>1, <3>2, <2>1, <1>9
  <2>2. CASE a = k /\ b \in kept
    <3>1. <<k, b>> \in R <=> count(b) <= u
      BY <2>2, <1>1
    <3> QED BY <2>2, <3>1, <1>10
  <2>3. CASE a \in kept /\ b = k
    <3>1. <<a, k>> \in R <=> ~ (count(a) <= u)
      BY <2>3, <1>1
    <3> QED BY <2>3, <3>1, <1>11
  <2>4. CASE a = k /\ b = k
    <3>1. <<k, k>> \notin R
      BY <1>1
    <3> QED BY <2>4, <3>1, <1>12
  <2> QED BY <2>1, <2>2, <2>3, <2>4
<1>17. Order' = R
  <2> HIDE DEF R
  <2> QED BY <1>13, <1>14, <1>15, <1>16
<1> QED BY <1>8, <1>17

\* A use of a key is one in the abstract cache.
LEMMA UseIsUse ==
    ASSUME LfuInv, NEW k \in DOMAIN key2Node_, NEW v, Use(k, v)
    PROVE  LfuInv' /\ Abstract!Use(k, v)
<1> DEFINE D == DOMAIN key2Node_
           f == key2Node_[k].f
           s == KeysAt(freq2Keys_, f)
           freqs == SetKeys(freq2Keys_, f, Without(s, k))
           kept == D \ {k}
<1>1. /\ D \subseteq Key /\ k \in Key /\ f \in Nat \ {0} /\ f + 1 \in Nat \ {0}
      /\ \A j \in D : key2Node_[j].f \in Nat \ {0}
  BY DEF LfuInv
<1>2. ListOf(s, KeysOf(D, f))
  BY <1>1 DEF LfuInv, ListsOf
<1>3. Leaves(freqs, kept)
  <2> DEFINE p == CHOOSE i \in 1 .. Len(s) : s[i] = k
  <2>1. k \in KeysOf(D, f)
    BY DEF KeysOf
  <2>2. \E i \in 1 .. Len(s) : s[i] = k
    <3> HIDE DEF s
    <3> QED BY <2>1, <1>2 DEF ListOf
  <2>3. p \in 1 .. Len(s) /\ s[p] = k
    <3> HIDE DEF s
    <3> QED BY <2>2
  <2>4. Without(s, k) = RemoveAt(s, p)
    BY DEF Without
  <2> DEFINE K == KeysOf(D, f)
  <2> HIDE DEF p, s, K
  <2>a. ListOf(s, K)
    BY <1>2 DEF K
  <2>5. ListOf(RemoveAt(s, p), K \ {s[p]})
    BY <2>3, <2>a, TakingOut
  <2>b. \A a, b \in K \ {s[p]} : Before(RemoveAt(s, p), a, b) <=> Before(s, a, b)
    BY <2>3, <2>a, TakingOut
  <2> USE DEF K
  <2>6. /\ ListOf(Without(s, k), KeysOf(D, f) \ {k})
        /\ \A a, b \in KeysOf(D, f) \ {k} : Before(Without(s, k), a, b) <=> Before(s, a, b)
    BY <2>3, <2>4, <2>5, <2>b
  <2> QED BY <2>6, Losing DEF s
<1>4. KeysAt(freqs, f + 1) = KeysAt(freq2Keys_, f + 1)
  <2>1. f + 1 # f
    BY <1>1
  <2>2. KeysAt(freqs, f + 1) = IF f + 1 = f THEN Without(s, k) ELSE KeysAt(freq2Keys_, f + 1)
    BY SettingKeys
  <2> QED BY <2>1, <2>2
<1>5. /\ freq2Keys_' = SetKeys(freqs, f + 1, <<k>> \o KeysAt(freqs, f + 1))
      /\ lowestFreq_' = LowestAfter(freq2Keys_', f)
      /\ key2Node_' = [key2Node_ EXCEPT ![k] = [v |-> v, f |-> f + 1]]
  BY <1>4 DEF Use
<1>6. /\ DOMAIN key2Node_' = D /\ D = kept \union {k}
      /\ key2Node_'[k].f = f + 1 /\ key2Node_'[k].v = v
      /\ \A j \in kept : key2Node_'[j] = key2Node_[j]
  BY <1>5
<1> HIDE DEF freqs
<1>7. /\ ListsOf(freq2Keys_, DOMAIN key2Node_)'
      /\ Order' = {p \in Order : p[1] \in kept /\ p[2] \in kept}
                   \union {<<k, j>> : j \in {j \in kept : key2Node_[j].f <= f + 1}}
                   \union {<<j, k>> : j \in {j \in kept : ~ (key2Node_[j].f <= f + 1)}}
  <2> DEFINE u == f + 1
  <2>1. /\ u \in Nat \ {0} /\ kept \subseteq D \ {k} /\ k \in Key
        /\ freq2Keys_' = SetKeys(freqs, u, <<k>> \o KeysAt(freqs, u))
        /\ DOMAIN key2Node_' = kept \union {k}
        /\ key2Node_'[k].f = u /\ \A j \in kept : key2Node_'[j].f = key2Node_[j].f
    BY <1>1, <1>5, <1>6
  <2> DEFINE R == {p \in Order : p[1] \in kept /\ p[2] \in kept}
                     \union {<<k, j>> : j \in {j \in kept : key2Node_[j].f <= u}}
                     \union {<<j, k>> : j \in {j \in kept : ~ (key2Node_[j].f <= u)}}
  <2>a. kept \subseteq DOMAIN key2Node_ \ {k}
    OBVIOUS
  <2> HIDE DEF u, kept
  <2>2. ListsOf(freq2Keys_, DOMAIN key2Node_)'
    BY <2>1, <2>a, <1>3, Joining
  <2>3. Order' = R
    BY <2>1, <2>a, <1>3, Joining
  <2> QED BY <2>2, <2>3 DEF u
<1>8. /\ lowestFreq_' \in Nat
      /\ \A j \in D : lowestFreq_' <= key2Node_'[j].f
      /\ \E j \in D : lowestFreq_' = key2Node_'[j].f
  <2>1. lowestFreq_ \in Nat /\ \A j \in D : lowestFreq_ <= key2Node_[j].f
    BY DEF LfuInv
  <2>2. PICK i \in D : lowestFreq_ = key2Node_[i].f
    BY DEF LfuInv
  <2>3. f \in DOMAIN freq2Keys_' <=> \E j \in D : key2Node_'[j].f = f
    BY <1>1, <1>6, <1>7 DEF ListsOf, KeysOf
  <2>4. CASE f \notin DOMAIN freq2Keys_' /\ lowestFreq_ = f
    <3>1. lowestFreq_' = f + 1
      BY <2>4, <1>5 DEF LowestAfter
    <3>2. ASSUME NEW j \in D PROVE f + 1 <= key2Node_'[j].f
      BY <2>1, <2>3, <2>4, <1>1, <1>6
    <3> QED BY <3>1, <3>2, <1>1, <1>6
  <2>5. CASE ~ (f \notin DOMAIN freq2Keys_' /\ lowestFreq_ = f)
    <3>1. lowestFreq_' = lowestFreq_
      BY <2>5, <1>5 DEF LowestAfter
    <3>2. ASSUME NEW j \in D PROVE lowestFreq_ <= key2Node_'[j].f
      BY <2>1, <1>1, <1>6
    <3>3. \E j \in D : lowestFreq_ = key2Node_'[j].f
      BY <2>2, <2>3, <2>5, <1>1, <1>6
    <3> QED BY <3>1, <3>2, <3>3, <2>1
  <2> QED BY <2>4, <2>5
<1>9. LfuInv'
  <2>1. \A j \in D : key2Node_'[j].f \in Nat \ {0}
    BY <1>1, <1>6
  <2>2. IsFiniteSet(D) /\ Cardinality(D) <= capacity_
    BY DEF LfuInv
  <2> QED BY <2>1, <2>2, <1>1, <1>6, <1>7, <1>8 DEF LfuInv
<1>10. Abstract!Use(k, v)
  <2>1. [j \in DOMAIN key2Node_' |-> key2Node_'[j].v] = [[j \in D |-> key2Node_[j].v] EXCEPT ![k] = v]
    BY <1>6
  <2>2. [j \in DOMAIN key2Node_' |-> key2Node_'[j].f] = [[j \in D |-> key2Node_[j].f] EXCEPT ![k] = f + 1]
    BY <1>6
  <2>3. Abstract!Counted(k) = f + 1
    BY DEF Abstract!Counted
  <2>4. Order' = Abstract!Ranked(k, f + 1, kept)
    <3>1. \A j \in kept : Abstract!Outranks(f + 1, j) <=> key2Node_[j].f <= f + 1
      BY DEF Abstract!Outranks
    <3> QED BY <3>1, <1>7 DEF Abstract!Ranked
  <2>5. DOMAIN [j \in DOMAIN key2Node_ |-> key2Node_[j].v] = D
    OBVIOUS
  <2> QED BY <2>1, <2>2, <2>3, <2>4, <2>5 DEF Abstract!Use
<1> QED BY <1>9, <1>10

\* A put of another key is one in the abstract cache: the key that a full cache loses is the
\* last one of its order.
LEMMA SameCardinality == \A S : Abstract!Cardinality(S) = Cardinality(S)
  BY DEF Cardinality, Abstract!Cardinality

LEMMA InsertIsInsert ==
    ASSUME LfuInv, NEW k \in Key, NEW v, Insert(k, v)
    PROVE  LfuInv' /\ Abstract!Insert(k, v)
<1> USE LfuAssumption
<1> DEFINE D == DOMAIN key2Node_
           count(j) == key2Node_[j].f
           lowest == freq2Keys_[lowestFreq_]
           full == Cardinality(D) = capacity_
           freqs == IF full THEN SetKeys(freq2Keys_, lowestFreq_, Front(lowest)) ELSE freq2Keys_
           kept == IF full THEN D \ {Last(lowest)} ELSE D
           Lasts == {j \in D : \A i \in D \ {j} : <<i, j>> \in Order}
<1>1. /\ D \subseteq Key /\ IsFiniteSet(D) /\ Cardinality(D) \in Nat /\ Cardinality(D) <= capacity_
      /\ \A j \in D : count(j) \in Nat \ {0} /\ lowestFreq_ <= count(j)
      /\ lowestFreq_ \in Nat /\ k \notin D
  BY FS_CardinalityType DEF LfuInv, Insert
<1>2. /\ freq2Keys_' = SetKeys(freqs, 1, <<k>> \o KeysAt(freqs, 1))
      /\ key2Node_' = [j \in kept \union {k} |-> IF j = k THEN [v |-> v, f |-> 1] ELSE key2Node_[j]]
      /\ lowestFreq_' = 1
  BY DEF Insert, ResetLowest
<1>3. /\ kept \subseteq D \ {k} /\ Leaves(freqs, kept)
      /\ IsFiniteSet(kept) /\ Cardinality(kept) \in Nat /\ Cardinality(kept) + 1 <= capacity_
      /\ IF Cardinality(D) < capacity_ THEN kept = D ELSE \E last \in Lasts : kept = D \ {last}
  <2>1. CASE full
    <3> DEFINE K == KeysOf(D, lowestFreq_)
               last == Last(lowest)
               front == Front(lowest)
    <3>1. D # {}
      <4>1. Cardinality({}) = 0
        BY FS_EmptySet
      <4> QED BY <2>1, <4>1
    <3>2. PICK j \in D : lowestFreq_ = count(j)
      BY <3>1 DEF LfuInv
    <3>3. K # {}
      BY <3>2 DEF KeysOf
    <3>4. lowestFreq_ \in DOMAIN freq2Keys_ /\ ListOf(KeysAt(freq2Keys_, lowestFreq_), K)
      BY <1>1, <3>3 DEF LfuInv, ListsOf
    <3>5. lowest = KeysAt(freq2Keys_, lowestFreq_)
      BY <3>4 DEF KeysAt
    <3>6. ListOf(lowest, K)
      BY <3>4, <3>5
    <3> HIDE DEF lowest, K
    <3>7. last \in K
      BY <3>3, <3>6, TakingLast
    <3>8. ListOf(front, K \ {last})
      BY <3>3, <3>6, TakingLast
    <3>9. \A a, b \in K \ {last} : Before(front, a, b) <=> Before(lowest, a, b)
      BY <3>3, <3>6, TakingLast
    <3>10. \A i \in K \ {last} : Before(lowest, i, last)
      BY <3>3, <3>6, TakingLast
    <3>11. last \in D /\ count(last) = lowestFreq_
      BY <3>7 DEF K, KeysOf
    <3> HIDE DEF last, front
    <3>12. Leaves(SetKeys(freq2Keys_, lowestFreq_, front), D \ {last})
      BY <3>5, <3>8, <3>9, <3>11, Losing DEF K
    <3>13. freqs = SetKeys(freq2Keys_, lowestFreq_, front) /\ kept = D \ {last}
      BY <2>1 DEF front, last
    <3>14. IsFiniteSet(kept) /\ Cardinality(kept) = Cardinality(D) - 1
      BY <1>1, <3>11, <3>13, FS_RemoveElement
    <3>15. ASSUME NEW i \in D \ {last} PROVE <<i, last>> \in Order
      <4>1. CASE count(i) = lowestFreq_
        <5>1. i \in K \ {last}
          BY <4>1 DEF K, KeysOf
        <5>2. Before(KeysAt(freq2Keys_, count(i)), i, last)
          BY <5>1, <4>1, <3>5, <3>10
        <5> QED BY <5>2, <4>1, <3>11 DEF Precedes, Order
      <4>2. CASE count(i) > lowestFreq_
        BY <4>2, <3>11 DEF Precedes, Order
      <4> QED BY <4>1, <4>2, <1>1
    <3>16. last \in Lasts
      BY <3>11, <3>15
    <3> HIDE DEF freqs, kept, Lasts
    <3> QED BY <2>1, <1>1, <3>12, <3>13, <3>14, <3>16
  <2>2. CASE ~ full
    <3>1. freqs = freq2Keys_ /\ kept = D /\ Cardinality(D) < capacity_
      BY <2>2, <1>1
    <3>2. Leaves(freq2Keys_, D)
      BY DEF Leaves, LfuInv
    <3> HIDE DEF freqs, kept
    <3> QED BY <1>1, <3>1, <3>2
  <2> QED BY <2>1, <2>2
<1> HIDE DEF freqs, kept
<1>4. /\ DOMAIN key2Node_' = kept \union {k}
      /\ key2Node_'[k].f = 1 /\ key2Node_'[k].v = v
      /\ \A j \in kept : key2Node_'[j] = key2Node_[j] /\ j # k
  BY <1>2, <1>3
<1>5. kept \subseteq DOMAIN key2Node_ /\ k \notin kept
  BY <1>3
<1> DEFINE R == {p \in Order : p[1] \in kept /\ p[2] \in kept}
                \union {<<k, j>> : j \in {j \in kept : key2Node_[j].f <= 1}}
                \union {<<j, k>> : j \in {j \in kept : ~ (key2Node_[j].f <= 1)}}
<1>6. ListsOf(freq2Keys_, DOMAIN key2Node_)' /\ Order' = R
  <2> DEFINE u == 1
             S == {p \in Order : p[1] \in kept /\ p[2] \in kept}
                    \union {<<k, j>> : j \in {j \in kept : key2Node_[j].f <= u}}
                    \union {<<j, k>> : j \in {j \in kept : ~ (key2Node_[j].f <= u)}}
  <2>1. /\ u \in Nat \ {0} /\ kept \subseteq DOMAIN key2Node_ \ {k} /\ Leaves(freqs, kept)
        /\ freq2Keys_' = SetKeys(freqs, u, <<k>> \o KeysAt(freqs, u))
        /\ DOMAIN key2Node_' = kept \union {k}
        /\ key2Node_'[k].f = u /\ \A j \in kept : key2Node_'[j].f = key2Node_[j].f
    BY <1>2, <1>3, <1>4
  <2> HIDE DEF u
  <2>2. ListsOf(freq2Keys_, DOMAIN key2Node_)'
    BY <2>1, Joining
  <2>3. Order' = S
    BY <2>1, Joining
  <2> QED BY <2>2, <2>3 DEF u
<1>8. LfuInv'
  <2>1. IsFiniteSet(kept \union {k}) /\ Cardinality(kept \union {k}) = Cardinality(kept) + 1
    BY <1>3, <1>5, FS_AddElement
  <2>2. \A j \in kept \union {k} : key2Node_'[j].f \in Nat \ {0}
    BY <1>1, <1>3, <1>4
  <2>3. kept \union {k} \subseteq Key
    BY <1>1, <1>3
  <2>4. /\ lowestFreq_' \in Nat
        /\ \A j \in kept \union {k} : lowestFreq_' <= key2Node_'[j].f
        /\ lowestFreq_' = key2Node_'[k].f
    BY <1>2, <1>4, <2>2
  <2> QED BY <2>1, <2>2, <2>3, <2>4, <1>3, <1>4, <1>6 DEF LfuInv
<1>9. Abstract!Insert(k, v)
  <2> DEFINE values == [j \in D |-> key2Node_[j].v]
             counts == [j \in D |-> key2Node_[j].f]
  <2>1. DOMAIN values = D /\ DOMAIN counts = D
    OBVIOUS
  <2>2. kept \in Abstract!Kept
    <3>1. CASE Cardinality(D) < capacity_
      BY <3>1, <1>3, <2>1, SameCardinality DEF Abstract!Kept
    <3>2. CASE ~ (Cardinality(D) < capacity_)
      <4>1. PICK last \in Lasts : kept = D \ {last}
        BY <3>2, <1>3
      <4> QED BY <3>2, <4>1, <2>1, SameCardinality DEF Abstract!Kept
    <3> QED BY <3>1, <3>2
  <2>3. [j \in DOMAIN key2Node_' |-> key2Node_'[j].v] = [j \in kept \union {k} |-> IF j = k THEN v ELSE values[j]]
    BY <1>3, <1>4
  <2>4. [j \in DOMAIN key2Node_' |-> key2Node_'[j].f] = [j \in kept \union {k} |-> IF j = k THEN 1 ELSE counts[j]]
    BY <1>3, <1>4
  <2>5. Order' = Abstract!Ranked(k, 1, kept)
    <3>1. \A j \in kept : Abstract!Outranks(1, j) <=> key2Node_[j].f <= 1
      BY <1>3 DEF Abstract!Outranks
    <3> QED BY <3>1, <1>6 DEF Abstract!Ranked
  <2> QED BY <2>1, <2>2, <2>3, <2>4, <2>5, <1>1 DEF Abstract!Insert
<1> QED BY <1>8, <1>9

LEMMA StandingStill ==
    ASSUME LfuInv, UNCHANGED <<key2Node_, freq2Keys_, lowestFreq_>>
    PROVE  LfuInv' /\ Order' = Order
<1>1. \A f : KeysOf(DOMAIN key2Node_, f)' = KeysOf(DOMAIN key2Node_, f) /\ KeysAt(freq2Keys_, f)' = KeysAt(freq2Keys_, f)
  BY DEF KeysOf, KeysAt
<1>2. ListsOf(freq2Keys_, DOMAIN key2Node_)' = ListsOf(freq2Keys_, DOMAIN key2Node_)
  <2>1. {f \in Nat : KeysOf(DOMAIN key2Node_, f)' # {}} = {f \in Nat : KeysOf(DOMAIN key2Node_, f) # {}}
    BY <1>1
  <2>2. \A f : ListOf(KeysAt(freq2Keys_, f), KeysOf(DOMAIN key2Node_, f))' <=> ListOf(KeysAt(freq2Keys_, f), KeysOf(DOMAIN key2Node_, f))
    BY <1>1 DEF ListOf
  <2> QED BY <2>1, <2>2 DEF ListsOf
<1>3. LfuInv'
  BY <1>2 DEF LfuInv
<1>4. \A a, b : Precedes(a, b)' = Precedes(a, b)
  BY DEF Precedes, KeysAt, Before
<1> QED BY <1>3, <1>4 DEF Order

\* The cache is the abstract one: it loses, of the keys with the lowest count, the one used
\* least recently (get, put of lfu_cache.cc).
THEOREM LfuImplements == LfuSpec => EvictsLeastUsed
<1>1. LfuInit => LfuInv /\ Abstract!Init
  <2> SUFFICES ASSUME LfuInit PROVE LfuInv /\ Abstract!Init
    OBVIOUS
  <2>1. DOMAIN key2Node_ = {} /\ DOMAIN freq2Keys_ = {} /\ lowestFreq_ = 1
    BY DEF LfuInit
  <2>2. IsFiniteSet({}) /\ Cardinality({}) = 0
    BY FS_EmptySet
  <2>3. ListsOf(freq2Keys_, DOMAIN key2Node_)
    BY <2>1, ListOfNone DEF ListsOf, KeysOf, KeysAt
  <2>4. LfuInv
    BY <2>1, <2>2, <2>3, LfuAssumption DEF LfuInv
  <2>5. Order = {}
    BY <2>1 DEF Order
  <2>6. [j \in DOMAIN key2Node_ |-> key2Node_[j].v] = <<>> /\ [j \in DOMAIN key2Node_ |-> key2Node_[j].f] = <<>>
    BY <2>1
  <2> QED BY <2>4, <2>5, <2>6 DEF Abstract!Init, LfuInit
<1>2. LfuInv /\ [LfuNext]_lfuVars => LfuInv' /\ [Abstract!Next]_(Abstract!vars)
  <2> SUFFICES ASSUME LfuInv, [LfuNext]_lfuVars PROVE LfuInv' /\ [Abstract!Next]_(Abstract!vars)
    OBVIOUS
  <2> USE DEF Abstract!Next
  <2>1. ASSUME NEW k \in Key, LfuGet(k) PROVE LfuInv' /\ [Abstract!Next]_(Abstract!vars)
    <3>1. CASE k \in DOMAIN key2Node_
      <4>1. Use(k, key2Node_[k].v) /\ result' = key2Node_[k].v
        BY <2>1, <3>1 DEF LfuGet
      <4>2. PICK v : v = key2Node_[k].v
        OBVIOUS
      <4>3. Use(k, v)
        BY <4>1, <4>2
      <4>4. LfuInv' /\ Abstract!Use(k, v)
        BY <3>1, <4>3, UseIsUse
      <4>5. [j \in DOMAIN key2Node_ |-> key2Node_[j].v][k] = v
        BY <3>1, <4>2
      <4>6. Abstract!Get(k)
        <5>1. k \in DOMAIN [j \in DOMAIN key2Node_ |-> key2Node_[j].v] /\ result' = v
          BY <3>1, <4>1, <4>2
        <5> QED BY <4>4, <4>5, <5>1 DEF Abstract!Get, Abstract!Use
      <4> QED BY <4>4, <4>6
    <3>2. CASE k \notin DOMAIN key2Node_
      <4>1. result' = None /\ UNCHANGED <<key2Node_, freq2Keys_, lowestFreq_>>
        BY <2>1, <3>2 DEF LfuGet
      <4>2. LfuInv' /\ Order' = Order
        BY <4>1, StandingStill
      <4>3. Abstract!Get(k)
        BY <3>2, <4>1, <4>2 DEF Abstract!Get
      <4> QED BY <4>2, <4>3
    <3> QED BY <3>1, <3>2
  <2>2. ASSUME NEW k \in Key, NEW v \in Value, Overwrite(k, v) PROVE LfuInv' /\ [Abstract!Next]_(Abstract!vars)
    <3>1. k \in DOMAIN key2Node_ /\ Use(k, v) /\ result' = None
      BY <2>2 DEF Overwrite
    <3>2. LfuInv' /\ Abstract!Use(k, v)
      BY <3>1, UseIsUse
    <3> QED BY <3>1, <3>2 DEF Abstract!Put
  <2>3. ASSUME NEW k \in Key, NEW v \in Value, Insert(k, v) PROVE LfuInv' /\ [Abstract!Next]_(Abstract!vars)
    <3>1. result' = None
      BY <2>3 DEF Insert
    <3>2. LfuInv' /\ Abstract!Insert(k, v)
      BY <2>3, InsertIsInsert
    <3> QED BY <3>1, <3>2 DEF Abstract!Put
  <2>4. CASE UNCHANGED lfuVars
    <3>1. LfuInv' /\ Order' = Order
      BY <2>4, StandingStill DEF lfuVars
    <3> QED BY <2>4, <3>1 DEF lfuVars, Abstract!vars
  <2> QED BY <2>1, <2>2, <2>3, <2>4 DEF LfuNext
<1> QED BY <1>1, <1>2, PTL DEF LfuSpec, EvictsLeastUsed, Abstract!Spec

-----------------------------------------------------------------------------
(***************************************************************************)
(* LruCache.                                                               *)
(***************************************************************************)
\* The nodes from head_ to tail_, with the keys of s between them, and that they are linked.
Chain(s, i) == IF i = 0 THEN Head_ ELSE IF i = Len(s) + 1 THEN Tail_ ELSE s[i]
Chained(s, nx, pv) ==
    /\ nx \in [Node -> Node \union {nullptr}] /\ pv \in [Node -> Node \union {nullptr}]
    /\ \A i \in 0 .. Len(s) : nx[Chain(s, i)] = Chain(s, i + 1) /\ pv[Chain(s, i + 1)] = Chain(s, i)

\* The nodes of a chain differ from each other.
LEMMA ChainOfNodes ==
    ASSUME NEW K, K \subseteq LruKey, NEW s, ListOf(s, K)
    PROVE  /\ Len(s) \in Nat
           /\ Chain(s, 0) = Head_ /\ Chain(s, Len(s) + 1) = Tail_
           /\ \A i \in 1 .. Len(s) : Chain(s, i) = s[i] /\ Chain(s, i) \in K
           /\ \A i \in 0 .. Len(s) + 1 : Chain(s, i) \in Node
           /\ \A i, j \in 0 .. Len(s) + 1 : Chain(s, i) = Chain(s, j) => i = j
<1> DEFINE N == Len(s)
<1>1. s \in Seq(K) /\ N \in Nat /\ \A i, j \in 1 .. N : s[i] = s[j] => i = j
  BY DEF ListOf
<1>2. Chain(s, 0) = Head_ /\ Chain(s, N + 1) = Tail_
  BY <1>1 DEF Chain
<1>3. \A i \in 1 .. N : Chain(s, i) = s[i] /\ Chain(s, i) \in K
  <2>1. \A i \in 1 .. N : s[i] \in K
    BY <1>1, ElementOfSeq
  <2> QED BY <1>1, <2>1 DEF Chain
<1>4. \A i \in 0 .. N + 1 : i = 0 \/ i = N + 1 \/ i \in 1 .. N
  BY <1>1
<1>5. Head_ \notin K /\ Tail_ \notin K /\ Head_ # Tail_
  BY LruAssumption DEF Head_, Tail_
<1>6. \A i \in 0 .. N + 1 : Chain(s, i) \in Node
  BY <1>2, <1>3, <1>4 DEF Node
<1>7. ASSUME NEW i \in 0 .. N + 1, NEW j \in 0 .. N + 1, Chain(s, i) = Chain(s, j) PROVE i = j
  BY <1>1, <1>2, <1>3, <1>4, <1>5, <1>7
<1> QED BY <1>1, <1>2, <1>3, <1>6, <1>7

\* pushToHead puts a node before the first one.
LEMMA PushingToHead ==
    ASSUME NEW K, K \subseteq LruKey, NEW s, ListOf(s, K), NEW nx, NEW pv, Chained(s, nx, pv),
           NEW p \in LruKey, p \notin K
    PROVE  LET l == pushToHead([next |-> nx, prev |-> pv], p) IN Chained(<<p>> \o s, l.next, l.prev)
<1> DEFINE N == Len(s)
           r == <<p>> \o s
           first == nx[Head_]
           nx2 == [nx EXCEPT ![p] = first, ![Head_] = p]
           pv2 == [pv EXCEPT ![first] = p, ![p] = Head_]
<1>1. /\ N \in Nat
      /\ Chain(s, 0) = Head_ /\ Chain(s, N + 1) = Tail_
      /\ \A i \in 1 .. N : Chain(s, i) = s[i] /\ Chain(s, i) \in K
      /\ \A i \in 0 .. N + 1 : Chain(s, i) \in Node
      /\ \A i, j \in 0 .. N + 1 : Chain(s, i) = Chain(s, j) => i = j
  BY ChainOfNodes
<1>2. /\ nx \in [Node -> Node \union {nullptr}] /\ pv \in [Node -> Node \union {nullptr}]
      /\ \A i \in 0 .. N : nx[Chain(s, i)] = Chain(s, i + 1) /\ pv[Chain(s, i + 1)] = Chain(s, i)
  BY DEF Chained
<1>3. /\ Len(r) = N + 1 /\ Chain(r, 0) = Head_ /\ Chain(r, 1) = p
      /\ \A i \in 1 .. N + 1 : Chain(r, i + 1) = Chain(s, i)
  <2>1. Len(r) = N + 1 /\ r[1] = p /\ \A i \in 1 .. N : r[i + 1] = s[i]
    <3>1. s \in Seq(K \union {p}) /\ <<p>> \in Seq(K \union {p})
      <4>1. s \in Seq(K) /\ \A i \in 1 .. N : s[i] \in K \union {p}
        BY <1>1 DEF ListOf
      <4> QED BY <4>1, SequenceOf
    <3>2. /\ Len(r) = 1 + N
          /\ \A i \in 1 .. 1 + N : r[i] = IF i <= 1 THEN <<p>>[i] ELSE s[i - 1]
      BY <3>1, ConcatProperties
    <3> HIDE DEF r
    <3>3. ASSUME NEW i \in 1 .. N PROVE r[i + 1] = s[i]
      <4>1. i + 1 \in 1 .. 1 + N /\ ~ (i + 1 <= 1) /\ (i + 1) - 1 = i
        BY <1>1
      <4> QED BY <4>1, <3>2
    <3> QED BY <1>1, <3>2, <3>3
  <2> HIDE DEF r
  <2>2. Chain(r, 0) = Head_ /\ Chain(r, 1) = p
    BY <1>1, <2>1 DEF Chain
  <2>3. ASSUME NEW i \in 1 .. N + 1 PROVE Chain(r, i + 1) = Chain(s, i)
    BY <1>1, <2>1 DEF Chain
  <2> QED BY <2>1, <2>2, <2>3
<1>4. first = Chain(s, 1) /\ first \in Node /\ p \in Node /\ Head_ \in Node
      /\ p # Head_ /\ p # first /\ \A i \in 0 .. N + 1 : Chain(s, i) # p
  <2>1. first = Chain(s, 1)
    BY <1>1, <1>2
  <2>2. p # Head_ /\ p # Tail_
    BY LruAssumption
  <2>3. ASSUME NEW i \in 0 .. N + 1 PROVE Chain(s, i) # p
    BY <1>1, <2>2
  <2> QED BY <1>1, <2>1, <2>2, <2>3 DEF Node
<1> HIDE DEF r, first
<1>5. nx2 \in [Node -> Node \union {nullptr}] /\ pv2 \in [Node -> Node \union {nullptr}]
  BY <1>2, <1>4
<1>6. ASSUME NEW i \in 0 .. N + 1
      PROVE  nx2[Chain(r, i)] = Chain(r, i + 1) /\ pv2[Chain(r, i + 1)] = Chain(r, i)
  <2>1. CASE i = 0
    BY <2>1, <1>2, <1>3, <1>4
  <2>2. CASE i = 1
    <3>1. Chain(r, 1 + 1) = first
      BY <1>1, <1>3, <1>4
    <3> QED BY <2>2, <3>1, <1>2, <1>3, <1>4
  <2>3. CASE i > 1
    <3> DEFINE j == i - 1
    <3>1. j \in 1 .. N /\ i = j + 1 /\ j \in 0 .. N /\ j + 1 \in 0 .. N + 1 /\ j + 1 # 1 /\ j # 0
      BY <2>3, <1>1
    <3> HIDE DEF j
    <3>2. Chain(r, i) = Chain(s, j) /\ Chain(r, i + 1) = Chain(s, j + 1)
      BY <3>1, <1>1, <1>3
    <3>3. Chain(s, j) # Head_ /\ Chain(s, j + 1) # first
      BY <3>1, <1>1, <1>4
    <3>4. nx2[Chain(s, j)] = nx[Chain(s, j)] /\ pv2[Chain(s, j + 1)] = pv[Chain(s, j + 1)]
      BY <3>1, <3>3, <1>1, <1>2, <1>4
    <3> QED BY <3>1, <3>2, <3>4, <1>2
  <2> QED BY <2>1, <2>2, <2>3, <1>1
<1>7. Chained(r, nx2, pv2)
  BY <1>3, <1>5, <1>6 DEF Chained
<1> QED BY <1>7 DEF pushToHead, r, first

\* unlinkNode links the neighbours of a node with each other.
LEMMA Unlinking ==
    ASSUME NEW K, K \subseteq LruKey, NEW s, ListOf(s, K), NEW nx, NEW pv, Chained(s, nx, pv),
           NEW j \in 1 .. Len(s)
    PROVE  LET l == unlinkNode([next |-> nx, prev |-> pv], s[j]) IN Chained(RemoveAt(s, j), l.next, l.prev)
<1> DEFINE N == Len(s)
           r == RemoveAt(s, j)
           p == s[j]
           nx2 == [nx EXCEPT ![pv[p]] = nx[p]]
           pv2 == [pv EXCEPT ![nx[p]] = pv[p]]
           Old(i) == IF i < j THEN i ELSE i + 1
<1>1. /\ N \in Nat /\ j \in 1 .. N
      /\ Chain(s, 0) = Head_ /\ Chain(s, N + 1) = Tail_
      /\ \A i \in 1 .. N : Chain(s, i) = s[i] /\ Chain(s, i) \in K
      /\ \A i \in 0 .. N + 1 : Chain(s, i) \in Node
      /\ \A i, m \in 0 .. N + 1 : Chain(s, i) = Chain(s, m) => i = m
  BY ChainOfNodes
<1>2. /\ nx \in [Node -> Node \union {nullptr}] /\ pv \in [Node -> Node \union {nullptr}]
      /\ \A i \in 0 .. N : nx[Chain(s, i)] = Chain(s, i + 1) /\ pv[Chain(s, i + 1)] = Chain(s, i)
  BY DEF Chained
<1>3. /\ Len(r) = N - 1
      /\ \A i \in 0 .. N : Old(i) \in 0 .. N + 1 /\ Chain(r, i) = Chain(s, Old(i))
  <2>1. Len(r) = N - 1 /\ \A i \in 1 .. N - 1 : r[i] = IF i < j THEN s[i] ELSE s[i + 1]
    <3>1. s \in Seq(K)
      BY DEF ListOf
    <3> QED BY <3>1, Removing
  <2> HIDE DEF r
  <2>2. ASSUME NEW i \in 0 .. N PROVE Old(i) \in 0 .. N + 1 /\ Chain(r, i) = Chain(s, Old(i))
    BY <1>1, <2>1 DEF Chain
  <2> QED BY <2>1, <2>2
<1>4. nx[p] = Chain(s, j + 1) /\ pv[p] = Chain(s, j - 1) /\ nx[p] \in Node /\ pv[p] \in Node
  <2>1. j \in 0 .. N /\ j - 1 \in 0 .. N /\ (j - 1) + 1 = j /\ j + 1 \in 0 .. N + 1 /\ j - 1 \in 0 .. N + 1
    BY <1>1
  <2> QED BY <2>1, <1>1, <1>2
<1> HIDE DEF r, p
<1>5. nx2 \in [Node -> Node \union {nullptr}] /\ pv2 \in [Node -> Node \union {nullptr}]
  BY <1>2, <1>4
<1>6. ASSUME NEW i \in 0 .. N - 1
      PROVE  nx2[Chain(r, i)] = Chain(r, i + 1) /\ pv2[Chain(r, i + 1)] = Chain(r, i)
  <2>1. i \in 0 .. N /\ i + 1 \in 0 .. N /\ j - 1 \in 0 .. N + 1 /\ j + 1 \in 0 .. N + 1
    BY <1>1
  <2>2. /\ Chain(r, i) = Chain(s, Old(i)) /\ Chain(r, i + 1) = Chain(s, Old(i + 1))
        /\ Old(i) \in 0 .. N + 1 /\ Old(i + 1) \in 0 .. N + 1
    BY <2>1, <1>3
  <2>3. CASE i = j - 1
    <3>1. Old(i) = j - 1 /\ Old(i + 1) = j + 1
      BY <2>3, <1>1
    <3> QED BY <3>1, <2>2, <1>2, <1>4
  <2>4. CASE i # j - 1
    <3>1. Old(i + 1) = Old(i) + 1 /\ Old(i) \in 0 .. N /\ Old(i) # j - 1 /\ Old(i + 1) # j + 1
      BY <2>1, <2>4, <1>1
    <3> HIDE DEF Old
    <3>2. Chain(s, Old(i)) # pv[p] /\ Chain(s, Old(i + 1)) # nx[p]
      BY <3>1, <2>1, <2>2, <1>1, <1>4
    <3>3. nx2[Chain(r, i)] = nx[Chain(r, i)] /\ pv2[Chain(r, i + 1)] = pv[Chain(r, i + 1)]
      BY <3>2, <2>2, <1>1, <1>2, <1>4
    <3> QED BY <3>1, <3>3, <2>2, <1>2
  <2> QED BY <2>3, <2>4
<1>7. Chained(r, nx2, pv2)
  BY <1>3, <1>5, <1>6 DEF Chained
<1> QED BY <1>7 DEF unlinkNode, r, p

\* popTail takes the node before the tail out.
Evicted(s, l) == Chained(Front(s), l.next, l.prev)

LEMMA Evicting ==
    ASSUME NEW K, K \subseteq LruKey, NEW s, ListOf(s, K), NEW nx, NEW pv, Chained(s, nx, pv), K # {}
    PROVE  pv[Tail_] = Last(s) /\ Evicted(s, Evict([next |-> nx, prev |-> pv]))
<1> DEFINE N == Len(s)
           r == Front(s)
           p == pv[Tail_]
           before == pv[p]
           nx2 == [nx EXCEPT ![before] = Tail_, ![p] = nullptr]
           pv2 == [pv EXCEPT ![Tail_] = before, ![p] = nullptr]
<1>1. /\ N \in Nat /\ Chain(s, N + 1) = Tail_ /\ Chain(s, 0) = Head_
      /\ \A i \in 1 .. N : Chain(s, i) = s[i] /\ Chain(s, i) \in K
      /\ \A i \in 0 .. N + 1 : Chain(s, i) \in Node
      /\ \A i, m \in 0 .. N + 1 : Chain(s, i) = Chain(s, m) => i = m
  BY ChainOfNodes
<1>2. /\ nx \in [Node -> Node \union {nullptr}] /\ pv \in [Node -> Node \union {nullptr}]
      /\ \A i \in 0 .. N : nx[Chain(s, i)] = Chain(s, i + 1) /\ pv[Chain(s, i + 1)] = Chain(s, i)
  BY DEF Chained
<1>3. N >= 1
  <2>1. PICK k \in K : TRUE
    OBVIOUS
  <2>2. \E i \in 1 .. N : s[i] = k
    BY DEF ListOf
  <2> QED BY <2>2, <1>1
<1>4. p = Chain(s, N) /\ before = Chain(s, N - 1) /\ p = Last(s) /\ p \in Node /\ before \in Node /\ Tail_ \in Node
  <2>1. N \in 0 .. N /\ N \in 1 .. N /\ N - 1 \in 0 .. N /\ (N - 1) + 1 = N /\ N + 1 \in 0 .. N + 1 /\ N \in 0 .. N + 1
    BY <1>1, <1>3
  <2>2. p = Chain(s, N)
    BY <2>1, <1>1, <1>2
  <2>3. before = Chain(s, N - 1)
    BY <2>1, <2>2, <1>2
  <2> QED BY <2>1, <2>2, <2>3, <1>1 DEF Last
<1>5. /\ Len(r) = N - 1
      /\ \A i \in 0 .. N - 1 : Chain(r, i) = Chain(s, i)
      /\ Chain(r, N) = Tail_
  <2>1. s \in Seq(K)
    BY DEF ListOf
  <2>2. Len(r) = N - 1 /\ \A i \in 1 .. N - 1 : r[i] = s[i]
    <3>1. PICK e \in Nat : e = N - 1
      BY <1>1, <1>3
    <3>2. 1 \in 1 .. Len(s) + 1 /\ e \in 0 .. Len(s)
      BY <3>1, <1>1
    <3>3. Len(SubSeq(s, 1, e)) = e /\ \A i \in 1 .. e : SubSeq(s, 1, e)[i] = s[i]
      BY <2>1, <3>1, <3>2, SubSeqProperties
    <3> QED BY <3>1, <3>3 DEF Front
  <2> HIDE DEF r
  <2>3. ASSUME NEW i \in 0 .. N - 1 PROVE Chain(r, i) = Chain(s, i)
    BY <1>1, <1>3, <2>2 DEF Chain
  <2>4. Chain(r, N) = Tail_
    BY <1>1, <1>3, <2>2 DEF Chain
  <2> QED BY <2>2, <2>3, <2>4
<1> HIDE DEF r, p, before
<1>6. nx2 \in [Node -> Node \union {nullptr}] /\ pv2 \in [Node -> Node \union {nullptr}]
  BY <1>2, <1>4
<1>7. ASSUME NEW i \in 0 .. N - 1
      PROVE  nx2[Chain(r, i)] = Chain(r, i + 1) /\ pv2[Chain(r, i + 1)] = Chain(r, i)
  <2>1. /\ i \in 0 .. N /\ i \in 0 .. N + 1 /\ i + 1 \in 0 .. N + 1 /\ i # N /\ N - 1 \in 0 .. N + 1
        /\ N \in 0 .. N + 1 /\ N + 1 \in 0 .. N + 1 /\ N # N + 1
    BY <1>1
  <2>2. Chain(r, i) = Chain(s, i) /\ Chain(s, i) \in Node /\ Chain(s, i) # p /\ Tail_ # p
    BY <2>1, <1>1, <1>4, <1>5
  <2>3. CASE i = N - 1
    <3>1. Chain(r, i + 1) = Tail_ /\ Chain(s, i) = before
      BY <2>3, <1>1, <1>4, <1>5
    <3> QED BY <3>1, <2>2, <1>2, <1>4
  <2>4. CASE i # N - 1
    <3>1. i + 1 \in 0 .. N - 1 /\ i + 1 # N /\ i + 1 # N + 1
      BY <2>1, <2>4, <1>1
    <3>2. Chain(r, i + 1) = Chain(s, i + 1) /\ Chain(s, i + 1) # p /\ Chain(s, i + 1) # Tail_ /\ Chain(s, i) # before
      BY <3>1, <2>1, <2>4, <1>1, <1>4, <1>5
    <3>3. nx2[Chain(s, i)] = nx[Chain(s, i)] /\ pv2[Chain(s, i + 1)] = pv[Chain(s, i + 1)]
      BY <3>2, <2>1, <2>2, <1>1, <1>2, <1>4
    <3> QED BY <3>2, <3>3, <2>1, <2>2, <1>2
  <2> QED BY <2>3, <2>4
<1>8. Chained(r, nx2, pv2)
  BY <1>5, <1>6, <1>7 DEF Chained
<1> QED BY <1>4, <1>8 DEF Evict, Evicted, r, p, before

\* One node leads to another along next when it comes before it in the list.
LinkedIn(K, nx, a, b) ==
    \E m \in 2 .. Cardinality(K) : \E p \in [1 .. m -> K] :
        p[1] = a /\ p[m] = b /\ \A i \in 1 .. m - 1 : nx[p[i]] = p[i + 1]

LEMMA SizeOfList ==
    ASSUME NEW K, NEW s, ListOf(s, K)
    PROVE  IsFiniteSet(K) /\ Cardinality(K) = Len(s)
<1> DEFINE N == Len(s)
<1>1. s \in Seq(K) /\ N \in Nat
  BY DEF ListOf
<1>2. s \in [1 .. N -> K]
  BY <1>1
<1>3. s \in Bijection(1 .. N, K)
  BY <1>2 DEF ListOf, Bijection, Injection, Surjection, IsInjective
<1>4. ExistsBijection(1 .. N, K)
  BY <1>3 DEF ExistsBijection
<1>5. IsFiniteSet(1 .. N) /\ Cardinality(K) = N
  BY <1>1, <1>4, FS_Interval, FS_CountingElements
<1> QED BY <1>4, <1>5, FS_Bijection

LEMMA LinkedIsBefore ==
    ASSUME NEW K, K \subseteq LruKey, NEW s, ListOf(s, K), NEW nx, NEW pv, Chained(s, nx, pv),
           NEW a \in K, NEW b \in K
    PROVE  LinkedIn(K, nx, a, b) <=> Before(s, a, b)
<1> DEFINE N == Len(s)
<1>1. /\ N \in Nat /\ Chain(s, N + 1) = Tail_
      /\ \A i \in 1 .. N : Chain(s, i) = s[i] /\ Chain(s, i) \in K
  BY ChainOfNodes
<1>2. \A i \in 0 .. N : nx[Chain(s, i)] = Chain(s, i + 1)
  BY DEF Chained
<1>3. Cardinality(K) = N /\ Tail_ \notin K
  BY SizeOfList, LruAssumption
<1>4. ASSUME Before(s, a, b) PROVE LinkedIn(K, nx, a, b)
  <2>1. PICK i \in 1 .. N, j \in 1 .. N : i < j /\ s[i] = a /\ s[j] = b
    BY <1>4 DEF Before
  <2> DEFINE m == j - i + 1
             p == [q \in 1 .. m |-> s[i + q - 1]]
  <2>2. m \in 2 .. N /\ m \in 1 .. m /\ 1 \in 1 .. m /\ i + m - 1 = j /\ i + 1 - 1 = i
    BY <2>1, <1>1
  <2>3. \A q \in 1 .. m : i + q - 1 \in 1 .. N
    BY <2>1, <1>1
  <2>4. p \in [1 .. m -> K] /\ p[1] = a /\ p[m] = b
    BY <2>1, <2>2, <2>3, <1>1
  <2>5. ASSUME NEW q \in 1 .. m - 1 PROVE nx[p[q]] = p[q + 1]
    <3>1. q \in 1 .. m /\ q + 1 \in 1 .. m /\ i + (q + 1) - 1 = (i + q - 1) + 1
      BY <2>1, <2>2
    <3>2. p[q] = Chain(s, i + q - 1) /\ p[q + 1] = Chain(s, (i + q - 1) + 1)
      BY <3>1, <2>3, <1>1
    <3>3. i + q - 1 \in 0 .. N
      BY <3>1, <2>3, <1>1
    <3> QED BY <3>2, <3>3, <1>2
  <2> HIDE DEF p, m
  <2> QED BY <2>2, <2>4, <2>5, <1>3 DEF LinkedIn
<1>5. ASSUME LinkedIn(K, nx, a, b) PROVE Before(s, a, b)
  <2>0. PICK m \in 2 .. N : \E p \in [1 .. m -> K] :
            p[1] = a /\ p[m] = b /\ \A i \in 1 .. m - 1 : nx[p[i]] = p[i + 1]
    BY <1>3, <1>5 DEF LinkedIn
  <2>1. PICK p \in [1 .. m -> K] : p[1] = a /\ p[m] = b /\ \A i \in 1 .. m - 1 : nx[p[i]] = p[i + 1]
    BY <2>0
  <2>2. PICK i \in 1 .. N : s[i] = a
    BY DEF ListOf
  <2> DEFINE Lost == {q \in 1 .. m : ~ (i + q - 1 \in 1 .. N /\ p[q] = s[i + q - 1])}
  <2>3. Lost = {}
    <3> SUFFICES ASSUME Lost # {} PROVE FALSE
      OBVIOUS
    <3>1. PICK q \in Lost : \A x \in Lost : q <= x
      <4>1. Lost \subseteq Nat
        OBVIOUS
      <4> HIDE DEF Lost
      <4> QED BY <4>1, LeastNatural
    <3>2. q \in 1 .. m /\ ~ (i + q - 1 \in 1 .. N /\ p[q] = s[i + q - 1])
      BY <3>1
    <3>3. q # 1
      BY <2>1, <2>2, <3>2
    <3> DEFINE o == q - 1
    <3>4. o \in 1 .. m - 1 /\ o \in 1 .. m /\ o + 1 = q /\ o \notin Lost
      BY <3>1, <3>2, <3>3
    <3>5. i + o - 1 \in 1 .. N /\ p[o] = s[i + o - 1]
      BY <3>4
    <3> DEFINE y == i + o - 1
    <3>6. y \in 1 .. N /\ y + 1 = i + q - 1 /\ y \in 0 .. N
      BY <3>4, <3>5, <2>2, <1>1
    <3>7. p[q] = nx[p[o]] /\ p[q] \in K
      BY <3>2, <3>4, <2>1
    <3>8. p[o] = Chain(s, y)
      BY <3>5, <3>6, <1>1
    <3> HIDE DEF y, o
    <3>9. p[q] = Chain(s, y + 1)
      BY <3>6, <3>7, <3>8, <1>2
    <3>10. y + 1 \in 1 .. N
      BY <3>6, <3>7, <3>9, <1>1, <1>3
    <3> QED BY <3>2, <3>6, <3>9, <3>10, <1>1
  <2>4. i + m - 1 \in 1 .. N /\ p[m] = s[i + m - 1]
    <3>1. m \in 1 .. m
      BY <2>1
    <3> QED BY <3>1, <2>3
  <2>5. i < i + m - 1
    BY <2>1, <2>2
  <2> QED BY <2>1, <2>2, <2>4, <2>5 DEF Before
<1> QED BY <1>4, <1>5

\* The keys of the cache, the last used first, as the list or the links keep them.
Recent(s) ==
    /\ ListOf(s, DOMAIN nodes_)
    /\ IF cache = "list" THEN s = recencyList_ ELSE Chained(s, next, prev)

LruInv ==
    /\ cache \in {"pointers", "list"}
    /\ DOMAIN nodes_ \subseteq LruKey /\ nodes_ \in [DOMAIN nodes_ -> LruValue]
    /\ Cardinality(DOMAIN nodes_) <= maxItems_
    /\ \E s \in Seq(DOMAIN nodes_) : Recent(s)

LEMMA RecencyIs ==
    ASSUME LruInv, NEW s, Recent(s)
    PROVE  Recency = {p \in (DOMAIN nodes_) \X (DOMAIN nodes_) : Before(s, p[1], p[2])}
<1> DEFINE D == DOMAIN nodes_
<1>1. ListOf(s, D) /\ D \subseteq LruKey
  BY DEF Recent, LruInv
<1>2. ASSUME NEW a \in D, NEW b \in D, cache = "list" PROVE Listed(a, b) <=> Before(s, a, b)
  BY <1>2 DEF Recent, Listed, Before
<1>3. ASSUME NEW a \in D, NEW b \in D, cache # "list" PROVE Linked(a, b) <=> Before(s, a, b)
  <2>1. PICK nx, pv : nx = next /\ pv = prev /\ Chained(s, nx, pv)
    BY <1>3 DEF Recent
  <2>2. PICK K : K = D
    OBVIOUS
  <2>3. LinkedIn(K, nx, a, b) <=> Before(s, a, b)
    BY <2>1, <2>2, <1>1, LinkedIsBefore
  <2> QED BY <2>1, <2>2, <2>3 DEF Linked, LinkedIn
<1> QED BY <1>2, <1>3 DEF Recency

LEMMA RecencyWillBe ==
    ASSUME LruInv', NEW s, Recent(s)'
    PROVE  Recency' = {p \in (DOMAIN nodes_') \X (DOMAIN nodes_') : Before(s, p[1], p[2])}
<1> DEFINE D == DOMAIN nodes_'
<1>1. ListOf(s, D) /\ D \subseteq LruKey
  BY DEF Recent, LruInv
<1>2. ASSUME NEW a \in D, NEW b \in D, cache' = "list" PROVE Listed(a, b)' <=> Before(s, a, b)
  BY <1>2 DEF Recent, Listed, Before
<1>3. ASSUME NEW a \in D, NEW b \in D, cache' # "list" PROVE Linked(a, b)' <=> Before(s, a, b)
  <2>1. PICK nx, pv : nx = next' /\ pv = prev' /\ Chained(s, nx, pv)
    BY <1>3 DEF Recent
  <2>2. PICK K : K = D
    OBVIOUS
  <2>3. LinkedIn(K, nx, a, b) <=> Before(s, a, b)
    BY <2>1, <2>2, <1>1, LinkedIsBefore
  <2> QED BY <2>1, <2>2, <2>3 DEF Linked, LinkedIn
<1> QED BY <1>2, <1>3 DEF Recency

\* A key that is put before those that are kept: the order is that of the abstract cache.
LEMMA FirstIsRanked ==
    ASSUME LruInv, LruInv', NEW s, Recent(s), NEW k \in LruKey,
           NEW kept, kept \subseteq DOMAIN nodes_ \ {k}, NEW q, ListOf(q, kept),
           \A a, b \in kept : Before(q, a, b) <=> Before(s, a, b),
           DOMAIN nodes_' = kept \union {k}, Recent(<<k>> \o q)'
    PROVE  Recency' = Lru!Ranked(k, 1, kept)
<1> DEFINE r == <<k>> \o q
           D == DOMAIN nodes_
           all == kept \union {k}
           R == {p \in Recency : p[1] \in kept /\ p[2] \in kept} \union {<<k, j>> : j \in kept}
<1>1. k \notin kept /\ kept \subseteq D
  OBVIOUS
<1>2. /\ \A a, b \in kept : Before(r, a, b) <=> Before(q, a, b)
      /\ \A j \in kept : Before(r, k, j)
      /\ \A j : ~ Before(r, j, k)
  BY <1>1, PuttingFirst
<1>3. Recency = {p \in D \X D : Before(s, p[1], p[2])}
  BY RecencyIs
<1>4. Recency' = {p \in all \X all : Before(r, p[1], p[2])}
  <2> HIDE DEF r
  <2>1. Recent(r)'
    BY DEF r
  <2> QED BY <2>1, RecencyWillBe
<1> HIDE DEF r
<1>5. R \subseteq all \X all
  BY <1>3
<1>6. ASSUME NEW a \in all, NEW b \in all PROVE <<a, b>> \in R <=> Before(r, a, b)
  <2>1. CASE a \in kept /\ b \in kept
    <3>1. <<a, b>> \in R <=> <<a, b>> \in Recency
      BY <2>1, <1>1
    <3> QED BY <2>1, <3>1, <1>1, <1>2, <1>3
  <2>2. CASE a = k /\ b \in kept
    BY <2>2, <1>2
  <2>3. CASE b = k
    <3>1. <<a, b>> \notin R
      BY <2>3, <1>1
    <3> QED BY <3>1, <2>3, <1>2
  <2> QED BY <2>1, <2>2, <2>3
<1>7. Recency' = R
  <2> HIDE DEF R, all
  <2> QED BY <1>4, <1>5, <1>6
<1>8. Lru!Ranked(k, 1, kept) = R
  BY DEF Lru!Ranked, Lru!Outranks
<1> QED BY <1>7, <1>8

\* A use of a key is one in the abstract cache.
LEMMA TouchIsUse ==
    ASSUME LruInv, NEW k \in LruKey, NEW v \in LruValue, Touch(k),
           nodes_' = [nodes_ EXCEPT ![k] = v], cache' = cache
    PROVE  LruInv' /\ Lru!Use(k, v)
<1> DEFINE D == DOMAIN nodes_
           kept == D \ {k}
<1>1. D \subseteq LruKey /\ k \in D /\ cache \in {"pointers", "list"}
  BY DEF LruInv, Touch
<1>2. PICK s \in Seq(D) : Recent(s)
  BY DEF LruInv
<1>3. PICK K : K = D
  OBVIOUS
<1>4. ListOf(s, K) /\ K \subseteq LruKey
  BY <1>1, <1>2, <1>3 DEF Recent
<1>5. PICK p \in 1 .. Len(s) : s[p] = k
  BY <1>1, <1>3, <1>4 DEF ListOf
<1> DEFINE q == RemoveAt(s, p)
           r == <<k>> \o q
<1>6. ListOf(q, K \ {k}) /\ \A a, b \in K \ {k} : Before(q, a, b) <=> Before(s, a, b)
  <2>1. ListOf(q, K \ {s[p]})
    BY <1>4, TakingOut
  <2>2. \A a, b \in K \ {s[p]} : Before(q, a, b) <=> Before(s, a, b)
    BY <1>4, TakingOut
  <2> QED BY <1>5, <2>1, <2>2
<1>7. DOMAIN nodes_' = D /\ D = kept \union {k} /\ nodes_' \in [D -> LruValue]
  BY <1>1 DEF LruInv
<1>8. ListOf(r, D)
  <2> HIDE DEF q
  <2>1. ListOf(r, (K \ {k}) \union {k})
    BY <1>6, PuttingFirst
  <2> QED BY <2>1, <1>1, <1>3
<1>9. IF cache' = "list" THEN r = recencyList_' ELSE Chained(r, next', prev')
  <2>1. CASE cache = "list"
    <3>1. s = recencyList_ /\ recencyList_' = <<k>> \o RemoveAt(recencyList_, PlaceOf(k))
      BY <2>1, <1>2 DEF Recent, Touch
    <3>2. PlaceOf(k) \in 1 .. Len(s) /\ s[PlaceOf(k)] = k
      BY <3>1, <1>5 DEF PlaceOf
    <3>3. PlaceOf(k) = p
      BY <3>2, <1>4, <1>5 DEF ListOf
    <3> QED BY <2>1, <3>1, <3>3
  <2>2. CASE cache # "list"
    <3>1. PICK nx, pv : nx = next /\ pv = prev /\ Chained(s, nx, pv)
      BY <2>2, <1>2 DEF Recent
    <3> DEFINE old == [next |-> nx, prev |-> pv]
               l == unlinkNode(old, k)
    <3>2. Chained(q, l.next, l.prev)
      <4>1. LET m == unlinkNode(old, s[p]) IN Chained(q, m.next, m.prev)
        BY <3>1, <1>4, Unlinking
      <4> QED BY <4>1, <1>5
    <3>3. next' = pushToHead(l, k).next /\ prev' = pushToHead(l, k).prev
      BY <2>2, <3>1 DEF Touch, SetLinks, Links
    <3>4. PICK nx2, pv2 : nx2 = l.next /\ pv2 = l.prev
      OBVIOUS
    <3> HIDE DEF l, q
    <3>5. pushToHead([next |-> nx2, prev |-> pv2], k) = pushToHead(l, k)
      BY <3>4 DEF pushToHead
    <3>6. K \ {k} \subseteq LruKey /\ k \notin K \ {k} /\ Chained(q, nx2, pv2)
      BY <1>4, <3>2, <3>4
    <3>7. LET m == pushToHead([next |-> nx2, prev |-> pv2], k) IN Chained(r, m.next, m.prev)
      BY <3>6, <1>6, PushingToHead
    <3> QED BY <2>2, <3>3, <3>5, <3>7
  <2> QED BY <2>1, <2>2
<1> HIDE DEF q
<1>10. Recent(r)'
  BY <1>7, <1>8, <1>9 DEF Recent
<1>11. LruInv'
  <2>1. Cardinality(D) <= maxItems_
    BY DEF LruInv
  <2>2. r \in Seq(DOMAIN nodes_')
    BY <1>7, <1>8 DEF ListOf
  <2> HIDE DEF r
  <2> QED BY <2>1, <2>2, <1>1, <1>7, <1>10 DEF LruInv
<1>12. Recency' = Lru!Ranked(k, 1, kept)
  BY <1>2, <1>3, <1>6, <1>7, <1>10, <1>11, FirstIsRanked
<1>13. [j \in DOMAIN nodes_' |-> 1] = [[j \in D |-> 1] EXCEPT ![k] = 1]
  BY <1>1, <1>7
<1>14. Lru!Counted(k) = 1
  BY DEF Lru!Counted
<1> QED BY <1>1, <1>11, <1>12, <1>13, <1>14 DEF Lru!Use

LEMMA CountedAlike == \A S : Lru!Cardinality(S) = Cardinality(S)
  BY DEF Cardinality, Lru!Cardinality

\* A set of another key is an insertion in the abstract cache: a full cache loses the last
\* of its order.
LEMMA SetNewIsInsert ==
    ASSUME LruInv, NEW k \in LruKey, NEW v \in LruValue, SetNew(k, v)
    PROVE  LruInv' /\ Lru!Insert(k, v)
<1> USE LruAssumption
<1> DEFINE D == DOMAIN nodes_
           full == Cardinality(D) = maxItems_
           Lasts == {j \in D : \A i \in D \ {j} : <<i, j>> \in Recency}
<1>1. D \subseteq LruKey /\ k \notin D /\ cache \in {"pointers", "list"} /\ cache' = cache
  BY DEF LruInv, SetNew
<1>2. PICK s \in Seq(D) : Recent(s)
  BY DEF LruInv
<1>3. PICK K : K = D
  OBVIOUS
<1>4. ListOf(s, K) /\ K \subseteq LruKey
  BY <1>1, <1>2, <1>3 DEF Recent
<1>5. IsFiniteSet(D) /\ Cardinality(D) \in Nat /\ Cardinality(D) <= maxItems_
  BY <1>3, <1>4, SizeOfList, FS_CardinalityType DEF LruInv
<1>0. PICK q : q = IF full THEN Front(s) ELSE s
  OBVIOUS
<1> DEFINE kept == D \ {Victim}
           r == <<k>> \o q
           l == IF Victim = nullptr THEN Links ELSE Evict(Links)
\* What the eviction leaves.
<1>6. /\ ListOf(q, kept) /\ \A a, b \in kept : Before(q, a, b) <=> Before(s, a, b)
      /\ cache = "list" => q = IF Victim = nullptr THEN recencyList_ ELSE Front(recencyList_)
      /\ cache # "list" => Chained(q, l.next, l.prev)
      /\ Cardinality(kept) + 1 <= maxItems_
      /\ IF Cardinality(D) < maxItems_ THEN kept = D ELSE \E last \in Lasts : kept = D \ {last}
  <2>1. CASE full
    <3>1. K # {}
      <4>1. Cardinality({}) = 0
        BY FS_EmptySet
      <4> QED BY <2>1, <4>1, <1>3
    <3> DEFINE last == Last(s)
    <3>2. last \in K /\ ListOf(Front(s), K \ {last})
      BY <3>1, <1>4, TakingLast
    <3>3. \A a, b \in K \ {last} : Before(Front(s), a, b) <=> Before(s, a, b)
      BY <3>1, <1>4, TakingLast
    <3>4. \A j \in K \ {last} : Before(s, j, last)
      BY <3>1, <1>4, TakingLast
    <3>5. cache # "list" => prev[Tail_] = last /\ Chained(Front(s), Evict(Links).next, Evict(Links).prev)
      <4> SUFFICES ASSUME cache # "list"
                   PROVE  prev[Tail_] = last /\ Chained(Front(s), Evict(Links).next, Evict(Links).prev)
        OBVIOUS
      <4>1. PICK nx, pv : nx = next /\ pv = prev /\ Chained(s, nx, pv)
        BY <1>2 DEF Recent
      <4>2. pv[Tail_] = last /\ Evicted(s, Evict([next |-> nx, prev |-> pv]))
        BY <3>1, <4>1, <1>4, Evicting
      <4> QED BY <4>1, <4>2 DEF Links, Evicted
    <3>6. cache = "list" => s = recencyList_
      BY <1>2 DEF Recent
    <3>7. Victim = last
      BY <2>1, <3>5, <3>6, <1>1 DEF Victim
    <3>8. Victim # nullptr
      BY <3>2, <3>7, <1>4
    <3>9. kept = K \ {last}
      BY <3>7, <1>3
    <3>10. Cardinality(kept) = Cardinality(D) - 1
      BY <3>2, <3>9, <1>3, <1>5, FS_RemoveElement
    <3>11. last \in Lasts
      <4>1. Recency = {p \in D \X D : Before(s, p[1], p[2])}
        BY <1>2, RecencyIs
      <4> HIDE DEF last
      <4> QED BY <4>1, <3>2, <3>4, <1>3
    <3>12. q = Front(s)
      BY <2>1, <1>0
    <3> HIDE DEF last, Lasts
    <3>13. ListOf(q, kept) /\ \A a, b \in kept : Before(q, a, b) <=> Before(s, a, b)
      BY <3>2, <3>3, <3>9, <3>12
    <3>14. cache = "list" => q = IF Victim = nullptr THEN recencyList_ ELSE Front(recencyList_)
      BY <3>6, <3>8, <3>12
    <3>15. cache # "list" => Chained(q, l.next, l.prev)
      BY <3>5, <3>8, <3>12
    <3>16. Cardinality(kept) + 1 <= maxItems_
      BY <2>1, <3>10, <1>5
    <3>17. ~ (Cardinality(D) < maxItems_) /\ kept = D \ {last}
      BY <2>1, <3>9, <1>3
    <3> HIDE DEF kept, l
    <3> QED BY <3>11, <3>13, <3>14, <3>15, <3>16, <3>17
  <2>2. CASE ~ full
    <3>1. Victim = nullptr
      BY <2>2 DEF Victim
    <3>2. kept = D
      BY <3>1, <1>1
    <3>4. Cardinality(D) < maxItems_ /\ Cardinality(D) + 1 <= maxItems_
      BY <2>2, <1>5
    <3>3. IF cache = "list" THEN s = recencyList_ ELSE Chained(s, next, prev)
      BY <1>2 DEF Recent
    <3>5. q = s
      BY <2>2, <1>0
    <3> HIDE DEF kept
    <3> QED BY <3>5, <2>2, <3>1, <3>2, <3>3, <3>4, <1>3, <1>4 DEF Links
  <2> QED BY <2>1, <2>2
<1>7. DOMAIN nodes_' = kept \union {k} /\ nodes_' \in [kept \union {k} -> LruValue]
      /\ nodes_' = [j \in kept \union {k} |-> IF j = k THEN v ELSE nodes_[j]]
  <2>1. nodes_' = [j \in kept \union {k} |-> IF j = k THEN v ELSE nodes_[j]]
    BY DEF SetNew
  <2>2. \A j \in kept : nodes_[j] \in LruValue
    BY DEF LruInv
  <2> QED BY <2>1, <2>2
<1>8. kept \subseteq D /\ k \notin kept /\ kept \subseteq LruKey /\ IsFiniteSet(kept) /\ kept \subseteq D \ {k}
  BY <1>1, <1>5, FS_Subset
<1>9. ListOf(r, kept \union {k})
  <2> HIDE DEF kept
  <2> QED BY <1>6, <1>8, PuttingFirst
<1>10. IF cache' = "list" THEN r = recencyList_' ELSE Chained(r, next', prev')
  <2>1. CASE cache = "list"
    BY <2>1, <1>1, <1>6 DEF SetNew
  <2>2. CASE cache # "list"
    <3>1. next' = pushToHead(l, k).next /\ prev' = pushToHead(l, k).prev
      BY <2>2 DEF SetNew, SetLinks
    <3>2. PICK nx2, pv2 : nx2 = l.next /\ pv2 = l.prev
      OBVIOUS
    <3> HIDE DEF l, kept
    <3>3. pushToHead([next |-> nx2, prev |-> pv2], k) = pushToHead(l, k)
      BY <3>2 DEF pushToHead
    <3>4. Chained(q, nx2, pv2)
      BY <2>2, <3>2, <1>6
    <3>5. LET m == pushToHead([next |-> nx2, prev |-> pv2], k) IN Chained(r, m.next, m.prev)
      BY <3>4, <1>6, <1>8, PushingToHead
    <3> QED BY <2>2, <3>1, <3>3, <3>5, <1>1
  <2> QED BY <2>1, <2>2
<1> HIDE DEF l
<1>11. Recent(r)'
  BY <1>7, <1>9, <1>10 DEF Recent
<1>12. LruInv'
  <2>1. Cardinality(kept \union {k}) <= maxItems_
    <3> HIDE DEF kept
    <3>1. Cardinality(kept \union {k}) = Cardinality(kept) + 1
      BY <1>8, FS_AddElement
    <3> QED BY <3>1, <1>6
  <2>2. r \in Seq(DOMAIN nodes_')
    BY <1>7, <1>9 DEF ListOf
  <2>3. kept \union {k} \subseteq LruKey
    BY <1>8
  <2> HIDE DEF r
  <2> QED BY <2>1, <2>2, <2>3, <1>1, <1>7, <1>11 DEF LruInv
<1>13. Recency' = Lru!Ranked(k, 1, kept)
  <2>1. PICK rest : rest = kept
    OBVIOUS
  <2> HIDE DEF kept, r
  <2>2. /\ rest \subseteq DOMAIN nodes_ \ {k} /\ ListOf(q, rest)
        /\ \A a, b \in rest : Before(q, a, b) <=> Before(s, a, b)
        /\ DOMAIN nodes_' = rest \union {k}
    BY <2>1, <1>6, <1>7, <1>8
  <2>3. Recent(<<k>> \o q)'
    BY <1>11 DEF r
  <2> QED BY <2>1, <2>2, <2>3, <1>2, <1>12, FirstIsRanked
<1> HIDE DEF kept
<1>14. kept \in Lru!Kept
  <2>1. CASE Cardinality(D) < maxItems_
    BY <2>1, <1>6, CountedAlike DEF Lru!Kept
  <2>2. CASE ~ (Cardinality(D) < maxItems_)
    <3>1. PICK last \in Lasts : kept = D \ {last}
      BY <2>2, <1>6
    <3> QED BY <2>2, <3>1, CountedAlike DEF Lru!Kept
  <2> QED BY <2>1, <2>2
<1>15. [j \in DOMAIN nodes_' |-> 1] = [j \in kept \union {k} |-> IF j = k THEN 1 ELSE [i \in D |-> 1][j]]
  BY <1>7, <1>8
<1> QED BY <1>1, <1>7, <1>12, <1>13, <1>14, <1>15 DEF Lru!Insert

LEMMA LruStandingStill ==
    ASSUME LruInv, UNCHANGED <<cache, nodes_, next, prev, recencyList_>>
    PROVE  LruInv' /\ Recency' = Recency
<1>1. \A s : Recent(s)' <=> Recent(s)
  BY DEF Recent
<1>2. LruInv'
  BY <1>1 DEF LruInv
<1>3. Recency' = Recency
  BY DEF Recency, Listed, Linked
<1> QED BY <1>2, <1>3

\* Both caches are the abstract one: they lose what was used least recently (get, set of
\* lru_cache.cc).
THEOREM LruImplements == LruSpec => EvictsLeastRecent
<1>1. LruInit => LruInv /\ Lru!Init
  <2> SUFFICES ASSUME LruInit PROVE LruInv /\ Lru!Init
    OBVIOUS
  <2>1. nodes_ = <<>> /\ DOMAIN nodes_ = {} /\ recencyList_ = <<>> /\ cache \in {"pointers", "list"}
    BY DEF LruInit
  <2>2. Cardinality({}) = 0
    BY FS_EmptySet
  <2>3. Chained(<<>>, next, prev)
    <3>1. Head_ # Tail_ /\ Head_ \in Node /\ Tail_ \in Node
      BY DEF Head_, Tail_, Node
    <3>2. next \in [Node -> Node \union {nullptr}] /\ prev \in [Node -> Node \union {nullptr}]
      BY <3>1 DEF LruInit
    <3>3. next[Head_] = Tail_ /\ prev[Tail_] = Head_
      BY <3>1 DEF LruInit
    <3>4. Chain(<<>>, 0) = Head_ /\ Chain(<<>>, 0 + 1) = Tail_
      BY DEF Chain
    <3> QED BY <3>2, <3>3, <3>4 DEF Chained
  <2>4. Recent(<<>>)
    BY <2>1, <2>3, ListOfNone DEF Recent
  <2>5. LruInv
    <3>1. nodes_ \in [{} -> LruValue] /\ <<>> \in Seq({})
      BY <2>1
    <3>2. 0 <= maxItems_
      BY LruAssumption
    <3> QED BY <2>1, <2>2, <2>4, <3>1, <3>2 DEF LruInv
  <2>6. Recency = {} /\ [k \in DOMAIN nodes_ |-> 1] = <<>>
    BY <2>1 DEF Recency
  <2> QED BY <2>1, <2>5, <2>6 DEF Lru!Init, LruInit
<1>2. LruInv /\ [LruNext]_lruVars => LruInv' /\ [Lru!Next]_(Lru!vars)
  <2> SUFFICES ASSUME LruInv, [LruNext]_lruVars PROVE LruInv' /\ [Lru!Next]_(Lru!vars)
    OBVIOUS
  <2> USE DEF Lru!Next
  <2>1. ASSUME NEW k \in LruKey, LruGet(k) PROVE LruInv' /\ [Lru!Next]_(Lru!vars)
    <3>1. CASE k \in DOMAIN nodes_
      <4>1. Touch(k) /\ lruResult' = nodes_[k] /\ nodes_' = nodes_ /\ cache' = cache
        BY <2>1, <3>1 DEF LruGet
      <4>2. PICK v : v = nodes_[k]
        OBVIOUS
      <4>3. v \in LruValue /\ nodes_' = [nodes_ EXCEPT ![k] = v]
        BY <3>1, <4>1, <4>2 DEF LruInv
      <4>4. LruInv' /\ Lru!Use(k, v)
        BY <4>1, <4>3, TouchIsUse
      <4> QED BY <3>1, <4>1, <4>2, <4>4 DEF Lru!Get
    <3>2. CASE k \notin DOMAIN nodes_
      <4>1. lruResult' = nullptr /\ UNCHANGED <<cache, nodes_, next, prev, recencyList_>>
        BY <2>1, <3>2 DEF LruGet, Touch
      <4>2. LruInv' /\ Recency' = Recency
        BY <4>1, LruStandingStill
      <4>3. Lru!Get(k)
        BY <3>2, <4>1, <4>2 DEF Lru!Get
      <4> QED BY <4>2, <4>3
    <3> QED BY <3>1, <3>2
  <2>2. ASSUME NEW k \in LruKey, NEW v \in LruValue, SetAgain(k, v) PROVE LruInv' /\ [Lru!Next]_(Lru!vars)
    <3>1. LruInv' /\ Lru!Use(k, v) /\ lruResult' = nullptr
      BY <2>2, TouchIsUse DEF SetAgain
    <3> QED BY <3>1 DEF Lru!Put
  <2>3. ASSUME NEW k \in LruKey, NEW v \in LruValue, SetNew(k, v) PROVE LruInv' /\ [Lru!Next]_(Lru!vars)
    <3>1. LruInv' /\ Lru!Insert(k, v) /\ lruResult' = nullptr
      BY <2>3, SetNewIsInsert DEF SetNew
    <3> QED BY <3>1 DEF Lru!Put
  <2>4. CASE UNCHANGED lruVars
    <3>1. LruInv' /\ Recency' = Recency
      BY <2>4, LruStandingStill DEF lruVars
    <3> QED BY <2>4, <3>1 DEF lruVars, Lru!vars
  <2> QED BY <2>1, <2>2, <2>3, <2>4 DEF LruNext
<1> QED BY <1>1, <1>2, PTL DEF LruSpec, EvictsLeastRecent, Lru!Spec

-----------------------------------------------------------------------------
(***************************************************************************)
(* Sheet.                                                                  *)
(***************************************************************************)
Cell == [v : Numbers \union {NoNumber}, op1 : Idx \union {NoCell}, op2 : Idx \union {NoCell},
         impacts : SUBSET Idx, r : Int]
Sheets == [Idx -> Cell]

\* The sheets that differ from cs in what their cells show, at most.
Alike(cs) ==
    {ds \in Sheets : \A i \in Idx : /\ ds[i].v = cs[i].v /\ ds[i].op1 = cs[i].op1
                                    /\ ds[i].op2 = cs[i].op2 /\ ds[i].impacts = cs[i].impacts}

\* A cell has a number or a first operand.
IsSet(c) == c.v # NoNumber \/ c.op1 \in Idx

LEMMA SizeOfIdx == IsFiniteSet(Idx) /\ Cardinality(Idx) = NumCells /\ Idx \subseteq Nat /\ NoCell \notin Idx
  BY SheetAssumption, FS_Interval DEF Idx, NoCell

LEMMA AscendingLists ==
    ASSUME NEW set, set \subseteq Idx
    PROVE  /\ Ascending(set) \in Seq(set) /\ Len(Ascending(set)) = Cardinality(set)
           /\ \A c \in set : \E i \in 1 .. Len(Ascending(set)) : Ascending(set)[i] = c
<1> DEFINE n == Cardinality(set)
           Upto(c) == {d \in set : d <= c}
           rank == [c \in set |-> Cardinality(Upto(c))]
<1>1. IsFiniteSet(set) /\ n \in Nat /\ set \subseteq Nat
  BY SizeOfIdx, FS_Subset, FS_CardinalityType
<1>2. ASSUME NEW c \in set PROVE IsFiniteSet(Upto(c)) /\ Cardinality(Upto(c)) \in 1 .. n
  <2>1. Upto(c) \in SUBSET set /\ c \in Upto(c)
    BY <1>1
  <2> HIDE DEF Upto
  <2>2. IsFiniteSet(Upto(c)) /\ Cardinality(Upto(c)) <= n
    BY <1>1, <2>1, FS_Subset
  <2>3. Cardinality(Upto(c)) \in Nat /\ Cardinality(Upto(c)) # 0
    BY <2>1, <2>2, FS_CardinalityType, FS_EmptySet
  <2> QED BY <2>2, <2>3, <1>1
<1>3. ASSUME NEW c \in set, NEW d \in set, c < d PROVE Cardinality(Upto(c)) # Cardinality(Upto(d))
  <2>1. Upto(c) \in SUBSET Upto(d) /\ d \in Upto(d) /\ d \notin Upto(c)
    <3>1. c \in Nat /\ d \in Nat
      BY <1>1
    <3>2. \A x \in Nat : x <= c => x <= d
      BY <3>1, <1>3
    <3>3. \A x \in set : x \in Upto(c) => x \in Upto(d)
      BY <3>2, <1>1
    <3>4. d <= d /\ ~ (d <= c)
      BY <3>1, <1>3
    <3>5. d \in Upto(d) /\ d \notin Upto(c)
      BY <3>4
    <3>6. \A x \in Upto(c) : x \in set
      OBVIOUS
    <3> HIDE DEF Upto
    <3> QED BY <3>3, <3>5, <3>6
  <2> HIDE DEF Upto
  <2> QED BY <1>2, <2>1, FS_Subset
<1>4. rank \in Injection(set, 1 .. n)
  <2>1. rank \in [set -> 1 .. n]
    BY <1>2
  <2>2. ASSUME NEW c \in set, NEW d \in set, rank[c] = rank[d] PROVE c = d
    <3>1. Cardinality(Upto(c)) = Cardinality(Upto(d))
      BY <2>2
    <3> HIDE DEF Upto
    <3> QED BY <3>1, <1>1, <1>3
  <2> HIDE DEF rank
  <2> QED BY <2>1, <2>2 DEF Injection, IsInjective
<1>5. rank \in Surjection(set, 1 .. n)
  <2> HIDE DEF rank
  <2>1. IsFiniteSet(1 .. n) /\ Cardinality(1 .. n) = n
    BY <1>1, FS_Interval
  <2> QED BY <2>1, <1>4, FS_Injection
<1> DEFINE s == Ascending(set)
<1>6. \A i \in 1 .. n : s[i] \in set /\ Cardinality(Upto(s[i])) = i
  <2> TAKE i \in 1 .. n
  <2>1. \E c \in set : rank[c] = i
    <3> HIDE DEF rank
    <3> QED BY <1>5 DEF Surjection
  <2>2. \E c \in set : Cardinality(Upto(c)) = i
    BY <2>1
  <2>3. s[i] = CHOOSE c \in set : Cardinality(Upto(c)) = i
    BY DEF Ascending
  <2> HIDE DEF Upto, s
  <2> QED BY <2>2, <2>3
<1>7. s = [i \in 1 .. n |-> s[i]]
  BY DEF Ascending
<1> HIDE DEF s, rank
<1>8. s \in Seq(set) /\ Len(s) = n
  <2> HIDE DEF Upto
  <2>1. s \in [1 .. n -> set]
    BY <1>6, <1>7
  <2> HIDE DEF n
  <2> QED BY <1>1, <2>1, SeqDef
<1>9. ASSUME NEW c \in set PROVE \E i \in 1 .. n : s[i] = c
  <2> DEFINE i == Cardinality(Upto(c))
  <2>1. i \in 1 .. n
    BY <1>2
  <2>2. s[i] \in set /\ Cardinality(Upto(s[i])) = Cardinality(Upto(c))
    BY <2>1, <1>6
  <2> HIDE DEF Upto, i
  <2>3. s[i] = c
    <3>1. s[i] \in Nat /\ c \in Nat /\ ~ (s[i] < c) /\ ~ (c < s[i])
      BY <2>2, <1>1, <1>3
    <3> QED BY <3>1
  <2> QED BY <2>1, <2>3
<1> QED BY <1>8, <1>9 DEF s

\* Working out one cell, or a list of them, changes nothing else.
LEMMA WorkingOut ==
    ASSUME NEW cs \in Sheets, NEW ds \in Alike(cs), NEW i \in Idx, IsSet(cs[i])
    PROVE  calc_cell(ds, ds[i]) \in Int /\ [ds EXCEPT ![i].r = calc_cell(ds, ds[i])] \in Alike(cs)
<1>1. ds \in Sheets /\ \A j \in Idx : /\ ds[j].v = cs[j].v /\ ds[j].op1 = cs[j].op1
                                      /\ ds[j].op2 = cs[j].op2 /\ ds[j].impacts = cs[j].impacts
  BY DEF Alike
<1>2. \A j \in Idx : ds[j] \in Cell
  BY <1>1 DEF Sheets
<1>3. calc_cell(ds, ds[i]) \in Int
  <2>1. \A j \in Idx : ds[j].r \in Int
    BY <1>2 DEF Cell
  <2>2. ds[i].v \in Int /\ ds[i].op2 \in Idx \union {NoCell} /\ (ds[i].v # NoNumber \/ ds[i].op1 \in Idx)
    <3>1. NoNumber \in Int /\ Numbers \subseteq Int
      BY SheetAssumption DEF NoNumber
    <3>2. ds[i] \in Cell
      BY <1>2
    <3> HIDE DEF NoNumber
    <3>3. ds[i].v \in Numbers \union {NoNumber} /\ ds[i].op2 \in Idx \union {NoCell}
      BY <3>2 DEF Cell
    <3>4. ds[i].v # NoNumber \/ ds[i].op1 \in Idx
      BY <1>1 DEF IsSet
    <3> QED BY <3>1, <3>3, <3>4
  <2> QED BY <2>1, <2>2 DEF calc_cell
<1> DEFINE x == calc_cell(ds, ds[i])
           es == [ds EXCEPT ![i].r = x]
<1> HIDE DEF x
<1>4. x \in Int
  BY <1>3 DEF x
<1>5. es = [j \in Idx |-> IF j = i THEN [ds[i] EXCEPT !.r = x] ELSE ds[j]]
  BY <1>1 DEF Sheets
<1>6. [ds[i] EXCEPT !.r = x] \in Cell
  BY <1>2, <1>4 DEF Cell
<1>7. es \in Sheets
  BY <1>2, <1>5, <1>6 DEF Sheets
<1>8. ASSUME NEW j \in Idx
      PROVE  /\ es[j].v = cs[j].v /\ es[j].op1 = cs[j].op1 /\ es[j].op2 = cs[j].op2
             /\ es[j].impacts = cs[j].impacts
  <2>1. CASE j # i
    BY <2>1, <1>1, <1>5
  <2>2. CASE j = i
    <3>1. es[i] = [ds[i] EXCEPT !.r = x] /\ ds[i] \in Cell
      BY <1>2, <1>5
    <3>2. es[i].v = ds[i].v /\ es[i].op1 = ds[i].op1 /\ es[i].op2 = ds[i].op2 /\ es[i].impacts = ds[i].impacts
      BY <3>1 DEF Cell
    <3> QED BY <2>2, <3>2, <1>1
  <2> QED BY <2>1, <2>2
<1> HIDE DEF es
<1>9. es \in Alike(cs)
  BY <1>7, <1>8 DEF Alike
<1> QED BY <1>3, <1>9 DEF es, x

\* A list of cells is worked out.
LEMMA WorkingOutAll ==
    ASSUME NEW cs \in Sheets, NEW list \in Seq(Idx), \A i \in 1 .. Len(list) : IsSet(cs[list[i]])
    PROVE  CalcAll(cs, list) \in Alike(cs)
<1> DEFINE N == Len(list)
           Worked(ds, i) == [ds EXCEPT ![list[i]].r = calc_cell(ds, ds[list[i]])]
           Good == [i \in 0 .. N |-> Alike(cs)]
           step == [i \in 1 .. N |-> [ds \in Alike(cs) |-> Worked(ds, i)]]
           AllWorked(t) == t = [i \in 0 .. N |-> IF i = 0 THEN cs ELSE Worked(t[i - 1], i)]
           turn == CHOOSE t : AllWorked(t)
<1>1. N \in Nat
  OBVIOUS
<1>2. ASSUME NEW i \in 1 .. N, NEW ds \in Alike(cs) PROVE Worked(ds, i) \in Alike(cs)
  <2>1. list[i] \in Idx /\ IsSet(cs[list[i]])
    BY ElementOfSeq
  <2>2. PICK j \in Idx : j = list[i] /\ IsSet(cs[j])
    BY <2>1
  <2>3. [ds EXCEPT ![j].r = calc_cell(ds, ds[j])] \in Alike(cs)
    BY <2>2, WorkingOut
  <2> QED BY <2>2, <2>3
<1>3. cs \in Alike(cs)
  BY DEF Alike
<1> HIDE DEF Worked, N
<1>4. \E f : AllWorked(f)
  <2>1. \A i \in 1 .. N : \A r \in Good[i - 1] : step[i][r] \in Good[i]
    BY <1>1, <1>2
  <2>2. cs \in Good[0]
    BY <1>1, <1>3
  <2>3. PICK f : /\ f = [i \in 0 .. N |-> IF i = 0 THEN cs ELSE step[i][f[i - 1]]]
                 /\ \A i \in 0 .. N : f[i] \in Good[i]
    <3> HIDE DEF Good, step
    <3>1. \E f : LoopTurns(f, N, Good, cs, step)
      BY <1>1, <2>1, <2>2, TurnsExist
    <3> QED BY <3>1 DEF LoopTurns
  <2>4. ASSUME NEW i \in 0 .. N, i # 0 PROVE step[i][f[i - 1]] = Worked(f[i - 1], i)
    <3>1. i \in 1 .. N /\ i - 1 \in 0 .. N
      BY <1>1, <2>4
    <3>2. f[i - 1] \in Alike(cs)
      BY <3>1, <2>3
    <3> QED BY <3>1, <3>2
  <2>5. f = [i \in 0 .. N |-> IF i = 0 THEN cs ELSE Worked(f[i - 1], i)]
    <3> HIDE DEF step
    <3> QED BY <2>3, <2>4
  <2> QED BY <2>5
<1>5. AllWorked(turn)
  <2> HIDE DEF AllWorked
  <2> QED BY <1>4
<1>6. turn[N] \in Alike(cs)
  <2> HIDE DEF turn
  <2>1. turn[0] \in Good[0]
    BY <1>1, <1>3, <1>5
  <2>2. \A i \in 1 .. N : turn[i - 1] \in Good[i - 1] => turn[i] \in Good[i]
    <3> TAKE i \in 1 .. N
    <3>1. i \in 0 .. N /\ i - 1 \in 0 .. N /\ i # 0
      BY <1>1
    <3>2. turn[i] = Worked(turn[i - 1], i)
      BY <3>1, <1>5
    <3> QED BY <3>1, <3>2, <1>2
  <2>3. turn[N] \in Good[N]
    <3> HIDE DEF Good, AllWorked
    <3> QED BY <1>1, <2>1, <2>2, TurnsStay
  <2> QED BY <1>1, <2>3
<1>7. CalcAll(cs, list) = turn[N]
  BY DEF CalcAll, Worked, N
<1> QED BY <1>6, <1>7

-----------------------------------------------------------------------------
\* The states of a search from start after t turns: every cell was queued once at most, and
\* the cells that are reached from one which is no longer in the queue are reached, too.
Searches(cs, start, t) ==
    {s \in [cells : Alike(cs), q : Seq(Idx), reached : SUBSET Idx] :
        /\ start \in s.reached
        /\ s.q = <<>> \/ Len(s.q) + t = Cardinality(s.reached)
        /\ \A j \in s.reached : (\E i \in 1 .. Len(s.q) : s.q[i] = j) \/ cs[j].impacts \subseteq s.reached}

LEMMA TurnKeepsSearch ==
    ASSUME NEW cs \in Sheets, \A i \in Idx : \A j \in cs[i].impacts : IsSet(cs[j]),
           NEW start \in Idx, NEW calculate \in BOOLEAN, NEW t \in Nat,
           NEW s \in Searches(cs, start, t), s.q # <<>>
    PROVE  Turn(s, calculate) \in Searches(cs, start, t + 1)
<1>1. /\ s.cells \in Alike(cs) /\ s.q \in Seq(Idx) /\ s.reached \subseteq Idx
      /\ start \in s.reached
      /\ Len(s.q) + t = Cardinality(s.reached)
      /\ \A j \in s.reached : (\E i \in 1 .. Len(s.q) : s.q[i] = j) \/ cs[j].impacts \subseteq s.reached
      /\ s = [cells |-> s.cells, q |-> s.q, reached |-> s.reached]
  BY DEF Searches
<1> DEFINE v == Head(s.q)
           impacts == s.cells[v].impacts
           old == s.reached
           new == Ascending(impacts \ old)
           cells2 == IF calculate THEN CalcAll(s.cells, Ascending(impacts)) ELSE s.cells
           q2 == Tail(s.q) \o new
           reached2 == old \union impacts
<1>2. v \in Idx /\ v = s.q[1] /\ Len(s.q) \in Nat /\ Len(s.q) >= 1
  BY <1>1
<1>3. impacts = cs[v].impacts /\ impacts \subseteq Idx
  <2>1. s.cells[v] \in Cell /\ s.cells[v].impacts = cs[v].impacts
    BY <1>1, <1>2 DEF Alike, Sheets
  <2> QED BY <2>1 DEF Cell
<1>4. cells2 \in Alike(cs)
  <2>1. CASE ~ calculate
    BY <2>1, <1>1
  <2>2. CASE calculate
    <3> DEFINE list == Ascending(impacts)
    <3>1. list \in Seq(impacts)
      <4> HIDE DEF impacts
      <4> QED BY <1>3, AscendingLists
    <3>2. PICK ds : ds = s.cells /\ ds \in Alike(cs) /\ ds \in Sheets
      BY <1>1 DEF Alike
    <3>3. list \in Seq(Idx) /\ \A i \in 1 .. Len(list) : list[i] \in impacts
      <4> HIDE DEF impacts, list
      <4>1. \A i \in 1 .. Len(list) : list[i] \in impacts
        BY <3>1, ElementOfSeq
      <4>2. \A i \in 1 .. Len(list) : list[i] \in Idx
        BY <4>1, <1>3
      <4> QED BY <3>1, <4>1, <4>2, SequenceOf
    <3> HIDE DEF list
    <3>4. \A i \in 1 .. Len(list) : IsSet(ds[list[i]])
      <4> TAKE i \in 1 .. Len(list)
      <4>1. list[i] \in cs[v].impacts /\ list[i] \in Idx
        BY <3>3, <1>3
      <4>2. IsSet(cs[list[i]])
        BY <4>1, <1>2
      <4>3. ds[list[i]].v = cs[list[i]].v /\ ds[list[i]].op1 = cs[list[i]].op1
        BY <3>2, <4>1 DEF Alike
      <4> QED BY <4>2, <4>3 DEF IsSet
    <3>5. CalcAll(ds, list) \in Alike(ds)
      BY <3>2, <3>3, <3>4, WorkingOutAll
    <3>6. CalcAll(ds, list) \in Alike(cs)
      BY <3>2, <3>5 DEF Alike
    <3> QED BY <2>2, <3>2, <3>6 DEF list
  <2> QED BY <2>1, <2>2
<1>5. /\ new \in Seq(Idx) /\ Len(new) = Cardinality(impacts \ old)
      /\ \A c \in impacts \ old : \E i \in 1 .. Len(new) : new[i] = c
  <2> DEFINE set == impacts \ old
  <2>1. set \subseteq Idx
    BY <1>3
  <2> HIDE DEF set
  <2>2. /\ Ascending(set) \in Seq(set) /\ Len(Ascending(set)) = Cardinality(set)
        /\ \A c \in set : \E i \in 1 .. Len(Ascending(set)) : Ascending(set)[i] = c
    BY <2>1, AscendingLists
  <2>3. \A i \in 1 .. Len(Ascending(set)) : Ascending(set)[i] \in Idx
    BY <2>1, <2>2, ElementOfSeq
  <2>4. Ascending(set) \in Seq(Idx)
    BY <2>2, <2>3, SequenceOf
  <2> QED BY <2>2, <2>4 DEF set
<1> HIDE DEF new
<1>6. Cardinality(reached2) = Cardinality(old) + Len(new)
  <2>1. PICK set : set = impacts \ old
    OBVIOUS
  <2>2. IsFiniteSet(old) /\ IsFiniteSet(set) /\ set \subseteq Idx
    BY <1>1, <1>3, <2>1, SizeOfIdx, FS_Subset
  <2>3. old \intersect set = {} /\ reached2 = old \union set
    BY <2>1
  <2> HIDE DEF old, reached2
  <2>4. Cardinality(old \union set) = Cardinality(old) + Cardinality(set) - Cardinality({})
    BY <2>2, <2>3, FS_Union
  <2>5. Cardinality({}) = 0 /\ Cardinality(old) \in Nat /\ Cardinality(set) \in Nat
    BY <2>2, FS_EmptySet, FS_CardinalityType
  <2> QED BY <2>1, <2>3, <2>4, <2>5, <1>5
<1>7. /\ q2 \in Seq(Idx) /\ Len(q2) = Len(s.q) - 1 + Len(new)
      /\ \A i \in 2 .. Len(s.q) : \E j \in 1 .. Len(q2) : q2[j] = s.q[i]
      /\ \A i \in 1 .. Len(new) : \E j \in 1 .. Len(q2) : q2[j] = new[i]
  <2>1. PICK q \in Seq(Idx) : q = s.q
    BY <1>1
  <2>2. q # <<>> /\ Len(q) \in Nat /\ Len(q) >= 1
    BY <2>1, <1>2
  <2> DEFINE rest == Tail(q)
  <2>3. rest \in Seq(Idx) /\ Len(rest) = Len(q) - 1 /\ \A i \in 1 .. Len(rest) : rest[i] = q[i + 1]
    BY <2>2, HeadTailProperties
  <2>4. q2 = rest \o new
    BY <2>1
  <2> HIDE DEF rest, q2
  <2>5. /\ q2 \in Seq(Idx) /\ Len(q2) = Len(rest) + Len(new)
        /\ \A i \in 1 .. Len(rest) + Len(new) :
             q2[i] = IF i <= Len(rest) THEN rest[i] ELSE new[i - Len(rest)]
    BY <2>3, <2>4, <1>5, ConcatProperties
  <2>6. ASSUME NEW i \in 2 .. Len(q) PROVE \E j \in 1 .. Len(q2) : q2[j] = q[i]
    <3> DEFINE j == i - 1
    <3>1. j \in 1 .. Len(rest) /\ j \in 1 .. Len(rest) + Len(new) /\ j + 1 = i /\ j <= Len(rest)
      BY <2>2, <2>3, <1>5
    <3> HIDE DEF j
    <3>2. q2[j] = rest[j] /\ rest[j] = q[j + 1]
      BY <3>1, <2>3, <2>5
    <3> QED BY <3>1, <3>2, <2>5
  <2>7. ASSUME NEW i \in 1 .. Len(new) PROVE \E j \in 1 .. Len(q2) : q2[j] = new[i]
    <3> DEFINE j == Len(rest) + i
    <3>1. j \in 1 .. Len(rest) + Len(new) /\ ~ (j <= Len(rest)) /\ j - Len(rest) = i
      BY <2>2, <2>3, <1>5
    <3> HIDE DEF j
    <3> QED BY <3>1, <2>5
  <2> QED BY <2>1, <2>3, <2>5, <2>6, <2>7
<1>8. ASSUME NEW j \in reached2
      PROVE  (\E i \in 1 .. Len(q2) : q2[i] = j) \/ cs[j].impacts \subseteq reached2
  <2> HIDE DEF q2
  <2>0. j \in old \/ j \in impacts \ old
    OBVIOUS
  <2>1. CASE j \in impacts \ old
    <3>1. PICK i \in 1 .. Len(new) : new[i] = j
      BY <2>1, <1>5
    <3>2. \E k \in 1 .. Len(q2) : q2[k] = j
      BY <3>1, <1>7
    <3> QED BY <3>2
  <2>2. CASE j \in old /\ cs[j].impacts \subseteq old
    BY <2>2
  <2>3. CASE j \in old /\ \E i \in 1 .. Len(s.q) : s.q[i] = j
    <3>1. PICK i \in 1 .. Len(s.q) : s.q[i] = j
      BY <2>3
    <3>2. CASE i = 1
      BY <3>1, <3>2, <1>2, <1>3
    <3>3. CASE i # 1
      <4>1. i \in 2 .. Len(s.q)
        BY <3>3, <1>2
      <4> QED BY <3>1, <4>1, <1>7
    <3> QED BY <3>2, <3>3
  <2>4. j \in old => (\E i \in 1 .. Len(s.q) : s.q[i] = j) \/ cs[j].impacts \subseteq old
    BY <1>1
  <2> HIDE DEF old, impacts, reached2
  <2> QED BY <2>0, <2>1, <2>2, <2>3, <2>4
<1>9. Turn(s, calculate) = [cells |-> cells2, q |-> q2, reached |-> reached2]
  BY DEF Turn, new
<1>10. reached2 \subseteq Idx /\ start \in reached2
  BY <1>1, <1>3
<1>11. Len(q2) + (t + 1) = Cardinality(reached2)
  <2>1. Len(new) \in Nat
    BY <1>5
  <2> HIDE DEF q2, reached2
  <2> QED BY <2>1, <1>1, <1>2, <1>6, <1>7
<1> HIDE DEF cells2, q2, reached2
<1> DEFINE s2 == [cells |-> cells2, q |-> q2, reached |-> reached2]
<1>12. s2.cells = cells2 /\ s2.q = q2 /\ s2.reached = reached2
  OBVIOUS
<1>13. s2 \in [cells : Alike(cs), q : Seq(Idx), reached : SUBSET Idx]
  BY <1>4, <1>7, <1>10
<1> HIDE DEF s2
<1>14. s2 \in Searches(cs, start, t + 1)
  BY <1>8, <1>10, <1>11, <1>12, <1>13 DEF Searches
<1> QED BY <1>9, <1>14 DEF s2

\* A search reaches all that is impacted by what it reaches, within NumCells turns.
LEMMA Searching ==
    ASSUME NEW cs \in Sheets, \A i \in Idx : \A j \in cs[i].impacts : IsSet(cs[j]),
           NEW start \in Idx, NEW calculate \in BOOLEAN, NEW b, b = _bfs(cs, start, calculate)
    PROVE  /\ b.cells \in Alike(cs) /\ b.reached \subseteq Idx /\ start \in b.reached
           /\ \A j \in b.reached : cs[j].impacts \subseteq b.reached
<1> DEFINE N == NumCells
           first == [cells |-> cs, q |-> <<start>>, reached |-> {start}]
           Next(s) == IF s.q = <<>> THEN s ELSE Turn(s, calculate)
           Good == [i \in 0 .. N |-> Searches(cs, start, i)]
           step == [i \in 1 .. N |-> [s \in Searches(cs, start, i - 1) |-> Next(s)]]
           AllTurns(f) == f = [i \in 0 .. N |-> IF i = 0 THEN first ELSE Next(f[i - 1])]
           turn == CHOOSE f : AllTurns(f)
<1>1. N \in Nat
  BY SheetAssumption
<1>2. ASSUME NEW i \in 1 .. N, NEW s \in Searches(cs, start, i - 1) PROVE Next(s) \in Searches(cs, start, i)
  <2>1. i - 1 \in Nat /\ (i - 1) + 1 = i
    OBVIOUS
  <2>2. CASE s.q = <<>>
    BY <2>2 DEF Searches
  <2>3. CASE s.q # <<>>
    <3>1. Turn(s, calculate) \in Searches(cs, start, (i - 1) + 1)
      BY <2>1, <2>3, TurnKeepsSearch
    <3> QED BY <2>1, <2>3, <3>1
  <2> QED BY <2>2, <2>3
<1>3. first \in Searches(cs, start, 0)
  <2>1. cs \in Alike(cs)
    BY DEF Alike
  <2>2. <<start>> \in Seq(Idx) /\ Len(<<start>>) = 1 /\ <<start>>[1] = start
    OBVIOUS
  <2>3. Cardinality({start}) = 1
    BY FS_Singleton
  <2>4. first \in [cells : Alike(cs), q : Seq(Idx), reached : SUBSET Idx]
    BY <2>1, <2>2
  <2>5. first.q = <<start>> /\ first.reached = {start}
    OBVIOUS
  <2> HIDE DEF first
  <2>6. \E i \in 1 .. Len(first.q) : first.q[i] = start
    BY <2>2, <2>5
  <2>7. \A j \in first.reached : \E i \in 1 .. Len(first.q) : first.q[i] = j
    BY <2>5, <2>6
  <2>8. start \in first.reached /\ Len(first.q) + 0 = Cardinality(first.reached)
    BY <2>2, <2>3, <2>5
  <2> QED BY <2>4, <2>7, <2>8 DEF Searches
<1> HIDE DEF N, Next, first
<1>4. \E f : AllTurns(f)
  <2>1. \A i \in 1 .. N : \A r \in Good[i - 1] : step[i][r] \in Good[i]
    <3> TAKE i \in 1 .. N
    <3>1. i \in 0 .. N /\ i - 1 \in 0 .. N
      BY <1>1
    <3> QED BY <3>1, <1>2
  <2>2. first \in Good[0]
    BY <1>1, <1>3
  <2>3. PICK f : /\ f = [i \in 0 .. N |-> IF i = 0 THEN first ELSE step[i][f[i - 1]]]
                 /\ \A i \in 0 .. N : f[i] \in Good[i]
    <3> HIDE DEF Good, step
    <3>1. \E f : LoopTurns(f, N, Good, first, step)
      BY <1>1, <2>1, <2>2, TurnsExist
    <3> QED BY <3>1 DEF LoopTurns
  <2>4. ASSUME NEW i \in 0 .. N, i # 0 PROVE step[i][f[i - 1]] = Next(f[i - 1])
    <3>1. i \in 1 .. N /\ i - 1 \in 0 .. N
      BY <1>1, <2>4
    <3>2. f[i - 1] \in Searches(cs, start, i - 1)
      BY <3>1, <2>3
    <3> QED BY <3>1, <3>2
  <2>5. f = [i \in 0 .. N |-> IF i = 0 THEN first ELSE Next(f[i - 1])]
    <3> HIDE DEF step
    <3> QED BY <2>3, <2>4
  <2> QED BY <2>5
<1>5. AllTurns(turn)
  <2> HIDE DEF AllTurns
  <2> QED BY <1>4
<1>6. b = turn[N]
  BY DEF _bfs, Next, first, N
<1>7. b \in Searches(cs, start, N)
  <2> HIDE DEF turn
  <2>1. turn[0] \in Good[0]
    BY <1>1, <1>3, <1>5
  <2>2. \A i \in 1 .. N : turn[i - 1] \in Good[i - 1] => turn[i] \in Good[i]
    <3> TAKE i \in 1 .. N
    <3>1. i \in 0 .. N /\ i - 1 \in 0 .. N /\ i # 0
      BY <1>1
    <3>2. turn[i] = Next(turn[i - 1])
      BY <3>1, <1>5
    <3> QED BY <3>1, <3>2, <1>2
  <2>3. turn[N] \in Good[N]
    <3> HIDE DEF Good, AllTurns
    <3> QED BY <1>1, <2>1, <2>2, TurnsStay
  <2> QED BY <1>1, <1>6, <2>3
<1>8. /\ b.cells \in Alike(cs) /\ b.q \in Seq(Idx) /\ b.reached \in SUBSET Idx /\ start \in b.reached
      /\ b.q = <<>> \/ Len(b.q) + N = Cardinality(b.reached)
      /\ \A j \in b.reached : (\E i \in 1 .. Len(b.q) : b.q[i] = j) \/ cs[j].impacts \subseteq b.reached
  BY <1>7 DEF Searches
<1>9. Len(b.q) = 0
  <2>1. Cardinality(b.reached) \in Nat /\ Cardinality(b.reached) <= N
    BY <1>8, SizeOfIdx, FS_Subset, FS_CardinalityType DEF N
  <2>2. Len(b.q) \in Nat
    BY <1>8
  <2>3. CASE b.q = <<>>
    BY <2>3
  <2>4. CASE Len(b.q) + N = Cardinality(b.reached)
    BY <2>1, <2>2, <2>4, <1>1
  <2> QED BY <2>3, <2>4, <1>8
<1> QED BY <1>8, <1>9

-----------------------------------------------------------------------------
\* Every set of cells has one without an operand in the set.
Acyclic(cs) == \A S \in SUBSET Idx : S # {} => \E j \in S : Operands(cs, j) \intersect S = {}

\* No cell of such a sheet depends on itself: the cells that depend on it each have an
\* operand that is it, or that depends on it, too.
LEMMA NoneDependsOnItself ==
    ASSUME NEW cs, Acyclic(cs), NEW i \in Idx
    PROVE  i \notin DependOn(cs, i)
<1> DEFINE N == NumCells
           first == {j \in Idx : i \in Operands(cs, j)}
           More(S) == S \union {j \in Idx : Operands(cs, j) \intersect S # {}}
           Depending == {S \in SUBSET Idx : \A j \in S : Operands(cs, j) \intersect (S \union {i}) # {}}
           Good == [m \in 0 .. N |-> Depending]
           step == [m \in 1 .. N |-> [S \in Depending |-> More(S)]]
           AllLevels(f) == f = [m \in 0 .. N |-> IF m = 0 THEN first ELSE More(f[m - 1])]
           level == CHOOSE f : AllLevels(f)
<1>1. N \in Nat
  BY SheetAssumption
<1>2. ASSUME NEW S \in Depending PROVE More(S) \in Depending
  OBVIOUS
<1>3. first \in Depending
  OBVIOUS
<1> HIDE DEF N, More, first
<1>4. \E f : AllLevels(f)
  <2> HIDE DEF Depending
  <2>1. \A m \in 1 .. N : \A r \in Good[m - 1] : step[m][r] \in Good[m]
    <3> TAKE m \in 1 .. N
    <3>1. m \in 0 .. N /\ m - 1 \in 0 .. N
      BY <1>1
    <3> QED BY <3>1, <1>2
  <2>2. first \in Good[0]
    BY <1>1, <1>3
  <2>3. PICK f : /\ f = [m \in 0 .. N |-> IF m = 0 THEN first ELSE step[m][f[m - 1]]]
                 /\ \A m \in 0 .. N : f[m] \in Good[m]
    <3> HIDE DEF Good, step
    <3>1. \E f : LoopTurns(f, N, Good, first, step)
      BY <1>1, <2>1, <2>2, TurnsExist
    <3> QED BY <3>1 DEF LoopTurns
  <2>4. ASSUME NEW m \in 0 .. N, m # 0 PROVE step[m][f[m - 1]] = More(f[m - 1])
    <3>1. m \in 1 .. N /\ m - 1 \in 0 .. N
      BY <1>1, <2>4
    <3>2. f[m - 1] \in Depending
      BY <3>1, <2>3
    <3> QED BY <3>1, <3>2
  <2>5. f = [m \in 0 .. N |-> IF m = 0 THEN first ELSE More(f[m - 1])]
    <3> HIDE DEF step
    <3> QED BY <2>3, <2>4
  <2> QED BY <2>5
<1>5. AllLevels(level)
  <2> HIDE DEF AllLevels
  <2> QED BY <1>4
<1>6. DependOn(cs, i) = level[N]
  BY DEF DependOn, More, first, N
<1>7. level[N] \in Depending
  <2> HIDE DEF level, Depending
  <2>1. level[0] \in Good[0]
    BY <1>1, <1>3, <1>5
  <2>2. \A m \in 1 .. N : level[m - 1] \in Good[m - 1] => level[m] \in Good[m]
    <3> TAKE m \in 1 .. N
    <3>1. m \in 0 .. N /\ m - 1 \in 0 .. N /\ m # 0
      BY <1>1
    <3>2. level[m] = More(level[m - 1])
      BY <3>1, <1>5
    <3> QED BY <3>1, <3>2, <1>2
  <2>3. level[N] \in Good[N]
    <3> HIDE DEF Good, AllLevels
    <3> QED BY <1>1, <2>1, <2>2, TurnsStay
  <2> QED BY <1>1, <2>3
<1>8. ASSUME i \in level[N] PROVE FALSE
  <2>1. PICK S : S = level[N] /\ S \in Depending /\ i \in S
    BY <1>7, <1>8
  <2>2. S \union {i} = S
    BY <2>1
  <2>3. \A j \in S : Operands(cs, j) \intersect S # {}
    BY <2>1, <2>2
  <2> QED BY <2>1, <2>3 DEF Acyclic
<1> QED BY <1>6, <1>8

\* The operands of one cell change, and none of the new ones depends on the cell.
LEMMA StaysAcyclic ==
    ASSUME NEW cs, Acyclic(cs), NEW ds, NEW start \in Idx,
           \A j \in Idx \ {start} : Operands(ds, j) = Operands(cs, j),
           NEW R, R \subseteq Idx, start \in R,
           \A k \in Idx \ {start} : Operands(ds, k) \intersect R # {} => k \in R,
           Operands(ds, start) \intersect R = {}
    PROVE  Acyclic(ds)
<1> SUFFICES ASSUME NEW S \in SUBSET Idx, S # {} PROVE \E j \in S : Operands(ds, j) \intersect S = {}
  BY DEF Acyclic
<1>1. CASE start \notin S
  <2>1. PICK j \in S : Operands(cs, j) \intersect S = {}
    BY DEF Acyclic
  <2> QED BY <1>1, <2>1
<1>2. CASE S \ R # {}
  <2>1. PICK j \in S \ R : Operands(cs, j) \intersect (S \ R) = {}
    <3>1. S \ R \in SUBSET Idx
      OBVIOUS
    <3> QED BY <1>2, <3>1 DEF Acyclic
  <2>2. j \in Idx \ {start} /\ Operands(ds, j) = Operands(cs, j) /\ j \notin R
    BY <2>1
  <2>3. Operands(ds, j) \intersect R = {}
    BY <2>2
  <2> QED BY <2>1, <2>2, <2>3
<1>3. CASE start \in S /\ S \ R = {}
  BY <1>3
<1> QED BY <1>1, <1>2, <1>3

-----------------------------------------------------------------------------
\* The edges are those of the operands.
EdgesMatch(cs) ==
    /\ cs \in Sheets
    /\ \A i \in Idx : cs[i].op1 = NoCell => cs[i].op2 = NoCell
    /\ \A i \in Idx : EdgesTo(cs, i) = Operands(cs, i)

LEMMA ImpactedCellsAreSet ==
    ASSUME NEW cs, EdgesMatch(cs), NEW i \in Idx, NEW j \in cs[i].impacts
    PROVE  IsSet(cs[j])
<1>1. cs[i] \in Cell
  BY DEF EdgesMatch, Sheets
<1>2. j \in Idx
  BY <1>1 DEF Cell
<1>3. i \in Operands(cs, j)
  BY <1>2 DEF EdgesMatch, EdgesTo
<1>4. i \in Ops(cs[j])
  BY <1>3 DEF Operands
<1>5. cs[j] \in Cell
  BY <1>2 DEF EdgesMatch, Sheets
<1>6. cs[j].op1 # NoCell
  BY <1>2, <1>4 DEF EdgesMatch, Ops
<1> QED BY <1>5, <1>6 DEF Cell, IsSet

\* What the cells show is no part of this.
LEMMA AlikeIsKept ==
    ASSUME NEW cs \in Sheets, NEW ds \in Alike(cs)
    PROVE  /\ EdgesMatch(cs) => EdgesMatch(ds)
           /\ Acyclic(cs) => Acyclic(ds)
           /\ \A i \in Idx : Ops(ds[i]) = Ops(cs[i])
<1>1. ds \in Sheets /\ \A i \in Idx : /\ ds[i].v = cs[i].v /\ ds[i].op1 = cs[i].op1
                                      /\ ds[i].op2 = cs[i].op2 /\ ds[i].impacts = cs[i].impacts
  BY DEF Alike
<1>2. \A i \in Idx : Ops(ds[i]) = Ops(cs[i])
  BY <1>1 DEF Ops
<1>3. \A i \in Idx : Operands(ds, i) = Operands(cs, i) /\ EdgesTo(ds, i) = EdgesTo(cs, i)
  BY <1>1, <1>2 DEF Operands, EdgesTo
<1>4. EdgesMatch(cs) => EdgesMatch(ds)
  BY <1>1, <1>3 DEF EdgesMatch
<1>5. Acyclic(cs) => Acyclic(ds)
  BY <1>3 DEF Acyclic
<1> QED BY <1>2, <1>4, <1>5

LEMMA Recalculated ==
    ASSUME NEW cs, EdgesMatch(cs), NEW start \in Idx, IsSet(cs[start])
    PROVE  _bfs([cs EXCEPT ![start].r = calc_cell(cs, cs[start])], start, TRUE).cells \in Alike(cs)
<1>1. cs \in Sheets /\ cs \in Alike(cs)
  BY DEF EdgesMatch, Alike
<1>2. PICK ds : ds = [cs EXCEPT ![start].r = calc_cell(cs, cs[start])]
  OBVIOUS
<1>3. ds \in Alike(cs)
  BY <1>1, <1>2, WorkingOut
<1>4. EdgesMatch(ds) /\ ds \in Sheets
  BY <1>1, <1>3, AlikeIsKept DEF Alike
<1>5. \A i \in Idx : \A j \in ds[i].impacts : IsSet(ds[j])
  BY <1>4, ImpactedCellsAreSet
<1>6. PICK b : b = _bfs(ds, start, TRUE)
  OBVIOUS
<1>7. b.cells \in Alike(ds)
  BY <1>4, <1>5, <1>6, Searching
<1>8. b.cells \in Alike(cs)
  BY <1>3, <1>7 DEF Alike
<1> QED BY <1>2, <1>6, <1>8

\* The edges to a cell go, and then it gets its number or its operands.
Assigned(cs, start, as, ops) ==
    /\ as \in Sheets
    /\ \A i \in Idx : as[i].op1 = NoCell => as[i].op2 = NoCell
    /\ IsSet(as[start])
    /\ Ops(as[start]) = ops
    /\ \A i \in Idx \ {start} : Ops(as[i]) = Ops(cs[i]) /\ EdgesTo(as, i) = Operands(as, i)
    /\ EdgesTo(as, start) = {}

LEMMA Assigning ==
    ASSUME NEW cs, EdgesMatch(cs), NEW start \in Idx, HasEdges(cs, start),
           NEW v \in Numbers \union {NoNumber}, NEW op1 \in Idx \union {NoCell}, NEW op2 \in Idx \union {NoCell},
           op1 = NoCell => op2 = NoCell, v # NoNumber \/ op1 \in Idx,
           NEW as, as = [RemoveEdges(cs, start) EXCEPT ![start].v = v, ![start].op1 = op1, ![start].op2 = op2]
    PROVE  Assigned(cs, start, as, {op1, op2} \ {NoCell})
<1>1. cs \in Sheets /\ \A i \in Idx : cs[i] \in Cell
  BY DEF EdgesMatch, Sheets
<1> DEFINE left(i) == IF i \in Ops(cs[start]) THEN cs[i].impacts \ {start} ELSE cs[i].impacts
           cell(i) == [cs[i] EXCEPT !.impacts = left(i)]
           original == RemoveEdges(cs, start)
<1>2. original = [i \in Idx |-> cell(i)]
  BY DEF RemoveEdges
<1>3. ASSUME NEW i \in Idx
      PROVE  /\ cell(i) \in Cell /\ cell(i).v = cs[i].v /\ cell(i).op1 = cs[i].op1 /\ cell(i).op2 = cs[i].op2
             /\ cell(i).impacts = left(i)
  <2>1. cs[i] \in Cell /\ left(i) \in SUBSET Idx
    <3>1. cs[i] \in Cell /\ cs[i].impacts \in SUBSET Idx
      BY <1>1 DEF Cell
    <3> QED BY <3>1
  <2> HIDE DEF left
  <2> QED BY <2>1 DEF Cell
<1> HIDE DEF cell, left, original
<1> DEFINE set == [cell(start) EXCEPT !.v = v, !.op1 = op1, !.op2 = op2]
<1>4. as = [i \in Idx |-> IF i = start THEN set ELSE cell(i)]
  BY <1>2 DEF original
<1>5. set \in Cell /\ set.v = v /\ set.op1 = op1 /\ set.op2 = op2 /\ set.impacts = left(start)
  <2>1. cell(start) \in Cell /\ cell(start).impacts = left(start)
    BY <1>3
  <2> QED BY <2>1 DEF Cell
<1> HIDE DEF set
<1>6. as \in Sheets
  <2>1. ASSUME NEW i \in Idx PROVE as[i] \in Cell
    <3>1. as[i] = IF i = start THEN set ELSE cell(i)
      BY <1>4
    <3>2. set \in Cell /\ cell(i) \in Cell
      BY <1>3, <1>5
    <3> QED BY <3>1, <3>2
  <2>2. as = [i \in Idx |-> as[i]]
    BY <1>4
  <2> QED BY <2>1, <2>2 DEF Sheets
<1>7. \A i \in Idx : as[i].impacts = left(i)
  BY <1>3, <1>4, <1>5
<1>8. as[start].v = v /\ as[start].op1 = op1 /\ as[start].op2 = op2
  BY <1>4, <1>5
<1>9. \A i \in Idx \ {start} : as[i].v = cs[i].v /\ as[i].op1 = cs[i].op1 /\ as[i].op2 = cs[i].op2
  BY <1>3, <1>4
<1>10. \A i \in Idx : as[i].op1 = NoCell => as[i].op2 = NoCell
  BY <1>8, <1>9 DEF EdgesMatch
<1>11. IsSet(as[start]) /\ Ops(as[start]) = {op1, op2} \ {NoCell}
  BY <1>8 DEF IsSet, Ops
<1>12. ASSUME NEW i \in Idx \ {start} PROVE Ops(as[i]) = Ops(cs[i]) /\ EdgesTo(as, i) = Operands(as, i)
  <2>1. Ops(as[i]) = Ops(cs[i])
    BY <1>9 DEF Ops
  <2>2. Operands(as, i) = Operands(cs, i)
    BY <2>1 DEF Operands
  <2>3. \A k \in Idx : i \in left(k) <=> i \in cs[k].impacts
    BY DEF left
  <2>4. EdgesTo(as, i) = EdgesTo(cs, i)
    BY <1>7, <2>3 DEF EdgesTo
  <2> QED BY <2>1, <2>2, <2>4 DEF EdgesMatch
<1>13. EdgesTo(as, start) = {}
  <2> SUFFICES ASSUME NEW k \in Idx, start \in as[k].impacts PROVE FALSE
    BY DEF EdgesTo
  <2>1. start \in left(k)
    BY <1>7
  <2>2. start \in cs[k].impacts /\ k \notin Ops(cs[start])
    BY <2>1 DEF left
  <2>3. k \in Operands(cs, start)
    BY <2>2 DEF EdgesMatch, EdgesTo
  <2> QED BY <2>2, <2>3 DEF Operands
<1> QED BY <1>6, <1>10, <1>11, <1>12, <1>13 DEF Assigned

\* A number has no operands, and the operands of a cell that names itself count as none.
LEMMA WithoutOperands ==
    ASSUME NEW cs, Acyclic(cs), NEW start \in Idx, NEW as, NEW ops, Assigned(cs, start, as, ops),
           ops = {} \/ start \in ops
    PROVE  EdgesMatch(as) /\ Acyclic(as)
<1>1. Operands(as, start) = {}
  BY DEF Operands, Assigned
<1>2. \A i \in Idx \ {start} : Operands(as, i) = Operands(cs, i)
  BY DEF Operands, Assigned
<1>3. EdgesMatch(as)
  BY <1>1 DEF EdgesMatch, Assigned
<1>4. Acyclic(as)
  BY <1>1, <1>2, StaysAcyclic
<1> QED BY <1>3, <1>4

\* The edges of the new operands come.
EdgesAdded(cs, start, as, ops, ls) ==
    /\ EdgesMatch(ls)
    /\ IsSet(ls[start])
    /\ Ops(ls[start]) = ops
    /\ ls[start].impacts = as[start].impacts
    /\ \A i \in Idx \ {start} : Ops(ls[i]) = Ops(cs[i])

LEMMA Linking ==
    ASSUME NEW cs, NEW start \in Idx, NEW as, NEW ops \in SUBSET Idx, Assigned(cs, start, as, ops),
           start \notin ops, NEW ls, ls = AddEdges(as, start)
    PROVE  EdgesAdded(cs, start, as, ops, ls)
<1>1. as \in Sheets /\ \A i \in Idx : as[i] \in Cell
  BY DEF Assigned, Sheets
<1> DEFINE more(i) == IF i \in ops THEN as[i].impacts \union {start} ELSE as[i].impacts
           cell(i) == [as[i] EXCEPT !.impacts = more(i)]
<1>2. ls = [i \in Idx |-> cell(i)]
  BY DEF AddEdges, Assigned
<1>3. ASSUME NEW i \in Idx
      PROVE  /\ cell(i) \in Cell /\ cell(i).v = as[i].v /\ cell(i).op1 = as[i].op1 /\ cell(i).op2 = as[i].op2
             /\ cell(i).impacts = more(i)
  <2>1. as[i] \in Cell /\ more(i) \in SUBSET Idx
    <3>1. as[i] \in Cell /\ as[i].impacts \in SUBSET Idx
      BY <1>1 DEF Cell
    <3> QED BY <3>1
  <2> HIDE DEF more
  <2> QED BY <2>1 DEF Cell
<1> HIDE DEF cell
<1>4. ls \in Sheets
  BY <1>2, <1>3 DEF Sheets
<1>5. \A i \in Idx : /\ ls[i].v = as[i].v /\ ls[i].op1 = as[i].op1 /\ ls[i].op2 = as[i].op2
                     /\ ls[i].impacts = more(i)
  BY <1>2, <1>3
<1> HIDE DEF more
<1>6. \A i \in Idx : Ops(ls[i]) = Ops(as[i])
  BY <1>5 DEF Ops
<1>7. ASSUME NEW i \in Idx PROVE EdgesTo(ls, i) = Operands(ls, i)
  <2>1. Operands(ls, i) = Operands(as, i)
    BY <1>6 DEF Operands
  <2>2. CASE i # start
    <3>1. \A k \in Idx : i \in more(k) <=> i \in as[k].impacts
      BY <2>2 DEF more
    <3>2. EdgesTo(ls, i) = EdgesTo(as, i)
      BY <1>5, <3>1 DEF EdgesTo
    <3> QED BY <2>1, <2>2, <3>2 DEF Assigned
  <2>3. CASE i = start
    <3>1. \A k \in Idx : start \notin as[k].impacts
      BY DEF Assigned, EdgesTo
    <3>2. \A k \in Idx : start \in more(k) <=> k \in ops
      BY <3>1 DEF more
    <3>3. EdgesTo(ls, start) = ops
      BY <1>5, <3>2 DEF EdgesTo
    <3> QED BY <2>1, <2>3, <3>3 DEF Assigned, Operands
  <2> QED BY <2>2, <2>3
<1>8. EdgesMatch(ls)
  BY <1>4, <1>5, <1>7 DEF EdgesMatch, Assigned
<1>9. IsSet(ls[start])
  BY <1>5 DEF IsSet, Assigned
<1>10. Ops(ls[start]) = ops /\ \A i \in Idx \ {start} : Ops(ls[i]) = Ops(cs[i])
  BY <1>6 DEF Assigned
<1>11. ls[start].impacts = as[start].impacts
  BY <1>5 DEF more
<1> QED BY <1>8, <1>9, <1>10, <1>11 DEF EdgesAdded

\* No cycle is formed when no operand is reached from the cell.
LEMMA NoCycleFormed ==
    ASSUME NEW cs, Acyclic(cs), NEW start \in Idx, NEW ls, EdgesMatch(ls), start \notin Ops(ls[start]),
           \A i \in Idx \ {start} : Ops(ls[i]) = Ops(cs[i]),
           ~ FormsCycle(ls, start)
    PROVE  Acyclic(ls)
<1>1. PICK b : b = _bfs(ls, start, FALSE)
  OBVIOUS
<1>2. ls \in Sheets /\ \A i \in Idx : \A j \in ls[i].impacts : IsSet(ls[j])
  BY ImpactedCellsAreSet DEF EdgesMatch
<1>3. PICK R : R = b.reached
  OBVIOUS
<1>4. R \subseteq Idx /\ start \in R /\ \A j \in R : ls[j].impacts \subseteq R
  BY <1>1, <1>2, <1>3, Searching
<1>5. Operands(ls, start) \intersect R = {}
  BY <1>1, <1>3 DEF FormsCycle, Operands
<1>6. ASSUME NEW k \in Idx \ {start}, Operands(ls, k) \intersect R # {} PROVE k \in R
  <2>1. PICK j \in R : j \in Operands(ls, k)
    BY <1>6
  <2>2. j \in EdgesTo(ls, k)
    BY <2>1 DEF EdgesMatch
  <2>3. k \in ls[j].impacts
    BY <2>2 DEF EdgesTo
  <2> QED BY <2>1, <2>3, <1>4
<1>7. \A i \in Idx \ {start} : Operands(ls, i) = Operands(cs, i)
  BY DEF Operands
<1> QED BY <1>4, <1>5, <1>6, <1>7, StaysAcyclic

-----------------------------------------------------------------------------
\* Until the refusal of a longer cycle the edges match the operands, and the sheet is acyclic.
SheetInv ==
    /\ cells \in Sheets
    /\ refused \in {"no", "self", "cycle"}
    /\ refused # "cycle" => EdgesMatch(cells) /\ Acyclic(cells)
    /\ refused = "no" => \A i \in Idx : i \notin Ops(cells[i])
    /\ refused = "cycle" => \E i \in Idx : \A j \in Idx \ {i} : EdgesTo(cells, j) = Operands(cells, j)

LEMMA SheetInitInv == SheetInit => SheetInv
<1> SUFFICES ASSUME SheetInit PROVE SheetInv
  OBVIOUS
<1> DEFINE c == [v |-> NoNumber, op1 |-> NoCell, op2 |-> NoCell, impacts |-> {}, r |-> 0]
<1>1. c \in Cell /\ c.v = NoNumber /\ c.op1 = NoCell /\ c.op2 = NoCell /\ c.impacts = {}
  BY DEF Cell
<1>2. cells = [i \in Idx |-> c] /\ refused = "no"
  BY DEF SheetInit
<1> HIDE DEF c
<1>3. cells \in Sheets
  BY <1>1, <1>2 DEF Sheets
<1>4. \A i \in Idx : cells[i] = c
  BY <1>2
<1>5. \A i \in Idx : Ops(cells[i]) = {} /\ EdgesTo(cells, i) = {}
  BY <1>1, <1>4 DEF Ops, EdgesTo
<1>6. \A i \in Idx : Operands(cells, i) = {}
  BY <1>5 DEF Operands
<1>7. EdgesMatch(cells) /\ Acyclic(cells)
  BY <1>1, <1>3, <1>4, <1>5, <1>6 DEF EdgesMatch, Acyclic
<1> QED BY <1>2, <1>3, <1>5, <1>7 DEF SheetInv

LEMMA SetNumberKeeps ==
    ASSUME SheetInv, refused # "cycle", NEW start \in Idx, NEW v \in Numbers, SetNumber(start, v)
    PROVE  SheetInv'
<1>1. EdgesMatch(cells) /\ Acyclic(cells) /\ HasEdges(cells, start) /\ refused' = refused
  BY DEF SheetInv, SetNumber
<1>2. PICK as : as = [RemoveEdges(cells, start) EXCEPT ![start].v = v, ![start].op1 = NoCell,
                                                       ![start].op2 = NoCell]
  OBVIOUS
<1>3. v # NoNumber
  BY SheetAssumption
<1>4. Assigned(cells, start, as, {NoCell, NoCell} \ {NoCell})
  BY <1>1, <1>2, <1>3, Assigning
<1>5. Assigned(cells, start, as, {})
  BY <1>4
<1>6. EdgesMatch(as) /\ Acyclic(as) /\ IsSet(as[start])
  BY <1>1, <1>5, WithoutOperands DEF Assigned
<1>7. cells' \in Alike(as)
  <2>1. cells' = _bfs([as EXCEPT ![start].r = calc_cell(as, as[start])], start, TRUE).cells
    BY <1>2 DEF SetNumber, Recalculate
  <2> QED BY <2>1, <1>6, Recalculated
<1>8. as \in Sheets
  BY <1>6 DEF EdgesMatch
<1>9. EdgesMatch(cells') /\ Acyclic(cells') /\ \A i \in Idx : Ops(cells'[i]) = Ops(as[i])
  BY <1>6, <1>7, <1>8, AlikeIsKept
<1>10. \A i \in Idx : i \in Ops(cells'[i]) => i \in Ops(cells[i])
  BY <1>5, <1>9 DEF Assigned
<1>11. cells' \in Sheets
  BY <1>9 DEF EdgesMatch
<1> QED BY <1>1, <1>9, <1>10, <1>11 DEF SheetInv

LEMMA SetFormulaKeeps ==
    ASSUME SheetInv, refused # "cycle", NEW start \in Idx, NEW op1 \in Idx, NEW op2 \in Idx \union {NoCell},
           SetFormula(start, op1, op2)
    PROVE  SheetInv'
<1>1. EdgesMatch(cells) /\ Acyclic(cells) /\ HasEdges(cells, start) /\ start # NoCell /\ op1 # NoCell
  BY SizeOfIdx DEF SheetInv, SetFormula
<1>2. PICK original : original = RemoveEdges(cells, start)
  OBVIOUS
<1>3. PICK as : as = [original EXCEPT ![start].v = NoNumber, ![start].op1 = op1, ![start].op2 = op2]
  OBVIOUS
<1>4. PICK ls : ls = AddEdges(as, start)
  OBVIOUS
<1>5. PICK ops : ops = {op1, op2} \ {NoCell}
  OBVIOUS
<1>6. Assigned(cells, start, as, ops)
  <2>1. as = [RemoveEdges(cells, start) EXCEPT ![start].v = NoNumber, ![start].op1 = op1, ![start].op2 = op2]
    BY <1>2, <1>3
  <2>2. NoNumber \in Numbers \union {NoNumber} /\ op1 \in Idx \union {NoCell}
    OBVIOUS
  <2> HIDE DEF NoNumber, NoCell
  <2>3. Assigned(cells, start, as, {op1, op2} \ {NoCell})
    BY <2>1, <2>2, <1>1, Assigning
  <2> QED BY <2>3, <1>5
<1>7. start \in {op1, op2} <=> start \in ops
  BY <1>1, <1>5
<1>8. \/ start \in ops /\ cells' = as /\ refused' = "self"
      \/ /\ start \notin ops /\ FormsCycle(ls, start)
         /\ cells' = [ls EXCEPT ![start] = original[start]] /\ refused' = "cycle"
      \/ /\ start \notin ops /\ ~ FormsCycle(ls, start) /\ refused' = refused
         /\ cells' = _bfs([ls EXCEPT ![start].r = calc_cell(ls, ls[start])], start, TRUE).cells
  BY <1>2, <1>3, <1>4, <1>7 DEF SetFormula, Recalculate
<1>9. CASE start \in ops
  <2>1. cells' = as /\ refused' = "self"
    BY <1>8, <1>9
  <2>2. EdgesMatch(as) /\ Acyclic(as) /\ as \in Sheets
    BY <1>1, <1>6, <1>9, WithoutOperands DEF Assigned
  <2> QED BY <2>1, <2>2 DEF SheetInv
<1>10. ASSUME start \notin ops PROVE EdgesAdded(cells, start, as, ops, ls)
  <2>1. ops \in SUBSET Idx
    BY <1>5
  <2> QED BY <2>1, <1>4, <1>6, <1>10, Linking
<1>11. CASE start \notin ops /\ ~ FormsCycle(ls, start)
  <2>1. /\ cells' = _bfs([ls EXCEPT ![start].r = calc_cell(ls, ls[start])], start, TRUE).cells
        /\ refused' = refused
    BY <1>8, <1>11
  <2>2. Acyclic(ls)
    <3>1. /\ EdgesMatch(ls) /\ start \notin Ops(ls[start])
          /\ \A i \in Idx \ {start} : Ops(ls[i]) = Ops(cells[i])
      BY <1>10, <1>11 DEF EdgesAdded
    <3> QED BY <3>1, <1>1, <1>11, NoCycleFormed
  <2>3. cells' \in Alike(ls) /\ ls \in Sheets
    BY <2>1, <1>10, <1>11, Recalculated DEF EdgesMatch, EdgesAdded
  <2>4. EdgesMatch(cells') /\ Acyclic(cells') /\ \A i \in Idx : Ops(cells'[i]) = Ops(ls[i])
    BY <2>2, <2>3, <1>10, <1>11, AlikeIsKept DEF EdgesAdded
  <2>5. \A i \in Idx : i \in Ops(cells'[i]) => i \in Ops(cells[i])
    BY <2>4, <1>10, <1>11 DEF EdgesAdded
  <2>6. cells' \in Sheets
    BY <2>4 DEF EdgesMatch
  <2> QED BY <2>1, <2>4, <2>5, <2>6 DEF SheetInv
<1>12. CASE start \notin ops /\ FormsCycle(ls, start)
  <2>1. cells' = [ls EXCEPT ![start] = original[start]] /\ refused' = "cycle"
    BY <1>8, <1>12
  <2>2. ls \in Sheets
    BY <1>10, <1>12 DEF EdgesMatch, EdgesAdded
  <2>3. original[start] \in Cell /\ original[start].impacts = as[start].impacts
    <3>1. cells[start] \in Cell
      BY DEF SheetInv, Sheets
    <3>2. PICK left : left = IF start \in Ops(cells[start]) THEN cells[start].impacts \ {start}
                                                            ELSE cells[start].impacts
      OBVIOUS
    <3>3. original[start] = [cells[start] EXCEPT !.impacts = left]
      BY <1>2, <3>2 DEF RemoveEdges
    <3>4. left \in SUBSET Idx
      BY <3>1, <3>2 DEF Cell
    <3>5. original[start] \in Cell
      BY <3>1, <3>3, <3>4 DEF Cell
    <3>6. original = [i \in Idx |-> original[i]]
      BY <1>2 DEF RemoveEdges
    <3>7. as[start] = [original[start] EXCEPT !.v = NoNumber, !.op1 = op1, !.op2 = op2]
      BY <3>6, <1>3
    <3> QED BY <3>5, <3>7 DEF Cell
  <2>4. cells' = [i \in Idx |-> IF i = start THEN original[start] ELSE ls[i]]
    BY <2>1, <2>2 DEF Sheets
  <2>5. \A i \in Idx : cells'[i].impacts = ls[i].impacts /\ cells'[i] \in Cell
    BY <2>2, <2>3, <2>4, <1>10, <1>12 DEF Sheets, EdgesAdded
  <2>6. cells' \in Sheets
    BY <2>4, <2>5 DEF Sheets
  <2>7. ASSUME NEW j \in Idx \ {start} PROVE EdgesTo(cells', j) = Operands(cells', j)
    <3>1. EdgesTo(cells', j) = EdgesTo(ls, j)
      BY <2>5 DEF EdgesTo
    <3>2. cells'[j] = ls[j]
      BY <2>4
    <3>3. Operands(cells', j) = Operands(ls, j)
      BY <3>2 DEF Operands
    <3> QED BY <3>1, <3>3, <1>10, <1>12 DEF EdgesMatch, EdgesAdded
  <2>8. \A j \in Idx \ {start} : EdgesTo(cells, j)' = Operands(cells, j)'
    BY <2>7 DEF EdgesTo, Operands
  <2> QED BY <2>1, <2>6, <2>8 DEF SheetInv
<1> QED BY <1>9, <1>11, <1>12

LEMMA SheetNextInv ==
    ASSUME SheetInv, [SheetNext]_sheetVars
    PROVE  SheetInv'
<1>1. CASE UNCHANGED sheetVars
  BY <1>1 DEF SheetInv, sheetVars
<1>2. CASE SheetNext
  <2>1. PICK start \in Idx :
           \/ \E v \in Numbers : SetNumber(start, v)
           \/ \E op1 \in Idx, op2 \in Idx \union {NoCell} : SetFormula(start, op1, op2)
    BY <1>2 DEF SheetNext
  <2>2. refused # "cycle"
    BY <1>2 DEF SheetNext
  <2>3. CASE \E v \in Numbers : SetNumber(start, v)
    BY <2>2, <2>3, SetNumberKeeps
  <2>4. CASE \E op1 \in Idx, op2 \in Idx \union {NoCell} : SetFormula(start, op1, op2)
    BY <2>2, <2>4, SetFormulaKeeps
  <2> QED BY <2>1, <2>3, <2>4
<1> QED BY <1>1, <1>2

LEMMA SheetInvAcyclic == SheetInv => SheetIsAcyclic
<1> SUFFICES ASSUME SheetInv PROVE SheetIsAcyclic
  OBVIOUS
<1>1. refused # "cycle" => \A i \in Idx : i \notin DependOn(cells, i) /\ EdgesTo(cells, i) = Operands(cells, i)
  BY NoneDependsOnItself DEF SheetInv, EdgesMatch
<1>2. refused = "no" => \A i \in Idx : Operands(cells, i) = Ops(cells[i])
  BY DEF SheetInv, Operands
<1> QED BY <1>1, <1>2 DEF SheetInv, SheetIsAcyclic

\* Whatever set_cell is called with, no cell depends on itself, and the edges are those of
\* the operands, until a longer cycle is refused; that leaves the edges to one cell wrong.
THEOREM SheetIsAlwaysAcyclic == SheetSpec => []SheetIsAcyclic
<1>1. SheetSpec => []SheetInv
  <2>1. SheetInv /\ [SheetNext]_sheetVars => SheetInv'
    BY SheetNextInv
  <2> QED BY <2>1, SheetInitInv, PTL DEF SheetSpec
<1> QED BY <1>1, SheetInvAcyclic, PTL

-----------------------------------------------------------------------------
(***************************************************************************)
(* MinMaxCounters.                                                         *)
(***************************************************************************)
LEMMA NodesDiffer ==
    /\ Cardinality(CounterKey) \in Nat /\ HeadNode \subseteq Nat
    /\ MaxHead \in HeadNode /\ MinTail \in HeadNode /\ MaxHead # MinTail
    /\ \A k \in CounterKey : k \notin HeadNode
    /\ \A p \in Dnode : p # NoNode
    /\ CounterKey \subseteq Dnode /\ HeadNode \subseteq Dnode
    /\ NoNode \notin CounterKey /\ NoNode \notin HeadNode
<1>1. Cardinality(CounterKey) \in Nat
  BY CountersAssumption, FS_CardinalityType
<1>2. HeadNode \subseteq Nat /\ MaxHead \in HeadNode /\ MinTail \in HeadNode /\ MaxHead # MinTail
  BY <1>1 DEF HeadNode, MaxHead, MinTail
<1> HIDE DEF HeadNode, MaxHead, MinTail
<1>3. /\ \A k \in CounterKey : k \notin HeadNode
      /\ \A p \in Dnode : p # NoNode
  BY CountersAssumption
<1>4. CounterKey \subseteq Dnode /\ HeadNode \subseteq Dnode
  BY DEF Dnode
<1> QED BY <1>1, <1>2, <1>3, <1>4

\* A field of a node is set, of no node at all.
FieldSet(f, p, x, g) ==
    g \in [Dnode -> DnodeOrNone] /\ \A q \in Dnode : g[q] = IF q = p THEN x ELSE f[q]

LEMMA SettingField ==
    ASSUME NEW f \in [Dnode -> DnodeOrNone], NEW p \in DnodeOrNone, NEW x \in DnodeOrNone
    PROVE  FieldSet(f, p, x, SetField(f, p, x))
<1> USE DEF FieldSet
<1>1. CASE p = NoNode
  BY <1>1, NodesDiffer DEF SetField
<1>2. CASE p # NoNode
  <2>1. p \in Dnode
    BY <1>2 DEF DnodeOrNone
  <2> QED BY <1>2, <2>1 DEF SetField
<1> QED BY <1>1, <1>2

\* What remove of a node does to the fields.
NodeRemoved(h, p, r) ==
    /\ r \in Heaps /\ r.cnt = h.cnt /\ r.l = h.l /\ r.head = h.head
    /\ \A q \in Dnode : /\ r.next[q] = IF q = h.prev[p] THEN h.next[p] ELSE h.next[q]
                        /\ r.prev[q] = IF q = h.next[p] THEN h.prev[p] ELSE h.prev[q]

LEMMA RemovingNode ==
    ASSUME NEW h \in Heaps, NEW p \in Dnode
    PROVE  NodeRemoved(h, p, DoubleLinksRemove(h, p))
<1>1. PICK nx, pv : nx = h.next /\ pv = h.prev
  OBVIOUS
<1>2. nx \in [Dnode -> DnodeOrNone] /\ pv \in [Dnode -> DnodeOrNone]
  BY <1>1 DEF Heaps
<1>3. nx[p] \in DnodeOrNone /\ pv[p] \in DnodeOrNone
  BY <1>2
<1>4. PICK nx2, pv2 : nx2 = SetField(nx, pv[p], nx[p]) /\ pv2 = SetField(pv, nx[p], pv[p])
  OBVIOUS
<1>5. /\ nx2 \in [Dnode -> DnodeOrNone] /\ pv2 \in [Dnode -> DnodeOrNone]
      /\ \A q \in Dnode : /\ nx2[q] = IF q = pv[p] THEN nx[p] ELSE nx[q]
                          /\ pv2[q] = IF q = nx[p] THEN pv[p] ELSE pv[q]
  <2>1. /\ nx2 \in [Dnode -> DnodeOrNone]
        /\ \A q \in Dnode : nx2[q] = IF q = pv[p] THEN nx[p] ELSE nx[q]
    <3>1. PICK a \in DnodeOrNone, x \in DnodeOrNone : a = pv[p] /\ x = nx[p]
      BY <1>3
    <3>2. nx2 = SetField(nx, a, x)
      BY <3>1, <1>4
    <3>3. FieldSet(nx, a, x, nx2)
      BY <3>2, <1>2, SettingField
    <3> QED BY <3>1, <3>3 DEF FieldSet
  <2>2. /\ pv2 \in [Dnode -> DnodeOrNone]
        /\ \A q \in Dnode : pv2[q] = IF q = nx[p] THEN pv[p] ELSE pv[q]
    <3>1. PICK a \in DnodeOrNone, x \in DnodeOrNone : a = nx[p] /\ x = pv[p]
      BY <1>3
    <3>2. pv2 = SetField(pv, a, x)
      BY <3>1, <1>4
    <3>3. FieldSet(pv, a, x, pv2)
      BY <3>2, <1>2, SettingField
    <3> QED BY <3>1, <3>3 DEF FieldSet
  <2> QED BY <2>1, <2>2
<1>6. PICK r : r = DoubleLinksRemove(h, p)
  OBVIOUS
<1>7. r = [h EXCEPT !.next = nx2, !.prev = pv2]
  BY <1>1, <1>4, <1>6 DEF DoubleLinksRemove, Heaps
<1>8. r \in Heaps /\ r.next = nx2 /\ r.prev = pv2 /\ r.cnt = h.cnt /\ r.l = h.l /\ r.head = h.head
  BY <1>5, <1>7 DEF Heaps
<1> QED BY <1>1, <1>5, <1>6, <1>8 DEF NodeRemoved

\* What insert of a node does to the fields.
NodeInserted(h, p, n, r) ==
    /\ r \in Heaps /\ r.cnt = h.cnt /\ r.l = h.l /\ r.head = h.head
    /\ \A q \in Dnode : /\ r.next[q] = IF q = n THEN h.next[p] ELSE IF q = p THEN n ELSE h.next[q]
                        /\ r.prev[q] = IF q = h.next[p] THEN n ELSE IF q = n THEN p ELSE h.prev[q]

LEMMA InsertingNode ==
    ASSUME NEW h \in Heaps, NEW p \in Dnode, NEW n \in Dnode, n # p
    PROVE  NodeInserted(h, p, n, DoubleLinksInsert(h, p, n))
<1>1. PICK nx, pv : nx = h.next /\ pv = h.prev
  OBVIOUS
<1>2. nx \in [Dnode -> DnodeOrNone] /\ pv \in [Dnode -> DnodeOrNone]
  BY <1>1 DEF Heaps
<1>3. nx[p] \in DnodeOrNone /\ p \in DnodeOrNone /\ n \in DnodeOrNone
  BY <1>2 DEF DnodeOrNone
<1>4. PICK nx2, pv1, pv2 : /\ nx2 = [nx EXCEPT ![p] = n, ![n] = nx[p]]
                           /\ pv1 = [pv EXCEPT ![n] = p]
                           /\ pv2 = SetField(pv1, nx[p], n)
  OBVIOUS
<1>5. pv1 \in [Dnode -> DnodeOrNone] /\ \A q \in Dnode : pv1[q] = IF q = n THEN p ELSE pv[q]
  BY <1>2, <1>3, <1>4
<1>6. nx2 \in [Dnode -> DnodeOrNone]
      /\ \A q \in Dnode : nx2[q] = IF q = n THEN nx[p] ELSE IF q = p THEN n ELSE nx[q]
  BY <1>2, <1>3, <1>4
<1>7. /\ pv2 \in [Dnode -> DnodeOrNone]
      /\ \A q \in Dnode : pv2[q] = IF q = nx[p] THEN n ELSE pv1[q]
  <2>1. PICK a \in DnodeOrNone : a = nx[p]
    BY <1>3
  <2>2. pv2 = SetField(pv1, a, n)
    BY <2>1, <1>4
  <2>3. FieldSet(pv1, a, n, pv2)
    BY <2>2, <1>3, <1>5, SettingField
  <2> QED BY <2>1, <2>3 DEF FieldSet
<1>8. PICK r : r = DoubleLinksInsert(h, p, n)
  OBVIOUS
<1>9. r = [h EXCEPT !.next = nx2, !.prev = pv2]
  BY <1>1, <1>4, <1>8 DEF DoubleLinksInsert, Heaps
<1>10. r \in Heaps /\ r.next = nx2 /\ r.prev = pv2 /\ r.cnt = h.cnt /\ r.l = h.l /\ r.head = h.head
  BY <1>6, <1>7, <1>9 DEF Heaps
<1> QED BY <1>1, <1>5, <1>6, <1>7, <1>8, <1>10 DEF NodeInserted

\* What the parts of remove and add do to the fields.
ListLeft(h, k, r) ==
    /\ r \in Heaps /\ r.cnt = h.cnt
    /\ \A p \in HeadNode : r.l[p] = IF p = h.head[k] /\ h.l[p] = k THEN h.next[k] ELSE h.l[p]
    /\ \A j \in CounterKey : r.head[j] = IF j = k THEN NoNode ELSE h.head[j]
    /\ \A q \in Dnode :
         /\ r.next[q] = IF q = k THEN NoNode ELSE IF q = h.prev[k] THEN h.next[k] ELSE h.next[q]
         /\ r.prev[q] = IF q = k THEN NoNode ELSE IF q = h.next[k] THEN h.prev[k] ELSE h.prev[q]

LEMMA LeavingList ==
    ASSUME NEW h \in Heaps, NEW k \in CounterKey, h.head[k] \in HeadNode,
           h.prev[k] # k, h.next[k] \in CounterKey \union {NoNode}
    PROVE  ListLeft(h, k, LeaveList(h, k))
<1>0. k \in Dnode /\ NoNode \in DnodeOrNone
  BY DEF Dnode, DnodeOrNone
<1>1. PICK ls : ls = DoubleLinksRemove(h, k)
  OBVIOUS
<1>2. NodeRemoved(h, k, ls)
  BY <1>0, <1>1, RemovingNode
<1>3. PICK nx, pv, l1, hd : nx = ls.next /\ pv = ls.prev /\ l1 = h.l /\ hd = h.head
  OBVIOUS
<1>4. /\ ls \in Heaps /\ nx \in [Dnode -> DnodeOrNone] /\ pv \in [Dnode -> DnodeOrNone]
      /\ l1 \in [HeadNode -> CounterKey \union {NoNode}] /\ hd \in [CounterKey -> HeadNode \union {NoNode}]
      /\ ls.l = l1 /\ ls.head = hd /\ ls.cnt = h.cnt
  BY <1>2, <1>3 DEF NodeRemoved, Heaps
<1>5. nx[k] = h.next[k]
  BY <1>0, <1>2, <1>3 DEF NodeRemoved
<1>6. PICK l2 : l2 = IF l1[hd[k]] = k THEN [l1 EXCEPT ![hd[k]] = nx[k]] ELSE l1
  OBVIOUS
<1>7. /\ l2 \in [HeadNode -> CounterKey \union {NoNode}]
      /\ \A p \in HeadNode : l2[p] = IF p = hd[k] /\ l1[p] = k THEN nx[k] ELSE l1[p]
  BY <1>3, <1>4, <1>5, <1>6
<1>8. PICK r : r = LeaveList(h, k)
  OBVIOUS
<1>9. r = [ls EXCEPT !.l = l2, !.head = [hd EXCEPT ![k] = NoNode], !.prev = [pv EXCEPT ![k] = NoNode],
                     !.next = [nx EXCEPT ![k] = NoNode]]
  BY <1>1, <1>3, <1>4, <1>6, <1>8 DEF LeaveList, Heaps
<1>10. /\ [hd EXCEPT ![k] = NoNode] \in [CounterKey -> HeadNode \union {NoNode}]
       /\ [pv EXCEPT ![k] = NoNode] \in [Dnode -> DnodeOrNone]
       /\ [nx EXCEPT ![k] = NoNode] \in [Dnode -> DnodeOrNone]
  BY <1>0, <1>4
<1>11. /\ r \in Heaps /\ r.cnt = h.cnt /\ r.l = l2 /\ r.head = [hd EXCEPT ![k] = NoNode]
       /\ r.prev = [pv EXCEPT ![k] = NoNode] /\ r.next = [nx EXCEPT ![k] = NoNode]
  BY <1>4, <1>7, <1>9, <1>10 DEF Heaps
<1>12. \A q \in Dnode : /\ nx[q] = IF q = h.prev[k] THEN h.next[k] ELSE h.next[q]
                        /\ pv[q] = IF q = h.next[k] THEN h.prev[k] ELSE h.prev[q]
  BY <1>2, <1>3 DEF NodeRemoved
<1>13. \A q \in Dnode :
         /\ r.next[q] = IF q = k THEN NoNode ELSE IF q = h.prev[k] THEN h.next[k] ELSE h.next[q]
         /\ r.prev[q] = IF q = k THEN NoNode ELSE IF q = h.next[k] THEN h.prev[k] ELSE h.prev[q]
  BY <1>4, <1>11, <1>12
<1>14. \A j \in CounterKey : r.head[j] = IF j = k THEN NoNode ELSE h.head[j]
  BY <1>3, <1>4, <1>11
<1>15. \A p \in HeadNode : r.l[p] = IF p = h.head[k] /\ h.l[p] = k THEN h.next[k] ELSE h.l[p]
  BY <1>3, <1>5, <1>7, <1>11
<1> QED BY <1>8, <1>11, <1>13, <1>14, <1>15 DEF ListLeft

HeadDropped(h, p, r) ==
    /\ r \in Heaps /\ r.l = h.l /\ r.head = h.head
    /\ \A q \in HeadNode : r.cnt[q] = IF q = p THEN 0 ELSE h.cnt[q]
    /\ \A q \in Dnode :
         /\ r.next[q] = IF q = p THEN NoNode ELSE IF q = h.prev[p] THEN h.next[p] ELSE h.next[q]
         /\ r.prev[q] = IF q = p THEN NoNode ELSE IF q = h.next[p] THEN h.prev[p] ELSE h.prev[q]

LEMMA DroppingHead ==
    ASSUME NEW h \in Heaps, NEW p \in HeadNode
    PROVE  HeadDropped(h, p, DropHead(h, p))
<1>0. p \in Dnode /\ NoNode \in DnodeOrNone /\ 0 \in 0 .. MaxCount
  BY CountersAssumption DEF Dnode, DnodeOrNone
<1>1. PICK ls : ls = DoubleLinksRemove(h, p)
  OBVIOUS
<1>2. NodeRemoved(h, p, ls)
  BY <1>0, <1>1, RemovingNode
<1>3. PICK nx, pv, c : nx = ls.next /\ pv = ls.prev /\ c = h.cnt
  OBVIOUS
<1>4. /\ ls \in Heaps /\ nx \in [Dnode -> DnodeOrNone] /\ pv \in [Dnode -> DnodeOrNone]
      /\ c \in [HeadNode -> 0 .. MaxCount] /\ ls.cnt = c /\ ls.l = h.l /\ ls.head = h.head
  BY <1>2, <1>3 DEF NodeRemoved, Heaps
<1>5. PICK r : r = DropHead(h, p)
  OBVIOUS
<1>6. r = [ls EXCEPT !.prev = [pv EXCEPT ![p] = NoNode], !.next = [nx EXCEPT ![p] = NoNode],
                     !.cnt = [c EXCEPT ![p] = 0]]
  BY <1>1, <1>3, <1>4, <1>5 DEF DropHead, Heaps
<1>7. /\ [c EXCEPT ![p] = 0] \in [HeadNode -> 0 .. MaxCount]
      /\ [pv EXCEPT ![p] = NoNode] \in [Dnode -> DnodeOrNone]
      /\ [nx EXCEPT ![p] = NoNode] \in [Dnode -> DnodeOrNone]
  BY <1>0, <1>4
<1>8. /\ r \in Heaps /\ r.cnt = [c EXCEPT ![p] = 0] /\ r.l = h.l /\ r.head = h.head
      /\ r.prev = [pv EXCEPT ![p] = NoNode] /\ r.next = [nx EXCEPT ![p] = NoNode]
  BY <1>4, <1>6, <1>7 DEF Heaps
<1>9. \A q \in Dnode : /\ nx[q] = IF q = h.prev[p] THEN h.next[p] ELSE h.next[q]
                       /\ pv[q] = IF q = h.next[p] THEN h.prev[p] ELSE h.prev[q]
  BY <1>2, <1>3 DEF NodeRemoved
<1>10. \A q \in Dnode :
         /\ r.next[q] = IF q = p THEN NoNode ELSE IF q = h.prev[p] THEN h.next[p] ELSE h.next[q]
         /\ r.prev[q] = IF q = p THEN NoNode ELSE IF q = h.next[p] THEN h.prev[p] ELSE h.prev[q]
  BY <1>4, <1>8, <1>9
<1>11. \A q \in HeadNode : r.cnt[q] = IF q = p THEN 0 ELSE h.cnt[q]
  BY <1>3, <1>4, <1>8
<1> QED BY <1>5, <1>8, <1>10, <1>11 DEF HeadDropped

HeadInserted(h, p, n, c, r) ==
    /\ r \in Heaps /\ r.l = h.l /\ r.head = h.head
    /\ \A q \in HeadNode : r.cnt[q] = IF q = n THEN c ELSE h.cnt[q]
    /\ \A q \in Dnode : /\ r.next[q] = IF q = n THEN h.next[p] ELSE IF q = p THEN n ELSE h.next[q]
                        /\ r.prev[q] = IF q = h.next[p] THEN n ELSE IF q = n THEN p ELSE h.prev[q]

\* Of the free head-nodes the first one is taken.
LEMMA InsertingHead ==
    ASSUME NEW h \in Heaps, NEW p \in HeadNode, h.next[p] # NoNode, NEW c \in 0 .. MaxCount, Free(h) # {},
           NEW t, t = InsertHead(h, p, c)
    PROVE  t.node \in Free(h) /\ HeadInserted(h, p, t.node, c, t.heap)
<1>1. PICK n : n = CHOOSE q \in Free(h) : \A r \in Free(h) : q <= r
  OBVIOUS
<1>2. n \in Free(h)
  <2>1. Free(h) \subseteq Nat
    BY NodesDiffer DEF Free
  <2>2. \E q \in Free(h) : \A r \in Free(h) : q <= r
    BY <2>1, LeastNatural
  <2> QED BY <1>1, <2>2
<1>3. n \in HeadNode /\ n \in Dnode /\ p \in Dnode /\ n # p
  BY <1>2, NodesDiffer DEF Free
<1>4. PICK h1 : h1 = [h EXCEPT !.cnt[n] = c]
  OBVIOUS
<1>5. PICK cs : cs = h.cnt
  OBVIOUS
<1>6. /\ cs \in [HeadNode -> 0 .. MaxCount] /\ h1 = [h EXCEPT !.cnt = [cs EXCEPT ![n] = c]]
      /\ [cs EXCEPT ![n] = c] \in [HeadNode -> 0 .. MaxCount]
  BY <1>4, <1>5 DEF Heaps
<1>7. /\ h1 \in Heaps /\ h1.cnt = [cs EXCEPT ![n] = c] /\ h1.l = h.l /\ h1.head = h.head
      /\ h1.next = h.next /\ h1.prev = h.prev
  BY <1>6 DEF Heaps
<1>8. NodeInserted(h1, p, n, DoubleLinksInsert(h1, p, n))
  BY <1>3, <1>7, InsertingNode
<1>9. t.heap = DoubleLinksInsert(h1, p, n) /\ t.node = n
  BY <1>1, <1>4 DEF InsertHead
<1>10. NodeInserted(h1, p, n, t.heap)
  BY <1>8, <1>9
<1>11. \A q \in HeadNode : t.heap.cnt[q] = IF q = n THEN c ELSE h.cnt[q]
  BY <1>3, <1>5, <1>6, <1>7, <1>10 DEF NodeInserted
<1>12. HeadInserted(h, p, n, c, t.heap)
  BY <1>7, <1>10, <1>11 DEF HeadInserted, NodeInserted
<1> QED BY <1>2, <1>9, <1>12

\* The first element of a head-node, or one that goes after the first.
ElementAdded(h, k, p, r) ==
    /\ r \in Heaps /\ r.cnt = h.cnt
    /\ \A q \in HeadNode : r.l[q] = IF q = p /\ h.l[p] = NoNode THEN k ELSE h.l[q]
    /\ \A j \in CounterKey : r.head[j] = IF j = k THEN p ELSE h.head[j]
    /\ h.l[p] = NoNode => r.next = h.next /\ r.prev = h.prev
    /\ h.l[p] # NoNode =>
         \A q \in Dnode :
            /\ r.next[q] = IF q = k THEN h.next[h.l[p]] ELSE IF q = h.l[p] THEN k ELSE h.next[q]
            /\ r.prev[q] = IF q = h.next[h.l[p]] THEN k ELSE IF q = k THEN h.l[p] ELSE h.prev[q]

LEMMA AddingElement ==
    ASSUME NEW h \in Heaps, NEW p \in HeadNode, NEW k \in CounterKey, h.l[p] # k
    PROVE  ElementAdded(h, k, p, AddElement(h, k, p))
<1>1. PICK hd, l1, r : hd = h.head /\ l1 = h.l /\ r = AddElement(h, k, p)
  OBVIOUS
<1>2. PICK h1 : h1 = [h EXCEPT !.head[k] = p]
  OBVIOUS
<1>3. /\ hd \in [CounterKey -> HeadNode \union {NoNode}] /\ l1 \in [HeadNode -> CounterKey \union {NoNode}]
      /\ h1 = [h EXCEPT !.head = [hd EXCEPT ![k] = p]]
      /\ [hd EXCEPT ![k] = p] \in [CounterKey -> HeadNode \union {NoNode}]
  BY <1>1, <1>2 DEF Heaps
<1>4. /\ h1 \in Heaps /\ h1.head = [hd EXCEPT ![k] = p] /\ h1.l = l1 /\ h1.cnt = h.cnt
      /\ h1.next = h.next /\ h1.prev = h.prev
  BY <1>1, <1>3 DEF Heaps
<1>5. \A j \in CounterKey : h1.head[j] = IF j = k THEN p ELSE h.head[j]
  BY <1>1, <1>3, <1>4
<1>6. CASE h.l[p] = NoNode
  <2>1. r = [h1 EXCEPT !.l = [l1 EXCEPT ![p] = k]]
    BY <1>1, <1>2, <1>4, <1>6 DEF AddElement, Heaps
  <2>2. [l1 EXCEPT ![p] = k] \in [HeadNode -> CounterKey \union {NoNode}]
    BY <1>3
  <2>3. /\ r \in Heaps /\ r.l = [l1 EXCEPT ![p] = k] /\ r.head = h1.head /\ r.cnt = h.cnt
        /\ r.next = h.next /\ r.prev = h.prev
    BY <1>4, <2>1, <2>2 DEF Heaps
  <2>4. \A q \in HeadNode : r.l[q] = IF q = p THEN k ELSE h.l[q]
    BY <1>1, <1>3, <2>3
  <2> QED BY <1>1, <1>5, <1>6, <2>3, <2>4 DEF ElementAdded
<1>7. CASE h.l[p] # NoNode
  <2>1. PICK f : f = h.l[p]
    OBVIOUS
  <2>2. f \in Dnode /\ k \in Dnode /\ f # k
    <3>1. f \in CounterKey
      BY <1>1, <1>3, <1>7, <2>1
    <3> QED BY <3>1, <2>1 DEF Dnode
  <2>3. r = DoubleLinksInsert(h1, f, k)
    BY <1>1, <1>2, <1>7, <2>1 DEF AddElement
  <2>4. NodeInserted(h1, f, k, r)
    BY <1>4, <2>2, <2>3, InsertingNode
  <2>5. /\ r \in Heaps /\ r.cnt = h.cnt /\ r.l = h.l /\ r.head = h1.head
        /\ \A q \in Dnode :
            /\ r.next[q] = IF q = k THEN h.next[f] ELSE IF q = f THEN k ELSE h.next[q]
            /\ r.prev[q] = IF q = h.next[f] THEN k ELSE IF q = k THEN f ELSE h.prev[q]
    BY <1>1, <1>4, <2>4 DEF NodeInserted
  <2> QED BY <1>1, <1>5, <1>7, <2>1, <2>5 DEF ElementAdded
<1> QED BY <1>6, <1>7

-----------------------------------------------------------------------------
\* The head-nodes in the count list, and their counts; that of max_head exceeds all others.
Heads(h) == {p \in HeadNode : p \in {MaxHead, MinTail} \/ h.next[p] # NoNode}
Inner(h) == Heads(h) \ {MaxHead, MinTail}
Level(h, p) == IF p = MaxHead THEN MaxCount + 1 ELSE h.cnt[p]

\* The head-node q comes next after p.
Follows(h, p, q) ==
    /\ q \in Heads(h) \ {MaxHead}
    /\ h.prev[q] = p
    /\ Level(h, q) < Level(h, p)
    /\ \A x \in Heads(h) : Level(h, x) >= Level(h, p) \/ Level(h, x) <= Level(h, q)

\* The count list is linked both ways, in the order of the counts.
HeadsLinked(h) ==
    /\ h \in Heaps
    /\ h.cnt[MaxHead] = 0 /\ h.cnt[MinTail] = 0
    /\ h.prev[MaxHead] = NoNode /\ h.next[MinTail] = NoNode
    /\ \A p \in Inner(h) : h.cnt[p] \in 1 .. MaxCount
    /\ \A p, q \in Heads(h) : Level(h, p) = Level(h, q) => p = q
    /\ \A p \in Heads(h) \ {MinTail} : Follows(h, p, h.next[p])
    /\ \A q \in Heads(h) \ {MaxHead} : h.prev[q] \in Heads(h) \ {MinTail} /\ h.next[h.prev[q]] = q

LEMMA LevelsOfHeads ==
    ASSUME NEW h, HeadsLinked(h)
    PROVE  /\ MaxHead \in Heads(h) /\ MinTail \in Heads(h) /\ Heads(h) \subseteq HeadNode
           /\ Level(h, MaxHead) = MaxCount + 1 /\ Level(h, MinTail) = 0
           /\ \A p \in Heads(h) : Level(h, p) \in Nat
           /\ \A p \in Inner(h) : Level(h, p) = h.cnt[p] /\ Level(h, p) \in 1 .. MaxCount
<1> USE CountersAssumption, NodesDiffer
<1>1. MaxHead \in Heads(h) /\ MinTail \in Heads(h) /\ Heads(h) \subseteq HeadNode
  BY DEF Heads
<1>2. Level(h, MaxHead) = MaxCount + 1 /\ Level(h, MinTail) = 0
  BY DEF Level, HeadsLinked
<1>3. ASSUME NEW p \in Inner(h) PROVE Level(h, p) = h.cnt[p] /\ Level(h, p) \in 1 .. MaxCount
  BY DEF Level, HeadsLinked, Inner
<1>4. ASSUME NEW p \in Heads(h) PROVE Level(h, p) \in Nat
  <2>1. CASE p \in Inner(h)
    BY <2>1, <1>3
  <2>2. CASE p \notin Inner(h)
    BY <2>2, <1>2 DEF Inner
  <2> QED BY <2>1, <2>2
<1> QED BY <1>1, <1>2, <1>3, <1>4

\* Only the links between head-nodes and the counts matter.
LEMMA SameHeads ==
    ASSUME NEW h, HeadsLinked(h), NEW r \in Heaps, r.cnt = h.cnt,
           \A p \in HeadNode : r.next[p] = h.next[p] /\ r.prev[p] = h.prev[p]
    PROVE  HeadsLinked(r) /\ Heads(r) = Heads(h) /\ Inner(r) = Inner(h)
<1> USE NodesDiffer
<1>1. Heads(r) = Heads(h)
  BY DEF Heads
<1>2. Inner(r) = Inner(h) /\ Heads(h) \subseteq HeadNode
  BY <1>1 DEF Inner, Heads
<1>3. \A p : Level(r, p) = Level(h, p)
  BY DEF Level
<1>4. \A p \in Heads(h) \ {MinTail} : Follows(r, p, r.next[p])
  <2> TAKE p \in Heads(h) \ {MinTail}
  <2>1. Follows(h, p, h.next[p]) /\ r.next[p] = h.next[p]
    BY <1>2 DEF HeadsLinked
  <2> QED BY <2>1, <1>1, <1>2, <1>3 DEF Follows
<1>5. \A q \in Heads(h) \ {MaxHead} : r.prev[q] \in Heads(h) \ {MinTail} /\ r.next[r.prev[q]] = q
  <2> TAKE q \in Heads(h) \ {MaxHead}
  <2>1. PICK y : y = h.prev[q]
    OBVIOUS
  <2>2. y \in Heads(h) \ {MinTail} /\ h.next[y] = q
    BY <2>1 DEF HeadsLinked
  <2>3. r.prev[q] = y /\ r.next[y] = h.next[y]
    BY <2>1, <2>2, <1>2
  <2> QED BY <2>2, <2>3
<1>6. /\ r.cnt[MaxHead] = 0 /\ r.cnt[MinTail] = 0
      /\ r.prev[MaxHead] = NoNode /\ r.next[MinTail] = NoNode
      /\ \A p \in Inner(h) : r.cnt[p] \in 1 .. MaxCount
      /\ \A p, q \in Heads(h) : Level(r, p) = Level(r, q) => p = q
  BY <1>3 DEF HeadsLinked
<1> QED BY <1>1, <1>2, <1>4, <1>5, <1>6 DEF HeadsLinked

\* The head-node p is dropped from the count list.
LEMMA DroppedHeads ==
    ASSUME NEW h, HeadsLinked(h), NEW p \in Inner(h), NEW r, HeadDropped(h, p, r)
    PROVE  /\ HeadsLinked(r) /\ Heads(r) = Heads(h) \ {p} /\ Inner(r) = Inner(h) \ {p}
           /\ \A x \in Heads(r) : Level(r, x) = Level(h, x)
           /\ h.prev[p] \in HeadNode /\ h.next[p] \in HeadNode
<1> USE NodesDiffer, LevelsOfHeads
<1>1. PICK pp, pn : pp = h.prev[p] /\ pn = h.next[p]
  OBVIOUS
<1>2. p \in HeadNode /\ p \in Heads(h) /\ p # MaxHead /\ p # MinTail
  BY DEF Inner
<1>3. /\ pp \in Heads(h) \ {MinTail} /\ h.next[pp] = p /\ pp \in HeadNode
      /\ pn \in Heads(h) \ {MaxHead} /\ h.prev[pn] = p /\ pn \in HeadNode
      /\ Follows(h, p, pn) /\ Follows(h, pp, p)
  <2>1. pp \in Heads(h) \ {MinTail} /\ h.next[pp] = p
    BY <1>1, <1>2 DEF HeadsLinked
  <2>2. Follows(h, p, pn)
    BY <1>1, <1>2 DEF HeadsLinked
  <2>3. Follows(h, pp, p)
    <3>1. Follows(h, pp, h.next[pp])
      BY <2>1 DEF HeadsLinked
    <3> QED BY <3>1, <2>1
  <2> QED BY <2>1, <2>2, <2>3 DEF Follows
<1>4. Level(h, pn) < Level(h, p) /\ Level(h, p) < Level(h, pp) /\ pn # p /\ pp # p
  <2>1. Level(h, pn) < Level(h, p) /\ Level(h, p) < Level(h, pp)
    BY <1>3 DEF Follows
  <2>2. Level(h, pn) \in Nat /\ Level(h, p) \in Nat /\ Level(h, pp) \in Nat
    BY <1>2, <1>3
  <2> QED BY <2>1, <2>2
<1>5. \A q \in HeadNode :
        /\ r.next[q] = IF q = p THEN NoNode ELSE IF q = pp THEN pn ELSE h.next[q]
        /\ r.prev[q] = IF q = p THEN NoNode ELSE IF q = pn THEN pp ELSE h.prev[q]
  BY <1>1 DEF HeadDropped
<1>6. Heads(r) = Heads(h) \ {p}
  <2>1. ASSUME NEW q \in HeadNode
        PROVE  (q \in {MaxHead, MinTail} \/ r.next[q] # NoNode)
               <=> ((q \in {MaxHead, MinTail} \/ h.next[q] # NoNode) /\ q # p)
    BY <1>2, <1>3, <1>5
  <2> QED BY <2>1 DEF Heads
<1>7. Inner(r) = Inner(h) \ {p}
  BY <1>6 DEF Inner
<1>8. \A x \in HeadNode : x # p => Level(r, x) = Level(h, x)
  BY DEF HeadDropped, Level
<1>9. Heads(h) \subseteq HeadNode
  BY DEF Heads
<1>10. \A x \in Heads(r) : Level(r, x) = Level(h, x) /\ x \in Heads(h) /\ x # p /\ x \in HeadNode
  BY <1>6, <1>8, <1>9
<1>11. \A x, y \in Heads(h) : Level(h, x) = Level(h, y) => x = y
  BY DEF HeadsLinked
<1>12. ASSUME NEW x \in Heads(r) \ {MinTail} PROVE Follows(r, x, r.next[x])
  <2>1. CASE x = pp
    <3>1. r.next[x] = pn /\ r.prev[pn] = pp /\ pn \in Heads(r) \ {MaxHead}
      BY <2>1, <1>3, <1>4, <1>5, <1>6
    <3>2. Level(r, pn) = Level(h, pn) /\ Level(r, pp) = Level(h, pp)
      BY <1>10, <3>1, <2>1
    <3>3. ASSUME NEW y \in Heads(r) PROVE Level(r, y) >= Level(r, pp) \/ Level(r, y) <= Level(r, pn)
      <4>1. Level(r, y) = Level(h, y) /\ y \in Heads(h) /\ y # p
        BY <1>10
      <4>2. Level(h, y) >= Level(h, pp) \/ Level(h, y) <= Level(h, p)
        BY <4>1, <1>3 DEF Follows
      <4>3. Level(h, y) >= Level(h, p) \/ Level(h, y) <= Level(h, pn)
        BY <4>1, <1>3 DEF Follows
      <4>4. Level(h, y) # Level(h, p)
        BY <4>1, <1>2, <1>11
      <4>5. Level(h, y) \in Nat /\ Level(h, p) \in Nat
        BY <4>1, <1>2
      <4> QED BY <4>1, <4>2, <4>3, <4>4, <4>5, <3>2
    <3>4. Level(h, pn) < Level(h, pp)
      <4>1. Level(h, pn) \in Nat /\ Level(h, p) \in Nat /\ Level(h, pp) \in Nat
        BY <1>2, <1>3
      <4> QED BY <4>1, <1>4
    <3> QED BY <2>1, <3>1, <3>2, <3>3, <3>4 DEF Follows
  <2>2. CASE x # pp
    <3>1. PICK z : z = h.next[x]
      OBVIOUS
    <3>2. x \in Heads(h) \ {MinTail} /\ x # p /\ x \in HeadNode
      BY <1>10
    <3>3. Follows(h, x, z)
      BY <3>1, <3>2 DEF HeadsLinked
    <3>4. z \in Heads(h) \ {MaxHead} /\ z \in HeadNode /\ h.prev[z] = x
      BY <3>3, <1>9 DEF Follows
    <3>5. z # p /\ z # pn
      BY <3>4, <3>2, <2>2, <1>1, <1>3
    <3>6. r.next[x] = z /\ r.prev[z] = x /\ z \in Heads(r) \ {MaxHead}
      BY <3>1, <3>2, <3>4, <3>5, <2>2, <1>5, <1>6
    <3>7. Level(r, z) = Level(h, z) /\ Level(r, x) = Level(h, x)
      BY <3>6, <1>10
    <3>8. \A y \in Heads(r) : Level(r, y) >= Level(r, x) \/ Level(r, y) <= Level(r, z)
      BY <3>3, <3>7, <1>10 DEF Follows
    <3> QED BY <3>3, <3>6, <3>7, <3>8 DEF Follows
  <2> QED BY <2>1, <2>2
<1>13. ASSUME NEW y \in Heads(r) \ {MaxHead}
       PROVE  r.prev[y] \in Heads(r) \ {MinTail} /\ r.next[r.prev[y]] = y
  <2>1. CASE y = pn
    BY <2>1, <1>3, <1>4, <1>5, <1>6
  <2>2. CASE y # pn
    <3>1. PICK x : x = h.prev[y]
      OBVIOUS
    <3>2. y \in Heads(h) \ {MaxHead} /\ y # p /\ y \in HeadNode
      BY <1>10
    <3>3. x \in Heads(h) \ {MinTail} /\ h.next[x] = y
      BY <3>1, <3>2 DEF HeadsLinked
    <3>4. x # p /\ x # pp /\ x \in HeadNode
      BY <3>2, <3>3, <2>2, <1>1, <1>3, <1>9
    <3> QED BY <3>1, <3>2, <3>3, <3>4, <2>2, <1>5, <1>6
  <2> QED BY <2>1, <2>2
<1>14. /\ r \in Heaps
       /\ r.cnt[MaxHead] = 0 /\ r.cnt[MinTail] = 0
       /\ r.prev[MaxHead] = NoNode /\ r.next[MinTail] = NoNode
  BY <1>2, <1>3, <1>5 DEF HeadDropped, HeadsLinked
<1>15. \A x \in Inner(r) : r.cnt[x] \in 1 .. MaxCount
  BY <1>7, <1>9 DEF HeadDropped, HeadsLinked, Inner
<1>16. \A x, y \in Heads(r) : Level(r, x) = Level(r, y) => x = y
  BY <1>10, <1>11
<1>17. HeadsLinked(r)
  BY <1>12, <1>13, <1>14, <1>15, <1>16 DEF HeadsLinked
<1> QED BY <1>1, <1>3, <1>6, <1>7, <1>10, <1>17

\* A free head-node goes after p, where its count belongs.
LEMMA InsertedHeads ==
    ASSUME NEW h, HeadsLinked(h), NEW p \in Heads(h) \ {MinTail}, NEW n \in Free(h), NEW c \in 1 .. MaxCount,
           c < Level(h, p), Level(h, h.next[p]) < c, NEW r, HeadInserted(h, p, n, c, r)
    PROVE  /\ HeadsLinked(r) /\ Heads(r) = Heads(h) \union {n} /\ Inner(r) = Inner(h) \union {n}
           /\ n \notin Heads(h) /\ h.next[p] \in HeadNode
<1> USE NodesDiffer, LevelsOfHeads
<1>1. PICK z : z = h.next[p]
  OBVIOUS
<1>2. p \in HeadNode /\ n \in HeadNode /\ n # MaxHead /\ n # MinTail /\ h.next[n] = NoNode /\ n \notin Heads(h)
  BY DEF Free, Heads
<1>3. Follows(h, p, z) /\ z \in Heads(h) \ {MaxHead} /\ z \in HeadNode /\ h.prev[z] = p
  <2>1. Follows(h, p, z)
    BY <1>1 DEF HeadsLinked
  <2> QED BY <2>1 DEF Follows
<1>4. n # p /\ n # z
  BY <1>2, <1>3
<1>5. \A q \in HeadNode :
        /\ r.next[q] = IF q = n THEN z ELSE IF q = p THEN n ELSE h.next[q]
        /\ r.prev[q] = IF q = z THEN n ELSE IF q = n THEN p ELSE h.prev[q]
  BY <1>1 DEF HeadInserted
<1>6. Heads(r) = Heads(h) \union {n}
  <2>1. ASSUME NEW q \in HeadNode
        PROVE  (q \in {MaxHead, MinTail} \/ r.next[q] # NoNode)
               <=> ((q \in {MaxHead, MinTail} \/ h.next[q] # NoNode) \/ q = n)
    BY <1>1, <1>2, <1>3, <1>5
  <2> QED BY <2>1, <1>2 DEF Heads
<1>7. Inner(r) = Inner(h) \union {n}
  BY <1>2, <1>6 DEF Inner
<1>8. Level(r, n) = c /\ c \in Nat
  BY <1>2 DEF HeadInserted, Level
<1>9. \A x \in Heads(h) : Level(r, x) = Level(h, x) /\ x # n /\ x \in HeadNode /\ Level(h, x) \in Nat
  BY <1>2 DEF HeadInserted, Level
<1>10. \A x \in Heads(h) : Level(h, x) >= Level(h, p) \/ Level(h, x) <= Level(h, z)
  BY <1>3 DEF Follows
<1>11. Level(h, p) \in Nat /\ Level(h, z) \in Nat /\ c < Level(h, p) /\ Level(h, z) < c
  BY <1>1, <1>3
<1>12. \A x \in Heads(h) : Level(h, x) # c
  BY <1>8, <1>9, <1>10, <1>11
<1>13. \A x, y \in Heads(h) : Level(h, x) = Level(h, y) => x = y
  BY DEF HeadsLinked
<1>14. \A x, y \in Heads(r) : Level(r, x) = Level(r, y) => x = y
  BY <1>6, <1>8, <1>9, <1>12, <1>13
<1>15. Follows(r, p, n)
  <2>1. r.prev[n] = p /\ n \in Heads(r) \ {MaxHead} /\ Level(r, p) = Level(h, p)
    BY <1>2, <1>4, <1>5, <1>6, <1>9
  <2>2. ASSUME NEW x \in Heads(r) PROVE Level(r, x) >= Level(r, p) \/ Level(r, x) <= Level(r, n)
    <3>1. CASE x = n
      BY <3>1, <1>8
    <3>2. CASE x # n
      <4>1. x \in Heads(h)
        BY <3>2, <1>6
      <4> QED BY <4>1, <2>1, <1>8, <1>9, <1>10, <1>11
    <3> QED BY <3>1, <3>2
  <2> QED BY <2>1, <2>2, <1>8, <1>11 DEF Follows
<1>16. Follows(r, n, z)
  <2>1. r.prev[z] = n /\ z \in Heads(r) \ {MaxHead} /\ Level(r, z) = Level(h, z)
    BY <1>3, <1>5, <1>6, <1>9
  <2>2. ASSUME NEW x \in Heads(r) PROVE Level(r, x) >= Level(r, n) \/ Level(r, x) <= Level(r, z)
    <3>1. CASE x = n
      BY <3>1, <1>8
    <3>2. CASE x # n
      <4>1. x \in Heads(h)
        BY <3>2, <1>6
      <4> QED BY <4>1, <2>1, <1>8, <1>9, <1>10, <1>11
    <3> QED BY <3>1, <3>2
  <2> QED BY <2>1, <2>2, <1>8, <1>11 DEF Follows
<1>17. ASSUME NEW x \in Heads(h) \ {MinTail}, x # p PROVE Follows(r, x, h.next[x])
  <2>1. PICK y : y = h.next[x]
    OBVIOUS
  <2>2. Follows(h, x, y)
    BY <2>1 DEF HeadsLinked
  <2>3. y \in Heads(h) \ {MaxHead} /\ y \in HeadNode /\ h.prev[y] = x
    BY <2>2 DEF Follows
  <2>4. y # z /\ y # n
    BY <2>3, <1>2, <1>3, <1>17
  <2>5. r.prev[y] = x /\ y \in Heads(r) \ {MaxHead}
    BY <2>3, <2>4, <1>5, <1>6
  <2>6. Level(r, y) = Level(h, y) /\ Level(r, x) = Level(h, x) /\ Level(h, y) \in Nat /\ Level(h, x) \in Nat
    BY <2>3, <1>9
  <2>7. c >= Level(h, x) \/ c <= Level(h, y)
    <3>1. Level(h, p) >= Level(h, x) \/ Level(h, p) <= Level(h, y)
      BY <2>2 DEF Follows
    <3>2. Level(h, x) # Level(h, p)
      BY <1>13, <1>17
    <3>3. Level(h, x) >= Level(h, p) \/ Level(h, x) <= Level(h, z)
      BY <1>10
    <3> QED BY <3>1, <3>2, <3>3, <2>6, <1>8, <1>11
  <2>8. ASSUME NEW w \in Heads(r) PROVE Level(r, w) >= Level(r, x) \/ Level(r, w) <= Level(r, y)
    <3>1. CASE w = n
      BY <3>1, <2>6, <2>7, <1>8
    <3>2. CASE w # n
      <4>1. w \in Heads(h)
        BY <3>2, <1>6
      <4>2. Level(h, w) >= Level(h, x) \/ Level(h, w) <= Level(h, y)
        BY <4>1, <2>2 DEF Follows
      <4>3. Level(r, w) = Level(h, w)
        BY <4>1, <1>9
      <4> QED BY <4>2, <4>3, <2>6
    <3> QED BY <3>1, <3>2
  <2>9. Level(r, y) < Level(r, x)
    BY <2>2, <2>6 DEF Follows
  <2> QED BY <2>1, <2>5, <2>8, <2>9 DEF Follows
<1>18. ASSUME NEW x \in Heads(r) \ {MinTail} PROVE Follows(r, x, r.next[x])
  <2>1. CASE x = n
    BY <2>1, <1>2, <1>5, <1>16
  <2>2. CASE x = p
    BY <2>2, <1>2, <1>4, <1>5, <1>15
  <2>3. CASE x # n /\ x # p
    <3>1. x \in Heads(h) \ {MinTail} /\ x \in HeadNode
      BY <2>3, <1>6, <1>9
    <3>2. r.next[x] = h.next[x]
      BY <3>1, <2>3, <1>5
    <3> QED BY <3>1, <3>2, <2>3, <1>17
  <2> QED BY <2>1, <2>2, <2>3
<1>19. ASSUME NEW y \in Heads(r) \ {MaxHead}
       PROVE  r.prev[y] \in Heads(r) \ {MinTail} /\ r.next[r.prev[y]] = y
  <2>1. CASE y = n
    BY <2>1, <1>2, <1>4, <1>5, <1>6
  <2>2. CASE y = z
    BY <2>2, <1>2, <1>3, <1>5, <1>6
  <2>3. CASE y # n /\ y # z
    <3>1. PICK x : x = h.prev[y]
      OBVIOUS
    <3>2. y \in Heads(h) \ {MaxHead} /\ y \in HeadNode
      BY <2>3, <1>6, <1>9
    <3>3. x \in Heads(h) \ {MinTail} /\ h.next[x] = y
      BY <3>1, <3>2 DEF HeadsLinked
    <3>4. x # n /\ x # p /\ x \in HeadNode
      BY <3>3, <2>3, <1>1, <1>9
    <3> QED BY <3>1, <3>2, <3>3, <3>4, <2>3, <1>5, <1>6
  <2> QED BY <2>1, <2>2, <2>3
<1>20. /\ r \in Heaps
       /\ r.cnt[MaxHead] = 0 /\ r.cnt[MinTail] = 0
       /\ r.prev[MaxHead] = NoNode /\ r.next[MinTail] = NoNode
  <2>1. z # MaxHead /\ p # MinTail
    BY <1>3
  <2> QED BY <2>1, <1>2, <1>5 DEF HeadInserted, HeadsLinked
<1>21. \A x \in Inner(r) : r.cnt[x] \in 1 .. MaxCount
  <2> TAKE x \in Inner(r)
  <2>1. CASE x = n
    BY <2>1, <1>2 DEF HeadInserted
  <2>2. CASE x # n
    <3>1. x \in Inner(h) /\ x \in HeadNode
      BY <2>2, <1>7, <1>9 DEF Inner
    <3> QED BY <3>1, <2>2 DEF HeadInserted, HeadsLinked
  <2> QED BY <2>1, <2>2
<1>22. HeadsLinked(r)
  BY <1>14, <1>18, <1>19, <1>20, <1>21 DEF HeadsLinked
<1> QED BY <1>1, <1>2, <1>3, <1>6, <1>7, <1>22

-----------------------------------------------------------------------------
\* Along the element lists the rank grows.
Ranked(h, ks, rank) ==
    /\ rank \in [CounterKey -> Nat]
    /\ \A k \in ks : h.next[k] # NoNode => rank[k] < rank[h.next[k]]

\* The element-nodes of the keys ks are in the lists of the head-nodes full, all of them and
\* no others.
ElementsLinked(h, ks, full) ==
    /\ ks \subseteq CounterKey /\ full \subseteq HeadNode
    /\ \A k \in CounterKey \ ks : h.prev[k] = NoNode /\ h.next[k] = NoNode /\ h.head[k] = NoNode
    /\ \A k \in ks : h.head[k] \in full /\ (h.prev[k] = NoNode <=> h.l[h.head[k]] = k)
    /\ \A k \in ks : h.prev[k] # NoNode => /\ h.prev[k] \in ks /\ h.next[h.prev[k]] = k
                                           /\ h.head[h.prev[k]] = h.head[k]
    /\ \A k \in ks : h.next[k] # NoNode => h.next[k] \in ks /\ h.prev[h.next[k]] = k
    /\ \A p \in full : h.l[p] \in ks /\ h.head[h.l[p]] = p
    /\ \A p \in HeadNode \ full : h.l[p] = NoNode
    /\ \E rank : Ranked(h, ks, rank)

\* A first element that no other follows is alone in its list.
LEMMA AloneInList ==
    ASSUME NEW h, NEW ks, NEW full, ElementsLinked(h, ks, full),
           NEW k \in ks, h.prev[k] = NoNode, h.next[k] = NoNode,
           NEW j \in ks, h.head[j] = h.head[k]
    PROVE  j = k
<1> USE NodesDiffer
<1>1. SUFFICES ASSUME j # k PROVE FALSE
  OBVIOUS
<1>2. PICK rank : Ranked(h, ks, rank)
  BY DEF ElementsLinked
<1>3. ks \subseteq CounterKey
  BY DEF ElementsLinked
<1> DEFINE T == {rank[i] : i \in {i \in ks : i # k /\ h.head[i] = h.head[k]}}
<1>4. T \subseteq Nat /\ T # {}
  BY <1>1, <1>2, <1>3 DEF Ranked
<1>5. PICK m \in T : \A y \in T : m <= y
  <2> HIDE DEF T
  <2> QED BY <1>4, LeastNatural
<1>6. PICK i \in ks : i # k /\ h.head[i] = h.head[k] /\ m = rank[i]
  BY <1>5
<1>7. h.prev[i] # NoNode
  <2>1. h.l[h.head[k]] = k
    BY DEF ElementsLinked
  <2> QED BY <1>6, <2>1 DEF ElementsLinked
<1>8. PICK y : y = h.prev[i]
  OBVIOUS
<1>9. y \in ks /\ h.next[y] = i /\ h.head[y] = h.head[i]
  BY <1>6, <1>7, <1>8 DEF ElementsLinked
<1>10. y # k /\ i # NoNode
  BY <1>3, <1>6, <1>9
<1>11. rank[y] < rank[i]
  BY <1>2, <1>9, <1>10 DEF Ranked
<1>12. rank[y] \in T /\ rank[y] \in Nat /\ rank[i] \in Nat
  BY <1>2, <1>3, <1>6, <1>9, <1>10 DEF Ranked
<1>13. rank[i] <= rank[y]
  <2> HIDE DEF T
  <2> QED BY <1>5, <1>6, <1>12
<1> QED BY <1>11, <1>12, <1>13

\* The element lists need nothing of the links between head-nodes.
LEMMA SameElements ==
    ASSUME NEW h, NEW ks, NEW full, ElementsLinked(h, ks, full),
           NEW r, r.l = h.l, r.head = h.head,
           \A k \in CounterKey : r.next[k] = h.next[k] /\ r.prev[k] = h.prev[k]
    PROVE  ElementsLinked(r, ks, full)
<1>1. ks \subseteq CounterKey
  BY DEF ElementsLinked
<1>2. PICK rank : Ranked(h, ks, rank)
  BY DEF ElementsLinked
<1>3. Ranked(r, ks, rank)
  BY <1>1, <1>2 DEF Ranked
<1>4. \A k \in ks : r.prev[k] # NoNode => /\ r.prev[k] \in ks /\ r.next[r.prev[k]] = k
                                          /\ r.head[r.prev[k]] = r.head[k]
  <2> TAKE k \in ks
  <2>1. r.prev[k] = h.prev[k]
    BY <1>1
  <2>2. h.prev[k] # NoNode => h.prev[k] \in ks /\ h.next[h.prev[k]] = k /\ h.head[h.prev[k]] = h.head[k]
    BY DEF ElementsLinked
  <2> QED BY <2>1, <2>2, <1>1
<1>5. \A k \in ks : r.next[k] # NoNode => r.next[k] \in ks /\ r.prev[r.next[k]] = k
  <2> TAKE k \in ks
  <2>1. r.next[k] = h.next[k]
    BY <1>1
  <2>2. h.next[k] # NoNode => h.next[k] \in ks /\ h.prev[h.next[k]] = k
    BY DEF ElementsLinked
  <2> QED BY <2>1, <2>2, <1>1
<1>6. /\ \A k \in CounterKey \ ks : r.prev[k] = NoNode /\ r.next[k] = NoNode /\ r.head[k] = NoNode
      /\ \A k \in ks : r.head[k] \in full /\ (r.prev[k] = NoNode <=> r.l[r.head[k]] = k)
  BY <1>1 DEF ElementsLinked
<1>7. /\ \A p \in full : r.l[p] \in ks /\ r.head[r.l[p]] = p
      /\ \A p \in HeadNode \ full : r.l[p] = NoNode
      /\ full \subseteq HeadNode
  BY DEF ElementsLinked
<1> QED BY <1>1, <1>3, <1>4, <1>5, <1>6, <1>7 DEF ElementsLinked

\* Key k leaves its list, which may have no element left.
LEMMA LeftElements ==
    ASSUME NEW h, NEW ks, NEW full, ElementsLinked(h, ks, full),
           NEW k \in ks, NEW r, ListLeft(h, k, r)
    PROVE  ElementsLinked(r, ks \ {k}, IF r.l[h.head[k]] = NoNode THEN full \ {h.head[k]} ELSE full)
<1> USE NodesDiffer
<1>1. PICK p, kp, kn : p = h.head[k] /\ kp = h.prev[k] /\ kn = h.next[k]
  OBVIOUS
<1>2. /\ ks \subseteq CounterKey /\ full \subseteq HeadNode /\ k \in CounterKey /\ p \in full /\ p \in HeadNode
      /\ kp = NoNode <=> h.l[p] = k
      /\ kp # NoNode => kp \in ks /\ h.next[kp] = k /\ h.head[kp] = p
      /\ kn # NoNode => kn \in ks /\ h.prev[kn] = k
      /\ k # NoNode
  BY <1>1 DEF ElementsLinked
<1>3. PICK rank : Ranked(h, ks, rank)
  BY DEF ElementsLinked
<1>4. /\ \A j \in CounterKey : j # k =>
            /\ r.head[j] = h.head[j]
            /\ r.next[j] = IF j = kp THEN kn ELSE h.next[j]
            /\ r.prev[j] = IF j = kn THEN kp ELSE h.prev[j]
      /\ r.head[k] = NoNode /\ r.next[k] = NoNode /\ r.prev[k] = NoNode
      /\ \A q \in HeadNode : r.l[q] = IF q = p /\ h.l[p] = k THEN kn ELSE h.l[q]
  BY <1>1, <1>2 DEF ListLeft
<1>5. kp # k /\ kn # k
  <2>1. kn # NoNode => rank[k] < rank[kn]
    BY <1>1, <1>3 DEF Ranked
  <2>2. kp # NoNode => rank[kp] < rank[k]
    BY <1>2, <1>3 DEF Ranked
  <2>3. rank[k] \in Nat
    BY <1>2, <1>3 DEF Ranked
  <2> QED BY <2>1, <2>2, <2>3, <1>2
<1>6. kn # NoNode => h.head[kn] = p
  <2> SUFFICES ASSUME kn # NoNode PROVE h.head[kn] = p
    OBVIOUS
  <2>1. kn \in ks /\ h.prev[kn] = k /\ h.prev[kn] # NoNode
    BY <1>2
  <2>2. h.head[h.prev[kn]] = h.head[kn]
    BY <2>1 DEF ElementsLinked
  <2> QED BY <2>1, <2>2, <1>1
<1>7. PICK full2 : full2 = IF r.l[p] = NoNode THEN full \ {p} ELSE full
  OBVIOUS
<1>8. ks \ {k} \subseteq CounterKey /\ full2 \subseteq HeadNode
  BY <1>2, <1>7
<1>9. \A j \in CounterKey \ (ks \ {k}) : r.prev[j] = NoNode /\ r.next[j] = NoNode /\ r.head[j] = NoNode
  <2> TAKE j \in CounterKey \ (ks \ {k})
  <2>1. CASE j = k
    BY <2>1, <1>4
  <2>2. CASE j # k
    <3>1. j \notin ks /\ h.prev[j] = NoNode /\ h.next[j] = NoNode /\ h.head[j] = NoNode
      BY <2>2 DEF ElementsLinked
    <3>2. j # kp /\ j # kn
      BY <3>1, <1>2
    <3> QED BY <3>1, <3>2, <2>2, <1>4
  <2> QED BY <2>1, <2>2
<1>10. \A j \in ks \ {k} : j \in CounterKey /\ j # NoNode /\ h.head[j] \in full /\ h.head[j] \in HeadNode /\ r.head[j] = h.head[j]
  BY <1>2, <1>4 DEF ElementsLinked
<1>11. r.l[p] = NoNode => \A j \in ks \ {k} : h.head[j] # p
  <2> SUFFICES ASSUME r.l[p] = NoNode, NEW j \in ks \ {k}, h.head[j] = p PROVE FALSE
    OBVIOUS
  <2>1. h.l[p] \in ks
    BY <1>2 DEF ElementsLinked
  <2>2. h.l[p] = k /\ kn = NoNode
    BY <2>1, <1>2, <1>4
  <2>3. kp = NoNode
    BY <2>2, <1>2
  <2> QED BY <2>2, <2>3, <1>1, AloneInList
<1>12. \A j \in ks \ {k} : r.head[j] \in full2
  BY <1>7, <1>10, <1>11
<1>13. \A j \in ks \ {k} : r.prev[j] = NoNode <=> r.l[r.head[j]] = j
  <2> TAKE j \in ks \ {k}
  <2>1. h.prev[j] = NoNode <=> h.l[h.head[j]] = j
    BY DEF ElementsLinked
  <2>2. r.prev[j] = (IF j = kn THEN kp ELSE h.prev[j])
        /\ r.l[r.head[j]] = IF h.head[j] = p /\ h.l[p] = k THEN kn ELSE h.l[h.head[j]]
    BY <1>4, <1>10
  <2>3. CASE j = kn
    BY <2>1, <2>2, <2>3, <1>2, <1>6, <1>10
  <2>4. CASE j # kn
    <3>1. CASE h.head[j] = p /\ h.l[p] = k
      BY <2>1, <2>2, <2>4, <3>1
    <3>2. CASE ~ (h.head[j] = p /\ h.l[p] = k)
      BY <2>1, <2>2, <2>4, <3>2
    <3> QED BY <3>1, <3>2
  <2> QED BY <2>3, <2>4
<1>14. \A j \in ks \ {k} : r.prev[j] # NoNode => /\ r.prev[j] \in ks \ {k} /\ r.next[r.prev[j]] = j
                                                 /\ r.head[r.prev[j]] = r.head[j]
  <2> SUFFICES ASSUME NEW j \in ks \ {k}, NEW y, y = r.prev[j], y # NoNode
               PROVE  y \in ks \ {k} /\ r.next[y] = j /\ r.head[y] = r.head[j]
    OBVIOUS
  <2>1. r.prev[j] = IF j = kn THEN kp ELSE h.prev[j]
    BY <1>4, <1>10
  <2>2. CASE j = kn
    <3>1. y = kp /\ kp \in ks \ {k}
      BY <2>1, <2>2, <1>2, <1>5
    <3>2. r.next[kp] = kn /\ r.head[kp] = p
      BY <3>1, <1>2, <1>4, <1>10
    <3> QED BY <3>1, <3>2, <2>2, <1>6, <1>10
  <2>3. CASE j # kn
    <3>1. y = h.prev[j]
      BY <2>1, <2>3
    <3>2. y \in ks /\ h.next[y] = j /\ h.head[y] = h.head[j]
      BY <3>1 DEF ElementsLinked
    <3>3. y # k
      BY <3>2, <2>3, <1>1
    <3>4. y # kp
      BY <3>2, <1>2
    <3>5. r.next[y] = h.next[y] /\ r.head[y] = h.head[y]
      BY <3>2, <3>3, <3>4, <1>2, <1>4
    <3> QED BY <3>2, <3>3, <3>5, <1>10
  <2> QED BY <2>2, <2>3
<1>15. \A j \in ks \ {k} : r.next[j] # NoNode => r.next[j] \in ks \ {k} /\ r.prev[r.next[j]] = j
  <2> SUFFICES ASSUME NEW j \in ks \ {k}, NEW y, y = r.next[j], y # NoNode
               PROVE  y \in ks \ {k} /\ r.prev[y] = j
    OBVIOUS
  <2>1. r.next[j] = IF j = kp THEN kn ELSE h.next[j]
    BY <1>4, <1>10
  <2>2. CASE j = kp
    <3>1. y = kn /\ kn \in ks \ {k}
      BY <2>1, <2>2, <1>2, <1>5
    <3>2. r.prev[kn] = kp
      BY <3>1, <1>4, <1>10
    <3> QED BY <3>1, <3>2, <2>2
  <2>3. CASE j # kp
    <3>1. y = h.next[j]
      BY <2>1, <2>3
    <3>2. y \in ks /\ h.prev[y] = j
      BY <3>1 DEF ElementsLinked
    <3>3. y # k
      BY <3>2, <2>3, <1>1
    <3>4. y # kn
      BY <3>2, <1>2
    <3>5. r.prev[y] = h.prev[y]
      BY <3>2, <3>3, <3>4, <1>2, <1>4
    <3> QED BY <3>2, <3>3, <3>5
  <2> QED BY <2>2, <2>3
<1>16. \A q \in full2 : r.l[q] \in ks \ {k} /\ r.head[r.l[q]] = q
  <2> TAKE q \in full2
  <2>1. q \in full /\ q \in HeadNode /\ (q = p => r.l[p] # NoNode)
    BY <1>2, <1>7
  <2>2. h.l[q] \in ks /\ h.head[h.l[q]] = q
    BY <2>1 DEF ElementsLinked
  <2>3. r.l[q] = IF q = p /\ h.l[p] = k THEN kn ELSE h.l[q]
    BY <2>1, <1>4
  <2>4. CASE q = p /\ h.l[p] = k
    <3>1. r.l[q] = kn /\ kn \in ks \ {k} /\ h.head[kn] = p
      BY <2>1, <2>3, <2>4, <1>2, <1>5, <1>6
    <3> QED BY <3>1, <2>4, <1>10
  <2>5. CASE ~ (q = p /\ h.l[p] = k)
    <3>1. r.l[q] = h.l[q] /\ h.l[q] # k
      BY <2>2, <2>3, <2>5, <1>1
    <3> QED BY <3>1, <2>2, <1>10
  <2> QED BY <2>4, <2>5
<1>17. \A q \in HeadNode \ full2 : r.l[q] = NoNode
  <2> TAKE q \in HeadNode \ full2
  <2>1. CASE q = p
    BY <2>1, <1>2, <1>7
  <2>2. CASE q # p
    BY <2>2, <1>4, <1>7 DEF ElementsLinked
  <2> QED BY <2>1, <2>2
<1>18. Ranked(r, ks \ {k}, rank)
  <2>1. ASSUME NEW j \in ks \ {k}, r.next[j] # NoNode PROVE rank[j] < rank[r.next[j]]
    <3>1. r.next[j] = IF j = kp THEN kn ELSE h.next[j]
      BY <1>4, <1>10
    <3>2. CASE j # kp
      BY <3>1, <3>2, <2>1, <1>3 DEF Ranked
    <3>3. CASE j = kp
      <4>1. rank[kp] < rank[k] /\ rank[k] < rank[kn] /\ kn # NoNode
        BY <3>1, <3>3, <2>1, <1>1, <1>2, <1>3, <1>10 DEF Ranked
      <4>2. rank[kp] \in Nat /\ rank[k] \in Nat /\ rank[kn] \in Nat
        BY <4>1, <3>3, <1>2, <1>3, <1>10 DEF Ranked
      <4> QED BY <4>1, <4>2, <3>1, <3>3
    <3> QED BY <3>2, <3>3
  <2> QED BY <2>1, <1>3 DEF Ranked
<1>19. ElementsLinked(r, ks \ {k}, full2)
  BY <1>8, <1>9, <1>12, <1>13, <1>14, <1>15, <1>16, <1>17, <1>18 DEF ElementsLinked
<1> QED BY <1>1, <1>7, <1>19

\* A key that is in no list goes into the list of p.
LEMMA AddedElements ==
    ASSUME NEW h, NEW ks, NEW full, ElementsLinked(h, ks, full),
           NEW k \in CounterKey, k \notin ks, NEW p \in HeadNode, NEW r, ElementAdded(h, k, p, r)
    PROVE  ElementsLinked(r, ks \union {k}, full \union {p})
<1> USE NodesDiffer
<1>1. /\ ks \subseteq CounterKey /\ full \subseteq HeadNode /\ k # NoNode
      /\ h.prev[k] = NoNode /\ h.next[k] = NoNode
  BY DEF ElementsLinked
<1>2. PICK f, fn : f = h.l[p] /\ fn = h.next[f]
  OBVIOUS
<1>3. PICK rank : Ranked(h, ks, rank)
  BY DEF ElementsLinked
<1>4. \A j \in ks : j \in CounterKey /\ j # k /\ j # NoNode /\ r.head[j] = h.head[j] /\ r.head[k] = p
  BY <1>1 DEF ElementAdded
<1>5. \A q \in HeadNode : r.l[q] = IF q = p /\ f = NoNode THEN k ELSE h.l[q]
  BY <1>2 DEF ElementAdded
<1>6. f # NoNode => f \in ks /\ h.head[f] = p /\ p \in full
  BY <1>2 DEF ElementsLinked
<1>7. f = NoNode => p \notin full
  BY <1>1, <1>2, <1>4 DEF ElementsLinked
<1>8. f # NoNode /\ fn # NoNode => fn \in ks /\ h.prev[fn] = f
  BY <1>2, <1>6 DEF ElementsLinked
<1>9. \A j \in CounterKey : f = NoNode => r.next[j] = h.next[j] /\ r.prev[j] = h.prev[j]
  BY <1>2 DEF ElementAdded
<1>10. \A j \in CounterKey : f # NoNode =>
         /\ r.next[j] = IF j = k THEN fn ELSE IF j = f THEN k ELSE h.next[j]
         /\ r.prev[j] = IF j = fn THEN k ELSE IF j = k THEN f ELSE h.prev[j]
  BY <1>2 DEF ElementAdded
<1>11. \A j \in CounterKey \ (ks \union {k}) : r.prev[j] = NoNode /\ r.next[j] = NoNode /\ r.head[j] = NoNode
  <2> TAKE j \in CounterKey \ (ks \union {k})
  <2>1. h.prev[j] = NoNode /\ h.next[j] = NoNode /\ h.head[j] = NoNode /\ j # k /\ j \notin ks
    BY DEF ElementsLinked
  <2>2. r.head[j] = NoNode
    BY <2>1 DEF ElementAdded
  <2>3. CASE f = NoNode
    BY <2>1, <2>2, <2>3, <1>9
  <2>4. CASE f # NoNode
    <3>1. j # f /\ j # fn
      BY <2>1, <2>4, <1>6, <1>8
    <3> QED BY <3>1, <2>1, <2>2, <2>4, <1>10
  <2> QED BY <2>3, <2>4
<1>12. \A j \in ks \union {k} : r.head[j] \in full \union {p} /\ (r.prev[j] = NoNode <=> r.l[r.head[j]] = j)
  <2> TAKE j \in ks \union {k}
  <2>1. CASE j = k
    <3>1. r.head[k] = p
      BY DEF ElementAdded
    <3>2. r.l[p] = IF f = NoNode THEN k ELSE f
      BY <1>2, <1>5
    <3>3. CASE f = NoNode
      BY <3>1, <3>2, <3>3, <2>1, <1>1, <1>9
    <3>4. CASE f # NoNode
      <4>1. f # k /\ fn # k
        BY <3>4, <1>1, <1>4, <1>6, <1>8
      <4> QED BY <4>1, <3>1, <3>2, <3>4, <2>1, <1>10
    <3> QED BY <3>3, <3>4
  <2>2. CASE j # k
    <3>1. j \in ks /\ h.head[j] \in full /\ (h.prev[j] = NoNode <=> h.l[h.head[j]] = j)
      BY <2>2 DEF ElementsLinked
    <3>2. r.head[j] = h.head[j] /\ h.head[j] \in HeadNode /\ j \in CounterKey
      BY <3>1, <1>1, <1>4
    <3>3. CASE f = NoNode
      <4>1. h.head[j] # p
        BY <3>1, <3>3, <1>7
      <4> QED BY <4>1, <3>1, <3>2, <3>3, <1>5, <1>9
    <3>4. CASE f # NoNode
      <4>1. r.l[r.head[j]] = h.l[h.head[j]]
        BY <3>2, <3>4, <1>5
      <4>2. r.prev[j] = IF j = fn THEN k ELSE h.prev[j]
        BY <3>2, <3>4, <2>2, <1>10
      <4>3. j = fn => h.prev[j] # NoNode
        BY <3>1, <3>4, <1>4, <1>6, <1>8
      <4> QED BY <4>1, <4>2, <4>3, <3>1, <3>2, <1>1
    <3> QED BY <3>3, <3>4
  <2> QED BY <2>1, <2>2
<1>13. \A j \in ks \union {k} : r.prev[j] # NoNode => /\ r.prev[j] \in ks \union {k} /\ r.next[r.prev[j]] = j
                                                     /\ r.head[r.prev[j]] = r.head[j]
  <2> SUFFICES ASSUME NEW j \in ks \union {k}, NEW y, y = r.prev[j], y # NoNode
               PROVE  y \in ks \union {k} /\ r.next[y] = j /\ r.head[y] = r.head[j]
    OBVIOUS
  <2>1. CASE j # k /\ y = h.prev[j] /\ (f # NoNode => j # fn)
    <3>1. y \in ks /\ h.next[y] = j /\ h.head[y] = h.head[j] /\ j \in ks
      BY <2>1 DEF ElementsLinked
    <3>2. f # NoNode => y # f
      BY <3>1, <2>1, <1>2
    <3>3. r.next[y] = h.next[y]
      BY <3>1, <3>2, <1>4, <1>9, <1>10
    <3> QED BY <3>1, <3>3, <1>4
  <2>2. CASE f = NoNode
    <3>1. y = h.prev[j] /\ j # k
      BY <2>2, <1>1, <1>4, <1>9
    <3> QED BY <3>1, <2>1, <2>2
  <2>3. CASE f # NoNode /\ j = k
    <3>1. y = f /\ f # k
      <4>1. fn # k /\ f # k
        BY <2>3, <1>1, <1>4, <1>6, <1>8
      <4> QED BY <4>1, <2>3, <1>10
    <3>2. r.next[f] = k
      BY <3>1, <2>3, <1>4, <1>6, <1>10
    <3>3. r.head[f] = p /\ r.head[k] = p
      BY <2>3, <1>4, <1>6
    <3> QED BY <3>1, <3>2, <3>3, <2>3, <1>6
  <2>4. CASE f # NoNode /\ j # k /\ j = fn
    <3>1. j \in ks /\ y = k
      BY <2>4, <1>4, <1>10
    <3>2. r.next[k] = fn
      BY <2>4, <1>10
    <3>3. r.head[fn] = p /\ r.head[k] = p
      <4>1. h.prev[fn] = f /\ fn # NoNode /\ f \in ks
        BY <3>1, <2>4, <1>4, <1>6, <1>8
      <4>2. h.head[f] = h.head[fn]
        BY <4>1, <3>1, <2>4, <1>4 DEF ElementsLinked
      <4> QED BY <4>1, <4>2, <3>1, <2>4, <1>4, <1>6
    <3> QED BY <3>1, <3>2, <3>3, <2>4
  <2>5. CASE f # NoNode /\ j # k /\ j # fn
    <3>1. y = h.prev[j]
      BY <2>5, <1>4, <1>10
    <3> QED BY <3>1, <2>1, <2>5
  <2> QED BY <2>2, <2>3, <2>4, <2>5
<1>14. \A j \in ks \union {k} : r.next[j] # NoNode => r.next[j] \in ks \union {k} /\ r.prev[r.next[j]] = j
  <2> SUFFICES ASSUME NEW j \in ks \union {k}, NEW y, y = r.next[j], y # NoNode
               PROVE  y \in ks \union {k} /\ r.prev[y] = j
    OBVIOUS
  <2>1. CASE j # k /\ y = h.next[j] /\ (f # NoNode => j # f)
    <3>1. y \in ks /\ h.prev[y] = j
      BY <2>1 DEF ElementsLinked
    <3>2. f # NoNode => y # fn
      BY <3>1, <2>1, <1>4, <1>8
    <3>3. r.prev[y] = h.prev[y]
      BY <3>1, <3>2, <1>4, <1>9, <1>10
    <3> QED BY <3>1, <3>3
  <2>2. CASE f = NoNode
    <3>1. y = h.next[j] /\ j # k
      BY <2>2, <1>1, <1>4, <1>9
    <3> QED BY <3>1, <2>1, <2>2
  <2>3. CASE f # NoNode /\ j = k
    <3>1. y = fn
      BY <2>3, <1>10
    <3>2. fn \in ks
      BY <3>1, <2>3, <1>8
    <3>3. r.prev[fn] = k
      BY <3>2, <2>3, <1>4, <1>10
    <3> QED BY <3>1, <3>2, <3>3, <2>3
  <2>4. CASE f # NoNode /\ j # k /\ j = f
    <3>1. y = k
      BY <2>4, <1>4, <1>10
    <3>2. fn # k
      BY <2>4, <1>1, <1>4, <1>8
    <3>3. r.prev[k] = f
      BY <3>2, <2>4, <1>10
    <3> QED BY <3>1, <3>3, <2>4
  <2>5. CASE f # NoNode /\ j # k /\ j # f
    <3>1. y = h.next[j]
      BY <2>5, <1>4, <1>10
    <3> QED BY <3>1, <2>1, <2>5
  <2> QED BY <2>2, <2>3, <2>4, <2>5
<1>15. \A q \in full \union {p} : r.l[q] \in ks \union {k} /\ r.head[r.l[q]] = q
  <2> TAKE q \in full \union {p}
  <2>1. CASE f = NoNode /\ q = p
    BY <2>1, <1>5 DEF ElementAdded
  <2>2. CASE ~ (f = NoNode /\ q = p)
    <3>1. q \in full /\ q \in HeadNode
      BY <2>2, <1>1, <1>6
    <3>2. h.l[q] \in ks /\ h.head[h.l[q]] = q
      BY <3>1 DEF ElementsLinked
    <3>3. r.l[q] = h.l[q]
      BY <3>1, <2>2, <1>5
    <3> QED BY <3>2, <3>3, <1>4
  <2> QED BY <2>1, <2>2
<1>16. \A q \in HeadNode \ (full \union {p}) : r.l[q] = NoNode
  BY <1>5 DEF ElementsLinked
<1>17. \E rk : Ranked(r, ks \union {k}, rk)
  <2>1. CASE f = NoNode
    <3>1. Ranked(r, ks \union {k}, rank)
      <4>1. ASSUME NEW j \in ks \union {k}, r.next[j] # NoNode PROVE rank[j] < rank[r.next[j]]
        <5>1. r.next[j] = h.next[j] /\ j # k
          BY <4>1, <2>1, <1>1, <1>4, <1>9
        <5> QED BY <5>1, <4>1, <1>3 DEF Ranked
      <4> QED BY <4>1, <1>3 DEF Ranked
    <3> QED BY <3>1
  <2>2. CASE f # NoNode
    <3>1. PICK rk : rk = [j \in CounterKey |-> IF j = k THEN 2 * rank[f] + 1 ELSE 2 * rank[j]]
      OBVIOUS
    <3>2. \A j \in CounterKey : rank[j] \in Nat
      BY <1>3 DEF Ranked
    <3>3. f \in CounterKey /\ rank[f] \in Nat
      BY <3>2, <2>2, <1>4, <1>6
    <3>4. rk \in [CounterKey -> Nat]
      BY <3>1, <3>2, <3>3
    <3>5. rk[k] = 2 * rank[f] + 1 /\ \A j \in ks : rk[j] = 2 * rank[j] /\ rank[j] \in Nat
      BY <3>1, <3>2, <1>4
    <3>6. ASSUME NEW j \in ks \union {k}, r.next[j] # NoNode PROVE rk[j] < rk[r.next[j]]
      <4>1. CASE j = k
        <5>1. r.next[j] = fn /\ fn # NoNode /\ fn \in ks
          BY <4>1, <3>6, <2>2, <1>8, <1>10
        <5>2. rank[f] < rank[fn]
          BY <5>1, <2>2, <1>2, <1>3, <1>6 DEF Ranked
        <5>3. rk[fn] = 2 * rank[fn] /\ rank[fn] \in Nat
          BY <5>1, <3>5
        <5> QED BY <5>1, <5>2, <5>3, <4>1, <3>3, <3>5
      <4>2. CASE j = f
        <5>1. r.next[j] = k /\ j \in ks
          BY <4>2, <2>2, <1>4, <1>6, <1>10
        <5>2. rk[j] = 2 * rank[f]
          BY <5>1, <4>2, <3>5
        <5> QED BY <5>1, <5>2, <3>3, <3>5
      <4>3. CASE j # k /\ j # f
        <5>1. j \in ks /\ r.next[j] = h.next[j]
          BY <4>3, <2>2, <1>4, <1>10
        <5>2. h.next[j] \in ks /\ rank[j] < rank[h.next[j]]
          BY <5>1, <3>6, <1>3 DEF Ranked, ElementsLinked
        <5>3. rk[j] = 2 * rank[j] /\ rk[h.next[j]] = 2 * rank[h.next[j]] /\ rank[j] \in Nat /\ rank[h.next[j]] \in Nat
          BY <5>1, <5>2, <3>5
        <5> QED BY <5>1, <5>2, <5>3
      <4> QED BY <4>1, <4>2, <4>3
    <3>7. Ranked(r, ks \union {k}, rk)
      BY <3>4, <3>6 DEF Ranked
    <3> QED BY <3>7
  <2> QED BY <2>1, <2>2
<1>18. ks \union {k} \subseteq CounterKey /\ full \union {p} \subseteq HeadNode
  BY <1>1
<1> QED BY <1>11, <1>12, <1>13, <1>14, <1>15, <1>16, <1>17, <1>18 DEF ElementsLinked

-----------------------------------------------------------------------------
\* Both kinds of lists are in order, for the keys ks.
ListsKept(h, ks) == HeadsLinked(h) /\ ElementsLinked(h, ks, Inner(h))

CountIn(h, ks) == [k \in CounterKey |-> IF k \in ks THEN h.cnt[h.head[k]] ELSE 0]

\* Key k is in no list any more, and at most its head-node went with it.
ElementGone(h, ks, k, r) ==
    /\ ListsKept(r, ks \ {k})
    /\ Heads(r) \subseteq Heads(h) /\ Heads(h) \ {h.head[k]} \subseteq Heads(r)
    /\ \A x \in Heads(r) : Level(r, x) = Level(h, x) /\ r.cnt[x] = h.cnt[x]
    /\ \A j \in ks \ {k} : r.head[j] = h.head[j]

LEMMA RemovingElement ==
    ASSUME NEW h, NEW ks, ListsKept(h, ks), NEW k \in ks
    PROVE  ElementGone(h, ks, k, RemoveElement(h, k)) /\ h.head[k] \in Inner(h)
<1> USE NodesDiffer
<1>1. HeadsLinked(h) /\ ElementsLinked(h, ks, Inner(h)) /\ h \in Heaps
  BY DEF ListsKept, HeadsLinked
<1>2. PICK p, left, r : p = h.head[k] /\ left = LeaveList(h, k) /\ r = RemoveElement(h, k)
  OBVIOUS
<1>3. k \in CounterKey /\ ks \subseteq CounterKey /\ p \in Inner(h) /\ p \in HeadNode /\ p \notin {MaxHead, MinTail}
  BY <1>1, <1>2 DEF ElementsLinked, Inner, Heads
<1>4. /\ h.prev[k] \in CounterKey \union {NoNode} /\ h.next[k] \in CounterKey \union {NoNode}
      /\ h.prev[k] # k
  <2>1. /\ h.prev[k] # NoNode => h.prev[k] \in ks /\ h.next[h.prev[k]] = k
        /\ h.next[k] # NoNode => h.next[k] \in ks
    BY <1>1 DEF ElementsLinked
  <2>2. PICK rank : Ranked(h, ks, rank)
    BY <1>1 DEF ElementsLinked
  <2>3. h.next[k] # NoNode => rank[k] < rank[h.next[k]]
    BY <2>2 DEF Ranked
  <2>4. rank[k] \in Nat
    BY <2>2, <1>3 DEF Ranked
  <2>5. h.next[k] # k
    BY <2>3, <2>4, <1>3
  <2> QED BY <2>1, <2>5, <1>3
<1>5. ListLeft(h, k, left)
  BY <1>1, <1>2, <1>3, <1>4, LeavingList
<1>6. ElementsLinked(left, ks \ {k}, IF left.l[p] = NoNode THEN Inner(h) \ {p} ELSE Inner(h))
  <2> HIDE DEF Inner
  <2> QED BY <1>1, <1>2, <1>5, LeftElements
<1>7. \A q \in HeadNode : left.next[q] = h.next[q] /\ left.prev[q] = h.prev[q]
  <2> TAKE q \in HeadNode
  <2>1. q \in Dnode /\ q # k /\ q # h.prev[k] /\ q # h.next[k]
    BY <1>3, <1>4
  <2> QED BY <2>1, <1>5 DEF ListLeft
<1>8. left \in Heaps /\ left.cnt = h.cnt
  BY <1>5 DEF ListLeft
<1>9. HeadsLinked(left) /\ Heads(left) = Heads(h) /\ Inner(left) = Inner(h)
  BY <1>1, <1>7, <1>8, SameHeads
<1>10. \A j \in ks \ {k} : left.head[j] = h.head[j]
  BY <1>3, <1>5 DEF ListLeft
<1>11. \A x : Level(left, x) = Level(h, x) /\ left.cnt[x] = h.cnt[x]
  BY <1>8 DEF Level
<1>12. CASE left.l[p] # NoNode
  <2>1. r = left
    BY <1>2, <1>12 DEF RemoveElement
  <2>2. ElementsLinked(r, ks \ {k}, Inner(r))
    BY <2>1, <1>6, <1>9, <1>12
  <2> QED BY <2>1, <2>2, <1>2, <1>3, <1>9, <1>10, <1>11 DEF ElementGone, ListsKept
<1>13. CASE left.l[p] = NoNode
  <2>1. r = DropHead(left, p)
    BY <1>2, <1>3, <1>13 DEF RemoveElement
  <2>2. HeadDropped(left, p, r)
    BY <2>1, <1>3, <1>8, DroppingHead
  <2>3. p \in Inner(left)
    BY <1>3, <1>9
  <2>4. /\ HeadsLinked(r) /\ Heads(r) = Heads(left) \ {p} /\ Inner(r) = Inner(left) \ {p}
        /\ \A x \in Heads(r) : Level(r, x) = Level(left, x)
        /\ left.prev[p] \in HeadNode /\ left.next[p] \in HeadNode
    BY <2>2, <2>3, <1>9, DroppedHeads
  <2>5. r.l = left.l /\ r.head = left.head
    BY <2>2 DEF HeadDropped
  <2>6. \A j \in CounterKey : r.next[j] = left.next[j] /\ r.prev[j] = left.prev[j]
    <3> TAKE j \in CounterKey
    <3>1. j \in Dnode /\ j # p /\ j # left.prev[p] /\ j # left.next[p]
      BY <2>4, <1>3
    <3> QED BY <3>1, <2>2 DEF HeadDropped
  <2>7. ElementsLinked(left, ks \ {k}, Inner(r))
    BY <2>4, <1>6, <1>9, <1>13
  <2>8. ElementsLinked(r, ks \ {k}, Inner(r))
    BY <2>5, <2>6, <2>7, SameElements
  <2>9. \A x \in Heads(r) : Level(r, x) = Level(h, x) /\ r.cnt[x] = h.cnt[x]
    <3> TAKE x \in Heads(r)
    <3>1. x \in HeadNode /\ x # p
      BY <2>4 DEF Heads
    <3>2. r.cnt[x] = left.cnt[x]
      BY <3>1, <2>2 DEF HeadDropped
    <3> QED BY <3>2, <2>4, <1>11
  <2> QED BY <2>4, <2>5, <2>8, <2>9, <1>2, <1>3, <1>9, <1>10 DEF ElementGone, ListsKept
<1> QED BY <1>12, <1>13

SameHeap(r, h) == r = h
SameFields(r, h) ==
    /\ r.cnt = h.cnt /\ \A p \in HeadNode : r.l[p] = h.l[p]
    /\ \A k \in CounterKey : r.head[k] = h.head[k]
    /\ \A q \in Dnode : r.next[q] = h.next[q] /\ r.prev[q] = h.prev[q]

LEMMA SameFieldsSameHeap ==
    ASSUME NEW h \in Heaps, NEW r \in Heaps, SameFields(r, h)
    PROVE  SameHeap(r, h)
<1>1. ASSUME NEW S, NEW T, NEW f \in [S -> T], NEW g \in [S -> T], \A x \in S : f[x] = g[x]
      PROVE  f = g
  BY <1>1
<1>2. r.l = h.l
  BY <1>1 DEF SameFields, Heaps
<1>3. r.head = h.head
  BY <1>1 DEF SameFields, Heaps
<1>4. r.next = h.next
  BY <1>1 DEF SameFields, Heaps
<1>5. r.prev = h.prev
  BY <1>1 DEF SameFields, Heaps
<1> QED BY <1>2, <1>3, <1>4, <1>5 DEF SameFields, SameHeap, Heaps

\* A key that has just been created is in no list: remove only clears its head.
LEMMA RemovingCreated ==
    ASSUME NEW h, NEW ks, ListsKept(h, ks), NEW k \in CounterKey, k \notin ks
    PROVE  RemoveElement([h EXCEPT !.head[k] = MinTail], k) = h
<1> USE NodesDiffer
<1>1. HeadsLinked(h) /\ ElementsLinked(h, ks, Inner(h)) /\ h \in Heaps
  BY DEF ListsKept, HeadsLinked
<1>2. h.prev[k] = NoNode /\ h.next[k] = NoNode /\ h.head[k] = NoNode /\ h.l[MinTail] = NoNode
  BY <1>1 DEF ElementsLinked, Inner
<1>3. PICK hd, h1 : hd = h.head /\ h1 = [h EXCEPT !.head[k] = MinTail]
  OBVIOUS
<1>4. /\ hd \in [CounterKey -> HeadNode \union {NoNode}]
      /\ h1 = [h EXCEPT !.head = [hd EXCEPT ![k] = MinTail]]
      /\ [hd EXCEPT ![k] = MinTail] \in [CounterKey -> HeadNode \union {NoNode}]
  BY <1>1, <1>3 DEF Heaps
<1>5. /\ h1 \in Heaps /\ h1.head = [hd EXCEPT ![k] = MinTail] /\ h1.l = h.l /\ h1.cnt = h.cnt
      /\ h1.next = h.next /\ h1.prev = h.prev
  BY <1>1, <1>4 DEF Heaps
<1>6. h1.head[k] = MinTail /\ \A j \in CounterKey : j # k => h1.head[j] = h.head[j]
  BY <1>3, <1>4, <1>5
<1>7. PICK r : r = LeaveList(h1, k)
  OBVIOUS
<1>8. h1.prev[k] = NoNode /\ h1.next[k] = NoNode /\ h1.head[k] \in HeadNode /\ h1.prev[k] # k
  BY <1>2, <1>5, <1>6
<1>9. ListLeft(h1, k, r)
  BY <1>5, <1>7, <1>8, LeavingList
<1>10. \A p \in HeadNode : r.l[p] = h.l[p]
  <2> TAKE p \in HeadNode
  <2>1. ~ (p = MinTail /\ h1.l[p] = k)
    BY <1>2, <1>5
  <2> QED BY <2>1, <1>5, <1>6, <1>9 DEF ListLeft
<1>11. \A j \in CounterKey : r.head[j] = h.head[j]
  BY <1>2, <1>6, <1>9 DEF ListLeft
<1>12. \A q \in Dnode : r.next[q] = h.next[q] /\ r.prev[q] = h.prev[q]
  <2> TAKE q \in Dnode
  <2>1. q # NoNode
    OBVIOUS
  <2> QED BY <2>1, <1>2, <1>5, <1>8, <1>9 DEF ListLeft
<1>13. r \in Heaps /\ r.cnt = h.cnt
  BY <1>5, <1>9 DEF ListLeft
<1>14. SameFields(r, h)
  BY <1>10, <1>11, <1>12, <1>13 DEF SameFields
<1>16. r = h
  <2>1. SameHeap(r, h)
    BY <1>1, <1>13, <1>14, SameFieldsSameHeap
  <2> QED BY <2>1 DEF SameHeap
<1>17. RemoveElement(h1, k) = r
  BY <1>2, <1>6, <1>7, <1>16 DEF RemoveElement
<1> QED BY <1>3, <1>16, <1>17

-----------------------------------------------------------------------------
\* There are as many head-nodes between the two ends as keys, and each of them that is in
\* use has a first element of its own: with a key in no list, one is free.
LEMMA OneIsFree ==
    ASSUME NEW h, NEW ks, ListsKept(h, ks), NEW k \in CounterKey, k \notin ks
    PROVE  Free(h) # {}
<1> USE NodesDiffer
<1>1. HeadsLinked(h) /\ ElementsLinked(h, ks, Inner(h)) /\ h \in Heaps
  BY DEF ListsKept, HeadsLinked
<1>2. SUFFICES ASSUME Free(h) = {} PROVE FALSE
  OBVIOUS
<1>3. PICK S, N : S = HeadNode \ {MaxHead, MinTail} /\ N = Cardinality(CounterKey)
  OBVIOUS
<1>4. S = 1 .. N /\ N \in Nat
  BY <1>3 DEF HeadNode, MaxHead, MinTail
<1>5. IsFiniteSet(S) /\ Cardinality(S) = N
  <2>1. IsFiniteSet(1 .. N) /\ Cardinality(1 .. N) = IF 1 > N THEN 0 ELSE N - 1 + 1
    BY <1>4, FS_Interval
  <2> QED BY <2>1, <1>4
<1>6. S = Inner(h)
  BY <1>2, <1>3 DEF Free, Inner, Heads
<1>7. PICK T : T = CounterKey \ {k}
  OBVIOUS
<1>8. IsFiniteSet(T) /\ Cardinality(T) = N - 1
  BY <1>3, <1>7, CountersAssumption, FS_RemoveElement
<1>9. PICK g : g = [p \in S |-> h.l[p]]
  OBVIOUS
<1>10. \A p \in S : g[p] \in T /\ h.head[g[p]] = p
  <2> TAKE p \in S
  <2>1. h.l[p] \in ks /\ h.head[h.l[p]] = p /\ ks \subseteq CounterKey
    BY <1>1, <1>6 DEF ElementsLinked
  <2>2. g[p] = h.l[p]
    BY <1>9
  <2> QED BY <2>1, <2>2, <1>7
<1>11. g \in [S -> T]
  BY <1>9, <1>10
<1>12. \A p, q \in S : p # q => g[p] # g[q]
  BY <1>10
<1>13. Cardinality(S) <= Cardinality(T)
  <2>1. ~ (Cardinality(T) < Cardinality(S))
    BY <1>5, <1>8, <1>11, <1>12, FS_PigeonHole
  <2> QED BY <2>1, <1>4, <1>5, <1>8
<1> QED BY <1>4, <1>5, <1>8, <1>13

\* The head-node p has the count c, or one that has it belongs after a.
CountGoes(h, c, p, a) ==
    /\ c \in 1 .. MaxCount
    /\ h.cnt[p] = c => p \in Inner(h)
    /\ h.cnt[p] # c => a \in Heads(h) \ {MinTail} /\ c < Level(h, a) /\ Level(h, h.next[a]) < c

\* The head-node of a count: the neighbour that has it, or a new one.
LEMMA NeighbourFound ==
    ASSUME NEW h, NEW ks, ListsKept(h, ks), NEW k \in CounterKey, k \notin ks, NEW c,
           NEW p, NEW after, CountGoes(h, c, p, after),
           NEW t, t = Neighbour(h, p, after, c)
    PROVE  /\ HeadsLinked(t.heap) /\ ElementsLinked(t.heap, ks, Inner(h))
           /\ Inner(t.heap) = Inner(h) \union {t.node} /\ t.node \in HeadNode
           /\ t.heap.cnt[t.node] = c /\ t.heap.head = h.head
           /\ \A x \in Inner(h) : t.heap.cnt[x] = h.cnt[x]
<1> USE NodesDiffer
<1>1. HeadsLinked(h) /\ ElementsLinked(h, ks, Inner(h)) /\ h \in Heaps
  BY DEF ListsKept, HeadsLinked
<1>2. Inner(h) \subseteq HeadNode
  BY DEF Inner, Heads
<1>3. CASE h.cnt[p] = c
  <2>1. t.heap = h /\ t.node = p /\ p \in Inner(h)
    BY <1>3 DEF Neighbour, CountGoes
  <2> QED BY <2>1, <1>1, <1>2, <1>3
<1>4. CASE h.cnt[p] # c
  <2>1. t = InsertHead(h, after, c)
    BY <1>4 DEF Neighbour
  <2>2. after \in Heads(h) \ {MinTail} /\ c < Level(h, after) /\ Level(h, h.next[after]) < c /\ after \in HeadNode
    BY <1>4 DEF Heads, CountGoes
  <2>3. h.next[after] \in HeadNode /\ h.next[after] # NoNode
    <3>1. Follows(h, after, h.next[after])
      BY <2>2, <1>1 DEF HeadsLinked
    <3> QED BY <3>1 DEF Follows, Heads
  <2>4. Free(h) # {}
    BY OneIsFree
  <2>5. c \in 0 .. MaxCount /\ c \in 1 .. MaxCount
    BY CountersAssumption DEF CountGoes
  <2>6. t.node \in Free(h) /\ HeadInserted(h, after, t.node, c, t.heap)
    BY <2>1, <2>2, <2>3, <2>4, <2>5, <1>1, InsertingHead
  <2>7. PICK n, r : n = t.node /\ r = t.heap
    OBVIOUS
  <2>8. n \in Free(h) /\ HeadInserted(h, after, n, c, r)
    BY <2>6, <2>7
  <2>9. HeadsLinked(r) /\ Inner(r) = Inner(h) \union {n} /\ n \notin Heads(h)
    BY <2>2, <2>5, <2>8, <1>1, InsertedHeads
  <2>10. n \in HeadNode
    BY <2>8 DEF Free
  <2>11. r.l = h.l /\ r.head = h.head /\ r.cnt[n] = c /\ \A x \in Inner(h) : r.cnt[x] = h.cnt[x]
    <3>1. \A x \in Inner(h) : x \in HeadNode /\ x # n
      BY <2>9, <1>2 DEF Inner
    <3> QED BY <3>1, <2>8, <2>10 DEF HeadInserted
  <2>12. \A j \in CounterKey : r.next[j] = h.next[j] /\ r.prev[j] = h.prev[j]
    <3> TAKE j \in CounterKey
    <3>1. j \in Dnode /\ j # n /\ j # after /\ j # h.next[after]
      BY <2>2, <2>3, <2>10
    <3> QED BY <3>1, <2>8 DEF HeadInserted
  <2>13. ElementsLinked(r, ks, Inner(h))
    BY <2>11, <2>12, <1>1, SameElements
  <2> QED BY <2>7, <2>9, <2>10, <2>11, <2>13
<1> QED BY <1>3, <1>4

\* The key k is counted c now, and no other count has changed.
CountsBecome(h, ks, k, c, r, ks2) ==
    /\ ListsKept(r, ks2)
    /\ \A j \in CounterKey : CountIn(r, ks2)[j] = IF j = k THEN c ELSE CountIn(h, ks)[j]

LEMMA Placed ==
    ASSUME NEW h, NEW ks, ListsKept(h, ks), NEW k \in CounterKey, k \notin ks, NEW c,
           NEW p, NEW after, CountGoes(h, c, p, after),
           NEW t, t = Neighbour(h, p, after, c)
    PROVE  CountsBecome(h, ks, k, c, AddElement(t.heap, k, t.node), ks \union {k})
<1> USE NodesDiffer
<1>1. PICK g, n, r : g = t.heap /\ n = t.node /\ r = AddElement(t.heap, k, t.node)
  OBVIOUS
<1>2. /\ HeadsLinked(g) /\ ElementsLinked(g, ks, Inner(h))
      /\ Inner(g) = Inner(h) \union {n} /\ n \in HeadNode
      /\ g.cnt[n] = c /\ g.head = h.head
      /\ \A x \in Inner(h) : g.cnt[x] = h.cnt[x]
  BY <1>1, NeighbourFound
<1>3. g \in Heaps /\ ks \subseteq CounterKey
  BY <1>2 DEF HeadsLinked, ElementsLinked
<1>4. g.l[n] \in ks \union {NoNode} /\ g.l[n] # k
  <2>1. n \in Inner(h) => g.l[n] \in ks
    BY <1>2 DEF ElementsLinked
  <2>2. n \notin Inner(h) => g.l[n] = NoNode
    BY <1>2 DEF ElementsLinked
  <2> QED BY <2>1, <2>2
<1>5. ElementAdded(g, k, n, r)
  BY <1>1, <1>2, <1>3, <1>4, AddingElement
<1>6. r \in Heaps /\ r.cnt = g.cnt
  BY <1>5 DEF ElementAdded
<1>7. \A q \in HeadNode : r.next[q] = g.next[q] /\ r.prev[q] = g.prev[q]
  <2> TAKE q \in HeadNode
  <2>1. CASE g.l[n] = NoNode
    BY <2>1, <1>5 DEF ElementAdded
  <2>2. CASE g.l[n] # NoNode
    <3>1. PICK f : f = g.l[n]
      OBVIOUS
    <3>2. f \in ks /\ g.next[f] \in ks \union {NoNode}
      BY <3>1, <2>2, <1>2, <1>4 DEF ElementsLinked
    <3>3. q \in Dnode /\ q # k /\ q # f /\ q # g.next[f]
      BY <3>2, <1>3
    <3> QED BY <3>1, <3>3, <2>2, <1>5 DEF ElementAdded
  <2> QED BY <2>1, <2>2
<1>8. HeadsLinked(r) /\ Inner(r) = Inner(h) \union {n}
  BY <1>2, <1>6, <1>7, SameHeads
<1>9. ElementsLinked(r, ks \union {k}, Inner(h) \union {n})
  BY <1>2, <1>5, AddedElements
<1>10. ListsKept(r, ks \union {k})
  BY <1>8, <1>9 DEF ListsKept
<1>11. r.head[k] = n /\ \A j \in ks : r.head[j] = h.head[j] /\ h.head[j] \in Inner(h) /\ j # k
  <2>1. \A j \in ks : h.head[j] \in Inner(h)
    BY DEF ListsKept, ElementsLinked
  <2> QED BY <2>1, <1>2, <1>3, <1>5 DEF ElementAdded
<1>12. \A j \in CounterKey :
         (IF j \in ks \union {k} THEN r.cnt[r.head[j]] ELSE 0)
            = IF j = k THEN c ELSE IF j \in ks THEN h.cnt[h.head[j]] ELSE 0
  <2> TAKE j \in CounterKey
  <2>1. CASE j = k
    BY <2>1, <1>2, <1>6, <1>11
  <2>2. CASE j # k /\ j \in ks
    BY <2>2, <1>2, <1>6, <1>11
  <2>3. CASE j # k /\ j \notin ks
    BY <2>3
  <2> QED BY <2>1, <2>2, <2>3
<1>13. \A j \in CounterKey : CountIn(r, ks \union {k})[j] = IF j = k THEN c ELSE CountIn(h, ks)[j]
  BY <1>12 DEF CountIn
<1> QED BY <1>1, <1>10, <1>13 DEF CountsBecome

-----------------------------------------------------------------------------
FirstIn(h, p) == IF h.l[p] = NoNode THEN <<NoNode, 0>> ELSE <<h.l[p], h.cnt[p]>>

\* The first element next to either end is a key of the highest, or of the lowest, count.
LEMMA Extremes ==
    ASSUME NEW h, NEW ks, ListsKept(h, ks), NEW cn, cn = CountIn(h, ks)
    PROVE  /\ FirstIn(h, h.next[MaxHead]) \in Plain!OrNothing(Plain!Highest(cn))
           /\ FirstIn(h, h.prev[MinTail]) \in Plain!OrNothing(Plain!Lowest(cn))
<1> USE NodesDiffer
<1>1. HeadsLinked(h) /\ ElementsLinked(h, ks, Inner(h))
  BY DEF ListsKept
<1>2. /\ MaxHead \in Heads(h) /\ MinTail \in Heads(h)
      /\ Level(h, MaxHead) = MaxCount + 1 /\ Level(h, MinTail) = 0
      /\ \A p \in Inner(h) : Level(h, p) = h.cnt[p] /\ Level(h, p) \in 1 .. MaxCount
  BY <1>1, LevelsOfHeads
<1>3. /\ h.l[MaxHead] = NoNode /\ h.l[MinTail] = NoNode
      /\ \A p \in Inner(h) : h.l[p] \in ks /\ h.head[h.l[p]] = p /\ h.l[p] # NoNode
  BY <1>1 DEF ElementsLinked, Inner
<1>4. /\ \A j \in ks : j \in CounterKey /\ h.head[j] \in Inner(h) /\ h.head[j] \in Heads(h) /\ cn[j] = h.cnt[h.head[j]]
                       /\ cn[j] = Level(h, h.head[j]) /\ cn[j] \in 1 .. MaxCount
      /\ \A j \in CounterKey : j \notin ks => cn[j] = 0
  <2>1. ASSUME NEW j \in ks
        PROVE  j \in CounterKey /\ h.head[j] \in Inner(h) /\ h.head[j] \in Heads(h) /\ cn[j] = h.cnt[h.head[j]]
    BY <1>1 DEF ElementsLinked, CountIn, Inner
  <2>2. \A j \in CounterKey : j \notin ks => cn[j] = 0
    BY DEF CountIn
  <2> QED BY <2>1, <2>2, <1>2
<1>5. MaxCount \in Nat
  BY CountersAssumption
<1>6. Inner(h) = {} => ks = {} /\ Plain!Highest(cn) = {} /\ Plain!Lowest(cn) = {}
  <2> SUFFICES ASSUME Inner(h) = {} PROVE ks = {} /\ Plain!Highest(cn) = {} /\ Plain!Lowest(cn) = {}
    OBVIOUS
  <2>1. ks = {}
    BY <1>4
  <2>2. \A j \in CounterKey : ~ (cn[j] > 0)
    BY <2>1, <1>4
  <2> QED BY <2>1, <2>2 DEF Plain!Highest, Plain!Lowest
<1>7. FirstIn(h, h.next[MaxHead]) \in Plain!OrNothing(Plain!Highest(cn))
  <2>1. PICK p : p = h.next[MaxHead]
    OBVIOUS
  <2>2. Follows(h, MaxHead, p)
    BY <2>1, <1>1, <1>2 DEF HeadsLinked
  <2>3. p \in Heads(h) \ {MaxHead} /\ \A x \in Heads(h) : Level(h, x) >= MaxCount + 1 \/ Level(h, x) <= Level(h, p)
    BY <2>2, <1>2 DEF Follows
  <2>4. CASE p = MinTail
    <3>1. \A x \in Inner(h) : FALSE
      <4> TAKE x \in Inner(h)
      <4>1. x \in Heads(h) /\ Level(h, x) \in 1 .. MaxCount
        BY <1>2 DEF Inner
      <4>2. Level(h, x) >= MaxCount + 1 \/ Level(h, x) <= 0
        BY <4>1, <2>3, <2>4, <1>2
      <4> QED BY <4>1, <4>2, <1>5
    <3>2. Inner(h) = {}
      <4> HIDE DEF Inner
      <4> QED BY <3>1
    <3>3. FirstIn(h, p) = <<NoNode, 0>>
      BY <2>4, <1>3 DEF FirstIn
    <3>4. Plain!Highest(cn) = {}
      BY <3>2, <1>6
    <3> QED BY <2>1, <3>3, <3>4 DEF Plain!OrNothing
  <2>5. CASE p # MinTail
    <3>1. p \in Inner(h)
      BY <2>3, <2>5 DEF Inner
    <3>2. PICK k : k = h.l[p]
      OBVIOUS
    <3>3. k \in ks /\ h.head[k] = p /\ FirstIn(h, p) = <<k, h.cnt[p]>> /\ cn[k] = h.cnt[p] /\ cn[k] \in 1 .. MaxCount
          /\ cn[k] = Level(h, p) /\ k \in CounterKey
      BY <3>1, <3>2, <1>3, <1>4 DEF FirstIn
    <3>4. \A j \in CounterKey : cn[j] <= cn[k]
      <4> TAKE j \in CounterKey
      <4>1. CASE j \in ks
        <5>1. h.head[j] \in Heads(h) /\ cn[j] = Level(h, h.head[j]) /\ cn[j] \in 1 .. MaxCount
          BY <4>1, <1>4
        <5>2. Level(h, h.head[j]) >= MaxCount + 1 \/ Level(h, h.head[j]) <= Level(h, p)
          BY <5>1, <2>3
        <5> QED BY <5>1, <5>2, <3>3, <1>5
      <4>2. CASE j \notin ks
        BY <4>2, <3>3, <1>4
      <4> QED BY <4>1, <4>2
    <3>5. <<k, cn[k]>> \in Plain!Highest(cn)
      BY <3>3, <3>4 DEF Plain!Highest
    <3> QED BY <2>1, <3>3, <3>5 DEF Plain!OrNothing
  <2> QED BY <2>4, <2>5
<1>8. FirstIn(h, h.prev[MinTail]) \in Plain!OrNothing(Plain!Lowest(cn))
  <2>1. PICK p : p = h.prev[MinTail]
    OBVIOUS
  <2>2. p \in Heads(h) \ {MinTail} /\ h.next[p] = MinTail
    BY <2>1, <1>1, <1>2 DEF HeadsLinked
  <2>3. Follows(h, p, MinTail)
    <3>1. Follows(h, p, h.next[p])
      BY <2>2, <1>1 DEF HeadsLinked
    <3> QED BY <3>1, <2>2
  <2>4. \A x \in Heads(h) : Level(h, x) >= Level(h, p) \/ Level(h, x) <= 0
    BY <2>3, <1>2 DEF Follows
  <2>5. CASE p = MaxHead
    <3>1. \A x \in Inner(h) : FALSE
      <4> TAKE x \in Inner(h)
      <4>1. x \in Heads(h) /\ Level(h, x) \in 1 .. MaxCount
        BY <1>2 DEF Inner
      <4>2. Level(h, x) >= MaxCount + 1 \/ Level(h, x) <= 0
        BY <4>1, <2>4, <2>5, <1>2
      <4> QED BY <4>1, <4>2, <1>5
    <3>2. Inner(h) = {}
      <4> HIDE DEF Inner
      <4> QED BY <3>1
    <3>3. FirstIn(h, p) = <<NoNode, 0>>
      BY <2>5, <1>3 DEF FirstIn
    <3>4. Plain!Lowest(cn) = {}
      BY <3>2, <1>6
    <3> QED BY <2>1, <3>3, <3>4 DEF Plain!OrNothing
  <2>6. CASE p # MaxHead
    <3>1. p \in Inner(h)
      BY <2>2, <2>6 DEF Inner
    <3>2. PICK k : k = h.l[p]
      OBVIOUS
    <3>3. k \in ks /\ h.head[k] = p /\ FirstIn(h, p) = <<k, h.cnt[p]>> /\ cn[k] = h.cnt[p] /\ cn[k] \in 1 .. MaxCount
          /\ cn[k] = Level(h, p) /\ k \in CounterKey
      BY <3>1, <3>2, <1>3, <1>4 DEF FirstIn
    <3>4. \A j \in CounterKey : cn[j] > 0 => cn[j] >= cn[k]
      <4> TAKE j \in CounterKey
      <4>1. CASE j \in ks
        <5>1. h.head[j] \in Heads(h) /\ cn[j] = Level(h, h.head[j]) /\ cn[j] \in 1 .. MaxCount
          BY <4>1, <1>4
        <5>2. Level(h, h.head[j]) >= Level(h, p) \/ Level(h, h.head[j]) <= 0
          BY <5>1, <2>4
        <5> QED BY <5>1, <5>2, <3>3, <1>5
      <4>2. CASE j \notin ks
        BY <4>2, <1>4
      <4> QED BY <4>1, <4>2
    <3>5. <<k, cn[k]>> \in Plain!Lowest(cn)
      BY <3>3, <3>4 DEF Plain!Lowest
    <3> QED BY <2>1, <3>3, <3>5 DEF Plain!OrNothing
  <2> QED BY <2>5, <2>6
<1> QED BY <1>7, <1>8

-----------------------------------------------------------------------------
\* Where inc and dec look for the new head-node; phead is where the key is counted, or min_tail.
\* remove keeps the heads of the count list, but perhaps phead.
HeadsKept(h, phead, r) ==
    /\ HeadsLinked(r)
    /\ Heads(r) \subseteq Heads(h) /\ Heads(h) \ {phead} \subseteq Heads(r)
    /\ \A x \in Heads(r) : Level(r, x) = Level(h, x) /\ r.cnt[x] = h.cnt[x]

LEMMA WhereIncInserts ==
    ASSUME NEW h, HeadsLinked(h), NEW phead \in Heads(h) \ {MaxHead}, NEW r, HeadsKept(h, phead, r),
           NEW c, c = h.cnt[phead] + 1, c <= MaxCount, NEW p, p = h.prev[phead]
    PROVE  CountGoes(r, c, p, p)
<1> USE NodesDiffer
<1>1. MaxCount \in Nat
  BY CountersAssumption
<1>2. /\ Level(h, MaxHead) = MaxCount + 1 /\ Level(h, phead) \in Nat /\ \A x \in Heads(h) : Level(h, x) \in Nat
  BY LevelsOfHeads
<1>3. Level(h, phead) = h.cnt[phead]
  BY DEF Level
<1>4. c \in 1 .. MaxCount
  BY <1>1, <1>2, <1>3
<1>5. p \in Heads(h) \ {MinTail} /\ h.next[p] = phead
  BY DEF HeadsLinked
<1>6. Follows(h, p, phead)
  <2>1. Follows(h, p, h.next[p])
    BY <1>5 DEF HeadsLinked
  <2> QED BY <2>1, <1>5
<1>7. Level(h, phead) < Level(h, p) /\ \A x \in Heads(h) : Level(h, x) >= Level(h, p) \/ Level(h, x) <= Level(h, phead)
  BY <1>6 DEF Follows
<1>8. p # phead /\ p \in Heads(r) \ {MinTail} /\ Level(r, p) = Level(h, p) /\ r.cnt[p] = h.cnt[p]
  BY <1>2, <1>5, <1>7 DEF HeadsKept
<1>9. r.cnt[p] = c => p \in Inner(r)
  <2>1. h.cnt[MaxHead] = 0
    BY DEF HeadsLinked
  <2>2. ASSUME r.cnt[p] = c, p = MaxHead PROVE FALSE
    <3>1. c = 0
      BY <2>1, <2>2, <1>8
    <3> QED BY <3>1, <1>1, <1>4
  <2> QED BY <2>2, <1>8 DEF Inner
<1>10. ASSUME r.cnt[p] # c PROVE c < Level(r, p) /\ Level(r, r.next[p]) < c
  <2>1. Level(h, p) # c
    BY <1>1, <1>2, <1>4, <1>8, <1>10 DEF Level
  <2>2. c < Level(r, p)
    BY <2>1, <1>2, <1>3, <1>5, <1>7, <1>8
  <2>3. PICK z : z = r.next[p]
    OBVIOUS
  <2>4. Follows(r, p, z)
    BY <2>3, <1>8 DEF HeadsKept, HeadsLinked
  <2>5. z \in Heads(r) /\ Level(r, z) < Level(r, p)
    BY <2>4 DEF Follows
  <2>6. z \in Heads(h) /\ Level(r, z) = Level(h, z)
    BY <2>5 DEF HeadsKept
  <2>7. Level(h, z) <= Level(h, phead)
    BY <2>5, <2>6, <1>2, <1>5, <1>7, <1>8
  <2> QED BY <2>2, <2>3, <2>6, <2>7, <1>2, <1>3
<1> QED BY <1>4, <1>8, <1>9, <1>10 DEF CountGoes

LEMMA WhereDecInserts ==
    ASSUME NEW h, HeadsLinked(h), NEW phead \in Inner(h), NEW r, HeadsKept(h, phead, r),
           NEW c, c = h.cnt[phead] - 1, c # 0, NEW p, p = h.next[phead], NEW a, a = r.prev[p]
    PROVE  CountGoes(r, c, p, a)
<1> USE NodesDiffer
<1>1. MaxCount \in Nat
  BY CountersAssumption
<1>2. /\ Level(h, phead) = h.cnt[phead] /\ Level(h, phead) \in 1 .. MaxCount
      /\ \A x \in Heads(h) : Level(h, x) \in Nat
  BY LevelsOfHeads
<1>3. c \in 1 .. MaxCount
  BY <1>1, <1>2
<1>4. phead \in Heads(h) \ {MinTail}
  BY DEF Inner
<1>5. Follows(h, phead, p)
  BY <1>4 DEF HeadsLinked
<1>6. /\ p \in Heads(h) \ {MaxHead} /\ Level(h, p) < Level(h, phead)
      /\ \A x \in Heads(h) : Level(h, x) >= Level(h, phead) \/ Level(h, x) <= Level(h, p)
  BY <1>5 DEF Follows
<1>7. p # phead /\ p \in Heads(r) \ {MaxHead} /\ Level(r, p) = Level(h, p) /\ r.cnt[p] = h.cnt[p]
  BY <1>2, <1>4, <1>6 DEF HeadsKept
<1>8. r.cnt[p] = c => p \in Inner(r)
  <2>1. h.cnt[MinTail] = 0
    BY DEF HeadsLinked
  <2> QED BY <2>1, <1>3, <1>7 DEF Inner
<1>9. ASSUME r.cnt[p] # c PROVE a \in Heads(r) \ {MinTail} /\ c < Level(r, a) /\ Level(r, r.next[a]) < c
  <2>1. Level(h, p) < c
    <3>1. Level(h, p) = h.cnt[p] /\ Level(h, p) \in Nat
      BY <1>2, <1>6 DEF Level
    <3> QED BY <3>1, <1>2, <1>6, <1>7, <1>9
  <2>2. a \in Heads(r) \ {MinTail} /\ r.next[a] = p
    BY <1>7 DEF HeadsKept, HeadsLinked
  <2>3. Follows(r, a, p)
    <3>1. Follows(r, a, r.next[a])
      BY <2>2 DEF HeadsKept, HeadsLinked
    <3> QED BY <3>1, <2>2
  <2>4. Level(r, p) < Level(r, a)
    BY <2>3 DEF Follows
  <2>5. a \in Heads(h) /\ Level(r, a) = Level(h, a)
    BY <2>2 DEF HeadsKept
  <2>6. Level(h, a) >= Level(h, phead)
    BY <2>4, <2>5, <1>2, <1>6, <1>7
  <2> QED BY <2>1, <2>2, <2>5, <2>6, <1>2, <1>7
<1> QED BY <1>3, <1>8, <1>9 DEF CountGoes

\* What inc and dec of the key k make of the heap h.
IncGives(h, ks, k, created, left, c, p, t, r) ==
    /\ created = IF k \in ks THEN h ELSE [h EXCEPT !.head[k] = MinTail]
    /\ left = RemoveElement(created, k)
    /\ c = created.cnt[created.head[k]] + 1 /\ c <= MaxCount
    /\ p = created.prev[created.head[k]]
    /\ t = Neighbour(left, p, p, c) /\ r = AddElement(t.heap, k, t.node)

DecGives(h, ks, k, left, c, p, t, r, ks2) ==
    /\ left = RemoveElement(h, k)
    /\ c = h.cnt[h.head[k]] - 1 /\ p = h.next[h.head[k]]
    /\ t = Neighbour(left, p, left.prev[p], c)
    /\ IF c = 0 THEN r = left /\ ks2 = ks \ {k}
                ELSE r = AddElement(t.heap, k, t.node) /\ ks2 = ks

\* When remove is done the other keys have the counts they had.
OthersCount(h, ks, k, left) ==
    \A j \in CounterKey : j # k => CountIn(left, ks \ {k})[j] = CountIn(h, ks)[j]

LEMMA OthersAreCounted ==
    ASSUME NEW h, NEW ks, NEW k \in ks, NEW left, ElementGone(h, ks, k, left)
    PROVE  OthersCount(h, ks, k, left) /\ HeadsKept(h, h.head[k], left)
<1>1. ASSUME NEW j \in ks \ {k} PROVE left.cnt[left.head[j]] = h.cnt[h.head[j]]
  <2>1. left.head[j] = h.head[j]
    BY DEF ElementGone
  <2>2. left.head[j] \in Inner(left)
    BY DEF ElementGone, ListsKept, ElementsLinked
  <2> QED BY <2>1, <2>2 DEF ElementGone, Inner
<1>2. OthersCount(h, ks, k, left)
  <2>1. ASSUME NEW j \in CounterKey, j # k
        PROVE  (IF j \in ks \ {k} THEN left.cnt[left.head[j]] ELSE 0) = IF j \in ks THEN h.cnt[h.head[j]] ELSE 0
    BY <1>1, <2>1
  <2> QED BY <2>1 DEF OthersCount, CountIn
<1>3. HeadsKept(h, h.head[k], left)
  BY DEF ElementGone, HeadsKept, ListsKept
<1> QED BY <1>2, <1>3

LEMMA IncPlaces ==
    ASSUME NEW h, NEW ks, ListsKept(h, ks), NEW k \in CounterKey,
           NEW created, NEW left, NEW c, NEW p, NEW t, NEW r, IncGives(h, ks, k, created, left, c, p, t, r)
    PROVE  CountsBecome(h, ks, k, CountIn(h, ks)[k] + 1, r, ks \union {k})
<1>1. HeadsLinked(h) /\ h \in Heaps
  BY DEF ListsKept, HeadsLinked
<1>2. PICK phead, ks0 : phead = created.head[k] /\ ks0 = ks \ {k}
  BY Zenon
<1>3. /\ ListsKept(left, ks0) /\ HeadsKept(h, phead, left) /\ OthersCount(h, ks, k, left)
      /\ phead \in Heads(h) \ {MaxHead} /\ CountIn(h, ks)[k] = h.cnt[phead]
      /\ created.cnt[phead] = h.cnt[phead] /\ created.prev[phead] = h.prev[phead]
  <2>1. CASE k \in ks
    <3>1. created = h /\ left = RemoveElement(h, k) /\ phead = h.head[k]
      BY <2>1, <1>2 DEF IncGives
    <3>2. ElementGone(h, ks, k, left) /\ phead \in Inner(h)
      BY <3>1, <2>1, RemovingElement
    <3>3. ListsKept(left, ks0)
      BY <3>2, <1>2 DEF ElementGone
    <3>4. HeadsKept(h, phead, left) /\ OthersCount(h, ks, k, left)
      BY <3>1, <3>2, <2>1, OthersAreCounted
    <3>5. CountIn(h, ks)[k] = h.cnt[phead]
      BY <3>1, <2>1 DEF CountIn
    <3> QED BY <3>1, <3>2, <3>3, <3>4, <3>5 DEF Inner
  <2>2. CASE k \notin ks
    <3>1. created = [h EXCEPT !.head[k] = MinTail] /\ ks0 = ks /\ left = RemoveElement(created, k)
      BY <2>2, <1>2 DEF IncGives
    <3>2. left = h
      BY <3>1, <2>2, RemovingCreated
    <3>3. phead = MinTail /\ created.cnt = h.cnt /\ created.prev = h.prev
      BY <3>1, <1>1, <1>2 DEF Heaps
    <3>4. MinTail \in Heads(h) \ {MaxHead} /\ h.cnt[MinTail] = 0
      BY <1>1, NodesDiffer DEF HeadsLinked, Heads
    <3>5. HeadsKept(h, phead, left)
      BY <3>2, <1>1 DEF HeadsKept
    <3>6. CountIn(h, ks)[k] = 0
      BY <2>2 DEF CountIn
    <3>7. OthersCount(h, ks, k, left)
      BY <3>1, <3>2, <1>2, SMTT(30) DEF OthersCount
    <3> QED BY <3>1, <3>2, <3>3, <3>4, <3>5, <3>6, <3>7
  <2> QED BY <2>1, <2>2
<1>4. c = h.cnt[phead] + 1 /\ c <= MaxCount /\ p = h.prev[phead]
  BY <1>2, <1>3 DEF IncGives
<1>5. CountGoes(left, c, p, p)
  BY <1>1, <1>3, <1>4, WhereIncInserts, SMTT(30)
<1>6. t = Neighbour(left, p, p, c) /\ r = AddElement(t.heap, k, t.node)
  BY DEF IncGives
<1>7. k \notin ks0 /\ ks0 \union {k} = ks \union {k}
  BY <1>2
<1>8. CountsBecome(left, ks0, k, c, AddElement(t.heap, k, t.node), ks0 \union {k})
  BY <1>3, <1>5, <1>6, <1>7, Placed
<1>9. CountsBecome(left, ks0, k, c, r, ks \union {k})
  BY <1>6, <1>7, <1>8
<1>10. \A j \in CounterKey : j # k => CountIn(left, ks0)[j] = CountIn(h, ks)[j]
  BY <1>2, <1>3 DEF OthersCount
<1>11. c = CountIn(h, ks)[k] + 1
  BY <1>3, <1>4
<1> QED BY <1>9, <1>10, <1>11 DEF CountsBecome

LEMMA DecPlaces ==
    ASSUME NEW h, NEW ks, ListsKept(h, ks), NEW k \in ks,
           NEW left, NEW c, NEW p, NEW t, NEW r, NEW ks2, DecGives(h, ks, k, left, c, p, t, r, ks2)
    PROVE  CountIn(h, ks)[k] > 0 /\ CountsBecome(h, ks, k, CountIn(h, ks)[k] - 1, r, ks2)
<1>1. HeadsLinked(h) /\ ks \subseteq CounterKey
  BY DEF ListsKept, ElementsLinked
<1>2. PICK phead, ks0, a : phead = h.head[k] /\ ks0 = ks \ {k} /\ a = left.prev[p]
  BY Zenon
<1>3. ElementGone(h, ks, k, left) /\ phead \in Inner(h) /\ k \in CounterKey
  <2>1. left = RemoveElement(h, k)
    BY DEF DecGives
  <2> QED BY <2>1, <1>1, <1>2, RemovingElement, SMTT(30)
<1>4. ListsKept(left, ks0) /\ HeadsKept(h, phead, left) /\ OthersCount(h, ks, k, left)
  BY <1>2, <1>3, OthersAreCounted, SMTT(30) DEF ElementGone
<1>5. \A j \in CounterKey : j # k => CountIn(left, ks0)[j] = CountIn(h, ks)[j]
  BY <1>2, <1>4 DEF OthersCount
<1>6. c = h.cnt[phead] - 1 /\ p = h.next[phead]
  BY <1>2 DEF DecGives
<1>7. CountIn(h, ks)[k] > 0 /\ c = CountIn(h, ks)[k] - 1
  <2>1. CountIn(h, ks)[k] = h.cnt[phead]
    BY <1>2, <1>3 DEF CountIn
  <2>2. h.cnt[phead] \in 1 .. MaxCount /\ MaxCount \in Nat
    BY <1>1, <1>3, CountersAssumption DEF HeadsLinked
  <2> QED BY <2>1, <2>2, <1>6
<1>8. CASE c = 0
  <2>1. r = left /\ ks2 = ks0
    BY <1>2, <1>8 DEF DecGives
  <2>2. CountIn(left, ks0)[k] = c
    BY <1>2, <1>3, <1>8 DEF CountIn
  <2>3. CountsBecome(h, ks, k, c, r, ks2)
    BY <2>1, <2>2, <1>4, <1>5 DEF CountsBecome
  <2> QED BY <2>3, <1>7, Zenon
<1>9. CASE c # 0
  <2>1. CountGoes(left, c, p, a)
    BY <1>1, <1>2, <1>3, <1>4, <1>6, <1>9, WhereDecInserts, Zenon
  <2>2. t = Neighbour(left, p, a, c) /\ r = AddElement(t.heap, k, t.node) /\ ks2 = ks
    BY <1>2, <1>9, Zenon DEF DecGives
  <2>3. k \notin ks0 /\ ks0 \union {k} = ks2
    BY <2>2, <1>2
  <2>4. CountsBecome(left, ks0, k, c, AddElement(t.heap, k, t.node), ks0 \union {k})
    BY <2>1, <2>2, <2>3, <1>3, <1>4, Placed
  <2>5. CountsBecome(left, ks0, k, c, r, ks2)
    BY <2>2, <2>3, <2>4
  <2>6. CountsBecome(h, ks, k, c, r, ks2)
    BY <2>5, <1>5 DEF CountsBecome
  <2> QED BY <2>6, <1>7
<1> QED BY <1>8, <1>9

-----------------------------------------------------------------------------
\* The invariant of the counters.
CountersInv == index \subseteq CounterKey /\ ListsKept(heap, index)

LEMMA CountersInitially == CountersInit => CountersInv
<1> SUFFICES ASSUME CountersInit PROVE CountersInv
  OBVIOUS
<1> USE NodesDiffer, CountersAssumption
<1>1. /\ index = {}
      /\ heap = [prev |-> [p \in Dnode |-> IF p = MinTail THEN MaxHead ELSE NoNode],
                 next |-> [p \in Dnode |-> IF p = MaxHead THEN MinTail ELSE NoNode],
                 cnt |-> [p \in HeadNode |-> 0],
                 l |-> [p \in HeadNode |-> NoNode],
                 head |-> [k \in CounterKey |-> NoNode]]
  BY DEF CountersInit
<1>2. /\ [p \in Dnode |-> IF p = MinTail THEN MaxHead ELSE NoNode] \in [Dnode -> DnodeOrNone]
      /\ [p \in Dnode |-> IF p = MaxHead THEN MinTail ELSE NoNode] \in [Dnode -> DnodeOrNone]
      /\ [p \in HeadNode |-> 0] \in [HeadNode -> 0 .. MaxCount]
      /\ [p \in HeadNode |-> NoNode] \in [HeadNode -> CounterKey \union {NoNode}]
      /\ [k \in CounterKey |-> NoNode] \in [CounterKey -> HeadNode \union {NoNode}]
  <2>1. MaxHead \in DnodeOrNone /\ MinTail \in DnodeOrNone /\ NoNode \in DnodeOrNone
    BY DEF DnodeOrNone
  <2> QED BY <2>1
<1>3. heap \in Heaps
  BY <1>1, <1>2 DEF Heaps
<1>4. /\ \A p \in Dnode : /\ heap.prev[p] = IF p = MinTail THEN MaxHead ELSE NoNode
                          /\ heap.next[p] = IF p = MaxHead THEN MinTail ELSE NoNode
      /\ \A p \in HeadNode : heap.cnt[p] = 0 /\ heap.l[p] = NoNode
      /\ \A k \in CounterKey : heap.head[k] = NoNode
  BY <1>1
<1>5. Heads(heap) = {MaxHead, MinTail} /\ Inner(heap) = {}
  <2>1. ASSUME NEW q \in HeadNode PROVE (q \in {MaxHead, MinTail} \/ heap.next[q] # NoNode) <=> q \in {MaxHead, MinTail}
    BY <1>4
  <2>2. Heads(heap) = {MaxHead, MinTail}
    BY <2>1 DEF Heads
  <2> QED BY <2>2 DEF Inner
<1>6. Level(heap, MaxHead) = MaxCount + 1 /\ Level(heap, MinTail) = 0
  BY <1>4 DEF Level
<1>7. Follows(heap, MaxHead, MinTail)
  <2>1. heap.prev[MinTail] = MaxHead
    BY <1>4
  <2>2. Level(heap, MinTail) < Level(heap, MaxHead)
    BY <1>6
  <2>3. \A x \in Heads(heap) : Level(heap, x) >= Level(heap, MaxHead) \/ Level(heap, x) <= Level(heap, MinTail)
    BY <1>5, <1>6
  <2> QED BY <2>1, <2>2, <2>3, <1>5 DEF Follows
<1>8. /\ heap.next[MaxHead] = MinTail /\ heap.prev[MinTail] = MaxHead
      /\ heap.prev[MaxHead] = NoNode /\ heap.next[MinTail] = NoNode
  BY <1>4
<1>9. HeadsLinked(heap)
  <2>1. \A p, q \in Heads(heap) : Level(heap, p) = Level(heap, q) => p = q
    BY <1>5, <1>6
  <2>2. \A p \in Heads(heap) \ {MinTail} : Follows(heap, p, heap.next[p])
    BY <1>5, <1>7, <1>8
  <2>3. \A q \in Heads(heap) \ {MaxHead} : heap.prev[q] \in Heads(heap) \ {MinTail} /\ heap.next[heap.prev[q]] = q
    BY <1>5, <1>8
  <2> QED BY <2>1, <2>2, <2>3, <1>3, <1>4, <1>5, <1>8 DEF HeadsLinked
<1>10. ElementsLinked(heap, {}, {})
  <2>1. PICK rank : rank = [k \in CounterKey |-> 0]
    OBVIOUS
  <2>2. Ranked(heap, {}, rank)
    BY <2>1 DEF Ranked
  <2>3. \A k \in CounterKey : heap.prev[k] = NoNode /\ heap.next[k] = NoNode /\ heap.head[k] = NoNode
    <3> TAKE k \in CounterKey
    <3>1. k \in Dnode /\ k # MaxHead /\ k # MinTail
      OBVIOUS
    <3> QED BY <3>1, <1>4
  <2> QED BY <2>2, <2>3, <1>4 DEF ElementsLinked
<1> QED BY <1>1, <1>5, <1>9, <1>10 DEF CountersInv, ListsKept

\* The counts that the lists stand for.
Counts == [k \in CounterKey |-> IF k \in index THEN heap.cnt[heap.head[k]] ELSE 0]

LEMMA SettingCount ==
    ASSUME CountersInv, NEW k \in CounterKey, NEW c, CountsBecome(heap, index, k, c, heap', index'),
           index' \subseteq CounterKey
    PROVE  CountersInv' /\ Plain!Set(k, c)
<1>1. PICK h2, ks2, cn : h2 = heap' /\ ks2 = index' /\ cn = Counts'
  OBVIOUS
<1>2. ListsKept(h2, ks2) /\ cn = CountIn(h2, ks2)
  BY <1>1 DEF CountsBecome, Counts, CountIn
<1>3. /\ FirstIn(h2, h2.next[MaxHead]) \in Plain!OrNothing(Plain!Highest(cn))
      /\ FirstIn(h2, h2.prev[MinTail]) \in Plain!OrNothing(Plain!Lowest(cn))
  BY <1>2, Extremes
<1>4. get_max' = FirstIn(h2, h2.next[MaxHead]) /\ get_min' = FirstIn(h2, h2.prev[MinTail])
  BY <1>1 DEF get_max, get_min, First, FirstIn
<1>5. /\ get_max' \in Plain!OrNothing(Plain!Highest(Counts'))
      /\ get_min' \in Plain!OrNothing(Plain!Lowest(Counts'))
  BY <1>1, <1>3, <1>4
<1>6. Counts' = [Counts EXCEPT ![k] = c]
  <2>1. \A j \in CounterKey : Counts'[j] = IF j = k THEN c ELSE Counts[j]
    BY DEF CountsBecome, Counts, CountIn
  <2>2. Counts = [j \in CounterKey |-> Counts[j]] /\ Counts' = [j \in CounterKey |-> Counts'[j]]
    BY DEF Counts
  <2> HIDE DEF Counts
  <2> QED BY <2>1, <2>2
<1>7. CountersInv'
  BY DEF CountsBecome, CountersInv
<1> QED BY <1>5, <1>6, <1>7 DEF Plain!Set, Counts

\* The counters keep their invariant and count as counters do.
LEMMA CountersStep == CountersInv /\ [CountersNext]_cntVars => CountersInv' /\ [Plain!Next]_(Plain!vars)
<1> SUFFICES ASSUME CountersInv, [CountersNext]_cntVars PROVE CountersInv' /\ [Plain!Next]_(Plain!vars)
  OBVIOUS
<1>0. ListsKept(heap, index) /\ index \subseteq CounterKey /\ Counts = CountIn(heap, index)
  BY DEF CountersInv, Counts, CountIn
<1>1. ASSUME NEW k \in CounterKey, inc(k) PROVE CountersInv' /\ [Plain!Next]_(Plain!vars)
  <2>1. PICK created, left, c, p, t, r :
            /\ created = IF k \in index THEN heap ELSE [heap EXCEPT !.head[k] = MinTail]
            /\ left = RemoveElement(created, k)
            /\ c = created.cnt[created.head[k]] + 1
            /\ p = created.prev[created.head[k]]
            /\ t = Neighbour(left, p, p, c) /\ r = AddElement(t.heap, k, t.node)
    BY Zenon
  <2>2. c <= MaxCount /\ index' = index \union {k} /\ heap' = r
    BY <2>1, <1>1, Zenon DEF inc
  <2>3. IncGives(heap, index, k, created, left, c, p, t, r)
    BY <2>1, <2>2, Zenon DEF IncGives
  <2>4. CountsBecome(heap, index, k, CountIn(heap, index)[k] + 1, r, index \union {k})
    BY <2>3, <1>0, IncPlaces
  <2>5. PICK n : n = Counts[k] + 1
    OBVIOUS
  <2>6. CountsBecome(heap, index, k, n, heap', index') /\ index' \subseteq CounterKey
    BY <2>2, <2>4, <2>5, <1>0
  <2>7. CountersInv' /\ Plain!Set(k, n)
    BY <2>6, SettingCount
  <2>8. Plain!Inc(k)
    BY <2>5, <2>7 DEF Plain!Inc, Plain!Set, Counts
  <2> QED BY <2>7, <2>8 DEF Plain!Next
<1>2. ASSUME NEW k \in CounterKey, dec(k) PROVE CountersInv' /\ [Plain!Next]_(Plain!vars)
  <2>1. PICK left, c, p, t :
            /\ left = RemoveElement(heap, k)
            /\ c = heap.cnt[heap.head[k]] - 1 /\ p = heap.next[heap.head[k]]
            /\ t = Neighbour(left, p, left.prev[p], c)
    BY Zenon
  <2>2. PICK r, ks2 : /\ r = IF c = 0 THEN left ELSE AddElement(t.heap, k, t.node)
                      /\ ks2 = IF c = 0 THEN index \ {k} ELSE index
    BY Zenon
  <2>3. DecGives(heap, index, k, left, c, p, t, r, ks2)
    BY <2>1, <2>2, Zenon DEF DecGives
  <2>4. k \in index /\ index' = ks2 /\ heap' = r
    <3>1. CASE c = 0
      BY <3>1, <2>1, <2>2, <1>2, Zenon DEF dec
    <3>2. CASE c # 0
      BY <3>2, <2>1, <2>2, <1>2, Zenon DEF dec
    <3> QED BY <3>1, <3>2
  <2>5. CountIn(heap, index)[k] > 0 /\ CountsBecome(heap, index, k, CountIn(heap, index)[k] - 1, r, ks2)
    BY <2>3, <2>4, <1>0, DecPlaces
  <2>6. PICK n : n = Counts[k] - 1
    OBVIOUS
  <2>7. CountsBecome(heap, index, k, n, heap', index') /\ index' \subseteq CounterKey
    BY <2>2, <2>4, <2>5, <2>6, <1>0
  <2>8. CountersInv' /\ Plain!Set(k, n)
    BY <2>7, SettingCount
  <2>9. Plain!Dec(k)
    BY <2>5, <2>6, <2>8, <1>0 DEF Plain!Dec, Plain!Set, Counts
  <2> QED BY <2>8, <2>9 DEF Plain!Next
<1>3. CASE UNCHANGED cntVars
  <2>1. index' = index /\ heap' = heap
    BY <1>3 DEF cntVars
  <2>2. CountersInv'
    BY <2>1 DEF CountersInv
  <2>3. UNCHANGED Plain!vars
    BY <2>1 DEF Plain!vars, get_max, get_min, First
  <2> QED BY <2>2, <2>3
<1> QED BY <1>1, <1>2, <1>3 DEF CountersNext

\* The counters start as counters do.
LEMMA CountersStart == CountersInit => Plain!Init
<1> SUFFICES ASSUME CountersInit PROVE Plain!Init
  OBVIOUS
<1> USE NodesDiffer
<1>1. index = {} /\ heap.l = [p \in HeadNode |-> NoNode]
      /\ heap.next = [p \in Dnode |-> IF p = MaxHead THEN MinTail ELSE NoNode]
      /\ heap.prev = [p \in Dnode |-> IF p = MinTail THEN MaxHead ELSE NoNode]
  BY DEF CountersInit
<1>2. heap.next[MaxHead] = MinTail /\ heap.prev[MinTail] = MaxHead
      /\ heap.l[MinTail] = NoNode /\ heap.l[MaxHead] = NoNode
  BY <1>1
<1>3. get_max = <<NoNode, 0>> /\ get_min = <<NoNode, 0>>
  BY <1>2 DEF get_max, get_min, First
<1> QED BY <1>1, <1>3 DEF Plain!Init

\* MinMaxCounters: inc and dec on the linked lists change one count by one, whichever
\* head-nodes come and go, and get_max and get_min name a key of the highest and of the
\* lowest count.
THEOREM CountersImplement == CountersSpec => CountersAgree
<1>1. CountersInit => CountersInv /\ Plain!Init
  BY CountersInitially, CountersStart
<1>2. CountersInv /\ [CountersNext]_cntVars => CountersInv' /\ [Plain!Next]_(Plain!vars)
  BY CountersStep
<1> QED BY <1>1, <1>2, PTL DEF CountersSpec, CountersAgree, Plain!Spec

-----------------------------------------------------------------------------
(***************************************************************************)
(* WorldScan.                                                              *)
(***************************************************************************)
\* Where the LOCK of before is while scan s opens the database: in its place, or, from the
\* move to the end of the finally, aside; what else there may be is the LOCK of s itself.
FoundIsKnown(s) ==
    /\ pc[s] = "move" => Kept(lock) /\ lock # NoFile /\ backup = NoFile /\ original_existed[s]
    /\ pc[s] # "move" => Kept(backup) /\ (original_existed[s] <=> backup # NoFile)
    /\ pc[s] \in {"open", "restore"} => lock = NoFile
    /\ pc[s] = "giveup" => lock \in {NoFile, s}

ScanInv ==
    /\ scans \subseteq Scans /\ pc \in [Scans -> Locations] /\ original_existed \in [Scans -> BOOLEAN]
    /\ LockIsKept
    /\ ~disturbed => \A s \in scans : Opening(s) => /\ FoundIsKnown(s)
                                                    /\ \A t \in scans \ {s} : ~ Opening(t)

LEMMA ScanInitially == ScanInit => ScanInv
<1> SUFFICES ASSUME ScanInit PROVE ScanInv
  OBVIOUS
<1>1. pc = [s \in Scans |-> "check"] /\ original_existed = [s \in Scans |-> FALSE]
  BY DEF ScanInit
<1>2. pc \in [Scans -> Locations] /\ original_existed \in [Scans -> BOOLEAN] /\ \A s \in Scans : ~ Opening(s)
  BY <1>1 DEF Locations, Opening
<1>3. scans \subseteq Scans
  BY ScansAssumption DEF ScanInit, Scans
<1>4. Kept(lock) /\ backup = NoFile
  BY DEF ScanInit, Kept
<1> QED BY <1>2, <1>3, <1>4 DEF ScanInv, LockIsKept

\* A step of one scan, when no other is opening.
LEMMA ScanStepKeepsScanInv ==
    ASSUME ScanInv, NEW s \in scans, Step(s)
    PROVE  ScanInv'
<1>1. /\ scans' = scans /\ found' = found /\ scans \subseteq Scans
      /\ pc' \in [Scans -> Locations] /\ original_existed' \in [Scans -> BOOLEAN]
      /\ \A t \in scans \ {s} : pc'[t] = pc[t] /\ original_existed'[t] = original_existed[t]
      /\ disturbed => disturbed'
  <2>1. s \in Scans /\ pc \in [Scans -> Locations] /\ original_existed \in [Scans -> BOOLEAN]
    BY DEF ScanInv
  <2>2. /\ scans' = scans /\ found' = found /\ (disturbed => disturbed')
        /\ \E l \in Locations : pc' = [pc EXCEPT ![s] = l]
    <3>0. {"move", "open", "failed"} \subseteq Locations
      BY DEF Locations
    <3>1. CASE Check(s) \/ Move(s)
      <4> PICK l \in {"move", "open", "failed"} : Goes(s, l)
        BY <3>1 DEF Check, Move, Goes
      <4> SUFFICES UNCHANGED <<scans, found>> /\ (disturbed => disturbed')
        BY <3>0 DEF Goes
      <4>1. CASE Check(s)
        <5>1. disturbed' = (disturbed \/ \E t \in scans : Opening(t))
          BY <4>1 DEF Check
        <5> QED BY <4>1, <5>1 DEF Check
      <4>2. CASE Move(s)
        BY <4>2 DEF Move
      <4> QED BY <3>1, <4>1, <4>2
    <3>2. CASE Open(s)
      <4>1. PICK l \in {"remove", "giveup"} : Goes(s, l)
        BY <3>2 DEF Open, OpenSucceeds
      <4> QED BY <3>2, <4>1 DEF Open, Goes, Locations
    <3>3. CASE RemoveLock(s) \/ Restore(s)
      BY <3>3 DEF RemoveLock, Restore, Goes, Locations
    <3>4. CASE Scan(s)
      <4>1. PICK l \in {"failed", "done"} : Goes(s, l)
        BY <3>4 DEF Scan
      <4> QED BY <3>4, <4>1 DEF Scan, Goes, Locations
    <3> QED BY <3>1, <3>2, <3>3, <3>4 DEF Step
  <2>3. \/ UNCHANGED original_existed
        \/ original_existed' = [original_existed EXCEPT ![s] = (lock # NoFile)]
    BY DEF Goes, Step, Check, Move, Open, RemoveLock, Restore, Scan
  <2> QED BY <2>1, <2>2, <2>3 DEF ScanInv
<1>2. pc[s] # "failed"
  BY DEF Step, Check, Move, Open, RemoveLock, Restore, Scan
<1>3. \A f : Kept(f) => f = found' \/ (found' = NoFile /\ f \in scans' /\ pc'[f] = "failed")
  BY <1>1, <1>2 DEF Kept
<1>4. CASE disturbed'
  BY <1>1, <1>4 DEF ScanInv, LockIsKept
<1>5. CASE ~ disturbed' /\ \E t \in scans \ {s} : Opening(t)
  <2>1. PICK t \in scans \ {s} : Opening(t) /\ FoundIsKnown(t) /\ \A r \in scans \ {t} : ~ Opening(r)
    BY <1>1, <1>5 DEF ScanInv
  <2>2. ~ Opening(s)
    BY <2>1
  <2>3. Scan(s)
    BY <2>1, <2>2, <1>5 DEF Step, Check, Move, Open, RemoveLock, Restore, Opening
  <2>4. pc'[s] \in {"failed", "done"} /\ UNCHANGED <<lock, backup, original_existed>>
    BY <2>3, <1>1 DEF Scan, Goes, ScanInv
  <2>5. \A r \in scans : Opening(r)' <=> Opening(r)
    BY <1>1, <2>2, <2>4 DEF Opening
  <2>6. FoundIsKnown(t)'
    BY <1>1, <1>3, <2>1, <2>4 DEF FoundIsKnown, Kept
  <2> QED BY <1>1, <2>1, <2>2, <2>5, <2>6 DEF ScanInv, LockIsKept
<1>6. CASE ~ disturbed' /\ \A t \in scans \ {s} : ~ Opening(t)
  <2>1. \A t \in scans \ {s} : ~ Opening(t)'
    BY <1>1, <1>6 DEF Opening
  <2>2. Opening(s) => FoundIsKnown(s)
    BY <1>1, <1>6 DEF ScanInv
  <2>3. ~ Opening(s) => Kept(lock) /\ backup = NoFile
    BY <1>1, <1>6 DEF ScanInv, LockIsKept
  <2>4. /\ Opening(s)' => FoundIsKnown(s)'
        /\ ~ Opening(s)' => Kept(lock)' /\ backup' = NoFile
    <3>0. pc \in [Scans -> Locations] /\ original_existed \in [Scans -> BOOLEAN] /\ s \in Scans
          /\ s # NoFile /\ NoFile \notin scans
      BY DEF ScanInv, Scans, NoFile
    <3>1. CASE Check(s)
      <4>1. ~ Opening(s)
        BY <3>1 DEF Check, Opening
      <4>2. /\ UNCHANGED <<lock, backup>> /\ original_existed'[s] = (lock # NoFile)
            /\ pc'[s] = IF lock # NoFile THEN "move" ELSE "open"
        BY <3>0, <3>1 DEF Check, Goes, lockVars
      <4> QED BY <3>0, <4>1, <4>2, <2>3, <1>3 DEF Opening, FoundIsKnown, Kept
    <3>2. CASE Move(s)
      <4>1. pc[s] = "move" /\ FoundIsKnown(s)
        BY <3>2, <2>2 DEF Move, Opening
      <4>2. pc'[s] = "open" /\ lock' = NoFile /\ backup' = lock /\ original_existed' = original_existed
        BY <3>0, <3>2, <4>1 DEF Move, Goes, FoundIsKnown
      <4> QED BY <3>0, <4>1, <4>2, <1>3 DEF Opening, FoundIsKnown, Kept
    <3>3. CASE Open(s)
      <4>1. pc[s] = "open" /\ FoundIsKnown(s)
        BY <3>3, <2>2 DEF Open, Opening
      <4>2. /\ pc'[s] = "remove" \/ (pc'[s] = "giveup" /\ lock' \in {NoFile, s})
            /\ UNCHANGED <<backup, original_existed>>
        BY <3>0, <3>3, <4>1 DEF Open, OpenFails, OpenSucceeds, TakenLock, Goes, FoundIsKnown
      <4> QED BY <3>0, <4>1, <4>2, <1>3 DEF Opening, FoundIsKnown, Kept
    <3>4. CASE RemoveLock(s)
      <4>1. pc[s] = "remove" /\ FoundIsKnown(s)
        BY <3>4, <2>2 DEF RemoveLock, Opening
      <4>2. pc'[s] = "restore" /\ lock' = NoFile /\ UNCHANGED <<backup, original_existed>>
        BY <3>0, <3>4 DEF RemoveLock, Goes
      <4> QED BY <3>0, <4>1, <4>2, <1>3 DEF Opening, FoundIsKnown, Kept
    <3>5. CASE Restore(s)
      <4>1. pc[s] \in {"restore", "giveup"} /\ FoundIsKnown(s)
        BY <3>5, <2>2 DEF Restore, Opening
      <4>2. /\ pc'[s] = IF pc[s] = "restore" THEN "scan" ELSE "failed"
            /\ IF original_existed[s] /\ backup # NoFile
                 THEN lock' = backup /\ backup' = NoFile
                 ELSE UNCHANGED <<lock, backup>>
        BY <3>0, <3>5 DEF Restore, Goes
      <4>3. ~ Opening(s)'
        BY <4>2 DEF Opening
      <4>4. CASE original_existed[s]
        BY <3>0, <4>1, <4>2, <4>3, <4>4, <1>3 DEF FoundIsKnown, Kept
      <4>5. CASE ~ original_existed[s]
        <5>1. backup = NoFile /\ found = NoFile /\ UNCHANGED <<lock, backup>>
          BY <3>0, <4>1, <4>2, <4>5 DEF FoundIsKnown, Kept
        <5>2. lock = NoFile \/ (lock = s /\ pc'[s] = "failed")
          BY <4>1, <4>2 DEF FoundIsKnown
        <5> QED BY <1>1, <4>3, <5>1, <5>2 DEF Kept
      <4> QED BY <4>4, <4>5
    <3>6. CASE Scan(s)
      <4>1. ~ Opening(s) /\ pc'[s] \in {"failed", "done"} /\ UNCHANGED <<lock, backup>>
        BY <3>0, <3>6 DEF Scan, Goes, Opening
      <4> QED BY <4>1, <2>3, <1>3 DEF Opening, Kept
    <3> QED BY <3>1, <3>2, <3>3, <3>4, <3>5, <3>6 DEF Step
  <2> QED BY <1>1, <2>1, <2>4 DEF ScanInv, LockIsKept
<1> QED BY <1>4, <1>5, <1>6

LEMMA KillKeepsScanInv ==
    ASSUME ScanInv, NEW s \in scans, Kill(s)
    PROVE  ScanInv'
<1>1. /\ UNCHANGED <<scans, lock, backup, original_existed, found>>
      /\ pc' \in [Scans -> Locations] /\ pc'[s] = "failed" /\ \A t \in scans \ {s} : pc'[t] = pc[t]
      /\ disturbed' <=> disturbed \/ Opening(s)
  BY DEF ScanInv, Kill, Goes, Locations
<1>2. CASE disturbed'
  BY <1>1, <1>2 DEF ScanInv, LockIsKept
<1>3. CASE ~ disturbed'
  <2>1. \A f : Kept(f) => f = found' \/ (found' = NoFile /\ f \in scans' /\ pc'[f] = "failed")
    BY <1>1 DEF Kept
  <2>2. ~ Opening(s) /\ \A t \in scans : Opening(t)' <=> Opening(t)
    BY <1>1, <1>3 DEF Opening
  <2>3. \A t \in scans : Opening(t) => FoundIsKnown(t)'
    <3> SUFFICES ASSUME NEW t \in scans, Opening(t) PROVE FoundIsKnown(t)'
      OBVIOUS
    <3>1. FoundIsKnown(t) /\ pc'[t] = pc[t]
      BY <1>1, <1>3, <2>2 DEF ScanInv
    <3> QED BY <1>1, <2>1, <3>1 DEF FoundIsKnown, Kept
  <2>4. (\A t \in scans : ~ Opening(t)) => Kept(lock)' /\ backup' = NoFile
    BY <1>1, <1>3, <2>1 DEF ScanInv, LockIsKept, Kept
  <2> QED BY <1>1, <1>3, <2>2, <2>3, <2>4 DEF ScanInv, LockIsKept
<1> QED BY <1>2, <1>3

\* LockIsKept: however scans that do not overlap while they open the database end, the LOCK
\* of before is in its place, or one that a failed opening has left where there was none,
\* and no copy is left.
THEOREM LockIsAlwaysKept == ScanSpec => []LockIsKept
<1>1. ScanInv /\ [ScanNext]_scanVars => ScanInv'
  <2>1. ScanInv /\ UNCHANGED scanVars => ScanInv'
    BY DEF ScanInv, scanVars, LockIsKept, Opening, FoundIsKnown, Kept
  <2> QED BY <2>1, ScanStepKeepsScanInv, KillKeepsScanInv DEF ScanNext
<1>2. ScanInv => LockIsKept
  BY DEF ScanInv
<1> QED BY <1>1, <1>2, ScanInitially, PTL DEF ScanSpec
=============================================================================
