------------------------ MODULE MpFileProcess_proofs ------------------------
(***************************************************************************)
(* Proofs about MpFileProcess, for every number of processes, every input  *)
(* file and every capacity of the pipes, when no line and no result is     *)
(* blank (PlainKinds).                                                     *)
(***************************************************************************)
EXTENDS MpFileProcess, SequenceTheorems, TLAPS

-----------------------------------------------------------------------------
(***************************************************************************)
(* Arithmetic: whose turn it is.                                           *)
(***************************************************************************)
LEMMA Division ==
    ASSUME NEW m \in Nat
    PROVE  /\ m = NumProcesses * (m \div NumProcesses) + (m % NumProcesses)
           /\ m \div NumProcesses \in Nat /\ m % NumProcesses \in Procs
  BY FileAssumption DEF Procs

LEMMA DivisionIsUnique ==
    ASSUME NEW p \in Int, NEW q \in Int, NEW r \in Procs, NEW s \in Procs,
           NumProcesses * p + r = NumProcesses * q + s
    PROVE  p = q /\ r = s
  BY FileAssumption, Z3 DEF Procs

LEMMA RemainderIs ==
    ASSUME NEW m \in Nat, NEW q \in Nat, NEW r \in Procs, m = NumProcesses * q + r
    PROVE  m % NumProcesses = r
  <1>1. /\ NumProcesses * (m \div NumProcesses) + (m % NumProcesses) = NumProcesses * q + r
        /\ m \div NumProcesses \in Int /\ m % NumProcesses \in Procs /\ q \in Int
    BY Division
  <1> QED
    BY <1>1, DivisionIsUnique

\* The turn goes round.
LEMMA NextTurn ==
    ASSUME NEW m \in Nat
    PROVE  ((m % NumProcesses) + 1) % NumProcesses = (m + 1) % NumProcesses
  <1> DEFINE r == m % NumProcesses
             q == m \div NumProcesses
  <1>1. m = NumProcesses * q + r /\ q \in Nat /\ r \in Procs
    BY Division
  <1> HIDE DEF r, q
  <1>2. CASE r + 1 < NumProcesses
    <2>1. r + 1 \in Procs /\ r + 1 \in Nat /\ m + 1 \in Nat
      BY <1>1, <1>2, FileAssumption DEF Procs
    <2>2. m + 1 = NumProcesses * q + (r + 1) /\ r + 1 = NumProcesses * 0 + (r + 1)
      BY <1>1, <2>1, FileAssumption DEF Procs
    <2>3. (m + 1) % NumProcesses = r + 1
      BY <1>1, <2>1, <2>2, RemainderIs
    <2>4. (r + 1) % NumProcesses = r + 1
      BY <2>1, <2>2, RemainderIs
    <2> QED
      BY <2>3, <2>4 DEF r
  <1>3. CASE r + 1 = NumProcesses
    <2>1. 0 \in Procs /\ r + 1 \in Nat /\ m + 1 \in Nat /\ q + 1 \in Nat
      BY <1>1, <1>3, FileAssumption DEF Procs
    <2>2. m + 1 = NumProcesses * (q + 1) + 0 /\ r + 1 = NumProcesses * 1 + 0
      BY <1>1, <1>3, <2>1, FileAssumption DEF Procs
    <2>3. (m + 1) % NumProcesses = 0
      BY <2>1, <2>2, RemainderIs
    <2>4. (r + 1) % NumProcesses = 0
      BY <2>1, <2>2, RemainderIs
    <2> QED
      BY <2>3, <2>4 DEF r
  <1> QED
    BY <1>1, <1>2, <1>3, FileAssumption DEF Procs

-----------------------------------------------------------------------------
(***************************************************************************)
(* A sequence of lines in their order, with the pills behind them.         *)
(***************************************************************************)
InTurn(s, D) ==
    /\ \A k, l \in 1 .. Len(s) : k < l /\ s[l] # Pill => s[k] # Pill /\ s[k] < s[l]
    /\ {s[k] : k \in 1 .. Len(s)} \ {Pill} = D

LEMMA AppendLine ==
    ASSUME NEW s \in Seq(Nat), NEW D, InTurn(s, D), NEW x \in Nat \ {0},
           \A k \in 1 .. Len(s) : s[k] # Pill, \A d \in D : d < x
    PROVE  InTurn(Append(s, x), D \cup {x})
  <1> DEFINE t == Append(s, x)
  <1>1. /\ Len(s) \in Nat /\ Len(t) = Len(s) + 1 /\ t[Len(s) + 1] = x
        /\ \A k \in 1 .. Len(s) : t[k] = s[k] /\ s[k] \in Nat /\ s[k] \in D
    BY AppendProperties, LenProperties, ElementOfSeq DEF InTurn
  <1> HIDE DEF t
  <1>2. ASSUME NEW k \in 1 .. Len(t), NEW l \in 1 .. Len(t), k < l
        PROVE  t[k] # Pill /\ t[k] < t[l]
    <2>1. k \in 1 .. Len(s) /\ t[k] = s[k] /\ s[k] # Pill /\ s[k] < x
      BY <1>1, <1>2
    <2>2. CASE l = Len(s) + 1
      BY <1>1, <2>1, <2>2
    <2>3. CASE l \in 1 .. Len(s)
      BY <1>1, <1>2, <2>1, <2>3 DEF InTurn
    <2> QED
      BY <1>1, <2>1, <2>2, <2>3
  <1>3. {t[k] : k \in 1 .. Len(t)} \ {Pill} = D \cup {x}
    <2>1. {t[k] : k \in 1 .. Len(t)} = {s[k] : k \in 1 .. Len(s)} \cup {x}
      BY <1>1
    <2> QED
      BY <2>1 DEF InTurn, Pill
  <1> QED
    BY <1>2, <1>3 DEF InTurn, t

LEMMA AppendPill ==
    ASSUME NEW s \in Seq(Nat), NEW D
    PROVE  InTurn(s, D) <=> InTurn(Append(s, Pill), D)
  <1> DEFINE t == Append(s, Pill)
  <1>1. /\ Len(s) \in Nat /\ Len(t) = Len(s) + 1 /\ t[Len(s) + 1] = Pill
        /\ \A k \in 1 .. Len(s) : t[k] = s[k]
    BY AppendProperties, LenProperties DEF Pill
  <1> HIDE DEF t
  <1>2. {t[k] : k \in 1 .. Len(t)} = {s[k] : k \in 1 .. Len(s)} \cup {Pill}
    BY <1>1
  <1>3. {t[k] : k \in 1 .. Len(t)} \ {Pill} = {s[k] : k \in 1 .. Len(s)} \ {Pill}
    BY <1>2
  <1>4. ASSUME InTurn(s, D) PROVE InTurn(t, D)
    <2>1. ASSUME NEW k \in 1 .. Len(t), NEW l \in 1 .. Len(t), k < l, t[l] # Pill
          PROVE  t[k] # Pill /\ t[k] < t[l]
      <3>1. l \in 1 .. Len(s) /\ k \in 1 .. Len(s) /\ t[k] = s[k] /\ t[l] = s[l]
        BY <1>1, <2>1
      <3> QED
        BY <1>4, <2>1, <3>1 DEF InTurn
    <2> QED
      BY <1>3, <1>4, <2>1 DEF InTurn
  <1>5. ASSUME InTurn(t, D) PROVE InTurn(s, D)
    <2>1. ASSUME NEW k \in 1 .. Len(s), NEW l \in 1 .. Len(s), k < l, s[l] # Pill
          PROVE  s[k] # Pill /\ s[k] < s[l]
      <3>1. l \in 1 .. Len(t) /\ k \in 1 .. Len(t) /\ t[k] = s[k] /\ t[l] = s[l]
        BY <1>1, <2>1
      <3> QED
        BY <1>5, <2>1, <3>1 DEF InTurn
    <2> QED
      BY <1>3, <1>5, <2>1 DEF InTurn
  <1> QED
    BY <1>4, <1>5 DEF t

LEMMA AppendBehind ==
    ASSUME NEW t \in Seq(Nat), NEW q \in Seq(Nat), NEW x \in Nat
    PROVE  t \o Append(q, x) = Append(t \o q, x)
  <1>1. /\ Append(q, x) = q \o <<x>> /\ Append(t \o q, x) = (t \o q) \o <<x>>
        /\ <<x>> \in Seq(Nat)
    <2>1. t \o q \in Seq(Nat)
      BY ConcatProperties
    <2>2. Append(q, x) = q \o <<x>>
      BY AppendIsConcat
    <2>3. Append(t \o q, x) = (t \o q) \o <<x>>
      BY <2>1, AppendIsConcat
    <2> QED
      BY <2>2, <2>3
  <1>2. (t \o q) \o <<x>> = t \o (q \o <<x>>)
    BY <1>1, ConcatAssociative
  <1> QED
    BY <1>1, <1>2

\* A line that a worker has done is still before the others.
LEMMA HeadMoves ==
    ASSUME NEW S, NEW t \in Seq(S), NEW q \in Seq(S), q # <<>>
    PROVE  Append(t, Head(q)) \o Tail(q) = t \o q
  <1>1. /\ Head(q) \in S /\ Tail(q) \in Seq(S) /\ Len(Tail(q)) = Len(q) - 1
        /\ \A i \in 1 .. Len(Tail(q)) : Tail(q)[i] = q[i + 1]
        /\ Head(q) = q[1] /\ Len(q) \in Nat \ {0} /\ Len(t) \in Nat
    BY HeadTailProperties, LenProperties, EmptySeq
  <1> DEFINE u == Append(t, Head(q))
             v == Tail(q)
  <1>2. /\ u \in Seq(S) /\ Len(u) = Len(t) + 1 /\ u[Len(t) + 1] = q[1]
        /\ \A i \in 1 .. Len(t) : u[i] = t[i]
    BY <1>1, AppendProperties
  <1>3. v \in Seq(S) /\ Len(v) = Len(q) - 1 /\ \A i \in 1 .. Len(v) : v[i] = q[i + 1]
    BY <1>1
  <1> HIDE DEF u, v
  <1>4. /\ u \o v \in Seq(S) /\ Len(u \o v) = Len(t) + Len(q)
        /\ \A i \in 1 .. Len(t) + Len(q) :
             (u \o v)[i] = IF i <= Len(t) + 1 THEN u[i] ELSE v[i - (Len(t) + 1)]
    <2>1. Len(u) + Len(v) = Len(t) + Len(q)
      BY <1>1, <1>2, <1>3
    <2>2. /\ u \o v \in Seq(S) /\ Len(u \o v) = Len(u) + Len(v)
          /\ \A i \in 1 .. Len(u) + Len(v) :
               (u \o v)[i] = IF i <= Len(u) THEN u[i] ELSE v[i - Len(u)]
      BY <1>2, <1>3, ConcatProperties
    <2> QED
      BY <1>2, <2>1, <2>2
  <1>5. /\ t \o q \in Seq(S) /\ Len(t \o q) = Len(t) + Len(q)
        /\ \A i \in 1 .. Len(t) + Len(q) :
             (t \o q)[i] = IF i <= Len(t) THEN t[i] ELSE q[i - Len(t)]
    BY ConcatProperties
  <1>6. ASSUME NEW i \in 1 .. Len(t) + Len(q) PROVE (u \o v)[i] = (t \o q)[i]
    <2>1. CASE i <= Len(t)
      BY <1>1, <1>2, <1>4, <1>5, <2>1
    <2>2. CASE i = Len(t) + 1
      <3>1. (u \o v)[i] = q[1]
        BY <1>1, <1>2, <1>4, <2>2
      <3>2. (t \o q)[i] = q[i - Len(t)] /\ i - Len(t) = 1
        BY <1>1, <1>5, <2>2
      <3> QED
        BY <3>1, <3>2
    <2>3. CASE i > Len(t) + 1
      <3> DEFINE j == i - (Len(t) + 1)
      <3>1. j \in 1 .. Len(v) /\ j + 1 = i - Len(t) /\ ~(i <= Len(t) + 1) /\ ~(i <= Len(t))
        BY <1>1, <1>3, <2>3
      <3>2. (u \o v)[i] = v[j] /\ (t \o q)[i] = q[j + 1]
        BY <1>4, <1>5, <3>1
      <3> HIDE DEF j
      <3>3. v[j] = q[j + 1]
        BY <1>3, <3>1
      <3> QED
        BY <3>1, <3>2, <3>3
    <2>4. i <= Len(t) \/ i = Len(t) + 1 \/ i > Len(t) + 1
      BY <1>1
    <2> QED
      BY <2>1, <2>2, <2>3, <2>4
  <1>7. u \o v = t \o q
    BY <1>4, <1>5, <1>6, SeqEqual
  <1> QED
    BY <1>7 DEF u, v

-----------------------------------------------------------------------------
(***************************************************************************)
(* The inductive invariant, and what it says of one worker.                *)
(***************************************************************************)
Ascending ==
    \A k, l \in 1 .. Len(output_file) : k < l => output_file[k] < output_file[l]

Ind == DealtInTurn /\ PillsAreLast /\ MergedInTurn /\ Ascending

LEMMA SeqsOf ==
    ASSUME FileTypeOK, NEW w \in Procs
    PROVE  /\ Len(kind) \in Nat
           /\ temp[w] \in Seq(1 .. Len(kind)) /\ queue[w] \in Seq(0 .. Len(kind))
           /\ temp[w] \in Seq(0 .. Len(kind))
           /\ temp[w] \in Seq(Nat) /\ queue[w] \in Seq(Nat) /\ Lines(w) \in Seq(Nat)
  <1>1. /\ Len(kind) \in Nat
        /\ temp[w] \in Seq(1 .. Len(kind)) /\ queue[w] \in Seq(0 .. Len(kind))
    BY LenProperties DEF FileTypeOK
  <1>2. 1 .. Len(kind) \subseteq Nat /\ 0 .. Len(kind) \subseteq Nat
        /\ 1 .. Len(kind) \subseteq 0 .. Len(kind)
    BY <1>1
  <1>3. temp[w] \in Seq(0 .. Len(kind)) /\ temp[w] \in Seq(Nat) /\ queue[w] \in Seq(Nat)
    BY <1>1, <1>2, SeqMonotonic
  <1> QED
    BY <1>1, <1>3, ConcatProperties DEF Lines

\* Without blank lines only the pill ends a worker, and only its end closes a file.
LEMMA OnlyThePill ==
    ASSUME PlainKinds, FileTypeOK, NEW line \in 1 .. Len(kind)
    PROVE  ~IsPill(line) /\ kind[line] \notin {"space", "blank"}
  <1>1. kind[line] \in Kinds
    BY ElementOfSeq DEF FileTypeOK
  <1>2. line # Pill
    BY DEF Pill
  <1> QED
    BY <1>1, <1>2 DEF PlainKinds, IsPill

\* The file of a worker has lines dealt to it, in order; all of them when its queue is empty.
LEMMA FileLines ==
    ASSUME DealtInTurn, NEW w \in Procs
    PROVE  /\ Len(temp[w]) \in Nat
           /\ \A k, l \in 1 .. Len(temp[w]) : k < l => temp[w][k] < temp[w][l]
           /\ \A k \in 1 .. Len(temp[w]) : temp[w][k] \in Dealt(w) /\ temp[w][k] \in 1 .. Len(kind)
           /\ queue[w] = <<>> => \A i \in Dealt(w) : \E k \in 1 .. Len(temp[w]) : temp[w][k] = i
  <1> DEFINE t == temp[w]
             s == Lines(w)
  <1>1. FileTypeOK /\ InTurn(s, Dealt(w))
    BY DEF DealtInTurn, InTurn
  <1>2. /\ t \in Seq(Nat) /\ Len(t) \in Nat /\ t \in Seq(1 .. Len(kind))
        /\ queue[w] \in Seq(Nat) /\ Len(queue[w]) \in Nat
    BY <1>1, SeqsOf, LenProperties
  <1>3. Len(s) = Len(t) + Len(queue[w]) /\ \A k \in 1 .. Len(t) : s[k] = t[k] /\ k \in 1 .. Len(s)
    <2>1. /\ Len(s) = Len(t) + Len(queue[w])
          /\ \A k \in 1 .. Len(t) + Len(queue[w]) :
               s[k] = IF k <= Len(t) THEN t[k] ELSE queue[w][k - Len(t)]
      BY <1>2, ConcatProperties DEF Lines
    <2>2. \A a, b \in Nat : \A k \in 1 .. a : k <= a /\ k \in 1 .. a + b
      OBVIOUS
    <2> HIDE DEF s, t
    <2> QED
      BY <1>2, <2>1, <2>2
  <1>4. \A k \in 1 .. Len(t) : t[k] \in 1 .. Len(kind) /\ t[k] # Pill
    <2> TAKE k \in 1 .. Len(t)
    <2>1. t[k] \in 1 .. Len(kind)
      BY <1>2, ElementOfSeq
    <2> QED
      BY <2>1 DEF Pill
  <1>5. queue[w] = <<>> => s = t
    BY <1>2, ConcatEmptySeq DEF Lines
  <1> HIDE DEF t, s
  <1>6. \A k, l \in 1 .. Len(t) : k < l => t[k] < t[l]
    BY <1>1, <1>3, <1>4 DEF InTurn
  <1>7. \A k \in 1 .. Len(t) : t[k] \in Dealt(w)
    BY <1>1, <1>3, <1>4 DEF InTurn
  <1>8. queue[w] = <<>> => \A i \in Dealt(w) : \E k \in 1 .. Len(t) : t[k] = i
    BY <1>1, <1>5 DEF InTurn
  <1> QED
    BY <1>2, <1>4, <1>6, <1>7, <1>8 DEF t

\* Nothing is merged as long as a worker may write.
LEMMA NothingRead ==
    ASSUME DealtInTurn, MergedUpTo(0), NEW w \in Procs
    PROVE  pos[w] = 0
  <1>1. pos[w] \in Nat /\ pos[w] <= Len(temp[w])
    BY DEF DealtInTurn, FileTypeOK, MergedUpTo
  <1>2. CASE pos[w] >= 1
    <2>1. 1 \in 1 .. Len(temp[w])
      BY <1>1, <1>2, FileLines
    <2>2. temp[w][1] <= 0 /\ temp[w][1] \in 1 .. Len(kind)
      BY <1>1, <1>2, <2>1, FileLines DEF MergedUpTo
    <2> QED
      BY <2>2
  <1> QED
    BY <1>1, <1>2

LEMMA InitHolds == FileInit => Ind
  <1> SUFFICES ASSUME FileInit PROVE Ind
    OBVIOUS
  <1>0. 0 \in Procs /\ Len(<<>>) = 0
    BY FileAssumption DEF Procs
  <1>1. kind \in Seq(Kinds) /\ Len(kind) \in Nat
    <2>1. kind \in Seq(Kinds)
      BY SeqDef, FileAssumption DEF FileInit
    <2> QED
      BY <2>1, LenProperties
  <1>2. FileTypeOK
    BY <1>0, <1>1, FileAssumption, EmptySeq DEF FileInit, FileTypeOK
  <1>3. DealtInTurn
    <2>1. ASSUME NEW w \in Procs PROVE InTurn(Lines(w), Dealt(w))
      <3>1. Lines(w) = <<>>
        BY ConcatEmptySeq, EmptySeq DEF FileInit, Lines
      <3>2. Dealt(w) = {}
        BY DEF FileInit, Dealt
      <3> QED
        BY <1>0, <3>1, <3>2 DEF InTurn
    <2>2. \A w \in Procs \ alive : queue[w] = <<>> /\ read_lines = Len(kind)
      BY DEF FileInit
    <2> QED
      BY <1>2, <2>1, <2>2 DEF DealtInTurn, InTurn
  <1>4. PillsAreLast
    <2>1. \A w \in Procs : w >= 0 /\ ~(w < 0)
      BY FileAssumption DEF Procs
    <2> QED
      BY <1>0, <2>1 DEF FileInit, PillsAreLast
  <1>5. MergedInTurn
    <2>1. MergedUpTo(0)
      <3>1. {i \in Kept : i <= 0} = {}
        BY <1>1 DEF Kept
      <3>2. Written = {}
        BY <1>0 DEF FileInit, Written
      <3>3. 0 % NumProcesses = 0
        BY FileAssumption
      <3> QED
        BY <1>0, <3>1, <3>2, <3>3 DEF FileInit, MergedUpTo
    <2>2. 0 \in 0 .. Len(kind)
      BY <1>1
    <2> QED
      BY <2>1, <2>2 DEF FileInit, MergedInTurn
  <1>6. Ascending
    BY <1>0 DEF FileInit, Ascending
  <1> QED
    BY <1>3, <1>4, <1>5, <1>6 DEF Ind

-----------------------------------------------------------------------------
(***************************************************************************)
(* Every step preserves it.                                                *)
(***************************************************************************)
\* A step that touches no line.
LEMMA SameLines ==
    ASSUME Ind, FileTypeOK', UNCHANGED <<kind, read_lines, queue, temp, alive>>
    PROVE  DealtInTurn'
  BY DEF Ind, DealtInTurn, Lines, Dealt, InTurn

LEMMA DealStep == ASSUME Ind, Deal PROVE Ind'
  <1>1. FileTypeOK /\ DealtInTurn /\ PillsAreLast /\ MergedInTurn /\ Ascending
    BY DEF Ind, DealtInTurn
  <1>0. PICK v \in Procs : v = read_lines % NumProcesses
    <2>1. Len(kind) \in Nat
      BY <1>1, LenProperties DEF FileTypeOK
    <2>2. read_lines \in Nat
      BY <1>1, <2>1 DEF FileTypeOK
    <2> QED
      BY <2>2, Division
  <1> DEFINE x == read_lines + 1
  <1>2. /\ main = "read" /\ read_lines < Len(kind) /\ read_lines' = x
        /\ queue' = [queue EXCEPT ![v] = Append(@, x)]
        /\ UNCHANGED <<kind, main, poisoned, alive, temp, turn, pos, closed, output_file, reporter>>
    BY <1>0 DEF Deal, Put, merging
  <1>3. /\ Len(kind) \in Nat /\ read_lines \in Nat /\ v \in Procs
        /\ x \in 1 .. Len(kind) /\ x \in Nat \ {0} /\ x \in 0 .. Len(kind)
    <2>1. Len(kind) \in Nat
      BY <1>1, LenProperties DEF FileTypeOK
    <2>2. read_lines \in Nat /\ x \in 1 .. Len(kind) /\ x \in Nat \ {0} /\ x \in 0 .. Len(kind)
      BY <1>1, <1>2, <2>1 DEF FileTypeOK
    <2> QED
      BY <2>1, <2>2
  <1>4. poisoned = 0 /\ v \in alive /\ \A k \in 1 .. Len(queue[v]) : queue[v][k] # Pill
    <2>1. poisoned = 0 /\ v >= poisoned
      BY <1>1, <1>2, <1>3, FileAssumption DEF PillsAreLast, Procs
    <2> QED
      BY <1>1, <1>3, <2>1 DEF PillsAreLast
  <1> DEFINE q == queue[v]
  <1>5. /\ q \in Seq(0 .. Len(kind)) /\ Len(q) \in Nat /\ q \in Seq(Nat) /\ temp[v] \in Seq(Nat)
        /\ Append(q, x) \in Seq(0 .. Len(kind)) /\ Len(Append(q, x)) = Len(q) + 1
        /\ Append(q, x)[Len(q) + 1] = x /\ \A k \in 1 .. Len(q) : Append(q, x)[k] = q[k]
    BY <1>1, <1>3, SeqsOf, LenProperties, AppendProperties
  <1>6. queue'[v] = Append(q, x) /\ \A w \in Procs \ {v} : queue'[w] = queue[w]
    BY <1>1, <1>2, <1>3 DEF FileTypeOK
  <1>7. FileTypeOK'
    <2>1. queue' \in [Procs -> Seq(0 .. Len(kind))]
      BY <1>1, <1>2, <1>3, <1>5 DEF FileTypeOK
    <2> QED
      BY <1>1, <1>2, <1>3, <2>1 DEF FileTypeOK
  <1> HIDE DEF x, q
  <1>8. DealtInTurn'
    <2>1. InTurn(Lines(v), Dealt(v)) /\ Lines(v) \in Seq(Nat)
      BY <1>1, <1>3, SeqsOf DEF DealtInTurn, InTurn
    <2>2. \A k \in 1 .. Len(Lines(v)) : Lines(v)[k] # Pill
      <3>1. \A k \in 1 .. Len(temp[v]) : temp[v][k] # Pill
        BY <1>1, <1>3, FileLines DEF Pill
      <3>2. Lines(v) = temp[v] \o q /\ \A k \in 1 .. Len(q) : q[k] # Pill
        BY <1>4 DEF Lines, q
      <3>3. /\ Len(Lines(v)) = Len(temp[v]) + Len(q) /\ Len(temp[v]) \in Nat /\ Len(q) \in Nat
            /\ \A k \in 1 .. Len(temp[v]) + Len(q) :
                 Lines(v)[k] = IF k <= Len(temp[v]) THEN temp[v][k] ELSE q[k - Len(temp[v])]
        BY <1>5, <3>2, ConcatProperties, LenProperties
      <3> SUFFICES ASSUME NEW k \in 1 .. Len(temp[v]) + Len(q) PROVE Lines(v)[k] # Pill
        BY <3>3
      <3>4. CASE k <= Len(temp[v])
        BY <3>1, <3>3, <3>4
      <3>5. CASE ~(k <= Len(temp[v]))
        <4>1. k - Len(temp[v]) \in 1 .. Len(q)
          BY <3>3, <3>5
        <4> QED
          BY <3>2, <3>3, <3>5, <4>1
      <3> QED
        BY <3>4, <3>5
    <2>3. \A d \in Dealt(v) : d < x
      BY <1>3 DEF Dealt, x
    <2>4. InTurn(Append(Lines(v), x), Dealt(v) \cup {x})
      BY <1>3, <2>1, <2>2, <2>3, AppendLine
    <2>5. Lines(v)' = Append(Lines(v), x)
      <3>1. Lines(v)' = temp[v] \o Append(q, x)
        BY <1>2, <1>6 DEF Lines
      <3>2. temp[v] \o Append(q, x) = Append(temp[v] \o q, x)
        <4>1. temp[v] \in Seq(Nat) /\ q \in Seq(Nat) /\ x \in Nat
          BY <1>3, <1>5
        <4> QED
          BY <4>1, AppendBehind
      <3> QED
        BY <3>1, <3>2 DEF Lines, q
    <2>6. Dealt(v)' = Dealt(v) \cup {x} /\ \A w \in Procs \ {v} : Dealt(w)' = Dealt(w)
      <3>1. x - 1 = read_lines /\ (x - 1) % NumProcesses = v
        BY <1>0, <1>3 DEF x
      <3>2. 1 .. read_lines' = (1 .. read_lines) \cup {x}
        BY <1>2, <1>3 DEF x
      <3> QED
        BY <3>1, <3>2 DEF Dealt
    <2>7. ASSUME NEW w \in Procs PROVE InTurn(Lines(w)', Dealt(w)')
      <3>1. CASE w = v
        BY <2>4, <2>5, <2>6, <3>1
      <3>2. CASE w # v
        <4>1. Lines(w)' = Lines(w) /\ Dealt(w)' = Dealt(w)
          BY <1>2, <1>6, <2>6, <3>2 DEF Lines
        <4> QED
          BY <1>1, <4>1 DEF DealtInTurn, InTurn
      <3> QED
        BY <3>1, <3>2
    <2>8. alive = Procs
      <3>1. \A w \in Procs : w >= poisoned
        BY <1>4 DEF Procs
      <3>2. \A w \in Procs : w \in alive
        BY <1>1, <3>1 DEF PillsAreLast
      <3>3. alive \in SUBSET Procs
        BY <1>1 DEF FileTypeOK
      <3> QED
        BY <3>2, <3>3
    <2> QED
      BY <1>2, <1>7, <2>7, <2>8 DEF DealtInTurn, InTurn
  <1>9. PillsAreLast'
    <2>1. \A w \in Procs : w >= 0 /\ w \in alive /\ \A k \in 1 .. Len(queue[w]) : queue[w][k] # Pill
      BY <1>1, <1>4, FileAssumption DEF PillsAreLast, Procs
    <2>2. \A k \in 1 .. Len(queue'[v]) : queue'[v][k] # Pill
      <3>1. /\ Len(queue'[v]) = Len(q) + 1 /\ queue'[v][Len(q) + 1] = x /\ x # Pill
            /\ \A k \in 1 .. Len(q) : queue'[v][k] = q[k] /\ q[k] # Pill
        BY <1>3, <1>4, <1>5, <1>6 DEF Pill, q
      <3> QED
        BY <1>5, <3>1
    <2>3. \A w \in Procs : \A k \in 1 .. Len(queue'[w]) : queue'[w][k] # Pill
      BY <1>6, <2>1, <2>2
    <2>4. \A w \in Procs : \A k, l \in 1 .. Len(queue'[w]) : k < l => queue'[w][k] # Pill
      BY <2>3
    <2>5. \A w \in Procs : ~(w < poisoned)
      BY <1>4, <2>1 DEF Procs
    <2> QED
      BY <1>2, <1>4, <2>1, <2>3, <2>4, <2>5 DEF PillsAreLast
  <1>10. MergedInTurn' /\ Ascending'
    BY <1>1, <1>2 DEF MergedInTurn, MergedUpTo, Written, Kept, Ascending
  <1> QED
    BY <1>8, <1>9, <1>10 DEF Ind

LEMMA AllReadStep == ASSUME Ind, AllRead PROVE Ind'
  <1>1. FileTypeOK /\ DealtInTurn /\ PillsAreLast /\ MergedInTurn /\ Ascending
    BY DEF Ind, DealtInTurn
  <1>2. /\ main = "read" /\ main' = "poison" /\ read_lines = Len(kind)
        /\ UNCHANGED <<kind, read_lines, poisoned, queue, alive, temp, turn, pos, closed,
                       output_file, reporter>>
    BY DEF AllRead, merging
  <1>3. DealtInTurn'
    BY <1>1, <1>2, SameLines DEF FileTypeOK
  <1>4. PillsAreLast'
    BY <1>1, <1>2 DEF PillsAreLast
  <1>5. MergedInTurn' /\ Ascending'
    BY <1>1, <1>2 DEF MergedInTurn, MergedUpTo, Written, Kept, Ascending
  <1> QED
    BY <1>3, <1>4, <1>5 DEF Ind

LEMMA PoisonStep == ASSUME Ind, Poison PROVE Ind'
  <1>1. FileTypeOK /\ DealtInTurn /\ PillsAreLast /\ MergedInTurn /\ Ascending
    BY DEF Ind, DealtInTurn
  <1>2. /\ main = "poison" /\ read_lines = Len(kind) /\ poisoned \in 0 .. NumProcesses
        /\ UNCHANGED <<kind, read_lines, alive, temp, turn, pos, closed, output_file, reporter>>
    BY <1>1 DEF Poison, merging, PillsAreLast, FileTypeOK
  <1>3. MergedInTurn' /\ Ascending'
    <2>1. main' \in {"poison", "join"}
      BY <1>2 DEF Poison
    <2> QED
      BY <1>1, <1>2, <2>1 DEF MergedInTurn, MergedUpTo, Written, Kept, Ascending
  <1>4. CASE poisoned = NumProcesses
    <2>1. main' = "join" /\ UNCHANGED <<queue, poisoned>>
      BY <1>4, FileAssumption DEF Poison
    <2>2. DealtInTurn'
      BY <1>1, <1>2, <2>1, SameLines DEF FileTypeOK
    <2>3. PillsAreLast'
      BY <1>1, <1>2, <1>4, <2>1 DEF PillsAreLast
    <2> QED
      BY <1>3, <2>2, <2>3 DEF Ind
  <1>5. CASE poisoned # NumProcesses
    <2>0. PICK v \in Procs : v = poisoned
      BY <1>2, <1>5, FileAssumption DEF Procs
    <2> DEFINE q == queue[v]
    <2>1. /\ queue' = [queue EXCEPT ![v] = Append(@, Pill)]
          /\ poisoned' = poisoned + 1 /\ main' = main
      BY <1>2, <1>5, <2>0, FileAssumption DEF Poison, Put
    <2>2. /\ q \in Seq(0 .. Len(kind)) /\ Len(q) \in Nat /\ q \in Seq(Nat) /\ temp[v] \in Seq(Nat)
          /\ Pill \in 0 .. Len(kind) /\ Pill \in Nat
      BY <1>1, SeqsOf, LenProperties DEF Pill
    <2>3. /\ Append(q, Pill) \in Seq(0 .. Len(kind)) /\ Len(Append(q, Pill)) = Len(q) + 1
          /\ Append(q, Pill)[Len(q) + 1] = Pill /\ \A k \in 1 .. Len(q) : Append(q, Pill)[k] = q[k]
      BY <2>2, AppendProperties
    <2>4. queue'[v] = Append(q, Pill) /\ \A w \in Procs \ {v} : queue'[w] = queue[w]
      BY <1>1, <2>1 DEF FileTypeOK
    <2>5. FileTypeOK'
      <3>1. queue' \in [Procs -> Seq(0 .. Len(kind))]
        BY <1>1, <2>1, <2>3 DEF FileTypeOK
      <3>2. poisoned' \in 0 .. NumProcesses
        BY <1>2, <1>5, <2>1, FileAssumption
      <3> QED
        BY <1>1, <1>2, <2>1, <3>1, <3>2 DEF FileTypeOK
    <2> HIDE DEF q
    <2>6. DealtInTurn'
      <3>1. InTurn(Lines(v), Dealt(v)) /\ Lines(v) \in Seq(Nat)
        BY <1>1, SeqsOf DEF DealtInTurn, InTurn
      <3>2. Lines(v)' = Append(Lines(v), Pill)
        <4>1. Lines(v)' = temp[v] \o Append(q, Pill)
          BY <1>2, <2>4 DEF Lines
        <4>2. temp[v] \o Append(q, Pill) = Append(temp[v] \o q, Pill)
          BY <2>2, AppendBehind
        <4> QED
          BY <4>1, <4>2 DEF Lines, q
      <3>3. InTurn(Lines(v)', Dealt(v))
        BY <3>1, <3>2, AppendPill
      <3>4. ASSUME NEW w \in Procs PROVE InTurn(Lines(w)', Dealt(w)')
        <4>1. Dealt(w)' = Dealt(w)
          BY <1>2 DEF Dealt
        <4>2. CASE w = v
          BY <3>3, <4>1, <4>2
        <4>3. CASE w # v
          <5>1. Lines(w)' = Lines(w)
            BY <1>2, <2>4, <4>3 DEF Lines
          <5> QED
            BY <1>1, <4>1, <5>1 DEF DealtInTurn, InTurn
        <4> QED
          BY <4>2, <4>3
      <3>5. v \in alive
        <4>1. v >= poisoned
          BY <2>0 DEF Procs
        <4> QED
          BY <1>1, <4>1 DEF PillsAreLast
      <3>6. \A w \in Procs \ alive : queue'[w] = <<>> /\ read_lines = Len(kind)
        BY <1>1, <2>4, <3>5 DEF DealtInTurn
      <3> QED
        BY <1>2, <2>5, <3>4, <3>6 DEF DealtInTurn, InTurn
    <2>7. PillsAreLast'
      <3>1. v \in alive /\ \A k \in 1 .. Len(q) : q[k] # Pill
        <4>1. v >= poisoned
          BY <2>0 DEF Procs
        <4> QED
          BY <1>1, <4>1 DEF PillsAreLast, q
      <3>2. \A k, l \in 1 .. Len(queue'[v]) : k < l => queue'[v][k] # Pill
        <4> SUFFICES ASSUME NEW k \in 1 .. Len(q) + 1, NEW l \in 1 .. Len(q) + 1, k < l
                     PROVE  Append(q, Pill)[k] # Pill
          BY <2>3, <2>4
        <4>1. k \in 1 .. Len(q)
          BY <2>2
        <4> QED
          BY <2>3, <3>1, <4>1
      <3>3. queue'[v] # <<>> /\ queue'[v][Len(queue'[v])] = Pill
        <4>1. queue'[v] \in Seq(0 .. Len(kind)) /\ Len(queue'[v]) = Len(q) + 1
          BY <2>3, <2>4
        <4>2. queue'[v] # <<>>
          BY <2>2, <4>1, EmptySeq
        <4> QED
          BY <2>3, <2>4, <4>1, <4>2
      <3>4. \A w \in Procs : \A k, l \in 1 .. Len(queue'[w]) : k < l => queue'[w][k] # Pill
        BY <1>1, <2>4, <3>2 DEF PillsAreLast
      <3>5. ASSUME NEW w \in Procs, w >= poisoned + 1
            PROVE  w \in alive /\ \A k \in 1 .. Len(queue'[w]) : queue'[w][k] # Pill
        <4>1. w >= poisoned /\ w # v
          BY <1>2, <2>0, <3>5 DEF Procs
        <4> QED
          BY <1>1, <2>4, <4>1 DEF PillsAreLast
      <3>6. ASSUME NEW w \in Procs, w < poisoned + 1, w \in alive
            PROVE  queue'[w] # <<>> /\ queue'[w][Len(queue'[w])] = Pill
        <4>1. CASE w = v
          BY <3>3, <4>1
        <4>2. CASE w # v
          <5>1. w < poisoned
            BY <1>2, <2>0, <3>6, <4>2 DEF Procs
          <5> QED
            BY <1>1, <2>4, <3>6, <4>2, <5>1 DEF PillsAreLast
        <4> QED
          BY <4>1, <4>2
      <3> QED
        BY <1>2, <2>1, <3>4, <3>5, <3>6 DEF PillsAreLast
    <2> QED
      BY <1>3, <2>6, <2>7 DEF Ind
  <1> QED
    BY <1>4, <1>5

LEMMA JoinStep == ASSUME Ind, Join PROVE Ind'
  <1>1. FileTypeOK /\ DealtInTurn /\ PillsAreLast /\ MergedInTurn /\ Ascending
    BY DEF Ind, DealtInTurn
  <1>2. /\ main = "join" /\ main' = "merge" /\ alive = {}
        /\ UNCHANGED <<kind, read_lines, poisoned, queue, alive, temp, turn, pos, closed,
                       output_file, reporter>>
    BY DEF Join, merging
  <1>3. DealtInTurn'
    BY <1>1, <1>2, SameLines DEF FileTypeOK
  <1>4. PillsAreLast'
    BY <1>1, <1>2 DEF PillsAreLast
  <1>5. MergedInTurn' /\ Ascending'
    BY <1>1, <1>2 DEF MergedInTurn, MergedUpTo, Written, Kept, Ascending
  <1> QED
    BY <1>3, <1>4, <1>5 DEF Ind

\* The head of a queue that is not empty, and what is behind it.
LEMMA QueueOf ==
    ASSUME FileTypeOK, NEW w \in Procs, queue[w] # <<>>
    PROVE  /\ Len(queue[w]) \in Nat \ {0} /\ queue[w][1] = Head(queue[w])
           /\ Head(queue[w]) \in 0 .. Len(kind) /\ Head(queue[w]) \in Nat
           /\ Tail(queue[w]) \in Seq(0 .. Len(kind)) /\ Tail(queue[w]) \in Seq(Nat)
           /\ Len(Tail(queue[w])) = Len(queue[w]) - 1
           /\ \A k \in 1 .. Len(queue[w]) - 1 : Tail(queue[w])[k] = queue[w][k + 1]
           /\ Append(temp[w], Head(queue[w])) \o Tail(queue[w]) = Lines(w)
  <1> DEFINE q == queue[w]
  <1>1. q \in Seq(0 .. Len(kind)) /\ q \in Seq(Nat) /\ temp[w] \in Seq(Nat) /\ q # <<>>
    BY SeqsOf
  <1>2. /\ Head(q) \in 0 .. Len(kind) /\ Tail(q) \in Seq(0 .. Len(kind))
        /\ Len(Tail(q)) = Len(q) - 1
        /\ \A i \in 1 .. Len(Tail(q)) : Tail(q)[i] = q[i + 1]
    BY <1>1, HeadTailProperties
  <1>3. Head(q) \in Nat /\ Tail(q) \in Seq(Nat)
    BY <1>1, HeadTailProperties
  <1>4. Len(q) \in Nat \ {0} /\ q[1] = Head(q)
    BY <1>1, EmptySeq
  <1>5. Append(temp[w], Head(q)) \o Tail(q) = temp[w] \o q
    BY <1>1, HeadMoves
  <1> QED
    BY <1>2, <1>3, <1>4, <1>5 DEF Lines

LEMMA ProcessStep == ASSUME PlainKinds, Ind, NEW v \in Procs, Process(v) PROVE Ind'
  <1> DEFINE q == queue[v]
             x == Head(q)
  <1>1. FileTypeOK /\ DealtInTurn /\ PillsAreLast /\ MergedInTurn /\ Ascending
    BY DEF Ind, DealtInTurn
  <1>2. /\ v \in alive /\ q # <<>> /\ ~IsPill(x)
        /\ temp' = [temp EXCEPT ![v] = Append(@, x)]
        /\ queue' = [queue EXCEPT ![v] = Tail(@)]
        /\ UNCHANGED <<kind, main, read_lines, poisoned, alive, turn, pos, closed, output_file, reporter>>
    BY DEF Process, merging
  <1>3. x # Pill /\ x \in 1 .. Len(kind) /\ Len(kind) \in Nat
    <2>1. Len(kind) \in Nat /\ x \in 0 .. Len(kind)
      BY <1>1, <1>2, SeqsOf, QueueOf
    <2>2. x # Pill
      BY <1>2 DEF IsPill
    <2> QED
      BY <2>1, <2>2 DEF Pill
  <1>4. /\ Len(q) \in Nat \ {0} /\ q[1] = x /\ Tail(q) \in Seq(0 .. Len(kind))
        /\ Len(Tail(q)) = Len(q) - 1 /\ \A k \in 1 .. Len(q) - 1 : Tail(q)[k] = q[k + 1]
        /\ Append(temp[v], x) \o Tail(q) = Lines(v)
    BY <1>1, <1>2, QueueOf
  <1>5. /\ temp[v] \in Seq(1 .. Len(kind)) /\ Append(temp[v], x) \in Seq(1 .. Len(kind))
        /\ Len(temp[v]) \in Nat /\ Len(Append(temp[v], x)) = Len(temp[v]) + 1
    BY <1>1, <1>3, SeqsOf, AppendProperties, LenProperties
  <1>6. /\ queue'[v] = Tail(q) /\ \A w \in Procs \ {v} : queue'[w] = queue[w]
        /\ temp'[v] = Append(temp[v], x) /\ \A w \in Procs \ {v} : temp'[w] = temp[w]
    BY <1>1, <1>2 DEF FileTypeOK
  <1>7. FileTypeOK'
    <2>1. queue' \in [Procs -> Seq(0 .. Len(kind))]
      BY <1>1, <1>2, <1>4 DEF FileTypeOK
    <2>2. temp' \in [Procs -> Seq(1 .. Len(kind))]
      BY <1>1, <1>2, <1>5 DEF FileTypeOK
    <2> QED
      BY <1>1, <1>2, <2>1, <2>2 DEF FileTypeOK
  <1> HIDE DEF q, x
  <1>8. DealtInTurn'
    <2>1. \A w \in Procs : Dealt(w)' = Dealt(w)
      BY <1>2 DEF Dealt
    <2>2. \A w \in Procs : Lines(w)' = Lines(w)
      BY <1>4, <1>6 DEF Lines
    <2>3. \A w \in Procs : InTurn(Lines(w)', Dealt(w)')
      BY <1>1, <2>1, <2>2 DEF DealtInTurn, InTurn
    <2>4. \A w \in Procs \ alive : queue'[w] = <<>> /\ read_lines = Len(kind)
      BY <1>1, <1>2, <1>6 DEF DealtInTurn
    <2> QED
      BY <1>2, <1>7, <2>3, <2>4 DEF DealtInTurn, InTurn
  <1>9. PillsAreLast'
    <2>1. \A k, l \in 1 .. Len(q) : k < l => q[k] # Pill
      BY <1>1 DEF PillsAreLast, q
    <2>2. \A k, l \in 1 .. Len(queue'[v]) : k < l => queue'[v][k] # Pill
      <3> SUFFICES ASSUME NEW k \in 1 .. Len(q) - 1, NEW l \in 1 .. Len(q) - 1, k < l
                   PROVE  Tail(q)[k] # Pill
        BY <1>4, <1>6
      <3>1. k + 1 \in 1 .. Len(q) /\ l + 1 \in 1 .. Len(q) /\ k + 1 < l + 1
        BY <1>4
      <3> QED
        BY <1>4, <2>1, <3>1
    <2>3. ASSUME v >= poisoned PROVE \A k \in 1 .. Len(queue'[v]) : queue'[v][k] # Pill
      <3>1. \A k \in 1 .. Len(q) : q[k] # Pill
        BY <1>1, <2>3 DEF PillsAreLast, q
      <3>2. \A k \in 1 .. Len(q) - 1 : k + 1 \in 1 .. Len(q)
        BY <1>4
      <3> QED
        BY <1>4, <1>6, <3>1, <3>2
    <2>4. ASSUME v < poisoned PROVE queue'[v] # <<>> /\ queue'[v][Len(queue'[v])] = Pill
      <3>1. q[Len(q)] = Pill
        BY <1>1, <1>2, <2>4 DEF PillsAreLast, q
      <3>2. Len(q) # 1
        BY <1>3, <1>4, <3>1
      <3>3. Len(q) - 1 \in 1 .. Len(q) - 1 /\ (Len(q) - 1) + 1 = Len(q)
        BY <1>4, <3>2
      <3>4. queue'[v][Len(queue'[v])] = Pill
        BY <1>4, <1>6, <3>1, <3>3
      <3>5. queue'[v] # <<>>
        <4>1. Len(queue'[v]) \in Nat \ {0}
          BY <1>4, <1>6, <3>2
        <4>2. Len(<<>>) = 0
          BY EmptySeq
        <4> QED
          BY <4>1, <4>2
      <3> QED
        BY <3>4, <3>5
    <2> QED
      BY <1>1, <1>2, <1>6, <2>2, <2>3, <2>4 DEF PillsAreLast
  <1>10. MergedInTurn'
    <2>1. main \notin {"merge", "stop", "end"} /\ MergedUpTo(0)
      BY <1>1, <1>2 DEF PillsAreLast, MergedInTurn
    <2>2. \A w \in Procs : pos[w] = 0
      BY <1>1, <2>1, NothingRead
    <2>3. ASSUME NEW w \in Procs
          PROVE  /\ pos'[w] <= Len(temp'[w])
                 /\ \A k \in 1 .. Len(temp'[w]) : k <= pos'[w] <=> temp'[w][k] <= 0
      <3>1. temp'[w] \in Seq(1 .. Len(kind)) /\ Len(temp'[w]) \in Nat /\ pos'[w] = 0
        BY <1>2, <1>7, <2>2, LenProperties DEF FileTypeOK
      <3>2. \A k \in 1 .. Len(temp'[w]) : temp'[w][k] \in 1 .. Len(kind)
        BY <3>1, ElementOfSeq
      <3> QED
        BY <1>3, <3>1, <3>2
    <2>4. MergedUpTo(0)'
      BY <1>2, <2>1, <2>3 DEF MergedUpTo, Written, Kept
    <2>5. 0 \in 0 .. Len(kind)
      BY <1>3
    <2> QED
      BY <1>2, <2>1, <2>4, <2>5 DEF MergedInTurn
  <1>11. Ascending'
    BY <1>1, <1>2 DEF Ascending
  <1> QED
    BY <1>8, <1>9, <1>10, <1>11 DEF Ind

LEMMA WorkerEndsStep == ASSUME PlainKinds, Ind, NEW v \in Procs, WorkerEnds(v) PROVE Ind'
  <1> DEFINE q == queue[v]
             x == Head(q)
  <1>1. FileTypeOK /\ DealtInTurn /\ PillsAreLast /\ MergedInTurn /\ Ascending
    BY DEF Ind, DealtInTurn
  <1>2. /\ v \in alive /\ q # <<>> /\ IsPill(x)
        /\ alive' = alive \ {v}
        /\ queue' = [queue EXCEPT ![v] = Tail(@)]
        /\ UNCHANGED <<kind, main, read_lines, poisoned, temp, turn, pos, closed, output_file, reporter>>
    BY DEF WorkerEnds, merging
  <1>3. x = Pill
    <2>1. Len(kind) \in Nat /\ x \in 0 .. Len(kind)
      BY <1>1, <1>2, SeqsOf, QueueOf
    <2>2. x \notin 1 .. Len(kind)
      BY <1>1, <1>2, OnlyThePill
    <2> QED
      BY <2>1, <2>2 DEF Pill
  <1>4. /\ Len(q) \in Nat \ {0} /\ q[1] = Pill /\ Tail(q) \in Seq(0 .. Len(kind))
        /\ Len(Tail(q)) = Len(q) - 1
        /\ Append(temp[v], Pill) \o Tail(q) = Lines(v)
    BY <1>1, <1>2, <1>3, QueueOf
  <1>5. v < poisoned /\ read_lines = Len(kind) /\ main \notin {"merge", "stop", "end"}
    <2>1. 1 \in 1 .. Len(q)
      BY <1>4
    <2>2. ~(v >= poisoned)
      BY <1>1, <1>4, <2>1 DEF PillsAreLast
    <2>3. v \in Nat /\ poisoned \in Nat /\ v < poisoned
      BY <1>1, <2>2, FileAssumption DEF FileTypeOK, Procs
    <2>4. main # "read"
      BY <1>1, <2>3 DEF PillsAreLast
    <2> QED
      BY <1>1, <1>2, <2>3, <2>4 DEF PillsAreLast
  <1>6. Tail(q) = <<>>
    <2>0. \A k, l \in 1 .. Len(q) : k < l => q[k] # Pill
      BY <1>1 DEF PillsAreLast
    <2> HIDE DEF q
    <2>1. Len(q) = 1
      <3>1. 1 \in 1 .. Len(q) /\ Len(q) \in 1 .. Len(q)
        BY <1>4
      <3>2. ~(1 < Len(q))
        BY <1>4, <2>0, <3>1
      <3> QED
        BY <1>4, <3>2
    <2>2. Len(Tail(q)) = 0
      BY <1>4, <2>1
    <2> QED
      BY <1>4, <2>2, EmptySeq
  <1>7. queue'[v] = <<>> /\ \A w \in Procs \ {v} : queue'[w] = queue[w]
    BY <1>1, <1>2, <1>6 DEF FileTypeOK
  <1>8. FileTypeOK'
    <2>1. queue' \in [Procs -> Seq(0 .. Len(kind))]
      BY <1>1, <1>2, <1>4 DEF FileTypeOK
    <2> QED
      BY <1>1, <1>2, <2>1 DEF FileTypeOK
  <1> HIDE DEF q, x
  <1>9. DealtInTurn'
    <2>0. temp[v] \in Seq(Nat) /\ Append(temp[v], Pill) \in Seq(Nat)
      <3>1. temp[v] \in Seq(Nat) /\ Pill \in Nat
        BY <1>1, SeqsOf DEF Pill
      <3> QED
        BY <3>1, AppendProperties
    <2>1. \A w \in Procs : Dealt(w)' = Dealt(w)
      BY <1>2 DEF Dealt
    <2>2. Lines(v) = Append(temp[v], Pill) /\ Lines(v)' = temp[v]
      BY <1>2, <1>4, <1>6, <1>7, <2>0, ConcatEmptySeq DEF Lines
    <2>3. InTurn(Lines(v)', Dealt(v))
      <3>1. InTurn(Append(temp[v], Pill), Dealt(v))
        BY <1>1, <2>2 DEF DealtInTurn, InTurn
      <3> QED
        BY <2>0, <2>2, <3>1, AppendPill
    <2>4. ASSUME NEW w \in Procs PROVE InTurn(Lines(w)', Dealt(w)')
      <3>1. CASE w = v
        BY <2>1, <2>3, <3>1
      <3>2. CASE w # v
        <4>1. Lines(w)' = Lines(w)
          BY <1>2, <1>7, <3>2 DEF Lines
        <4> QED
          BY <1>1, <2>1, <4>1 DEF DealtInTurn, InTurn
      <3> QED
        BY <3>1, <3>2
    <2>5. \A w \in Procs \ alive' : queue'[w] = <<>> /\ read_lines = Len(kind)
      BY <1>1, <1>2, <1>5, <1>7 DEF DealtInTurn
    <2> QED
      BY <1>2, <1>8, <2>4, <2>5 DEF DealtInTurn, InTurn
  <1>10. PillsAreLast'
    <2>1. Len(queue'[v]) = 0
      BY <1>7, EmptySeq
    <2>2. v \notin alive' /\ ~(v >= poisoned)
      BY <1>1, <1>2, <1>5, FileAssumption DEF FileTypeOK, Procs
    <2> QED
      BY <1>1, <1>2, <1>5, <1>7, <2>1, <2>2 DEF PillsAreLast
  <1>11. MergedInTurn' /\ Ascending'
    BY <1>1, <1>2 DEF MergedInTurn, MergedUpTo, Written, Kept, Ascending
  <1> QED
    BY <1>9, <1>10, <1>11 DEF Ind

-----------------------------------------------------------------------------
(***************************************************************************)
(* The merge.                                                              *)
(***************************************************************************)
LEMMA FileEnd ==
    ASSUME PlainKinds, DealtInTurn, NEW w \in Procs
    PROVE  AtEnd(w) <=> ~(pos[w] < Len(temp[w]))
  <1>1. FileTypeOK /\ pos[w] \in Nat /\ Len(temp[w]) \in Nat
    BY FileLines DEF DealtInTurn, FileTypeOK
  <1>2. ASSUME pos[w] < Len(temp[w]) PROVE ~AtEnd(w)
    <2>1. pos[w] + 1 \in 1 .. Len(temp[w])
      BY <1>1, <1>2
    <2>2. temp[w][pos[w] + 1] \in 1 .. Len(kind)
      BY <2>1, FileLines
    <2>3. kind[temp[w][pos[w] + 1]] # "space"
      BY <1>1, <2>2, OnlyThePill
    <2> QED
      BY <1>2, <2>3 DEF AtEnd
  <1> QED
    BY <1>2 DEF AtEnd

\* The next line is in the file whose turn it is, behind those that were read.
LEMMA NextLine ==
    ASSUME Ind, main = "merge", NEW m \in 0 .. Len(kind), MergedUpTo(m), m < Len(kind)
    PROVE  /\ pos[turn] + 1 \in 1 .. Len(temp[turn]) /\ pos[turn] < Len(temp[turn])
           /\ temp[turn][pos[turn] + 1] = m + 1
           /\ \A w \in Procs \ {turn} : \A k \in 1 .. Len(temp[w]) : temp[w][k] # m + 1
  <1>1. FileTypeOK /\ DealtInTurn /\ PillsAreLast /\ turn \in Procs /\ pos[turn] \in Nat
    BY DEF Ind, DealtInTurn, FileTypeOK
  <1>2. queue[turn] = <<>> /\ read_lines = Len(kind) /\ Len(kind) \in Nat
    <2>1. alive = {} /\ read_lines = Len(kind)
      BY <1>1 DEF PillsAreLast
    <2> QED
      BY <1>1, <2>1, LenProperties DEF DealtInTurn, FileTypeOK
  <1>3. m + 1 \in Dealt(turn) /\ \A w \in Procs \ {turn} : m + 1 \notin Dealt(w)
    <2>1. turn = m % NumProcesses
      BY DEF MergedUpTo
    <2>2. m + 1 \in 1 .. read_lines /\ (m + 1) - 1 = m
      BY <1>2
    <2> QED
      BY <1>1, <2>1, <2>2 DEF Dealt
  <1> DEFINE t == temp[turn]
             p == pos[turn]
  <1>4. /\ Len(t) \in Nat /\ p \in Nat
        /\ \A k, l \in 1 .. Len(t) : k < l => t[k] < t[l]
        /\ \A k \in 1 .. Len(t) : t[k] \in 1 .. Len(kind)
        /\ \A i \in Dealt(turn) : \E k \in 1 .. Len(t) : t[k] = i
    BY <1>1, <1>2, FileLines
  <1>5. \A k \in 1 .. Len(t) : k <= p <=> t[k] <= m
    BY <1>1 DEF MergedUpTo
  <1>6. \A w \in Procs \ {turn} : \A k \in 1 .. Len(temp[w]) : temp[w][k] # m + 1
    BY <1>1, <1>3, FileLines
  <1> HIDE DEF t, p
  <1>7. PICK k \in 1 .. Len(t) : t[k] = m + 1
    BY <1>3, <1>4
  <1>8. p < k /\ p + 1 \in 1 .. Len(t)
    <2>1. ~(t[k] <= m) /\ ~(k <= p)
      BY <1>2, <1>5, <1>7
    <2> QED
      BY <1>4, <2>1
  <1>9. t[p + 1] = m + 1
    <2>1. ~(p + 1 <= p) /\ t[p + 1] \in 1 .. Len(kind)
      BY <1>4, <1>8
    <2>2. ~(t[p + 1] <= m)
      BY <1>5, <1>8, <2>1
    <2>3. p + 1 = k \/ p + 1 < k
      BY <1>4, <1>8
    <2>4. p + 1 < k => t[p + 1] < m + 1
      BY <1>4, <1>7, <1>8
    <2> QED
      BY <1>2, <1>7, <2>1, <2>2, <2>3, <2>4
  <1> QED
    BY <1>4, <1>6, <1>8, <1>9 DEF t, p

\* A file has lines left only while some line is to be merged.
LEMMA LinesLeft ==
    ASSUME DealtInTurn, NEW m \in 0 .. Len(kind), MergedUpTo(m), NEW w \in Procs,
           pos[w] < Len(temp[w])
    PROVE  m < Len(kind)
  <1>1. pos[w] \in Nat /\ Len(temp[w]) \in Nat /\ Len(kind) \in Nat
    BY FileLines, LenProperties DEF DealtInTurn, FileTypeOK
  <1>2. pos[w] + 1 \in 1 .. Len(temp[w]) /\ ~(pos[w] + 1 <= pos[w])
    BY <1>1
  <1>3. ~(temp[w][pos[w] + 1] <= m) /\ temp[w][pos[w] + 1] \in 1 .. Len(kind)
    BY <1>2, FileLines DEF MergedUpTo
  <1> QED
    BY <1>1, <1>3

LEMMA MergeLineStep ==
    ASSUME PlainKinds, Ind, NEW v \in Procs, Merge, MergeLine(v) PROVE Ind'
  <1>1. FileTypeOK /\ DealtInTurn /\ PillsAreLast /\ MergedInTurn /\ Ascending
    BY DEF Ind, DealtInTurn
  <1> DEFINE x == temp[v][pos[v] + 1]
  <1>2. /\ main = "merge" /\ turn = v /\ v \notin closed /\ ~AtEnd(v)
        /\ output_file' = IF kind[x] = "kept" THEN Append(output_file, x) ELSE output_file
        /\ turn' = (turn + 1) % NumProcesses
        /\ pos' = [pos EXCEPT ![v] = @ + 1]
        /\ UNCHANGED <<kind, main, read_lines, poisoned, queue, alive, temp, closed, reporter>>
    BY DEF Merge, MergeLine
  <1>3. PICK m \in 0 .. Len(kind) : MergedUpTo(m)
    BY <1>1 DEF MergedInTurn
  <1>4. Len(kind) \in Nat /\ output_file \in Seq(1 .. Len(kind)) /\ Len(output_file) \in Nat
    BY <1>1, LenProperties DEF FileTypeOK
  <1>5. m < Len(kind) /\ m \in Nat
    BY <1>1, <1>2, <1>3, <1>4, FileEnd, LinesLeft
  <1>6. /\ pos[v] + 1 \in 1 .. Len(temp[v]) /\ x = m + 1 /\ x \in 1 .. Len(kind)
        /\ \A w \in Procs \ {v} : \A k \in 1 .. Len(temp[w]) : temp[w][k] # m + 1
    BY <1>2, <1>3, <1>4, <1>5, NextLine
  <1> HIDE DEF x
  <1>7. pos'[v] = pos[v] + 1 /\ \A w \in Procs \ {v} : pos'[w] = pos[w]
    BY <1>1, <1>2 DEF FileTypeOK
  <1>8. /\ Append(output_file, x) \in Seq(1 .. Len(kind))
        /\ Len(Append(output_file, x)) = Len(output_file) + 1
        /\ Append(output_file, x)[Len(output_file) + 1] = x
        /\ \A k \in 1 .. Len(output_file) : Append(output_file, x)[k] = output_file[k]
    BY <1>4, <1>6, AppendProperties
  <1>9. turn' = (m + 1) % NumProcesses /\ turn' \in Procs
    <2>1. turn = m % NumProcesses
      BY <1>3, <1>5 DEF MergedUpTo
    <2>2. m + 1 \in Nat
      BY <1>5
    <2> QED
      BY <1>2, <1>5, <2>1, <2>2, NextTurn, Division
  <1>10. FileTypeOK'
    <2>1. output_file' \in Seq(1 .. Len(kind))
      BY <1>2, <1>4, <1>8
    <2>2. pos' \in [Procs -> Nat]
      BY <1>1, <1>2 DEF FileTypeOK
    <2> QED
      BY <1>1, <1>2, <1>9, <2>1, <2>2 DEF FileTypeOK
  <1>11. DealtInTurn'
    BY <1>2, <1>10, SameLines
  <1>12. PillsAreLast'
    BY <1>1, <1>2 DEF PillsAreLast
  <1>13. MergedUpTo(m + 1)'
    <2>1. ASSUME NEW w \in Procs
          PROVE  /\ pos'[w] <= Len(temp[w])
                 /\ \A k \in 1 .. Len(temp[w]) : k <= pos'[w] <=> temp[w][k] <= m + 1
      <3>1. /\ Len(temp[w]) \in Nat /\ pos[w] \in Nat
            /\ \A k, l \in 1 .. Len(temp[w]) : k < l => temp[w][k] < temp[w][l]
            /\ \A k \in 1 .. Len(temp[w]) : temp[w][k] \in 1 .. Len(kind)
        BY <1>1, FileLines DEF FileTypeOK
      <3>2. /\ pos[w] <= Len(temp[w])
            /\ \A k \in 1 .. Len(temp[w]) : k <= pos[w] <=> temp[w][k] <= m
        BY <1>3 DEF MergedUpTo
      <3>3. CASE w = v
        <4>1. pos'[v] = pos[v] + 1 /\ temp[v][pos[v] + 1] = m + 1
          BY <1>6, <1>7 DEF x
        <4>2. ASSUME NEW k \in 1 .. Len(temp[v]) PROVE k <= pos[v] + 1 <=> temp[v][k] <= m + 1
          <5>1. CASE k <= pos[v]
            BY <1>5, <3>1, <3>2, <3>3, <5>1
          <5>2. CASE k = pos[v] + 1
            BY <1>5, <3>1, <3>3, <4>1, <5>2
          <5>3. CASE k > pos[v] + 1
            <6>1. m + 1 < temp[v][k] /\ temp[v][k] \in 1 .. Len(kind)
              BY <1>6, <3>1, <3>3, <4>1, <5>3
            <6> QED
              BY <1>4, <1>5, <3>1, <3>3, <5>3, <6>1
          <5>4. k \in Nat /\ pos[v] \in Nat
            BY <3>1, <3>3
          <5> QED
            BY <5>1, <5>2, <5>3, <5>4
        <4>3. pos[v] + 1 <= Len(temp[v])
          BY <1>6, <3>1, <3>3
        <4> QED
          BY <3>3, <4>1, <4>2, <4>3
      <3>4. CASE w # v
        <4>1. \A k \in 1 .. Len(temp[w]) : temp[w][k] <= m <=> temp[w][k] <= m + 1
          BY <1>5, <1>6, <3>1, <3>4
        <4> QED
          BY <1>7, <3>2, <3>4, <4>1
      <3> QED
        BY <3>3, <3>4
    <2>2. Written' = {i \in Kept : i <= m + 1}
      <3>1. Written = {i \in Kept : i <= m}
        BY <1>3 DEF MergedUpTo
      <3>2. {i \in Kept : i <= m + 1} = {i \in Kept : i <= m} \cup {i \in {x} : kind[i] = "kept"}
        BY <1>4, <1>5, <1>6 DEF Kept
      <3>3. CASE kind[x] = "kept"
        <4>1. Written' = Written \cup {x}
          BY <1>2, <1>4, <1>8, <3>3 DEF Written
        <4> QED
          BY <3>1, <3>2, <3>3, <4>1
      <3>4. CASE kind[x] # "kept"
        <4>1. Written' = Written
          BY <1>2, <3>4 DEF Written
        <4> QED
          BY <3>1, <3>2, <3>4, <4>1
      <3> QED
        BY <3>3, <3>4
    <2>3. closed' = {} /\ turn' = (m + 1) % NumProcesses
      BY <1>2, <1>3, <1>5, <1>9 DEF MergedUpTo
    <2>4. Kept' = Kept
      BY <1>2 DEF Kept
    <2> QED
      BY <1>2, <2>1, <2>2, <2>3, <2>4 DEF MergedUpTo
  <1>14. MergedInTurn'
    <2>1. m + 1 \in 0 .. Len(kind)
      BY <1>4, <1>5
    <2> QED
      BY <1>2, <1>13, <2>1 DEF MergedInTurn
  <1>15. Ascending'
    <2>1. \A k \in 1 .. Len(output_file) : output_file[k] < x
      <3>1. \A k \in 1 .. Len(output_file) : output_file[k] \in Written
        BY DEF Written
      <3>2. \A o \in Written : o \in Nat /\ o <= m
        BY <1>3, <1>4 DEF MergedUpTo, Kept
      <3> QED
        BY <1>5, <1>6, <3>1, <3>2
    <2>2. CASE kind[x] = "kept"
      <3> SUFFICES ASSUME NEW k \in 1 .. Len(output_file) + 1, NEW l \in 1 .. Len(output_file) + 1, k < l
                   PROVE  Append(output_file, x)[k] < Append(output_file, x)[l]
        BY <1>2, <1>8, <2>2 DEF Ascending
      <3>1. k \in 1 .. Len(output_file) /\ (l \in 1 .. Len(output_file) \/ l = Len(output_file) + 1)
        BY <1>4
      <3> QED
        BY <1>1, <1>8, <2>1, <3>1 DEF Ascending
    <2>3. CASE kind[x] # "kept"
      BY <1>1, <1>2, <2>3 DEF Ascending
    <2> QED
      BY <2>2, <2>3
  <1> QED
    BY <1>11, <1>12, <1>14, <1>15 DEF Ind

\* A file is closed, or passed over, only when all lines are merged.
LEMMA MergeTurnStep ==
    ASSUME PlainKinds, Ind, NEW v \in Procs, Merge, MergeClose(v) \/ MergeSkip(v) PROVE Ind'
  <1>1. FileTypeOK /\ DealtInTurn /\ PillsAreLast /\ MergedInTurn /\ Ascending
    BY DEF Ind, DealtInTurn
  <1>2. /\ main = "merge" /\ turn = v /\ v \in closed'
        /\ turn' = (turn + 1) % NumProcesses /\ closed' = closed \cup {v}
        /\ UNCHANGED <<kind, main, read_lines, poisoned, queue, alive, temp, pos, output_file, reporter>>
    BY DEF Merge, MergeClose, MergeSkip
  <1>3. PICK m \in 0 .. Len(kind) : MergedUpTo(m)
    BY <1>1 DEF MergedInTurn
  <1>4. ~(m < Len(kind))
    <2> SUFFICES ASSUME m < Len(kind) PROVE FALSE
      OBVIOUS
    <2>1. closed = {} /\ pos[v] < Len(temp[v])
      BY <1>2, <1>3, NextLine DEF MergedUpTo
    <2>2. AtEnd(v)
      BY <2>1 DEF MergeClose, MergeSkip
    <2> QED
      BY <1>1, <2>1, <2>2, FileEnd
  <1>5. turn' \in Procs
    <2>1. turn + 1 \in Nat
      BY <1>1, FileAssumption DEF FileTypeOK, Procs
    <2> QED
      BY <1>2, <2>1, Division
  <1>6. FileTypeOK'
    BY <1>1, <1>2, <1>5 DEF FileTypeOK
  <1>7. DealtInTurn'
    BY <1>2, <1>6, SameLines
  <1>8. PillsAreLast'
    BY <1>1, <1>2 DEF PillsAreLast
  <1>9. MergedInTurn'
    <2>1. MergedUpTo(m)'
      BY <1>2, <1>3, <1>4 DEF MergedUpTo, Written, Kept
    <2> QED
      BY <1>2, <1>3, <2>1 DEF MergedInTurn
  <1>10. Ascending'
    BY <1>1, <1>2 DEF Ascending
  <1> QED
    BY <1>7, <1>8, <1>9, <1>10 DEF Ind

\* The steps after the merge, and those that change nothing.
LEMMA EndStep == ASSUME Ind, Merged \/ ReporterEnds \/ RunReturns \/ UNCHANGED fileVars PROVE Ind'
  <1>1. FileTypeOK /\ DealtInTurn /\ PillsAreLast /\ MergedInTurn /\ Ascending
    BY DEF Ind, DealtInTurn
  <1>2. /\ UNCHANGED <<kind, read_lines, poisoned, queue, alive, temp, turn, pos, closed, output_file>>
        /\ main' = main \/ (main \in {"merge", "stop"} /\ main' \in {"stop", "end"}
                            /\ (main = "merge" => closed = Procs))
        /\ main' \in {"read", "poison", "join", "merge", "stop", "end"} /\ reporter' \in BOOLEAN
    BY <1>1 DEF Merged, ReporterEnds, RunReturns, fileVars, merging, FileTypeOK
  <1>3. FileTypeOK'
    BY <1>1, <1>2 DEF FileTypeOK
  <1>4. DealtInTurn'
    BY <1>2, <1>3, SameLines
  <1>5. PillsAreLast'
    BY <1>1, <1>2 DEF PillsAreLast
  <1>6. MergedInTurn'
    BY <1>1, <1>2 DEF MergedInTurn, MergedUpTo, Written, Kept
  <1>7. Ascending'
    BY <1>1, <1>2 DEF Ascending
  <1> QED
    BY <1>4, <1>5, <1>6, <1>7 DEF Ind

\* The output is the first of the lines with a result, and at the end all of them.
LEMMA OutputFollows == Ind => FileInv
  <1> SUFFICES ASSUME Ind PROVE FileInv
    OBVIOUS
  <1>1. FileTypeOK /\ DealtInTurn /\ PillsAreLast /\ MergedInTurn /\ Ascending
    BY DEF Ind, DealtInTurn
  <1>2. PICK m \in 0 .. Len(kind) : MergedUpTo(m)
    BY <1>1 DEF MergedInTurn
  <1>3. Written = {i \in Kept : i <= m} /\ Len(kind) \in Nat /\ m \in Nat
    BY <1>1, <1>2, LenProperties DEF MergedUpTo, FileTypeOK
  <1>4. main \in {"stop", "end"} => ~(m < Len(kind))
    <2>1. 0 \in Procs
      BY FileAssumption DEF Procs
    <2> QED
      BY <1>1, <1>2, <2>1 DEF MergedInTurn, MergedUpTo
  <1>5. ASSUME NEW i \in Kept \ Written
        PROVE  main \notin {"stop", "end"} /\ \A o \in Written : o < i
    <2>1. i \in 1 .. Len(kind) /\ ~(i <= m)
      BY <1>3, <1>5 DEF Kept
    <2>2. \A o \in Written : o \in Nat /\ o <= m
      BY <1>3 DEF Kept
    <2> QED
      BY <1>3, <1>4, <2>1, <2>2
  <1>6. OutputInOrder
    BY <1>1, <1>3, <1>5 DEF OutputInOrder, Ascending
  <1> QED
    BY <1>1, <1>6 DEF FileInv, LinesInOrder

\* The lines of a worker stay in the order in which they were dealt, with the pill behind
\* them; the temporary files are merged in the turn in which their lines were dealt, so the
\* output is always the first of the lines with a result, in the order of the input.
THEOREM FileInvariant == ASSUME PlainKinds PROVE FileSpec => []FileInv
  <1>1. FileInit => Ind
    BY InitHolds
  <1>2. Ind /\ [FileNext]_fileVars => Ind'
    <2> SUFFICES ASSUME Ind, [FileNext]_fileVars PROVE Ind'
      OBVIOUS
    <2>1. CASE Deal
      BY <2>1, DealStep
    <2>2. CASE AllRead
      BY <2>2, AllReadStep
    <2>3. CASE Poison
      BY <2>3, PoisonStep
    <2>4. CASE Join
      BY <2>4, JoinStep
    <2>5. CASE Merge
      <3>1. PICK w \in Procs : MergeLine(w) \/ MergeClose(w) \/ MergeSkip(w)
        BY <2>5 DEF Merge
      <3> QED
        BY <2>5, <3>1, MergeLineStep, MergeTurnStep
    <2>6. CASE Merged \/ ReporterEnds \/ RunReturns \/ UNCHANGED fileVars
      BY <2>6, EndStep
    <2>7. CASE \E w \in Procs : Process(w) \/ WorkerEnds(w)
      BY <2>7, ProcessStep, WorkerEndsStep
    <2> QED
      BY <2>1, <2>2, <2>3, <2>4, <2>5, <2>6, <2>7 DEF FileNext, Main
  <1>3. Ind => FileInv
    BY OutputFollows
  <1> QED
    BY <1>1, <1>2, <1>3, PTL DEF FileSpec

\* "The output is written to the output file line-by-line in the same order as the input
\* file."  Nothing is lost, doubled or out of place on the way of a line from the main
\* process through its worker to the output.
THEOREM LinesStayInOrder == ASSUME PlainKinds PROVE FileSpec => []LinesInOrder
  <1>1. FileInv => LinesInOrder
    BY DEF FileInv
  <1>2. FileSpec => []FileInv
    BY FileInvariant
  <1> QED
    BY <1>1, <1>2, PTL
=============================================================================
