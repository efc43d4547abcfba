--------------------------- MODULE Threads_proofs ---------------------------
(***************************************************************************)
(* Proofs about the small threaded programs: the semaphores, the threads   *)
(* that take turns and the shared queue, each for every number of threads  *)
(* and of calls, and then the composition in MCThreads.                    *)
(***************************************************************************)
EXTENDS MCThreads, FiniteSetTheorems, SequenceTheorems, TLAPS

-----------------------------------------------------------------------------
(***************************************************************************)
(* Semaphores.                                                             *)
(***************************************************************************)
\* A thread that has still to leave the critical section has an entry left.
EntriesLeft == \A t \in Workers : semPc[t] \in {"acquire", "wait", "inside"} => left[t] > 0

SemInv ==
    /\ kind \in {"binary", "counting"}
    /\ SemTypeOK
    /\ PermitsKept
    /\ EntriesLeft

LEMMA WorkersAreFinite ==
    ASSUME NEW S \in SUBSET Workers
    PROVE  IsFiniteSet(S) /\ Cardinality(S) \in Nat
  <1>1. IsFiniteSet(S)
    BY SemaphoreAssumption, FS_Subset
  <1> QED
    BY <1>1, FS_CardinalityType

LEMMA MaxPermitsType == kind' = kind => MaxPermits \in Nat \ {0} /\ MaxPermits' = MaxPermits
  BY SemaphoreAssumption DEF MaxPermits

LEMMA SemInitHolds == SemInit => SemInv
  <1> SUFFICES ASSUME SemInit PROVE SemInv
    OBVIOUS
  <1>1. Inside = {} /\ MaxPermits \in Nat
    BY SemaphoreAssumption DEF SemInit, Inside, MaxPermits
  <1>2. PermitsKept
    BY <1>1, FS_EmptySet DEF PermitsKept, SemInit
  <1>3. SemTypeOK /\ EntriesLeft
    BY <1>1, SemaphoreAssumption DEF SemInit, SemTypeOK, EntriesLeft
  <1> QED
    BY <1>2, <1>3 DEF SemInv, SemInit

\* Both ways into the critical section: a permit is taken, and one thread is inside.
LEMMA TakesAPermit ==
    ASSUME SemInv, NEW t \in Workers, semPc[t] \in {"acquire", "wait"}, v_ > 0,
           Take, SemGoto(t, "inside"), UNCHANGED <<kind, semAsleep, left>>
    PROVE  SemInv'
  <1>1. v_ \in 0 .. MaxPermits /\ MaxPermits \in Nat \ {0} /\ MaxPermits' = MaxPermits
    BY MaxPermitsType DEF SemInv, SemTypeOK
  <1>2. v_' = v_ - 1
    BY <1>1 DEF Take, MaxPermits, SemInv
  <1>3. /\ semPc' = [semPc EXCEPT ![t] = "inside"]
        /\ semPc \in [Workers -> {"acquire", "wait", "inside", "notify", "done"}]
    BY DEF SemGoto, SemInv, SemTypeOK
  <1>4. t \notin Inside /\ Inside' = Inside \cup {t}
    BY <1>3 DEF Inside
  <1>5. Cardinality(Inside') = Cardinality(Inside) + 1 /\ Cardinality(Inside) \in Nat
    <2>1. IsFiniteSet(Inside) /\ Cardinality(Inside) \in Nat
      BY WorkersAreFinite DEF Inside
    <2> QED
      BY <1>4, <2>1, FS_AddElement
  <1>6. PermitsKept'
    BY <1>1, <1>2, <1>5 DEF PermitsKept, SemInv
  <1>7. SemTypeOK'
    BY <1>1, <1>2, <1>3 DEF SemTypeOK, SemInv
  <1>8. EntriesLeft'
    BY <1>3 DEF EntriesLeft, SemInv
  <1> QED
    BY <1>6, <1>7, <1>8 DEF SemInv

\* A step that neither enters nor leaves, and takes and returns no permit.
LEMMA KeepsThePermits ==
    ASSUME SemInv, NEW t \in Workers, NEW place \in {"acquire", "wait", "notify", "done"},
           semPc[t] # "inside", SemGoto(t, place),
           place \in {"acquire", "wait"} => left[t] > 0,
           semAsleep' \subseteq Workers, UNCHANGED <<kind, v_, left>>
    PROVE  SemInv'
  <1>1. MaxPermits' = MaxPermits
    BY MaxPermitsType
  <1>2. /\ semPc' = [semPc EXCEPT ![t] = place]
        /\ semPc \in [Workers -> {"acquire", "wait", "inside", "notify", "done"}]
    BY DEF SemGoto, SemInv, SemTypeOK
  <1>3. Inside' = Inside
    BY <1>2 DEF Inside
  <1>4. SemTypeOK'
    BY <1>1, <1>2 DEF SemTypeOK, SemInv
  <1>5. PermitsKept'
    BY <1>1, <1>3 DEF PermitsKept, SemInv
  <1>6. EntriesLeft'
    BY <1>2 DEF EntriesLeft, SemInv
  <1> QED
    BY <1>4, <1>5, <1>6 DEF SemInv

LEMMA ReleasesAPermit == ASSUME SemInv, NEW t \in Workers, Release(t) PROVE SemInv'
  <1>1. v_ \in 0 .. MaxPermits /\ MaxPermits \in Nat \ {0} /\ MaxPermits' = MaxPermits
    BY MaxPermitsType DEF SemInv, SemTypeOK, Release
  <1>3. /\ semPc' = [semPc EXCEPT ![t] = "notify"]
        /\ semPc \in [Workers -> {"acquire", "wait", "inside", "notify", "done"}]
        /\ semPc[t] = "inside"
    BY DEF SemGoto, SemInv, SemTypeOK, Release
  <1>4. t \in Inside /\ Inside' = Inside \ {t}
    BY <1>3 DEF Inside
  <1>5. Cardinality(Inside') = Cardinality(Inside) - 1 /\ Cardinality(Inside) \in Nat /\ Cardinality(Inside') \in Nat
    <2>1. IsFiniteSet(Inside) /\ Cardinality(Inside) \in Nat
      BY WorkersAreFinite DEF Inside
    <2>2. Cardinality(Inside \ {t}) \in Nat
      BY WorkersAreFinite DEF Inside
    <2> QED
      BY <1>4, <2>1, <2>2, FS_RemoveElement
  <1>2. v_' = v_ + 1
    BY <1>1, <1>5 DEF Release, MaxPermits, SemInv, PermitsKept
  <1>6. PermitsKept'
    BY <1>1, <1>2, <1>5 DEF PermitsKept, SemInv
  <1>7. /\ left' = [left EXCEPT ![t] = left[t] - 1]
        /\ left[t] > 0 /\ left \in [Workers -> 0 .. Entries] /\ Entries \in Nat
    BY <1>3, SemaphoreAssumption DEF SemInv, SemTypeOK, EntriesLeft, Release
  <1>8. left' \in [Workers -> 0 .. Entries]
    BY <1>7
  <1>9. v_' \in 0 .. MaxPermits'
    BY <1>1, <1>2, <1>5, <1>6 DEF PermitsKept
  <1>10. SemTypeOK'
    BY <1>3, <1>8, <1>9 DEF SemTypeOK, SemInv, Release
  <1>11. EntriesLeft'
    BY <1>3, <1>7 DEF EntriesLeft, SemInv
  <1> QED
    BY <1>6, <1>10, <1>11 DEF SemInv, Release

LEMMA SemStepHolds == SemInv /\ [SemNext]_semVars => SemInv'
  <1> SUFFICES ASSUME SemInv, [SemNext]_semVars PROVE SemInv'
    OBVIOUS
  <1>0. semAsleep \subseteq Workers
    BY DEF SemInv, SemTypeOK
  <1>1. ASSUME NEW t \in Workers, Acquire(t) PROVE SemInv'
    <2>1. CASE v_ > 0
      BY <1>1, <2>1, TakesAPermit DEF Acquire
    <2>2. CASE ~(v_ > 0)
      <3>1. left[t] > 0
        BY <1>1 DEF Acquire, SemInv, EntriesLeft
      <3> QED
        BY <1>0, <1>1, <2>2, <3>1, KeepsThePermits DEF Acquire
    <2> QED
      BY <2>1, <2>2
  <1>2. ASSUME NEW t \in Workers, Wake(t) PROVE SemInv'
    <2>1. CASE v_ > 0
      BY <1>2, <2>1, TakesAPermit DEF Wake
    <2>2. CASE ~(v_ > 0)
      <3>1. left[t] > 0
        BY <1>2 DEF Wake, SemInv, EntriesLeft
      <3>2. SemGoto(t, "wait")
        BY <1>2, <2>2 DEF Wake, SemGoto, SemInv, SemTypeOK
      <3> QED
        BY <1>0, <1>2, <2>2, <3>1, <3>2, KeepsThePermits DEF Wake
    <2> QED
      BY <2>1, <2>2
  <1>3. ASSUME NEW t \in Workers, Release(t) PROVE SemInv'
    BY <1>3, ReleasesAPermit
  <1>4. ASSUME NEW t \in Workers, Notify(t) PROVE SemInv'
    <2>1. semAsleep' \subseteq Workers
      BY <1>0, <1>4 DEF Notify, NotifyWaiters
    <2>2. left[t] \in Nat
      BY SemaphoreAssumption DEF SemInv, SemTypeOK
    <2>3. CASE left[t] = 0
      BY <1>4, <2>1, <2>3, KeepsThePermits DEF Notify
    <2>4. CASE left[t] > 0
      BY <1>4, <2>1, <2>4, KeepsThePermits DEF Notify
    <2> QED
      BY <2>2, <2>3, <2>4
  <1>5. ASSUME NEW t \in Workers, SemSpuriousWakeup(t) PROVE SemInv'
    <2>1. MaxPermits' = MaxPermits /\ Inside' = Inside
      BY <1>5 DEF SemSpuriousWakeup, MaxPermits, Inside
    <2> QED
      BY <1>5, <2>1 DEF SemInv, SemTypeOK, PermitsKept, EntriesLeft, SemSpuriousWakeup
  <1>6. CASE UNCHANGED semVars
    BY <1>6 DEF semVars, SemInv, SemTypeOK, PermitsKept, EntriesLeft, MaxPermits, Inside
  <1> QED
    BY <1>1, <1>2, <1>3, <1>4, <1>5, <1>6 DEF SemNext, SemStep

\* Every permit is free or with one thread in the critical section, whatever the number of
\* threads, entries and permits, and however late the notifications of release come.
THEOREM PermitsAreKept == SemSpec => []PermitsKept
  <1>1. SemInv => PermitsKept
    BY DEF SemInv
  <1> QED
    BY <1>1, SemInitHolds, SemStepHolds, PTL DEF SemSpec

\* No more threads are in the critical section than there are permits: the CHECK_EQ of
\* BinarySemaphoreTest.Threads and the CHECK_LE of SemaphoreTest.Threads.
THEOREM NoMoreThanPermits == SemSpec => [](Cardinality(Inside) <= MaxPermits)
  <1>1. ASSUME SemInv PROVE Cardinality(Inside) <= MaxPermits
    <2>1. Cardinality(Inside) \in Nat /\ MaxPermits \in Nat
      BY WorkersAreFinite, SemaphoreAssumption DEF Inside, MaxPermits
    <2> QED
      BY <1>1, <2>1 DEF SemInv, PermitsKept, SemTypeOK
  <1> QED
    BY <1>1, SemInitHolds, SemStepHolds, PTL DEF SemSpec

-----------------------------------------------------------------------------
(***************************************************************************)
(* SharedResource.                                                         *)
(***************************************************************************)
Active == {c \in Consumers : queuePc[c] # "done"}

\* Where an item is that was put: in the queue, with a consumer, or consumed.
InQueue == {x \in Item : \E i \in 1 .. Len(shared_queue) : shared_queue[i] = x}
InHand == {x \in Item : \E c \in Consumers : current[c] = x}
Consumed == {x \in Item : \E i \in 1 .. Len(consumed) : consumed[i] = x}

\* Every item that was put is in one of the three places ...
PutIsSomewhere == \A p \in Producers, i \in 1 .. Items :
    i <= produced[p] <=> <<p, i>> \in InQueue \union InHand \union Consumed

\* ... and nowhere else.
OncePerPlace ==
    /\ \A i, j \in 1 .. Len(shared_queue) : shared_queue[i] = shared_queue[j] /\ shared_queue[i] # None => i = j
    /\ \A c, d \in Consumers : current[c] = current[d] /\ current[c] # None => c = d
    /\ \A i, j \in 1 .. Len(consumed) : consumed[i] = consumed[j] => i = j
    /\ InQueue \cap InHand = {} /\ InQueue \cap Consumed = {} /\ InHand \cap Consumed = {}

\* The items of the queue are before the sentinels, and there is one sentinel for every
\* consumer that has not ended.
Boundary(k) ==
    /\ \A i \in 1 .. Len(shared_queue) : shared_queue[i] = None <=> i > k
    /\ Len(shared_queue) = k + Cardinality(Active)
    /\ Active # Consumers => k = 0

SentinelsAreLast ==
    /\ queuePc[Main] \in {"produce", "finish", "done"}
    /\ \A c \in Consumers : /\ queuePc[c] \in {"get", "consume", "done"}
                            /\ queuePc[c] = "consume" <=> current[c] # None
    /\ queuePc[Main] = "produce" =>
         /\ Active = Consumers
         /\ \A i \in 1 .. Len(shared_queue) : shared_queue[i] # None
    /\ queuePc[Main] # "produce" =>
         /\ \A p \in Producers : produced[p] = Items
         /\ \E k \in 0 .. Len(shared_queue) : Boundary(k)
    /\ queuePc[Main] = "done" => Active = {}

SharedInv == SharedTypeOK /\ PutIsSomewhere /\ OncePerPlace /\ SentinelsAreLast

LEMMA NoneIsNoItem == None \notin Item
  BY DEF None, Item

LEMMA ConsumersAreFinite ==
    ASSUME NEW S \in SUBSET Consumers
    PROVE  IsFiniteSet(S) /\ Cardinality(S) \in Nat
  <1>1. IsFiniteSet(S)
    BY SharedAssumption, FS_Subset
  <1> QED
    BY <1>1, FS_CardinalityType

LEMMA SharedInitHolds == SharedInit => SharedInv
  <1> SUFFICES ASSUME SharedInit PROVE SharedInv
    OBVIOUS
  <1>1. Len(<<>>) = 0 /\ \A S : <<>> \in Seq(S)
    BY EmptySeq
  <1>2. Main \notin Consumers /\ Items \in Nat
    BY SharedAssumption DEF Main
  <1>3. SharedTypeOK
    BY <1>1, <1>2 DEF SharedInit, SharedTypeOK
  <1>4. InQueue = {} /\ InHand = {} /\ Consumed = {}
    BY <1>1, NoneIsNoItem DEF SharedInit, InQueue, InHand, Consumed
  <1>5. PutIsSomewhere
    BY <1>2, <1>4 DEF PutIsSomewhere, SharedInit
  <1>6. OncePerPlace
    BY <1>1, <1>4 DEF OncePerPlace, SharedInit
  <1>7. SentinelsAreLast
    BY <1>1, <1>2 DEF SentinelsAreLast, SharedInit, Active
  <1> QED
    BY <1>3, <1>5, <1>6, <1>7 DEF SharedInv

\* The step of a producer.
LEMMA ProduceHolds == ASSUME SharedInv, NEW p \in Producers, Produce(p) PROVE SharedInv'
  <1> DEFINE x == <<p, produced[p] + 1>>
  <1>1. /\ produced \in [Producers -> 0 .. Items] /\ Items \in Nat /\ produced[p] < Items
        /\ produced' = [produced EXCEPT ![p] = produced[p] + 1]
        /\ shared_queue' = Append(shared_queue, x) /\ UNCHANGED <<queuePc, current, consumed>>
    BY SharedAssumption DEF SharedInv, SharedTypeOK, Produce
  <1>2. x \in Item /\ x # None
    BY <1>1 DEF Item, None
  <1>3. /\ shared_queue \in Seq(Item \union {None}) /\ Len(shared_queue) \in Nat
        /\ shared_queue' \in Seq(Item \union {None}) /\ Len(shared_queue') = Len(shared_queue) + 1
        /\ shared_queue'[Len(shared_queue) + 1] = x /\ \A i \in 1 .. Len(shared_queue) : shared_queue'[i] = shared_queue[i]
    BY <1>1, <1>2, AppendProperties, LenProperties DEF SharedInv, SharedTypeOK
  <1>4. queuePc[Main] = "produce" /\ Active' = Active
    BY <1>1 DEF SharedInv, SentinelsAreLast, Active
  <1>5. \A q \in Producers, i \in 1 .. Items :
           i <= produced'[q] <=> i <= produced[q] \/ <<q, i>> = x
    BY <1>1
  <1> HIDE DEF x
  <1>6. InQueue' = InQueue \union {x} /\ InHand' = InHand /\ Consumed' = Consumed
    <2>1. InQueue' = InQueue \union {x}
      BY <1>2, <1>3 DEF InQueue
    <2> QED
      BY <2>1, <1>1 DEF InHand, Consumed
  <1>7. x \notin InQueue \union InHand \union Consumed
    BY <1>1 DEF SharedInv, PutIsSomewhere, x
  <1>8. SharedTypeOK'
    <2>1. produced' \in [Producers -> 0 .. Items]
      BY <1>1
    <2> QED
      BY <1>1, <1>3, <2>1 DEF SharedInv, SharedTypeOK
  <1>9. PutIsSomewhere'
    <2> SUFFICES ASSUME NEW q \in Producers, NEW i \in 1 .. Items
                 PROVE  i <= produced'[q] <=> <<q, i>> \in (InQueue \union InHand \union Consumed)'
      BY DEF PutIsSomewhere
    <2>1. i <= produced[q] <=> <<q, i>> \in InQueue \union InHand \union Consumed
      BY DEF SharedInv, PutIsSomewhere
    <2> QED
      BY <1>5, <1>6, <2>1
  <1>10. OncePerPlace'
    <2>1. \A i, j \in 1 .. Len(shared_queue') : shared_queue'[i] = shared_queue'[j] /\ shared_queue'[i] # None => i = j
      <3>1. \A i \in 1 .. Len(shared_queue) : shared_queue[i] # x
        BY <1>2, <1>7 DEF InQueue
      <3>2. \A i, j \in 1 .. Len(shared_queue) : shared_queue[i] = shared_queue[j] /\ shared_queue[i] # None => i = j
        BY DEF SharedInv, OncePerPlace
      <3>3. \A i \in 1 .. Len(shared_queue') : i \in 1 .. Len(shared_queue) \/ i = Len(shared_queue) + 1
        BY <1>3
      <3> QED
        BY <1>3, <3>1, <3>2, <3>3
    <2>2. InQueue' \cap InHand' = {} /\ InQueue' \cap Consumed' = {} /\ InHand' \cap Consumed' = {}
      BY <1>6, <1>7 DEF SharedInv, OncePerPlace
    <2> QED
      BY <1>1, <2>1, <2>2 DEF SharedInv, OncePerPlace
  <1>11. SentinelsAreLast'
    <2>1. \A i \in 1 .. Len(shared_queue') : shared_queue'[i] # None
      <3>1. \A i \in 1 .. Len(shared_queue') : i \in 1 .. Len(shared_queue) \/ i = Len(shared_queue) + 1
        BY <1>3
      <3>2. \A i \in 1 .. Len(shared_queue) : shared_queue[i] # None
        BY <1>4 DEF SharedInv, SentinelsAreLast
      <3> QED
        BY <1>2, <1>3, <3>1, <3>2
    <2> QED
      BY <1>1, <1>4, <2>1 DEF SharedInv, SentinelsAreLast
  <1> QED
    BY <1>8, <1>9, <1>10, <1>11 DEF SharedInv

LEMMA PutSentinelsHolds == ASSUME SharedInv, PutSentinels PROVE SharedInv'
  <1> DEFINE m == Cardinality(Consumers)
  <1>0. m \in Nat /\ Main \notin Consumers
    BY SharedAssumption, FS_CardinalityType DEF Main
  <1>2. PICK z : z = [c \in 1 .. m |-> None]
    OBVIOUS
  <1>1. /\ queuePc[Main] = "produce" /\ queuePc' = [queuePc EXCEPT ![Main] = "finish"]
        /\ \A p \in Producers : produced[p] = Items
        /\ shared_queue' = shared_queue \o z /\ UNCHANGED <<produced, current, consumed>>
    BY <1>2 DEF PutSentinels
  <1> HIDE DEF m
  <1>3. z \in Seq(Item \union {None}) /\ Len(z) = m /\ \A i \in 1 .. m : z[i] = None
    BY <1>0, <1>2
  <1>4. /\ shared_queue \in Seq(Item \union {None}) /\ Len(shared_queue) \in Nat
        /\ shared_queue' \in Seq(Item \union {None}) /\ Len(shared_queue') = Len(shared_queue) + m
        /\ \A i \in 1 .. Len(shared_queue) + m :
             shared_queue'[i] = IF i <= Len(shared_queue) THEN shared_queue[i] ELSE z[i - Len(shared_queue)]
    <2>1. shared_queue \in Seq(Item \union {None}) /\ Len(shared_queue) \in Nat
      BY LenProperties DEF SharedInv, SharedTypeOK
    <2>2. /\ shared_queue \o z \in Seq(Item \union {None}) /\ Len(shared_queue \o z) = Len(shared_queue) + Len(z)
          /\ \A i \in 1 .. Len(shared_queue) + Len(z) :
               (shared_queue \o z)[i] = IF i <= Len(shared_queue) THEN shared_queue[i] ELSE z[i - Len(shared_queue)]
      BY <1>3, <2>1, ConcatProperties
    <2> QED
      BY <1>1, <1>3, <2>1, <2>2
  <1>5. \A i \in 1 .. Len(shared_queue') : shared_queue'[i] = IF i <= Len(shared_queue) THEN shared_queue[i] ELSE None
    <2> SUFFICES ASSUME NEW i \in 1 .. Len(shared_queue')
                 PROVE  shared_queue'[i] = IF i <= Len(shared_queue) THEN shared_queue[i] ELSE None
      OBVIOUS
    <2>1. i \in 1 .. Len(shared_queue) + m
      BY <1>4
    <2>2. ~(i <= Len(shared_queue)) => i - Len(shared_queue) \in 1 .. m
      BY <1>0, <1>4, <2>1
    <2> QED
      BY <1>3, <1>4, <2>1, <2>2
  <1>6. \A i \in 1 .. Len(shared_queue) : shared_queue[i] # None
    BY <1>1 DEF SharedInv, SentinelsAreLast
  <1>7. InQueue' = InQueue /\ InHand' = InHand /\ Consumed' = Consumed
    <2>1. InQueue' = InQueue
      BY <1>0, <1>4, <1>5, NoneIsNoItem DEF InQueue
    <2> QED
      BY <2>1, <1>1 DEF InHand, Consumed
  <1>8. \A c \in Consumers : queuePc'[c] = queuePc[c]
    BY <1>0, <1>1 DEF SharedInv, SharedTypeOK
  <1>9. SharedTypeOK'
    BY <1>1, <1>4 DEF SharedInv, SharedTypeOK
  <1>10. PutIsSomewhere'
    BY <1>1, <1>7 DEF SharedInv, PutIsSomewhere
  <1>11. OncePerPlace'
    <2>1. \A i, j \in 1 .. Len(shared_queue') : shared_queue'[i] = shared_queue'[j] /\ shared_queue'[i] # None => i = j
      <3>1. \A i \in 1 .. Len(shared_queue') : shared_queue'[i] # None => i \in 1 .. Len(shared_queue) /\ shared_queue'[i] = shared_queue[i]
        BY <1>4, <1>5
      <3>2. \A i, j \in 1 .. Len(shared_queue) : shared_queue[i] = shared_queue[j] /\ shared_queue[i] # None => i = j
        BY DEF SharedInv, OncePerPlace
      <3> QED
        BY <3>1, <3>2
    <2> QED
      BY <1>1, <1>7, <2>1 DEF SharedInv, OncePerPlace
  <1>12. SentinelsAreLast'
    <2>1. Active' = Consumers
      BY <1>1, <1>8 DEF SharedInv, SentinelsAreLast, Active
    <2>2. \E k \in 0 .. Len(shared_queue') : Boundary(k)'
      <3>1. PICK k \in Nat : k = Len(shared_queue)
        BY <1>4
      <3>2. \A i \in 1 .. Len(shared_queue') : shared_queue'[i] = None <=> i > k
        BY <1>4, <1>5, <1>6, <3>1
      <3>3. Len(shared_queue') = k + Cardinality(Active')
        BY <1>4, <2>1, <3>1 DEF m
      <3>4. Boundary(k)'
        BY <2>1, <3>2, <3>3 DEF Boundary
      <3>5. k \in 0 .. Len(shared_queue')
        BY <1>0, <1>4, <3>1
      <3> QED
        BY <3>4, <3>5
    <2>3. /\ queuePc'[Main] = "finish"
          /\ \A c \in Consumers : /\ queuePc'[c] \in {"get", "consume", "done"}
                                  /\ queuePc'[c] = "consume" <=> current'[c] # None
      BY <1>1, <1>8 DEF SharedInv, SharedTypeOK, SentinelsAreLast
    <2> QED
      BY <1>1, <2>2, <2>3 DEF SentinelsAreLast
  <1> QED
    BY <1>9, <1>10, <1>11, <1>12 DEF SharedInv

\* What get takes from the queue, and what it leaves.
LEMMA GetHolds == ASSUME SharedInv, NEW c \in Consumers, Get(c) PROVE SharedInv'
  <1>0. PICK x : x = Head(shared_queue)
    OBVIOUS
  <1>1. /\ queuePc[c] = "get" /\ shared_queue # <<>> /\ shared_queue' = Tail(shared_queue)
        /\ current' = [current EXCEPT ![c] = x]
        /\ queuePc' = [queuePc EXCEPT ![c] = IF x = None THEN "done" ELSE "consume"]
        /\ UNCHANGED <<produced, consumed>>
    BY <1>0 DEF Get
  <1>2. /\ shared_queue \in Seq(Item \union {None}) /\ Len(shared_queue) \in Nat /\ Len(shared_queue) > 0
        /\ shared_queue' \in Seq(Item \union {None}) /\ Len(shared_queue') = Len(shared_queue) - 1
        /\ \A i \in 1 .. Len(shared_queue') : shared_queue'[i] = shared_queue[i + 1]
        /\ x \in Item \union {None} /\ x = shared_queue[1]
    BY <1>0, <1>1, HeadTailProperties, LenProperties, EmptySeq DEF SharedInv, SharedTypeOK
  <1>3. Main \notin Consumers /\ current[c] = None
    BY <1>1, SharedAssumption DEF Main, SharedInv, SentinelsAreLast
  <1>4. /\ queuePc'[Main] = queuePc[Main] /\ current'[c] = x
        /\ queuePc'[c] = IF x = None THEN "done" ELSE "consume"
        /\ \A d \in Consumers \ {c} : queuePc'[d] = queuePc[d] /\ current'[d] = current[d]
    BY <1>1, <1>3 DEF SharedInv, SharedTypeOK
  <1>5. \A i \in 1 .. Len(shared_queue) : i = 1 \/ (i - 1 \in 1 .. Len(shared_queue') /\ shared_queue'[i - 1] = shared_queue[i])
    BY <1>2
  <1>6. \A i \in 1 .. Len(shared_queue') : i + 1 \in 1 .. Len(shared_queue)
    BY <1>2
  <1>7. x # None => x \in InQueue /\ x \notin InHand /\ x \notin Consumed
    BY <1>2 DEF InQueue, SharedInv, OncePerPlace
  <1>8. InQueue' = InQueue \ {x}
    <2>1. \A i \in 1 .. Len(shared_queue') : shared_queue'[i] # None => shared_queue'[i] # x
      BY <1>2, <1>6 DEF SharedInv, OncePerPlace
    <2>2. \A y \in InQueue' : y \in InQueue /\ y # x
      BY <1>2, <1>6, <2>1, NoneIsNoItem DEF InQueue
    <2>3. \A y \in InQueue : y # x => y \in InQueue'
      BY <1>2, <1>5 DEF InQueue
    <2> QED
      BY <2>2, <2>3
  <1>9. InHand' = InHand \union ({x} \ {None}) /\ Consumed' = Consumed
    <2>1. \A y \in InHand : y \in InHand'
      BY <1>3, <1>4, NoneIsNoItem DEF InHand
    <2>2. x # None => x \in InHand'
      BY <1>2, <1>4 DEF InHand
    <2>3. \A y \in InHand' : y \in InHand \/ (y = x /\ y # None)
      BY <1>4, NoneIsNoItem DEF InHand
    <2> QED
      BY <1>1, <2>1, <2>2, <2>3 DEF Consumed
  <1>10. SharedTypeOK'
    BY <1>1, <1>2 DEF SharedInv, SharedTypeOK
  <1>11. PutIsSomewhere'
    <2>1. (InQueue \union InHand \union Consumed)' = InQueue \union InHand \union Consumed
      BY <1>2, <1>7, <1>8, <1>9, NoneIsNoItem DEF InQueue
    <2> QED
      BY <1>1, <2>1 DEF SharedInv, PutIsSomewhere
  <1>12. OncePerPlace'
    <2>1. \A i, j \in 1 .. Len(shared_queue') : shared_queue'[i] = shared_queue'[j] /\ shared_queue'[i] # None => i = j
      <3> SUFFICES ASSUME NEW i \in 1 .. Len(shared_queue'), NEW j \in 1 .. Len(shared_queue'),
                          shared_queue'[i] = shared_queue'[j], shared_queue'[i] # None
                   PROVE  i = j
        OBVIOUS
      <3>1. i + 1 = j + 1
        BY <1>2, <1>6 DEF SharedInv, OncePerPlace
      <3> QED
        BY <3>1
    <2>2. \A d, e \in Consumers : current'[d] = current'[e] /\ current'[d] # None => d = e
      <3>1. x # None => \A d \in Consumers : current[d] # x
        BY <1>2, <1>7 DEF InHand
      <3> QED
        BY <1>4, <3>1 DEF SharedInv, OncePerPlace
    <2>3. InQueue' \cap InHand' = {} /\ InQueue' \cap Consumed' = {} /\ InHand' \cap Consumed' = {}
      BY <1>7, <1>8, <1>9 DEF SharedInv, OncePerPlace
    <2> QED
      BY <1>1, <2>1, <2>2, <2>3 DEF SharedInv, OncePerPlace
  <1>13. SentinelsAreLast'
    <2>1. \A d \in Consumers : /\ queuePc'[d] \in {"get", "consume", "done"}
                               /\ queuePc'[d] = "consume" <=> current'[d] # None
      BY <1>4 DEF SharedInv, SentinelsAreLast
    <2>2. CASE queuePc[Main] = "produce"
      <3>1. x # None /\ \A i \in 1 .. Len(shared_queue') : shared_queue'[i] # None
        BY <1>2, <1>6, <2>2 DEF SharedInv, SentinelsAreLast
      <3>2. Active' = Active
        BY <1>1, <1>4, <3>1 DEF Active
      <3> QED
        BY <1>4, <2>1, <2>2, <3>1, <3>2 DEF SharedInv, SentinelsAreLast
    <2>3. CASE queuePc[Main] # "produce"
      <3>1. PICK k \in 0 .. Len(shared_queue) : Boundary(k)
        BY <2>3 DEF SharedInv, SentinelsAreLast
      <3>2. queuePc'[Main] \in {"finish"} /\ \A p \in Producers : produced'[p] = Items
        BY <1>1, <1>4, <2>3 DEF SharedInv, SentinelsAreLast, Active
      <3>3. CASE x = None
        <4>1. k = 0
          <5>1. 1 \in 1 .. Len(shared_queue) /\ shared_queue[1] = None /\ k \in Nat
            BY <1>2, <3>3
          <5>2. 1 > k
            BY <3>1, <5>1 DEF Boundary
          <5> QED
            BY <5>1, <5>2
        <4>2. c \in Active /\ Active' = Active \ {c}
          BY <1>1, <1>4, <3>3 DEF Active
        <4>3. Cardinality(Active') = Cardinality(Active) - 1
          BY <4>2, ConsumersAreFinite, FS_RemoveElement DEF Active
        <4>4. \A i \in 1 .. Len(shared_queue') : shared_queue'[i] = None
          BY <1>2, <1>6, <3>1, <4>1 DEF Boundary
        <4>5. Len(shared_queue') = 0 + Cardinality(Active')
          <5>1. Cardinality(Active) \in Nat
            BY ConsumersAreFinite DEF Active
          <5>2. Len(shared_queue) = 0 + Cardinality(Active)
            BY <3>1, <4>1 DEF Boundary
          <5> QED
            BY <1>2, <4>3, <5>1, <5>2
        <4>6. Boundary(0)'
          BY <4>4, <4>5 DEF Boundary
        <4>7. 0 \in 0 .. Len(shared_queue')
          BY <1>2
        <4> QED
          BY <2>1, <3>2, <4>6, <4>7 DEF SentinelsAreLast
      <3>4. CASE x # None
        <4>1. k > 0 /\ Active = Consumers
          BY <1>2, <3>1, <3>4 DEF Boundary
        <4>2. Active' = Active
          BY <1>1, <1>4, <3>4 DEF Active
        <4>3. PICK l \in Nat : l = k - 1 /\ l \in 0 .. Len(shared_queue')
          BY <1>2, <4>1
        <4>4. \A i \in 1 .. Len(shared_queue') : shared_queue'[i] = None <=> i > l
          BY <1>2, <1>6, <3>1, <4>3 DEF Boundary
        <4>5. Len(shared_queue') = l + Cardinality(Active')
          <5>1. Cardinality(Active) \in Nat
            BY ConsumersAreFinite DEF Active
          <5> QED
            BY <1>2, <3>1, <4>2, <4>3, <5>1 DEF Boundary
        <4>6. Boundary(l)'
          BY <4>1, <4>2, <4>4, <4>5 DEF Boundary
        <4> QED
          BY <2>1, <3>2, <4>3, <4>6 DEF SentinelsAreLast
      <3> QED
        BY <3>3, <3>4
    <2> QED
      BY <2>2, <2>3
  <1> QED
    BY <1>10, <1>11, <1>12, <1>13 DEF SharedInv

LEMMA ConsumeHolds == ASSUME SharedInv, NEW c \in Consumers, Consume(c) PROVE SharedInv'
  <1>0. PICK x : x = current[c]
    OBVIOUS
  <1>1. /\ queuePc[c] = "consume" /\ consumed' = Append(consumed, x)
        /\ current' = [current EXCEPT ![c] = None] /\ queuePc' = [queuePc EXCEPT ![c] = "get"]
        /\ UNCHANGED <<produced, shared_queue>>
    BY <1>0 DEF Consume
  <1>2. x \in Item /\ x # None
    BY <1>0, <1>1 DEF SharedInv, SharedTypeOK, SentinelsAreLast
  <1>3. /\ consumed \in Seq(Item) /\ Len(consumed) \in Nat
        /\ consumed' \in Seq(Item) /\ Len(consumed') = Len(consumed) + 1
        /\ consumed'[Len(consumed) + 1] = x
        /\ \A i \in 1 .. Len(consumed) : consumed'[i] = consumed[i]
    BY <1>1, <1>2, AppendProperties, LenProperties DEF SharedInv, SharedTypeOK
  <1>4. \A i \in 1 .. Len(consumed') : i \in 1 .. Len(consumed) \/ i = Len(consumed) + 1
    BY <1>3
  <1>5. /\ queuePc'[Main] = queuePc[Main] /\ queuePc'[c] = "get" /\ current'[c] = None
        /\ \A d \in Consumers \ {c} : queuePc'[d] = queuePc[d] /\ current'[d] = current[d]
    BY <1>1, SharedAssumption DEF SharedInv, SharedTypeOK, Main
  <1>6. InQueue' = InQueue /\ InHand' = InHand \ {x} /\ Consumed' = Consumed \union {x}
    <2>1. InHand' = InHand \ {x}
      <3>1. \A d \in Consumers \ {c} : current[d] # x
        BY <1>0, <1>2 DEF SharedInv, OncePerPlace
      <3> QED
        BY <1>0, <1>5, <3>1, NoneIsNoItem DEF InHand
    <2>2. Consumed' = Consumed \union {x}
      BY <1>2, <1>3, <1>4 DEF Consumed
    <2> QED
      BY <1>1, <2>1, <2>2 DEF InQueue
  <1>7. x \in InHand /\ x \notin InQueue /\ x \notin Consumed
    BY <1>0, <1>2 DEF InHand, SharedInv, OncePerPlace
  <1>8. SharedTypeOK'
    BY <1>1, <1>3, SharedAssumption DEF SharedInv, SharedTypeOK
  <1>9. PutIsSomewhere'
    <2>1. (InQueue \union InHand \union Consumed)' = InQueue \union InHand \union Consumed
      BY <1>6, <1>7
    <2> QED
      BY <1>1, <2>1 DEF SharedInv, PutIsSomewhere
  <1>10. OncePerPlace'
    <2>1. \A i, j \in 1 .. Len(consumed') : consumed'[i] = consumed'[j] => i = j
      <3>1. \A i \in 1 .. Len(consumed) : consumed[i] # x
        BY <1>2, <1>7 DEF Consumed
      <3>2. \A i, j \in 1 .. Len(consumed) : consumed[i] = consumed[j] => i = j
        BY DEF SharedInv, OncePerPlace
      <3> QED
        BY <1>3, <1>4, <3>1, <3>2
    <2>2. \A d, e \in Consumers : current'[d] = current'[e] /\ current'[d] # None => d = e
      BY <1>5 DEF SharedInv, OncePerPlace
    <2>3. InQueue' \cap InHand' = {} /\ InQueue' \cap Consumed' = {} /\ InHand' \cap Consumed' = {}
      BY <1>6, <1>7 DEF SharedInv, OncePerPlace
    <2> QED
      BY <1>1, <2>1, <2>2, <2>3 DEF SharedInv, OncePerPlace
  <1>11. SentinelsAreLast'
    <2>1. Active' = Active
      BY <1>1, <1>5 DEF Active
    <2>2. \A k : Boundary(k) => Boundary(k)'
      BY <1>1, <2>1 DEF Boundary
    <2>3. \A d \in Consumers : /\ queuePc'[d] \in {"get", "consume", "done"}
                               /\ queuePc'[d] = "consume" <=> current'[d] # None
      BY <1>5 DEF SharedInv, SentinelsAreLast
    <2> QED
      BY <1>1, <1>5, <2>1, <2>2, <2>3 DEF SharedInv, SentinelsAreLast
  <1> QED
    BY <1>8, <1>9, <1>10, <1>11 DEF SharedInv

LEMMA JoinConsumersHolds == ASSUME SharedInv, JoinConsumers PROVE SharedInv'
  <1>1. /\ queuePc[Main] = "finish" /\ queuePc' = [queuePc EXCEPT ![Main] = "done"]
        /\ \A c \in Consumers : queuePc[c] = "done"
        /\ UNCHANGED <<produced, shared_queue, current, consumed>>
    BY DEF JoinConsumers
  <1>2. queuePc'[Main] = "done" /\ \A c \in Consumers : queuePc'[c] = queuePc[c]
    BY <1>1, SharedAssumption DEF SharedInv, SharedTypeOK, Main
  <1>3. Active = {} /\ Active' = {}
    BY <1>1, <1>2 DEF Active
  <1>4. SharedTypeOK'
    BY <1>1 DEF SharedInv, SharedTypeOK
  <1>5. PutIsSomewhere' /\ OncePerPlace'
    BY <1>1 DEF SharedInv, PutIsSomewhere, OncePerPlace, InQueue, InHand, Consumed
  <1>6. \A k : Boundary(k) => Boundary(k)'
    BY <1>1, <1>3 DEF Boundary
  <1>7. SentinelsAreLast'
    BY <1>1, <1>2, <1>3, <1>6 DEF SharedInv, SentinelsAreLast
  <1> QED
    BY <1>4, <1>5, <1>7 DEF SharedInv

LEMMA SharedStepHolds == SharedInv /\ [SharedNext]_sharedVars => SharedInv'
  <1> SUFFICES ASSUME SharedInv, [SharedNext]_sharedVars PROVE SharedInv'
    OBVIOUS
  <1>1. CASE UNCHANGED sharedVars
    <2>1. Active' = Active
      BY <1>1 DEF sharedVars, Active
    <2>2. \A k : Boundary(k) => Boundary(k)'
      BY <1>1, <2>1 DEF sharedVars, Boundary
    <2>3. SentinelsAreLast'
      BY <1>1, <2>1, <2>2 DEF sharedVars, SharedInv, SentinelsAreLast
    <2>4. SharedTypeOK'
      BY <1>1 DEF sharedVars, SharedInv, SharedTypeOK
    <2>5. InQueue' = InQueue /\ InHand' = InHand /\ Consumed' = Consumed
      BY <1>1 DEF sharedVars, InQueue, InHand, Consumed
    <2> QED
      BY <1>1, <2>3, <2>4, <2>5 DEF sharedVars, SharedInv, PutIsSomewhere, OncePerPlace
  <1>2. CASE \E p \in Producers : Produce(p)
    BY <1>2, ProduceHolds
  <1>3. CASE \E c \in Consumers : Get(c) \/ Consume(c)
    BY <1>3, GetHolds, ConsumeHolds
  <1>4. CASE PutSentinels
    BY <1>4, PutSentinelsHolds
  <1>5. CASE JoinConsumers
    BY <1>5, JoinConsumersHolds
  <1> QED
    BY <1>1, <1>2, <1>3, <1>4, <1>5 DEF SharedNext

\* A sequence without repetitions is as long as the set of its elements.
LEMMA DistinctElements ==
    ASSUME NEW S, NEW s \in Seq(S),
           \A i, j \in 1 .. Len(s) : s[i] = s[j] => i = j,
           \A x \in S : \E i \in 1 .. Len(s) : s[i] = x
    PROVE  Len(s) = Cardinality(S)
  <1>1. Len(s) \in Nat /\ s \in [1 .. Len(s) -> S]
    BY LenProperties
  <1>2. s \in Bijection(1 .. Len(s), S)
    <2>1. s \in Injection(1 .. Len(s), S)
      BY <1>1 DEF Injection, IsInjective
    <2>2. s \in Surjection(1 .. Len(s), S)
      BY <1>1 DEF Surjection
    <2> QED
      BY <2>1, <2>2 DEF Bijection
  <1>3. ExistsBijection(1 .. Len(s), S)
    BY <1>2 DEF ExistsBijection
  <1> QED
    BY <1>1, <1>3, FS_CountingElements

LEMMA SharedInvSuffices == SharedInv => EverythingConsumed
  <1> SUFFICES ASSUME SharedInv PROVE EverythingConsumed
    OBVIOUS
  <1>1. ASSUME NEW c \in Consumers, queuePc[c] = "done", NEW i \in 1 .. Len(shared_queue)
        PROVE  shared_queue[i] = None
    <2>1. Active # Consumers
      BY <1>1 DEF Active
    <2>2. PICK k \in 0 .. Len(shared_queue) : Boundary(k)
      BY <2>1 DEF SharedInv, SentinelsAreLast
    <2>3. k = 0
      BY <2>1, <2>2 DEF Boundary
    <2> QED
      BY <2>2, <2>3 DEF Boundary
  <1>2. ASSUME queuePc[Main] = "done"
        PROVE  ToSet(consumed) = Item /\ Len(consumed) = Cardinality(Item) /\ shared_queue = <<>>
    <2>1. /\ consumed \in Seq(Item) /\ Len(consumed) \in Nat /\ DOMAIN consumed = 1 .. Len(consumed)
          /\ shared_queue \in Seq(Item \union {None}) /\ Len(shared_queue) \in Nat
      BY LenProperties DEF SharedInv, SharedTypeOK
    <2>2. Active = {} /\ \A p \in Producers : produced[p] = Items
      BY <1>2 DEF SharedInv, SentinelsAreLast
    <2>3. PICK k \in 0 .. Len(shared_queue) : Boundary(k)
      BY <1>2 DEF SharedInv, SentinelsAreLast
    <2>4. Consumers # {}
      BY SharedAssumption
    <2>5. Len(shared_queue) = 0 + 0
      <3>1. k = 0
        BY <2>2, <2>3, <2>4 DEF Boundary
      <3> QED
        BY <2>2, <2>3, <3>1, FS_EmptySet DEF Boundary
    <2>6. shared_queue = <<>>
      BY <2>1, <2>5, EmptySeq
    <2>7. InQueue = {}
      BY <2>5 DEF InQueue
    <2>8. InHand = {}
      BY <2>2, NoneIsNoItem DEF InHand, Active, SharedInv, SentinelsAreLast
    <2>9. \A x \in Item : x \in Consumed
      <3>1. ASSUME NEW p \in Producers, NEW i \in 1 .. Items PROVE <<p, i>> \in Consumed
        BY <2>2, <2>7, <2>8, SharedAssumption DEF SharedInv, PutIsSomewhere
      <3> QED
        BY <3>1 DEF Item
    <2>10. ToSet(consumed) = Item
      BY <2>1, <2>9, ElementOfSeq DEF ToSet, Consumed
    <2>11. Len(consumed) = Cardinality(Item)
      BY <2>1, <2>9, DistinctElements DEF Consumed, SharedInv, OncePerPlace
    <2> QED
      BY <2>6, <2>10, <2>11
  <1> QED
    BY <1>1, <1>2 DEF EverythingConsumed

\* A consumer that has ended left no item behind in the queue; and when main returns,
\* every item of every producer was consumed exactly once and no sentinel is left over,
\* whatever the number of producers, of consumers and of items.
THEOREM EverythingIsConsumed == SharedSpec => []EverythingConsumed
  BY SharedInitHolds, SharedStepHolds, SharedInvSuffices, PTL DEF SharedSpec

-----------------------------------------------------------------------------
(***************************************************************************)
(* TurnTaking: the three calls of OrderedSync and of Foo.                  *)
(***************************************************************************)
Printed(t) == turnPc[t] \in {"signal", "done"}

\* The callbacks that have run are the first ones, and no thread is past its wait before
\* the callback of the thread before it has run.
PrintedUpTo(m) ==
    /\ Len(output) = m
    /\ \A i \in 1 .. m : output[i] = i - 1
    /\ \A t \in 0 .. 2 : Printed(t) <=> t < m

WaitsForPrevious ==
    /\ turnPc[0] # "await" /\ turnPc[2] # "signal"
    /\ \A t \in 0 .. 2 : turnPc[t] # "run"
    /\ \A t \in {1, 2} : turnPc[t] # "await" => Printed(t - 1)

\* Whatever lets thread t go on was done by the thread before it, after its callback.
SignalsFollow ==
    /\ variant = "latch" => \A b \in {1, 2} : arrived[b] \subseteq {b - 1}
    /\ \A b \in {1, 2} : b - 1 \in arrived[b] => Printed(b - 1)
    /\ st >= 1 => Printed(0)
    /\ st >= 3 => Printed(1)

CallsInv == variant # "queue" =>
    (\E m \in 0 .. 3 : PrintedUpTo(m)) /\ WaitsForPrevious /\ SignalsFollow

(***************************************************************************)
(* QueueSync: q whole rounds were run, and the threads before nextId_ have *)
(* run once more.                                                          *)
(***************************************************************************)
RoundsRun(q) ==
    /\ Len(output) = QueueThreads * q + nextId_
    /\ \A t \in TurnThread : calls[t] = Repeats - q - (IF t < nextId_ THEN 1 ELSE 0)

QueueTurnInv == variant = "queue" =>
    /\ \E q \in 0 .. Repeats : RoundsRun(q)
    /\ \A i \in 1 .. Len(output) : output[i] = (i - 1) % QueueThreads
    /\ \A t \in TurnThread : /\ turnPc[t] \in {"run", "done"}
                             /\ turnPc[t] = "done" <=> calls[t] = 0

TurnInv ==
    /\ variant \in {"latch", "atomic", "barrier", "queue"}
    /\ TurnTypeOK /\ CallsInv /\ QueueTurnInv

LEMMA TurnThreads ==
    /\ variant = "queue" => TurnThread = 0 .. QueueThreads - 1
    /\ variant # "queue" => TurnThread = 0 .. 2
    /\ variant' = variant => TurnThread' = TurnThread
    /\ QueueThreads \in Nat \ {0} /\ Repeats \in Nat \ {0}
  BY TurnAssumption DEF TurnThread

LEMMA TurnInitHolds == TurnInit => TurnInv
  <1> SUFFICES ASSUME TurnInit PROVE TurnInv
    OBVIOUS
  <1>1. Len(<<>>) = 0 /\ \A S : <<>> \in Seq(S)
    BY EmptySeq
  <1>2. TurnTypeOK
    BY <1>1, TurnThreads DEF TurnInit, TurnTypeOK
  <1>3. CASE variant = "queue"
    <2>1. RoundsRun(0)
      BY <1>1, <1>3, TurnThreads DEF TurnInit, RoundsRun
    <2>2. \A t \in TurnThread : turnPc[t] = "run" /\ calls[t] # 0
      BY <1>3, TurnThreads DEF TurnInit
    <2>3. QueueTurnInv
      BY <1>1, <2>1, <2>2, TurnThreads DEF TurnInit, QueueTurnInv
    <2> QED
      BY <1>2, <1>3, <2>3 DEF TurnInv, CallsInv
  <1>4. CASE variant # "queue"
    <2>1. \A t \in 0 .. 2 : turnPc[t] = IF t = 0 THEN "print" ELSE "await"
      BY <1>4, TurnThreads DEF TurnInit
    <2>2. PrintedUpTo(0)
      BY <1>1, <2>1 DEF TurnInit, PrintedUpTo, Printed
    <2>3. WaitsForPrevious /\ SignalsFollow
      BY <2>1 DEF TurnInit, WaitsForPrevious, SignalsFollow
    <2> QED
      BY <1>2, <1>4, <2>2, <2>3 DEF TurnInv, CallsInv, QueueTurnInv, TurnInit
  <1> QED
    BY <1>3, <1>4

LEMMA QueuePlaces ==
    ASSUME TurnInv, NEW t \in TurnThread, turnPc[t] \notin {"run", "done"}
    PROVE  variant # "queue"
  <1> SUFFICES ASSUME variant = "queue" PROVE FALSE
    OBVIOUS
  <1>1. \A u \in TurnThread : turnPc[u] \in {"run", "done"}
    BY DEF TurnInv, QueueTurnInv
  <1> QED
    BY <1>1

LEMMA CallbackHolds == ASSUME TurnInv, NEW t \in TurnThread, Callback(t) PROVE TurnInv'
  <1>1. /\ turnPc[t] = "print" /\ output' = Append(output, t)
        /\ turnPc' = [turnPc EXCEPT ![t] = IF t = 2 THEN "done" ELSE "signal"]
        /\ UNCHANGED <<variant, st, arrived, nextId_, calls, turnAsleep>>
    BY DEF Callback, TurnGoto
  <1>2. variant # "queue"
    BY <1>1, QueuePlaces
  <1>3. TurnThread = 0 .. 2 /\ TurnThread' = TurnThread
    BY <1>1, <1>2, TurnThreads
  <1>4. turnPc \in [0 .. 2 -> {"await", "print", "signal", "run", "done"}]
    BY <1>3 DEF TurnInv, TurnTypeOK
  <1>5. /\ turnPc'[t] \in {"signal", "done"} /\ (t = 2 => turnPc'[t] = "done")
        /\ \A u \in 0 .. 2 : u # t => turnPc'[u] = turnPc[u]
    BY <1>1, <1>3, <1>4
  <1>6. PICK m \in 0 .. 3 : PrintedUpTo(m)
    BY <1>2 DEF TurnInv, CallsInv
  <1>7. WaitsForPrevious /\ SignalsFollow
    BY <1>2 DEF TurnInv, CallsInv
  <1>8. t = m /\ m \in 0 .. 2
    <2>1. ~(t < m) /\ t \in 0 .. 2
      BY <1>1, <1>3, <1>6 DEF PrintedUpTo, Printed
    <2>2. t # 0 => t - 1 < m
      BY <1>1, <1>3, <1>6, <1>7 DEF WaitsForPrevious, PrintedUpTo
    <2> QED
      BY <2>1, <2>2
  <1>9. /\ output \in Seq(TurnThread) /\ output' \in Seq(TurnThread) /\ Len(output') = m + 1
        /\ output'[m + 1] = t /\ \A i \in 1 .. m : output'[i] = output[i]
    <2>1. output \in Seq(TurnThread) /\ Len(output) = m
      BY <1>6 DEF TurnInv, TurnTypeOK, PrintedUpTo
    <2> QED
      BY <1>1, <2>1, AppendProperties
  <1>10. \A u \in 0 .. 2 : Printed(u)' <=> (Printed(u) \/ u = t)
    BY <1>3, <1>5 DEF Printed
  <1>11. PICK k \in 0 .. 3 : k = m + 1
    BY <1>8
  <1>12. PrintedUpTo(k)'
    <2>1. \A i \in 1 .. k : output'[i] = i - 1
      BY <1>6, <1>8, <1>9, <1>11 DEF PrintedUpTo
    <2>2. \A u \in 0 .. 2 : Printed(u)' <=> u < k
      BY <1>6, <1>8, <1>10, <1>11 DEF PrintedUpTo
    <2> QED
      BY <1>9, <1>11, <2>1, <2>2 DEF PrintedUpTo
  <1>13. WaitsForPrevious'
    BY <1>1, <1>3, <1>5, <1>7, <1>10 DEF WaitsForPrevious
  <1>14. SignalsFollow'
    BY <1>1, <1>7, <1>10 DEF SignalsFollow
  <1>15. TurnTypeOK'
    <2>1. turnPc' \in [TurnThread -> {"await", "print", "signal", "run", "done"}]
      BY <1>1, <1>3, <1>4
    <2> QED
      BY <1>1, <1>3, <1>9, <2>1 DEF TurnInv, TurnTypeOK
  <1> QED
    BY <1>1, <1>2, <1>12, <1>13, <1>14, <1>15 DEF TurnInv, CallsInv, QueueTurnInv

\* The steps of the calls other than the callbacks: t goes on from its wait, or returns.
LEMMA OtherCallStep ==
    ASSUME TurnInv, variant # "queue", NEW t \in 0 .. 2,
           UNCHANGED <<variant, nextId_, calls, turnAsleep, output>>,
           arrived' \in [{1, 2} -> SUBSET (0 .. 2)], st' \in 0 .. 4,
           \/ UNCHANGED turnPc
           \/ turnPc[t] = "await" /\ TurnGoto(t, "print") /\ Printed(t - 1)
           \/ turnPc[t] = "signal" /\ TurnGoto(t, "done"),
           SignalsFollow'
    PROVE  TurnInv'
  <1>1. TurnThread = 0 .. 2 /\ TurnThread' = TurnThread
    BY TurnThreads
  <1>2. turnPc \in [0 .. 2 -> {"await", "print", "signal", "run", "done"}]
    BY <1>1 DEF TurnInv, TurnTypeOK
  <1>3. WaitsForPrevious
    BY DEF TurnInv, CallsInv
  <1>4. turnPc' \in [0 .. 2 -> {"await", "print", "signal", "run", "done"}]
    BY <1>2 DEF TurnGoto
  <1>5. \A u \in 0 .. 2 : Printed(u)' <=> Printed(u)
    BY <1>2 DEF TurnGoto, Printed
  <1>6. \A m : PrintedUpTo(m) => PrintedUpTo(m)'
    BY <1>5 DEF PrintedUpTo
  <1>7. WaitsForPrevious'
    <2>1. turnPc'[0] # "await" /\ turnPc'[2] # "signal" /\ \A u \in 0 .. 2 : turnPc'[u] # "run"
      BY <1>2, <1>3 DEF TurnGoto, WaitsForPrevious
    <2>2. \A u \in {1, 2} : turnPc'[u] # "await" => Printed(u - 1)
      BY <1>2, <1>3 DEF TurnGoto, WaitsForPrevious
    <2> QED
      BY <1>5, <2>1, <2>2 DEF WaitsForPrevious
  <1>8. CallsInv'
    BY <1>6, <1>7 DEF TurnInv, CallsInv
  <1>9. TurnTypeOK'
    BY <1>1, <1>4 DEF TurnInv, TurnTypeOK
  <1> QED
    BY <1>8, <1>9 DEF TurnInv, QueueTurnInv

LEMMA AwaitHolds == ASSUME TurnInv, NEW t \in TurnThread, Await(t) PROVE TurnInv'
  <1>1. turnPc[t] = "await" /\ UNCHANGED <<variant, nextId_, calls, turnAsleep, output>>
    BY DEF Await
  <1>2. variant # "queue"
    BY <1>1, QueuePlaces
  <1>3. TurnThread = 0 .. 2 /\ TurnThread' = TurnThread
    BY <1>1, <1>2, TurnThreads
  <1>4. WaitsForPrevious /\ SignalsFollow
    BY <1>2 DEF TurnInv, CallsInv
  <1>5. t \in {1, 2}
    BY <1>1, <1>3, <1>4 DEF WaitsForPrevious
  <1>6. arrived \in [{1, 2} -> SUBSET (0 .. 2)] /\ st \in 0 .. 4
    BY <1>3 DEF TurnInv, TurnTypeOK
  <1>7. turnPc \in [0 .. 2 -> {"await", "print", "signal", "run", "done"}]
    BY <1>3 DEF TurnInv, TurnTypeOK
  <1>8. CASE variant = "latch"
    <2>1. arrived[t] # {} /\ UNCHANGED <<st, arrived>> /\ TurnGoto(t, "print")
      BY <1>8 DEF Await
    <2>2. Printed(t - 1)
      BY <1>4, <1>5, <1>6, <1>8, <2>1 DEF SignalsFollow
    <2>3. \A u \in 0 .. 2 : Printed(u) => Printed(u)'
      BY <1>1, <1>3, <1>7, <2>1 DEF TurnGoto, Printed
    <2>4. SignalsFollow'
      BY <1>1, <1>4, <2>1, <2>3 DEF SignalsFollow
    <2> QED
      BY <1>1, <1>2, <1>3, <1>6, <2>1, <2>2, <2>4, OtherCallStep
  <1>9. CASE variant = "atomic"
    <2>1. st = 2 * t - 1 /\ st' = 2 * t /\ UNCHANGED arrived /\ TurnGoto(t, "print")
      BY <1>9 DEF Await, atomicTransit
    <2>2. Printed(t - 1)
      BY <1>4, <1>5, <2>1 DEF SignalsFollow
    <2>3. \A u \in 0 .. 2 : Printed(u) => Printed(u)'
      BY <1>1, <1>3, <1>7, <2>1 DEF TurnGoto, Printed
    <2>4. SignalsFollow'
      BY <1>1, <1>4, <1>5, <2>1, <2>3 DEF SignalsFollow
    <2>5. st' \in 0 .. 4
      BY <1>5, <2>1
    <2> QED
      BY <1>1, <1>2, <1>3, <1>6, <2>1, <2>2, <2>4, <2>5, OtherCallStep
  <1>10. CASE variant = "barrier"
    <2>1. /\ arrived' = [arrived EXCEPT ![t] = arrived[t] \union {t}]
          /\ UNCHANGED st /\ UNCHANGED turnPc
      BY <1>10 DEF Await, Arrive
    <2>2. arrived' \in [{1, 2} -> SUBSET (0 .. 2)]
      BY <1>3, <1>6, <2>1
    <2>3. \A b \in {1, 2} : b - 1 \in arrived'[b] => b - 1 \in arrived[b]
      BY <1>5, <1>6, <2>1
    <2>4. SignalsFollow'
      BY <1>1, <1>4, <1>10, <2>1, <2>3 DEF SignalsFollow, Printed
    <2> QED
      BY <1>1, <1>2, <1>3, <1>6, <2>1, <2>2, <2>4, OtherCallStep
  <1> QED
    BY <1>2, <1>8, <1>9, <1>10 DEF TurnInv

LEMMA SignalHolds == ASSUME TurnInv, NEW t \in TurnThread, Signal(t) PROVE TurnInv'
  <1>1. turnPc[t] = "signal" /\ UNCHANGED <<variant, nextId_, calls, turnAsleep, output>>
    BY DEF Signal
  <1>2. variant # "queue"
    BY <1>1, QueuePlaces
  <1>3. TurnThread = 0 .. 2 /\ TurnThread' = TurnThread
    BY <1>1, <1>2, TurnThreads
  <1>4. WaitsForPrevious /\ SignalsFollow
    BY <1>2 DEF TurnInv, CallsInv
  <1>5. t \in {0, 1} /\ Printed(t)
    BY <1>1, <1>3, <1>4 DEF WaitsForPrevious, Printed
  <1>6. arrived \in [{1, 2} -> SUBSET (0 .. 2)] /\ st \in 0 .. 4
    BY <1>3 DEF TurnInv, TurnTypeOK
  <1>7. turnPc \in [0 .. 2 -> {"await", "print", "signal", "run", "done"}]
    BY <1>3 DEF TurnInv, TurnTypeOK
  <1>8. UNCHANGED turnPc \/ TurnGoto(t, "done")
    BY DEF Signal
  <1>9. \A u \in 0 .. 2 : Printed(u) => Printed(u)'
    BY <1>3, <1>7, <1>8 DEF TurnGoto, Printed
  <1>10. CASE variant = "atomic"
    <2>1. st = 2 * t /\ st' = 2 * t + 1 /\ UNCHANGED arrived
      BY <1>10 DEF Signal, atomicTransit
    <2>2. Printed(0)
      BY <1>4, <1>5, <2>1 DEF SignalsFollow
    <2>3. SignalsFollow'
      BY <1>1, <1>4, <1>5, <1>9, <2>1, <2>2 DEF SignalsFollow
    <2>4. st' \in 0 .. 4
      BY <1>5, <2>1
    <2> QED
      BY <1>1, <1>2, <1>3, <1>6, <1>8, <2>1, <2>3, <2>4, OtherCallStep
  <1>11. CASE variant # "atomic"
    <2>1. PICK b \in {1, 2} : b = t + 1
      BY <1>5
    <2>2. arrived' = [arrived EXCEPT ![b] = arrived[b] \union {t}] /\ UNCHANGED st
      BY <1>11, <2>1 DEF Signal, Arrive
    <2>3. arrived' \in [{1, 2} -> SUBSET (0 .. 2)]
      BY <1>3, <1>6, <2>2
    <2>4. \A c \in {1, 2} : arrived'[c] = IF c = b THEN arrived[c] \union {b - 1} ELSE arrived[c]
      BY <1>5, <1>6, <2>1, <2>2
    <2>5. SignalsFollow'
      BY <1>1, <1>4, <1>5, <1>9, <2>1, <2>2, <2>4 DEF SignalsFollow
    <2> QED
      BY <1>1, <1>2, <1>3, <1>6, <1>8, <2>2, <2>3, <2>5, OtherCallStep
  <1> QED
    BY <1>10, <1>11

LEMMA PassBarrierHolds == ASSUME TurnInv, NEW t \in TurnThread, PassBarrier(t) PROVE TurnInv'
  <1>1. variant = "barrier" /\ UNCHANGED <<variant, st, arrived, nextId_, calls, turnAsleep, output>>
    BY DEF PassBarrier
  <1>2. TurnThread = 0 .. 2 /\ TurnThread' = TurnThread
    BY <1>1, TurnThreads
  <1>3. WaitsForPrevious /\ SignalsFollow
    BY <1>1 DEF TurnInv, CallsInv
  <1>4. arrived \in [{1, 2} -> SUBSET (0 .. 2)] /\ st \in 0 .. 4
    BY <1>2 DEF TurnInv, TurnTypeOK
  <1>5. turnPc \in [0 .. 2 -> {"await", "print", "signal", "run", "done"}]
    BY <1>2 DEF TurnInv, TurnTypeOK
  <1>6. \/ turnPc[t] = "await" /\ TurnGoto(t, "print") /\ Printed(t - 1)
        \/ turnPc[t] = "signal" /\ TurnGoto(t, "done")
    <2>1. CASE turnPc[t] = "await" /\ arrived[t] = {t - 1, t} /\ TurnGoto(t, "print")
      <3>1. t \in {1, 2}
        BY <1>2, <1>3, <2>1 DEF WaitsForPrevious
      <3>2. Printed(t - 1)
        BY <1>3, <2>1, <3>1 DEF SignalsFollow
      <3> QED
        BY <2>1, <3>2
    <2> QED
      BY <2>1 DEF PassBarrier
  <1>7. \A u \in 0 .. 2 : Printed(u) => Printed(u)'
    BY <1>2, <1>5, <1>6 DEF TurnGoto, Printed
  <1>8. SignalsFollow'
    BY <1>1, <1>3, <1>7 DEF SignalsFollow
  <1> QED
    BY <1>1, <1>2, <1>4, <1>6, <1>8, OtherCallStep

-----------------------------------------------------------------------------
(***************************************************************************)
(* TurnTaking: the steps of QueueSync.                                     *)
(***************************************************************************)
LEMMA TurnOf ==
    ASSUME NEW q \in Nat, NEW r \in 0 .. QueueThreads - 1
    PROVE  (QueueThreads * q + r) % QueueThreads = r
  <1> DEFINE m == QueueThreads * q + r
  <1>1. QueueThreads \in Nat \ {0} /\ m \in Nat
    BY TurnThreads
  <1>2. /\ m = QueueThreads * (m \div QueueThreads) + (m % QueueThreads)
        /\ m \div QueueThreads \in Nat /\ m % QueueThreads \in 0 .. QueueThreads - 1
    BY <1>1
  <1>3. ASSUME NEW a \in Int, NEW b \in Int, NEW c \in 0 .. QueueThreads - 1, NEW d \in 0 .. QueueThreads - 1,
               QueueThreads * a + c = QueueThreads * b + d
        PROVE  c = d
    BY <1>1, <1>3, Z3
  <1> QED
    BY <1>2, <1>3

LEMMA RunHolds == ASSUME TurnInv, NEW t \in TurnThread, Run(t) PROVE TurnInv'
  <1>1. /\ turnPc[t] = "run" /\ nextId_ = t /\ output' = Append(output, t)
        /\ nextId_' = (t + 1) % QueueThreads /\ turnAsleep' = {}
        /\ calls' = [calls EXCEPT ![t] = calls[t] - 1]
        /\ turnPc' = [turnPc EXCEPT ![t] = IF calls[t] = 1 THEN "done" ELSE "run"]
        /\ UNCHANGED <<variant, st, arrived>>
    BY DEF Run, TurnGoto
  <1>2. variant = "queue"
    BY <1>1, TurnThreads DEF TurnInv, CallsInv, WaitsForPrevious
  <1>3. /\ TurnThread = 0 .. QueueThreads - 1 /\ TurnThread' = TurnThread
        /\ QueueThreads \in Nat \ {0} /\ Repeats \in Nat \ {0}
    BY <1>1, <1>2, TurnThreads
  <1>4. PICK q \in 0 .. Repeats : RoundsRun(q)
    BY <1>2 DEF TurnInv, QueueTurnInv
  <1>5. /\ \A i \in 1 .. Len(output) : output[i] = (i - 1) % QueueThreads
        /\ \A u \in TurnThread : turnPc[u] \in {"run", "done"}
        /\ \A u \in TurnThread : turnPc[u] = "done" <=> calls[u] = 0
    BY <1>2 DEF TurnInv, QueueTurnInv
  <1>6. /\ turnPc \in [TurnThread -> {"await", "print", "signal", "run", "done"}]
        /\ calls \in [TurnThread -> 0 .. Repeats] /\ output \in Seq(TurnThread)
    BY DEF TurnInv, TurnTypeOK
  <1>7. calls[t] \in 1 .. Repeats /\ calls[t] = Repeats - q /\ q + 1 \in 0 .. Repeats
    <2>1. calls[t] # 0 /\ calls[t] \in 0 .. Repeats
      BY <1>1, <1>5, <1>6
    <2>2. calls[t] = Repeats - q - 0
      BY <1>1, <1>3, <1>4 DEF RoundsRun
    <2> QED
      BY <1>3, <2>1, <2>2
  <1>8. /\ Len(output) = QueueThreads * q + t /\ Len(output) \in Nat
        /\ output' \in Seq(TurnThread) /\ Len(output') = Len(output) + 1
        /\ output'[Len(output) + 1] = t /\ \A i \in 1 .. Len(output) : output'[i] = output[i]
    <2>1. Len(output) = QueueThreads * q + t
      BY <1>1, <1>4 DEF RoundsRun
    <2> QED
      BY <1>1, <1>6, <2>1, AppendProperties, LenProperties
  <1>9. t = Len(output) % QueueThreads
    <2>1. q \in Nat /\ t \in 0 .. QueueThreads - 1
      BY <1>3
    <2>2. (QueueThreads * q + t) % QueueThreads = t
      BY <2>1, TurnOf
    <2> QED
      BY <1>8, <2>2
  <1>10. \A i \in 1 .. Len(output') : output'[i] = (i - 1) % QueueThreads
    <2> SUFFICES ASSUME NEW i \in 1 .. Len(output') PROVE output'[i] = (i - 1) % QueueThreads
      OBVIOUS
    <2>1. CASE i = Len(output) + 1
      <3>1. i - 1 = Len(output)
        BY <1>8, <2>1
      <3> QED
        BY <1>8, <1>9, <2>1, <3>1
    <2>2. CASE i # Len(output) + 1
      <3>1. i \in 1 .. Len(output)
        BY <1>8, <2>2
      <3> QED
        BY <1>5, <1>8, <3>1
    <2> QED
      BY <2>1, <2>2
  <1>11. /\ calls' \in [TurnThread -> 0 .. Repeats] /\ calls'[t] = calls[t] - 1
         /\ \A u \in TurnThread : u # t => calls'[u] = calls[u]
    <2>1. calls[t] - 1 \in 0 .. Repeats
      BY <1>3, <1>7
    <2>2. calls' = [calls EXCEPT ![t] = calls[t] - 1]
      BY <1>1
    <2> QED
      BY <1>6, <2>1, <2>2
  <1>12. \A u \in TurnThread : turnPc'[u] = IF u = t THEN IF calls[t] = 1 THEN "done" ELSE "run" ELSE turnPc[u]
    BY <1>1, <1>6
  <1>13. /\ \A u \in TurnThread : turnPc'[u] \in {"run", "done"}
         /\ \A u \in TurnThread : turnPc'[u] = "done" <=> calls'[u] = 0
    BY <1>5, <1>7, <1>11, <1>12
  <1>14. /\ nextId_' \in 0 .. QueueThreads - 1
         /\ \E p \in 0 .. Repeats : RoundsRun(p)'
    <2>1. CASE t + 1 < QueueThreads
      <3>1. nextId_' = t + 1
        <4>1. t + 1 \in 0 .. QueueThreads - 1 /\ QueueThreads * 0 + (t + 1) = t + 1
          BY <1>3, <2>1
        <4> QED
          BY <1>1, <4>1, TurnOf
      <3>2. \A u \in TurnThread : calls'[u] = Repeats - q - (IF u < t + 1 THEN 1 ELSE 0)
        <4> SUFFICES ASSUME NEW u \in TurnThread
                     PROVE  calls'[u] = Repeats - q - (IF u < t + 1 THEN 1 ELSE 0)
          OBVIOUS
        <4>1. calls[u] = Repeats - q - (IF u < t THEN 1 ELSE 0) /\ u \in Nat /\ t \in Nat
          BY <1>1, <1>3, <1>4 DEF RoundsRun
        <4>2. u = t \/ u < t \/ (u > t /\ ~(u < t + 1))
          BY <4>1
        <4> QED
          BY <1>3, <1>7, <1>11, <4>1, <4>2
      <3>3. Len(output') = QueueThreads * q + (t + 1)
        BY <1>3, <1>8
      <3>4. RoundsRun(q)'
        BY <1>3, <3>1, <3>2, <3>3 DEF RoundsRun
      <3> QED
        BY <1>3, <2>1, <3>1, <3>4
    <2>2. CASE ~(t + 1 < QueueThreads)
      <3>1. t = QueueThreads - 1
        BY <1>3, <2>2
      <3>2. nextId_' = 0
        <4>1. 0 \in 0 .. QueueThreads - 1 /\ QueueThreads * 1 + 0 = t + 1
          BY <1>3, <3>1
        <4> QED
          BY <1>1, <4>1, TurnOf
      <3>3. PICK p \in 0 .. Repeats : p = q + 1
        BY <1>7
      <3>4. \A u \in TurnThread : calls'[u] = Repeats - p - (IF u < 0 THEN 1 ELSE 0)
        <4> SUFFICES ASSUME NEW u \in TurnThread
                     PROVE  calls'[u] = Repeats - p - (IF u < 0 THEN 1 ELSE 0)
          OBVIOUS
        <4>1. calls[u] = Repeats - q - (IF u < t THEN 1 ELSE 0) /\ u \in Nat /\ ~(u < 0)
          BY <1>1, <1>3, <1>4 DEF RoundsRun
        <4>2. u = t \/ u < t
          BY <1>3, <3>1
        <4> QED
          BY <1>3, <1>7, <1>11, <3>3, <4>1, <4>2
      <3>5. Len(output') = QueueThreads * p + 0
        BY <1>3, <1>8, <3>1, <3>3
      <3>6. RoundsRun(p)'
        BY <1>3, <3>2, <3>4, <3>5 DEF RoundsRun
      <3> QED
        BY <1>3, <3>2, <3>6
    <2> QED
      BY <2>1, <2>2
  <1>15. QueueTurnInv'
    BY <1>10, <1>13, <1>14, <1>3 DEF QueueTurnInv
  <1>16. TurnTypeOK'
    <2>1. turnPc' \in [TurnThread -> {"await", "print", "signal", "run", "done"}]
      BY <1>1, <1>6
    <2> QED
      BY <1>1, <1>3, <1>8, <1>11, <1>14, <2>1 DEF TurnInv, TurnTypeOK
  <1> QED
    BY <1>1, <1>2, <1>15, <1>16 DEF TurnInv, CallsInv

\* A step that changes turnAsleep only.
LEMMA SleepersHold ==
    ASSUME TurnInv, turnAsleep' \subseteq TurnThread,
           UNCHANGED <<variant, turnPc, st, arrived, nextId_, calls, output>>
    PROVE  TurnInv'
  <1>1. TurnThread' = TurnThread
    BY TurnThreads
  <1>2. \A q : RoundsRun(q) => RoundsRun(q)'
    BY <1>1 DEF RoundsRun
  <1>3. \A m : PrintedUpTo(m) => PrintedUpTo(m)'
    BY DEF PrintedUpTo, Printed
  <1>4. QueueTurnInv'
    BY <1>1, <1>2 DEF TurnInv, QueueTurnInv
  <1>5. (WaitsForPrevious => WaitsForPrevious') /\ (SignalsFollow => SignalsFollow')
    BY DEF WaitsForPrevious, SignalsFollow, Printed
  <1>6. CallsInv'
    BY <1>3, <1>5 DEF TurnInv, CallsInv
  <1>7. TurnTypeOK'
    BY <1>1 DEF TurnInv, TurnTypeOK
  <1> QED
    BY <1>4, <1>6, <1>7 DEF TurnInv

LEMMA TurnStepHolds == TurnInv /\ [TurnNext]_turnVars => TurnInv'
  <1> SUFFICES ASSUME TurnInv, [TurnNext]_turnVars PROVE TurnInv'
    OBVIOUS
  <1>0. turnAsleep \subseteq TurnThread
    BY DEF TurnInv, TurnTypeOK
  <1>1. CASE UNCHANGED turnVars
    BY <1>0, <1>1, SleepersHold DEF turnVars
  <1>2. ASSUME NEW t \in TurnThread, WaitForTurn(t) PROVE TurnInv'
    BY <1>0, <1>2, SleepersHold DEF WaitForTurn
  <1>3. ASSUME NEW t \in TurnThread, TurnSpuriousWakeup(t) PROVE TurnInv'
    BY <1>0, <1>3, SleepersHold DEF TurnSpuriousWakeup
  <1> QED
    BY <1>1, <1>2, <1>3, CallbackHolds, AwaitHolds, SignalHolds, PassBarrierHolds, RunHolds
    DEF TurnNext, TurnStep

LEMMA TurnInvSuffices == TurnInv => OutputInTurn
  <1> SUFFICES ASSUME TurnInv PROVE OutputInTurn
    OBVIOUS
  <1>1. CASE variant # "queue"
    <2>1. PICK m \in 0 .. 3 : PrintedUpTo(m)
      BY <1>1 DEF TurnInv, CallsInv
    <2>2. \A i \in 1 .. Len(output) : output[i] = (i - 1) % 3
      <3>1. \A i \in 1 .. m : i - 1 = (i - 1) % 3
        OBVIOUS
      <3> QED
        BY <2>1, <3>1 DEF PrintedUpTo
    <2>3. ASSUME TurnAllDone PROVE Len(output) = 3
      <3>1. turnPc[2] = "done"
        BY <1>1, <2>3, TurnThreads DEF TurnAllDone
      <3>2. 2 < m
        BY <2>1, <3>1 DEF PrintedUpTo, Printed
      <3> QED
        BY <2>1, <3>2 DEF PrintedUpTo
    <2> QED
      BY <1>1, <2>2, <2>3 DEF OutputInTurn
  <1>2. CASE variant = "queue"
    <2>1. /\ TurnThread = 0 .. QueueThreads - 1
          /\ QueueThreads \in Nat \ {0} /\ Repeats \in Nat \ {0}
      BY <1>2, TurnThreads
    <2>2. \A i \in 1 .. Len(output) : output[i] = (i - 1) % QueueThreads
      BY <1>2 DEF TurnInv, QueueTurnInv
    <2>3. ASSUME TurnAllDone PROVE Len(output) = QueueThreads * Repeats
      <3>1. PICK q \in 0 .. Repeats : RoundsRun(q)
        BY <1>2 DEF TurnInv, QueueTurnInv
      <3>2. \A t \in TurnThread : calls[t] = 0
        BY <1>2, <2>3 DEF TurnInv, QueueTurnInv, TurnAllDone
      <3>3. nextId_ \in 0 .. QueueThreads - 1 /\ 0 \in TurnThread /\ QueueThreads - 1 \in TurnThread
        BY <2>1 DEF TurnInv, TurnTypeOK
      <3>4. 0 = Repeats - q - (IF QueueThreads - 1 < nextId_ THEN 1 ELSE 0)
        BY <3>1, <3>2, <3>3 DEF RoundsRun
      <3>5. q = Repeats
        BY <2>1, <3>3, <3>4
      <3>6. 0 = Repeats - q - (IF 0 < nextId_ THEN 1 ELSE 0)
        BY <3>1, <3>2, <3>3 DEF RoundsRun
      <3>7. nextId_ = 0
        BY <2>1, <3>3, <3>5, <3>6
      <3> QED
        BY <2>1, <3>1, <3>5, <3>7 DEF RoundsRun
    <2> QED
      BY <1>2, <2>2, <2>3 DEF OutputInTurn
  <1> QED
    BY <1>1, <1>2

\* The callbacks run in the order of the threads, with latches, the atomic or barriers, and
\* again and again with the condition variable of QueueSync, for every number of threads
\* and of calls; and none is left out when the threads have returned.
THEOREM TurnsAreKept == TurnSpec => []OutputInTurn
  BY TurnInitHolds, TurnStepHolds, TurnInvSuffices, PTL DEF TurnSpec

-----------------------------------------------------------------------------
(***************************************************************************)
(* The composition: each program sees its own steps, and the steps of the  *)
(* others leave it alone.                                                  *)
(***************************************************************************)
LEMMA ProgramsStart == ThreadsInit => Init /\ SemInit /\ TurnInit /\ SharedInit
  BY DEF ThreadsInit

LEMMA ProgramsStep ==
    [ThreadsNext]_threadsVars => [Next]_vars /\ [SemNext]_semVars /\ [TurnNext]_turnVars /\ [SharedNext]_sharedVars
  BY DEF ThreadsNext, threadsVars, RunCommit, RunReduce, RunTurns, RunSemaphores, RunShared, RunElection

\* The composition implements the specification of each program.
THEOREM ProgramsAreKept == ThreadsSpec => Spec /\ SemSpec /\ TurnSpec /\ SharedSpec
  BY ProgramsStart, ProgramsStep, PTL DEF ThreadsSpec, Spec, SemSpec, TurnSpec, SharedSpec

\* No permit of the semaphores is lost or doubled, and no item of the shared queue.
THEOREM NothingGetsLost == ThreadsSpec => []NothingIsLost
  <1>1. PermitsKept /\ EverythingConsumed => NothingIsLost
    BY DEF NothingIsLost
  <1> QED
    BY <1>1, ProgramsAreKept, PermitsAreKept, EverythingIsConsumed, PTL

\* The outputs of the threads that take turns are in turn, and complete.
THEOREM OutputsAreInTurn == ThreadsSpec => []OutputInTurn
  BY ProgramsAreKept, TurnsAreKept, PTL
=============================================================================
