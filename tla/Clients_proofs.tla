-------------------------- MODULE Clients_proofs ---------------------------
(***************************************************************************)
(* Proofs about HttpClientPool, for every finite set of items, every set   *)
(* of workers and every buffer; and about AsyncCrawler, for every number   *)
(* of tasks, every assignment of domains, and every pair of limits.        *)
(***************************************************************************)
EXTENDS HttpClientPool, AsyncCrawler, FiniteSetTheorems, SequenceTheorems, TLAPS

-----------------------------------------------------------------------------
(***************************************************************************)
(* HttpClientPool.                                                         *)
(***************************************************************************)
LEMMA OutstandingIsFinite == IsFiniteSet(Outstanding) /\ Cardinality(Outstanding) \in Nat
  BY ItemAssumption, FS_Subset, FS_CardinalityType DEF Outstanding

\* The set of outstanding items grows, shrinks or stays with one item.
LEMMA OneMore ==
    ASSUME NEW S, IsFiniteSet(S), NEW T, NEW i, i \notin S, T = S \cup {i}
    PROVE  Cardinality(T) = Cardinality(S) + 1
  BY FS_AddElement

LEMMA OneLess ==
    ASSUME NEW S, IsFiniteSet(S), NEW T, NEW i \in S, T = S \ {i}
    PROVE  Cardinality(T) = Cardinality(S) - 1
  BY FS_RemoveElement

\* The parts of OnePlace about the channel and about the workers.
InChannel ==
    /\ \A i \in Item : submit[i] = "queued" <=> \E k \in 1 .. Len(itemch) : itemch[k] = i
    /\ \A k, l \in 1 .. Len(itemch) : itemch[k] = itemch[l] => k = l

AtWorkers ==
    /\ \A i \in Item : submit[i] = "running" <=> \E w \in Worker : i \in running[w]
    /\ \A w \in Worker : \A i, j \in running[w] : i = j
    /\ \A v, w \in Worker : running[v] \cap running[w] # {} => v = w

LEMMA Parts == OnePlace <=> InChannel /\ AtWorkers
  BY DEF OnePlace, InChannel, AtWorkers

LEMMA InitHolds == Init => IInv
  <1> SUFFICES ASSUME Init PROVE IInv
    OBVIOUS
  <1>1. TypeOK
    <2>1. itemch \in Seq(Item)
      BY DEF Init
    <2>2. running \in [Worker -> SUBSET Item] /\ worker \in [Worker -> {"none", "started", "exit"}]
      BY DEF Init
    <2> QED
      BY <2>1, <2>2 DEF Init, TypeOK
  <1>2. PendingCounts
    <2>1. Outstanding = {}
      BY DEF Init, Outstanding
    <2> QED
      BY <2>1, FS_EmptySet DEF Init, PendingCounts
  <1>3. InChannel
    <2>1. 1 .. Len(itemch) = {}
      BY DEF Init
    <2> QED
      BY <2>1 DEF Init, InChannel
  <1>4. AtWorkers /\ QuietAfterStop
    BY DEF Init, AtWorkers, QuietAfterStop
  <1> QED
    BY <1>1, <1>2, <1>3, <1>4, Parts DEF IInv

\* A step that leaves the items alone.
LEMMA ItemsUntouched ==
    ASSUME IInv, TypeOK', UNCHANGED <<submit, itemch, running, pendingItemsWg>>, QuietAfterStop'
    PROVE  IInv'
  BY DEF IInv, PendingCounts, Outstanding, OnePlace

LEMMA SubmitStep == ASSUME IInv, NEW i \in Item, Submit(i) PROVE IInv'
  <1>1. TypeOK'
    BY DEF IInv, TypeOK, Submit
  <1>2. PendingCounts'
    <2>1. Outstanding' = Outstanding \cup {i} /\ i \notin Outstanding
      BY DEF IInv, TypeOK, Submit, Outstanding
    <2> QED
      BY <2>1, OutstandingIsFinite, OneMore DEF IInv, PendingCounts, Submit
  <1>3. OnePlace' /\ QuietAfterStop'
    BY DEF IInv, TypeOK, Submit, OnePlace, QuietAfterStop
  <1> QED
    BY <1>1, <1>2, <1>3 DEF IInv

LEMMA SendStep == ASSUME IInv, NEW i \in Item, Send(i) PROVE IInv'
  <1>1. /\ submit' = [submit EXCEPT ![i] = "queued"] /\ submit[i] = "sending"
        /\ submit \in [Item -> {"new", "sending", "queued", "running", "done"}]
        /\ itemch' = Append(itemch, i) /\ itemch \in Seq(Item)
    BY DEF IInv, TypeOK, Send
  <1>2. TypeOK'
    BY <1>1 DEF IInv, TypeOK, Send
  <1>3. PendingCounts'
    <2>1. Outstanding' = Outstanding
      BY <1>1 DEF Outstanding
    <2> QED
      BY <2>1 DEF IInv, PendingCounts, Send
  <1>4. InChannel'
    <2>1. /\ Len(itemch') = Len(itemch) + 1 /\ Len(itemch) \in Nat
          /\ \A k \in 1 .. Len(itemch) : itemch'[k] = itemch[k]
          /\ itemch'[Len(itemch) + 1] = i
      BY <1>1
    <2>2. \A k \in 1 .. Len(itemch) : itemch[k] # i /\ itemch[k] \in Item
      BY <1>1, Parts DEF IInv, InChannel
    <2>3. ASSUME NEW j \in Item
          PROVE  submit'[j] = "queued" <=> \E k \in 1 .. Len(itemch') : itemch'[k] = j
      <3>1. CASE j = i
        BY <1>1, <2>1, <3>1
      <3>2. CASE j # i
        <4>1. submit'[j] = submit[j]
          BY <1>1, <3>2
        <4>2. (\E k \in 1 .. Len(itemch') : itemch'[k] = j) <=> \E k \in 1 .. Len(itemch) : itemch[k] = j
          BY <2>1, <3>2
        <4> QED
          BY <4>1, <4>2, Parts DEF IInv, InChannel
      <3> QED
        BY <3>1, <3>2
    <2>4. \A k, l \in 1 .. Len(itemch') : itemch'[k] = itemch'[l] => k = l
      <3>1. \A k, l \in 1 .. Len(itemch) : itemch[k] = itemch[l] => k = l
        BY Parts DEF IInv, InChannel
      <3> QED
        BY <2>1, <2>2, <3>1
    <2> QED
      BY <2>3, <2>4 DEF InChannel
  <1>5. AtWorkers' /\ QuietAfterStop'
    BY <1>1, Parts DEF IInv, AtWorkers, QuietAfterStop, Send
  <1> QED
    BY <1>2, <1>3, <1>4, <1>5, Parts DEF IInv, OnePlace, InChannel, AtWorkers

\* An item that a selecting worker is given is called by that worker alone.
LEMMA GivenToWorker ==
    ASSUME IInv, NEW w \in Worker, Selecting(w), NEW i \in Item, submit[i] = "queued",
           running' = [running EXCEPT ![w] = {i}],
           submit' = [submit EXCEPT ![i] = "running"],
           UNCHANGED <<worker, pendingItemsWg, stopper>>
    PROVE  AtWorkers' /\ QuietAfterStop' /\ PendingCounts'
           /\ submit' \in [Item -> {"new", "sending", "queued", "running", "done"}]
           /\ running' \in [Worker -> SUBSET Item]
  <1>1. /\ submit \in [Item -> {"new", "sending", "queued", "running", "done"}]
        /\ running \in [Worker -> SUBSET Item]
        /\ AtWorkers
    BY Parts DEF IInv, TypeOK
  <1>2. /\ running'[w] = {i}
        /\ \A v \in Worker : v # w => running'[v] = running[v]
        /\ submit'[i] = "running"
        /\ \A j \in Item : j # i => submit'[j] = submit[j]
    BY <1>1
  <1>3. \A v \in Worker : i \notin running[v]
    BY <1>1 DEF AtWorkers
  <1>4. AtWorkers'
    <2>1. ASSUME NEW j \in Item PROVE submit'[j] = "running" <=> \E v \in Worker : j \in running'[v]
      <3>1. CASE j = i
        BY <1>2, <3>1
      <3>2. CASE j # i
        BY <1>1, <1>2, <3>2 DEF AtWorkers, Selecting
      <3> QED
        BY <3>1, <3>2
    <2>2. \A v \in Worker : \A j, k \in running'[v] : j = k
      BY <1>1, <1>2 DEF AtWorkers
    <2>3. \A u, v \in Worker : running'[u] \cap running'[v] # {} => u = v
      BY <1>1, <1>2, <1>3 DEF AtWorkers
    <2> QED
      BY <2>1, <2>2, <2>3 DEF AtWorkers
  <1>5. PendingCounts'
    <2>1. Outstanding' = Outstanding
      BY <1>1, <1>2 DEF Outstanding
    <2> QED
      BY <2>1 DEF IInv, PendingCounts
  <1>6. QuietAfterStop'
    BY <1>2 DEF IInv, QuietAfterStop, Selecting
  <1> QED
    BY <1>1, <1>4, <1>5, <1>6

LEMMA ReceiveStep == ASSUME IInv, NEW w \in Worker, Receive(w) PROVE IInv'
  <1> DEFINE i == Head(itemch)
  <1>1. /\ itemch \in Seq(Item) /\ itemch # <<>> /\ itemch' = Tail(itemch)
        /\ Len(itemch) \in Nat \ {0} /\ itemch[1] = i /\ i \in Item
    BY DEF IInv, TypeOK, Receive
  <1>2. /\ Len(itemch') = Len(itemch) - 1
        /\ \A k \in 1 .. Len(itemch') : itemch'[k] = itemch[k + 1]
        /\ itemch' \in Seq(Item)
    BY <1>1
  <1>3. submit[i] = "queued"
    BY <1>1, Parts DEF IInv, InChannel
  <1>4. AtWorkers' /\ QuietAfterStop' /\ PendingCounts'
        /\ submit' \in [Item -> {"new", "sending", "queued", "running", "done"}]
        /\ running' \in [Worker -> SUBSET Item]
    BY <1>1, <1>3, GivenToWorker DEF Receive
  <1>5. TypeOK'
    BY <1>2, <1>4 DEF IInv, TypeOK, Receive
  <1>6. InChannel'
    <2>1. /\ \A k, l \in 1 .. Len(itemch) : itemch[k] = itemch[l] => k = l
          /\ \A j \in Item : submit[j] = "queued" <=> \E k \in 1 .. Len(itemch) : itemch[k] = j
      BY Parts DEF IInv, InChannel
    <2>2. \A k, l \in 1 .. Len(itemch') : itemch'[k] = itemch'[l] => k = l
      BY <1>1, <1>2, <2>1
    <2>3. ASSUME NEW j \in Item
          PROVE  submit'[j] = "queued" <=> \E k \in 1 .. Len(itemch') : itemch'[k] = j
      <3>1. CASE j = i
        <4>1. submit'[j] = "running"
          BY <1>1, <3>1 DEF IInv, TypeOK, Receive
        <4>2. \A k \in 1 .. Len(itemch') : itemch'[k] # j
          BY <1>1, <1>2, <2>1, <3>1
        <4> QED
          BY <4>1, <4>2
      <3>2. CASE j # i
        <4>1. submit'[j] = submit[j]
          BY <3>2 DEF IInv, TypeOK, Receive
        <4>2. ASSUME NEW k \in 1 .. Len(itemch), itemch[k] = j
              PROVE  k - 1 \in 1 .. Len(itemch') /\ itemch'[k - 1] = j
          BY <1>1, <1>2, <3>2, <4>2
        <4>3. ASSUME NEW k \in 1 .. Len(itemch'), itemch'[k] = j
              PROVE  k + 1 \in 1 .. Len(itemch) /\ itemch[k + 1] = j
          BY <1>1, <1>2, <4>3
        <4> QED
          BY <2>1, <4>1, <4>2, <4>3
      <3> QED
        BY <3>1, <3>2
    <2> QED
      BY <2>2, <2>3 DEF InChannel
  <1> QED
    BY <1>4, <1>5, <1>6, Parts DEF IInv, OnePlace, InChannel, AtWorkers

LEMMA FinishStep == ASSUME IInv, NEW w \in Worker, NEW i \in Item, Finish(w, i) PROVE IInv'
  <1>1. /\ submit \in [Item -> {"new", "sending", "queued", "running", "done"}]
        /\ running \in [Worker -> SUBSET Item]
        /\ AtWorkers /\ i \in running[w] /\ submit[i] = "running"
    BY Parts DEF IInv, TypeOK, Finish, AtWorkers
  <1>2. /\ running'[w] = {}
        /\ \A v \in Worker : v # w => running'[v] = running[v]
        /\ submit'[i] = "done"
        /\ \A j \in Item : j # i => submit'[j] = submit[j]
    BY <1>1 DEF Finish
  <1>3. PendingCounts' /\ pendingItemsWg' \in Nat
    <2>1. Outstanding' = Outstanding \ {i} /\ i \in Outstanding
      BY <1>1, <1>2 DEF Outstanding
    <2>2. Cardinality(Outstanding') = Cardinality(Outstanding) - 1
      BY <2>1, OutstandingIsFinite, OneLess
    <2>3. Cardinality(Outstanding') \in Nat
      BY <2>1, OutstandingIsFinite, FS_Subset, FS_CardinalityType
    <2> QED
      BY <2>2, <2>3 DEF IInv, PendingCounts, Finish
  <1>4. TypeOK'
    BY <1>3 DEF IInv, TypeOK, Finish
  <1>5. AtWorkers'
    <2>1. ASSUME NEW j \in Item PROVE submit'[j] = "running" <=> \E v \in Worker : j \in running'[v]
      <3>1. CASE j = i
        <4>1. \A v \in Worker : j \notin running'[v]
          BY <1>1, <1>2, <3>1 DEF AtWorkers
        <4> QED
          BY <1>2, <3>1, <4>1
      <3>2. CASE j # i
        <4>1. j \notin running[w]
          BY <1>1, <3>2 DEF AtWorkers
        <4> QED
          BY <1>1, <1>2, <3>2, <4>1 DEF AtWorkers
      <3> QED
        BY <3>1, <3>2
    <2>2. /\ \A v \in Worker : \A j, k \in running'[v] : j = k
          /\ \A u, v \in Worker : running'[u] \cap running'[v] # {} => u = v
      BY <1>1, <1>2 DEF AtWorkers
    <2> QED
      BY <2>1, <2>2 DEF AtWorkers
  <1>6. InChannel'
    <2>1. \A j \in Item : submit'[j] = "queued" <=> submit[j] = "queued"
      BY <1>1, <1>2
    <2> QED
      BY <2>1, Parts DEF IInv, InChannel, Finish
  <1>7. QuietAfterStop'
    BY <1>2 DEF IInv, QuietAfterStop, Finish
  <1> QED
    BY <1>3, <1>4, <1>5, <1>6, <1>7 DEF IInv, OnePlace, InChannel, AtWorkers

LEMMA StepPreserves == IInv /\ [Next]_vars => IInv'
  <1> SUFFICES ASSUME IInv, [Next]_vars PROVE IInv'
    OBVIOUS
  <1>1. CASE Start
    <2>1. TypeOK' /\ QuietAfterStop'
      BY <1>1 DEF IInv, TypeOK, QuietAfterStop, Start
    <2> QED
      BY <1>1, <2>1, ItemsUntouched DEF Start
  <1>2. CASE Wait \/ WaitReturns
    <2>1. TypeOK' /\ QuietAfterStop'
      BY <1>2 DEF IInv, TypeOK, QuietAfterStop, Wait, WaitReturns
    <2> QED
      BY <1>2, <2>1, ItemsUntouched DEF Wait, WaitReturns
  <1>3. CASE Stop \/ StopReturns
    <2>1. TypeOK' /\ QuietAfterStop'
      BY <1>3 DEF IInv, TypeOK, QuietAfterStop, Stop, StopReturns
    <2> QED
      BY <1>3, <2>1, ItemsUntouched DEF Stop, StopReturns
  <1>4. ASSUME NEW i \in Item, Submit(i) \/ Send(i) PROVE IInv'
    BY <1>4, SubmitStep, SendStep
  <1>5. ASSUME NEW w \in Worker, WorkerStep(w) PROVE IInv'
    <2>1. CASE WorkerStops(w)
      <3>1. TypeOK' /\ QuietAfterStop'
        BY <2>1 DEF IInv, TypeOK, QuietAfterStop, WorkerStops, Selecting
      <3> QED
        BY <2>1, <3>1, ItemsUntouched DEF WorkerStops
    <2> QED
      BY <1>5, <2>1, ReceiveStep, FinishStep DEF WorkerStep
  <1>6. CASE UNCHANGED vars
    BY <1>6, ItemsUntouched DEF vars, IInv, TypeOK, QuietAfterStop
  <1> QED
    BY <1>1, <1>2, <1>3, <1>4, <1>5, <1>6 DEF Next

(***************************************************************************)
(* The invariant holds for every pool.                                     *)
(***************************************************************************)
THEOREM Invariant == Spec => []IInv
  BY InitHolds, StepPreserves, PTL DEF Spec

\* The counter of the WaitGroup is the number of outstanding items, never less
\* than zero.
THEOREM CounterIsExact == Spec => [](TypeOK /\ PendingCounts)
  BY Invariant, PTL DEF IInv

\* No item is in two places, so none is called twice.
THEOREM CalledOnce == Spec => []OnePlace
  BY Invariant, PTL DEF IInv

\* Once Stop has returned no worker calls anything.
THEOREM StopIsFinal == Spec => []QuietAfterStop
  BY Invariant, PTL DEF IInv

\* WaitForPendingItems returns only when everything handed in was processed:
\* the counter is zero, so no item is outstanding.
THEOREM WaitIsHonest == Spec => WaitMeansProcessed
  <1>1. IInv /\ [Next]_vars =>
            [waiter = "waiting" /\ waiter' = "returned" =>
               \A i \in Item : submit[i] \in {"new", "done"}]_vars
    <2> SUFFICES ASSUME IInv, Next, waiter = "waiting", waiter' = "returned", NEW i \in Item
                 PROVE  submit[i] \in {"new", "done"}
      OBVIOUS
    <2>1. pendingItemsWg = 0
      BY DEF Next, Start, Wait, WaitReturns, Stop, StopReturns, Submit, Send,
             WorkerStep, Receive, WorkerStops, Finish
    <2>2. Outstanding = {}
      BY <2>1, OutstandingIsFinite, FS_EmptySet DEF IInv, PendingCounts
    <2> QED
      BY <2>2 DEF Outstanding, IInv, TypeOK
  <1> QED
    BY <1>1, Invariant, PTL DEF Spec, WaitMeansProcessed

-----------------------------------------------------------------------------
(***************************************************************************)
(* AsyncCrawler.                                                           *)
(***************************************************************************)
Active == At({"pending", "completed", "done"})

LEMMA TasksAreFinite ==
    ASSUME NEW S \in SUBSET Task
    PROVE  IsFiniteSet(S) /\ Cardinality(S) \in Nat
  <1>1. IsFiniteSet(Task)
    BY CrawlerAssumption, FS_Interval DEF Task
  <1>2. IsFiniteSet(S)
    BY <1>1, FS_Subset
  <1> QED
    BY <1>2, FS_CardinalityType

LEMMA OneMoreTask ==
    ASSUME NEW S \in SUBSET Task, NEW t \in Task \ S
    PROVE  Cardinality(S \cup {t}) = Cardinality(S) + 1
  BY TasksAreFinite, FS_AddElement

LEMMA OneLessTask ==
    ASSUME NEW S \in SUBSET Task, NEW t \in S
    PROVE  Cardinality(S \ {t}) = Cardinality(S) - 1
  BY TasksAreFinite, FS_RemoveElement

\* One task of a set is exchanged for another.
LEMMA OneForAnother ==
    ASSUME NEW S \in SUBSET Task, NEW t \in S, NEW u \in Task \ S
    PROVE  Cardinality((S \ {t}) \cup {u}) = Cardinality(S)
  <1>1. Cardinality(S \ {t}) = Cardinality(S) - 1
    BY OneLessTask
  <1>2. Cardinality((S \ {t}) \cup {u}) = Cardinality(S \ {t}) + 1
    BY OneMoreTask
  <1> QED
    BY <1>1, <1>2, TasksAreFinite

LEMMA SetsOfTasks == Active \in SUBSET Task /\ \A d \in Domain : Charged(d) \in SUBSET Task
  BY DEF Active, At, Charged

LEMMA QueueElements ==
    ASSUME CrawlerTypeOK, QueuesAreOrdered, NEW d \in Domain, NEW k \in 1 .. Len(domain_queues[d])
    PROVE  /\ domain_queues[d][k] \in Task
           /\ place[domain_queues[d][k]] = "queued" /\ domain[domain_queues[d][k]] = d
  <1>1. domain_queues[d] \in Seq(Task)
    BY DEF CrawlerTypeOK
  <1> QED
    BY <1>1, ElementOfSeq DEF QueuesAreOrdered

LEMMA CrawlerInitHolds == CrawlerInit => CrawlerInv
  <1> SUFFICES ASSUME CrawlerInit PROVE CrawlerInv
    OBVIOUS
  <1>1. CrawlerTypeOK
    BY CrawlerAssumption DEF CrawlerInit, CrawlerTypeOK, Place
  <1>2. QuotaInv
    <2>1. Active = {} /\ \A d \in Domain : Charged(d) = {}
      BY DEF CrawlerInit, Active, At, Charged
    <2>2. Cardinality(Active) = 0 /\ \A d \in Domain : Cardinality(Charged(d)) = 0
      BY <2>1, FS_EmptySet
    <2>3. \A d \in Domain : pending_tasks_per_domain[d] = 0
      BY DEF CrawlerInit
    <2> QED
      BY <2>2, <2>3, CrawlerAssumption DEF QuotaInv, Active
  <1>3. DelayedAtLimit /\ StartedInOrder /\ IteratorIsBehind /\ DoneIsEmptied
    BY DEF CrawlerInit, DelayedAtLimit, StartedInOrder, IteratorIsBehind, DoneIsEmptied, At
  <1>4. QueuesAreOrdered
    BY DEF CrawlerInit, QueuesAreOrdered
  <1> QED
    BY <1>1, <1>2, <1>3, <1>4 DEF CrawlerInv, QuotaKept

\* A step that charges nobody and takes nothing off the list of what is active.
LEMMA SameCharges ==
    ASSUME CrawlerInv, pending_tasks_per_domain' = pending_tasks_per_domain,
           \A d \in Domain : Charged(d)' = Charged(d), Active' \subseteq Active
    PROVE  QuotaInv'
  <1>1. Cardinality(Active') <= Cardinality(Active) /\ Cardinality(Active') \in Nat
    BY SetsOfTasks, TasksAreFinite, FS_Subset
  <1> QED
    BY <1>1, SetsOfTasks, TasksAreFinite, CrawlerAssumption DEF CrawlerInv, QuotaKept, QuotaInv, Active

LEMMA DelayStep == ASSUME CrawlerInv, NEW t \in Task, Delay(t) PROVE CrawlerInv'
  <1> DEFINE d == domain[t]
             q == domain_queues[d]
  <1>1. /\ CrawlerTypeOK /\ QuotaInv /\ DelayedAtLimit /\ StartedInOrder
        /\ QueuesAreOrdered /\ IteratorIsBehind /\ DoneIsEmptied
    BY DEF CrawlerInv, QuotaKept
  <1>2. /\ place' = [place EXCEPT ![t] = "queued"]
        /\ domain_queues' = [domain_queues EXCEPT ![d] = Append(q, t)]
        /\ UNCHANGED <<domain, pending_tasks_per_domain, generator, abandons>>
        /\ place[t] = "iterator" /\ generator = "populate"
        /\ \A u \in Task : u < t => place[u] # "iterator"
        /\ AtLimit(d)
    BY DEF Delay, Fetches
  <1>3. d \in Domain /\ q \in Seq(Task)
    BY <1>1 DEF CrawlerTypeOK
  <1>4. /\ Append(q, t) \in Seq(Task) /\ Len(q) \in Nat /\ Len(Append(q, t)) = Len(q) + 1
        /\ \A k \in 1 .. Len(q) : Append(q, t)[k] = q[k]
        /\ Append(q, t)[Len(q) + 1] = t
    BY <1>3, AppendProperties, LenProperties
  <1>5. CrawlerTypeOK'
    BY <1>1, <1>2, <1>3, <1>4 DEF CrawlerTypeOK, Place
  <1>6. QuotaInv'
    <2>1. \A e \in Domain : Charged(e)' = Charged(e)
      BY <1>1, <1>2 DEF CrawlerTypeOK, Charged
    <2>2. Active' = Active
      BY <1>1, <1>2 DEF CrawlerTypeOK, Active, At
    <2> QED
      BY <1>2, <2>1, <2>2, SameCharges
  <1>7. DelayedAtLimit'
    <2>1. pending_tasks_per_domain[d] = MaxPendingPerDomain
      BY <1>1, <1>2, <1>3, CrawlerAssumption DEF AtLimit, QuotaInv, CrawlerTypeOK
    <2> QED
      BY <1>1, <1>2, <1>3, <2>1 DEF DelayedAtLimit, CrawlerTypeOK
  <1>8. StartedInOrder'
    BY <1>1, <1>2 DEF StartedInOrder, CrawlerTypeOK
  <1>9. QueuesAreOrdered'
    <2>0. domain_queues'[d] = Append(q, t)
      BY <1>1, <1>2, <1>3 DEF CrawlerTypeOK
    <2>1. \A k \in 1 .. Len(q) : q[k] \in Task /\ place[q[k]] = "queued" /\ domain[q[k]] = d
      BY <1>1, <1>3 DEF QueuesAreOrdered
    <2>2. \A k \in 1 .. Len(q) : q[k] < t
      <3> SUFFICES ASSUME NEW k \in 1 .. Len(q), ~(q[k] < t) PROVE FALSE
        OBVIOUS
      <3>1. t < q[k]
        BY <2>1, <1>2 DEF Task
      <3> QED
        BY <3>1, <2>1, <1>1, <1>2 DEF IteratorIsBehind
    <2>3. ASSUME NEW e \in Domain, NEW k \in 1 .. Len(domain_queues'[e])
          PROVE  place'[domain_queues'[e][k]] = "queued" /\ domain'[domain_queues'[e][k]] = e
      <3>1. CASE e = d
        <4>1. CASE k = Len(q) + 1
          BY <1>1, <1>2, <1>4, <2>0, <3>1, <4>1 DEF CrawlerTypeOK
        <4>2. CASE k \in 1 .. Len(q)
          BY <1>1, <1>2, <1>4, <2>0, <2>1, <3>1, <4>2 DEF CrawlerTypeOK
        <4> QED
          BY <1>4, <2>0, <3>1, <4>1, <4>2
      <3>2. CASE e # d
        BY <1>1, <1>2, <3>2 DEF CrawlerTypeOK, QueuesAreOrdered
      <3> QED
        BY <3>1, <3>2
    <2>4. ASSUME NEW e \in Domain, NEW k \in 1 .. Len(domain_queues'[e]),
                 NEW l \in 1 .. Len(domain_queues'[e]), k < l
          PROVE  domain_queues'[e][k] < domain_queues'[e][l]
      <3>1. CASE e = d
        <4>1. CASE l = Len(q) + 1
          BY <1>4, <2>0, <2>2, <2>4, <3>1, <4>1
        <4>2. CASE l \in 1 .. Len(q)
          <5>1. q[k] < q[l] /\ k \in 1 .. Len(q)
            BY <1>1, <1>3, <1>4, <2>0, <2>4, <3>1, <4>2 DEF QueuesAreOrdered
          <5> QED
            BY <1>4, <2>0, <3>1, <4>2, <5>1
        <4> QED
          BY <1>4, <2>0, <3>1, <4>1, <4>2
      <3>2. CASE e # d
        BY <1>1, <1>2, <2>4, <3>2 DEF CrawlerTypeOK, QueuesAreOrdered
      <3> QED
        BY <3>1, <3>2
    <2>5. ASSUME NEW u \in Task, place'[u] = "queued"
          PROVE  \E k \in 1 .. Len(domain_queues'[domain'[u]]) : domain_queues'[domain'[u]][k] = u
      <3>1. CASE u = t
        BY <1>1, <1>2, <1>3, <1>4, <3>1 DEF CrawlerTypeOK
      <3>2. CASE u # t
        <4>1. PICK k \in 1 .. Len(domain_queues[domain[u]]) : domain_queues[domain[u]][k] = u
          BY <1>1, <1>2, <2>5, <3>2 DEF CrawlerTypeOK, QueuesAreOrdered
        <4>2. k \in 1 .. Len(domain_queues'[domain'[u]]) /\ domain_queues'[domain'[u]][k] = u
          BY <1>1, <1>2, <1>3, <1>4, <4>1 DEF CrawlerTypeOK
        <4> QED
          BY <4>2
      <3> QED
        BY <3>1, <3>2
    <2> QED
      BY <2>3, <2>4, <2>5 DEF QueuesAreOrdered
  <1>10. IteratorIsBehind' /\ DoneIsEmptied'
    BY <1>1, <1>2 DEF IteratorIsBehind, DoneIsEmptied, At, CrawlerTypeOK, Task
  <1> QED
    BY <1>5, <1>6, <1>7, <1>8, <1>9, <1>10 DEF CrawlerInv, QuotaKept

LEMMA StartCrawlStep == ASSUME CrawlerInv, NEW t \in Task, StartCrawl(t) PROVE CrawlerInv'
  <1> DEFINE d == domain[t]
  <1>1. /\ CrawlerTypeOK /\ QuotaInv /\ DelayedAtLimit /\ StartedInOrder
        /\ QueuesAreOrdered /\ IteratorIsBehind /\ DoneIsEmptied
    BY DEF CrawlerInv, QuotaKept
  <1>2. /\ place' = [place EXCEPT ![t] = "pending"]
        /\ pending_tasks_per_domain' = [pending_tasks_per_domain EXCEPT ![d] = @ + 1]
        /\ UNCHANGED <<domain, domain_queues, generator, abandons>>
        /\ place[t] = "iterator" /\ generator = "populate"
        /\ \A u \in Task : u < t => place[u] # "iterator"
        /\ ~AtLimit(d) /\ Cardinality(Pending) < MaxPending
    BY DEF StartCrawl, Fetches
  <1>3. d \in Domain /\ pending_tasks_per_domain[d] \in Nat
    BY <1>1 DEF CrawlerTypeOK
  <1>4. CrawlerTypeOK'
    BY <1>1, <1>2, <1>3 DEF CrawlerTypeOK, Place
  <1>5. QuotaInv'
    <2>1. \A e \in Domain : Charged(e)' = IF e = d THEN Charged(e) \cup {t} ELSE Charged(e)
      BY <1>1, <1>2 DEF CrawlerTypeOK, Charged
    <2>2. \A e \in Domain : t \notin Charged(e)
      BY <1>2 DEF Charged
    <2>3. \A e \in Domain : Cardinality(Charged(e)') = Cardinality(Charged(e)) + IF e = d THEN 1 ELSE 0
      BY <2>1, <2>2, SetsOfTasks, TasksAreFinite, OneMoreTask
    <2>4. Active' = Active \cup {t} /\ t \notin Active /\ Active = Pending
      BY <1>1, <1>2 DEF CrawlerTypeOK, Active, At, Pending, DoneIsEmptied
    <2>5. Cardinality(Active') <= MaxPending
      BY <1>2, <2>4, OneMoreTask, SetsOfTasks, TasksAreFinite, CrawlerAssumption
    <2>6. pending_tasks_per_domain[d] + 1 <= MaxPendingPerDomain
      BY <1>2, <1>3, CrawlerAssumption DEF AtLimit
    <2>7. ASSUME NEW e \in Domain
          PROVE  /\ pending_tasks_per_domain'[e] = Cardinality(Charged(e)')
                 /\ pending_tasks_per_domain'[e] <= MaxPendingPerDomain
      BY <1>1, <1>2, <1>3, <2>3, <2>6 DEF QuotaInv, CrawlerTypeOK
    <2> QED
      BY <2>5, <2>7 DEF QuotaInv, Active
  <1>6. domain_queues[d] = <<>>
    BY <1>1, <1>2, <1>3, CrawlerAssumption DEF DelayedAtLimit, AtLimit
  <1>7. DelayedAtLimit'
    BY <1>1, <1>2, <1>3, <1>6 DEF DelayedAtLimit, CrawlerTypeOK
  <1>8. StartedInOrder'
    <2> SUFFICES ASSUME NEW u \in Task, NEW v \in Task, u < v, domain[u] = domain[v],
                        place'[v] \notin {"iterator", "queued"}
                 PROVE  place'[u] \notin {"iterator", "queued"}
      BY <1>2 DEF StartedInOrder
    <2>1. CASE v = t
      <3>1. place[u] # "iterator" /\ u # t
        BY <1>2, <2>1 DEF Task
      <3>2. place[u] # "queued"
        <4> SUFFICES ASSUME place[u] = "queued" PROVE FALSE
          OBVIOUS
        <4>1. PICK k \in 1 .. Len(domain_queues[domain[u]]) : domain_queues[domain[u]][k] = u
          BY <1>1 DEF QueuesAreOrdered
        <4> QED
          BY <4>1, <1>6, <2>1
      <3> QED
        BY <1>1, <1>2, <3>1, <3>2 DEF CrawlerTypeOK
    <2>2. CASE v # t
      BY <1>1, <1>2, <2>2 DEF StartedInOrder, CrawlerTypeOK
    <2> QED
      BY <2>1, <2>2
  <1>9. QueuesAreOrdered'
    <2>1. ASSUME NEW e \in Domain, NEW k \in 1 .. Len(domain_queues[e])
          PROVE  place'[domain_queues[e][k]] = "queued"
      <3>1. domain_queues[e][k] \in Task /\ place[domain_queues[e][k]] = "queued"
        BY <1>1, QueueElements
      <3> QED
        BY <3>1, <1>1, <1>2 DEF CrawlerTypeOK
    <2> QED
      BY <1>1, <1>2, <2>1 DEF QueuesAreOrdered, CrawlerTypeOK
  <1>10. IteratorIsBehind' /\ DoneIsEmptied'
    BY <1>1, <1>2 DEF IteratorIsBehind, DoneIsEmptied, At, CrawlerTypeOK, Task
  <1> QED
    BY <1>4, <1>5, <1>7, <1>8, <1>9, <1>10 DEF CrawlerInv, QuotaKept

\* A step that neither delays nor starts a task, and charges nobody: a crawl goes on.
LEMMA CrawlsGoOn ==
    ASSUME CrawlerInv, CrawlerTypeOK', DoneIsEmptied',
           UNCHANGED <<domain, domain_queues, pending_tasks_per_domain>>,
           \A t \in Task : place'[t] = place[t] \/
                           /\ place[t] \in {"pending", "completed", "done"}
                           /\ place'[t] \in {"completed", "done", "lost"}
    PROVE  CrawlerInv'
  <1>1. /\ CrawlerTypeOK /\ QuotaInv /\ DelayedAtLimit /\ StartedInOrder
        /\ QueuesAreOrdered /\ IteratorIsBehind
    BY DEF CrawlerInv, QuotaKept
  <1>2. QuotaInv'
    <2>1. \A d \in Domain : Charged(d)' = Charged(d)
      BY DEF Charged
    <2>2. Active' \subseteq Active
      BY DEF Active, At
    <2> QED
      BY <2>1, <2>2, SameCharges
  <1>3. DelayedAtLimit' /\ StartedInOrder' /\ IteratorIsBehind'
    BY <1>1 DEF DelayedAtLimit, StartedInOrder, IteratorIsBehind
  <1>4. QueuesAreOrdered'
    <2>1. ASSUME NEW d \in Domain, NEW k \in 1 .. Len(domain_queues[d])
          PROVE  place'[domain_queues[d][k]] = "queued"
      <3>1. domain_queues[d][k] \in Task /\ place[domain_queues[d][k]] = "queued"
        BY <1>1, QueueElements
      <3> QED
        BY <3>1
    <2> QED
      BY <1>1, <2>1 DEF QueuesAreOrdered
  <1> QED
    BY <1>2, <1>3, <1>4 DEF CrawlerInv, QuotaKept

LEMMA CompletionStep == ASSUME CrawlerInv, NEW t \in Task, CrawlCompletes(t) PROVE CrawlerInv'
  <1>1. CrawlerTypeOK /\ DoneIsEmptied
    BY DEF CrawlerInv, QuotaKept
  <1>2. CrawlerTypeOK'
    BY <1>1 DEF CrawlCompletes, CrawlerTypeOK, Place
  <1>3. DoneIsEmptied'
    BY <1>1 DEF CrawlCompletes, CrawlerTypeOK, DoneIsEmptied, At
  <1>4. \A u \in Task : place'[u] = place[u] \/ (place[u] = "pending" /\ place'[u] = "completed")
    BY <1>1 DEF CrawlCompletes, CrawlerTypeOK
  <1> QED
    BY <1>2, <1>3, <1>4, CrawlsGoOn DEF CrawlCompletes

LEMMA WaitStep == ASSUME CrawlerInv, AsyncioWaitReturns PROVE CrawlerInv'
  <1>1. CrawlerTypeOK
    BY DEF CrawlerInv, QuotaKept
  <1>2. CrawlerTypeOK'
    BY <1>1 DEF AsyncioWaitReturns, CrawlerTypeOK, Place
  <1>3. DoneIsEmptied'
    BY DEF AsyncioWaitReturns, DoneIsEmptied
  <1>4. \A u \in Task : place'[u] = place[u] \/ (place[u] = "completed" /\ place'[u] = "done")
    BY DEF AsyncioWaitReturns
  <1> QED
    BY <1>2, <1>3, <1>4, CrawlsGoOn DEF AsyncioWaitReturns

LEMMA AbandonStep == ASSUME CrawlerInv, Abandon PROVE CrawlerInv'
  <1>1. CrawlerTypeOK
    BY DEF CrawlerInv, QuotaKept
  <1>2. CrawlerTypeOK'
    BY <1>1, CrawlerAssumption DEF Abandon, CrawlerTypeOK, Place
  <1>3. DoneIsEmptied'
    BY DEF Abandon, DoneIsEmptied, At
  <1>4. \A u \in Task : place'[u] = place[u] \/ (place[u] = "done" /\ place'[u] = "lost")
    BY DEF Abandon
  <1> QED
    BY <1>2, <1>3, <1>4, CrawlsGoOn DEF Abandon

\* The generator goes on and leaves the tasks alone.
LEMMA GeneratorStep ==
    ASSUME CrawlerInv, Populated \/ Resume \/ CrawlAgain PROVE CrawlerInv'
  <1>1. CrawlerTypeOK /\ DoneIsEmptied
    BY DEF CrawlerInv, QuotaKept
  <1>2. UNCHANGED <<domain, place, domain_queues, pending_tasks_per_domain, abandons>>
    BY DEF Populated, Resume, CrawlAgain
  <1>3. CrawlerTypeOK'
    BY <1>1, <1>2 DEF Populated, Resume, CrawlAgain, CrawlerTypeOK
  <1>4. DoneIsEmptied'
    BY <1>1, <1>2 DEF Populated, Resume, CrawlAgain, DoneIsEmptied, At
  <1> QED
    BY <1>2, <1>3, <1>4, CrawlsGoOn

\* Nobody of the domain waits: the result is yielded and its quota is free again.
LEMMA YieldAloneStep ==
    ASSUME CrawlerInv, NEW t \in Task, Yield(t), domain_queues[domain[t]] = <<>> PROVE CrawlerInv'
  <1>1. /\ CrawlerTypeOK /\ QuotaInv /\ DelayedAtLimit /\ StartedInOrder
        /\ QueuesAreOrdered /\ IteratorIsBehind /\ DoneIsEmptied
    BY DEF CrawlerInv, QuotaKept
  <1>0. PICK d \in Domain : d = domain[t]
    BY <1>1 DEF CrawlerTypeOK
  <1>2. /\ place' = [place EXCEPT ![t] = "yielded"]
        /\ pending_tasks_per_domain' = [pending_tasks_per_domain EXCEPT ![d] = @ - 1]
        /\ UNCHANGED <<domain, domain_queues, abandons>>
        /\ place[t] = "done" /\ generator' = "yield"
    BY <1>0 DEF Yield
  <1>3. pending_tasks_per_domain[d] \in Nat
    BY <1>1 DEF CrawlerTypeOK
  <1>4. \A e \in Domain : Charged(e)' = IF e = d THEN Charged(e) \ {t} ELSE Charged(e)
    BY <1>0, <1>1, <1>2 DEF CrawlerTypeOK, Charged
  <1>5. t \in Charged(d) /\ t \in Active /\ Active' = Active \ {t}
    BY <1>0, <1>1, <1>2 DEF Charged, Active, At, CrawlerTypeOK
  <1>6. Cardinality(Charged(d)') = Cardinality(Charged(d)) - 1
    BY <1>3, <1>4, <1>5, OneLessTask, SetsOfTasks
  <1>7. QuotaInv'
    <2>1. ASSUME NEW e \in Domain
          PROVE  /\ pending_tasks_per_domain'[e] = Cardinality(Charged(e)')
                 /\ pending_tasks_per_domain'[e] <= MaxPendingPerDomain
      <3>1. CASE e = d
        BY <1>1, <1>2, <1>3, <1>6, <3>1, CrawlerAssumption DEF QuotaInv, CrawlerTypeOK
      <3>2. CASE e # d
        BY <1>1, <1>2, <1>4, <3>2 DEF QuotaInv, CrawlerTypeOK
      <3> QED
        BY <3>1, <3>2
    <2>2. Cardinality(Active') <= MaxPending
      BY <1>1, <1>5, OneLessTask, SetsOfTasks, TasksAreFinite, CrawlerAssumption DEF QuotaInv, Active
    <2> QED
      BY <2>1, <2>2 DEF QuotaInv, Active
  <1>8. CrawlerTypeOK'
    <2>1. Cardinality(Charged(d)') \in Nat
      BY <1>3, <1>4, SetsOfTasks, TasksAreFinite
    <2>2. pending_tasks_per_domain[d] - 1 \in Nat
      BY <1>1, <1>3, <1>6, <2>1 DEF QuotaInv
    <2> QED
      BY <1>1, <1>2, <2>2 DEF CrawlerTypeOK, Place
  <1>9. DelayedAtLimit'
    BY <1>0, <1>1, <1>2 DEF DelayedAtLimit, CrawlerTypeOK
  <1>10. StartedInOrder' /\ IteratorIsBehind' /\ DoneIsEmptied'
    BY <1>1, <1>2 DEF StartedInOrder, IteratorIsBehind, DoneIsEmptied, CrawlerTypeOK
  <1>11. QueuesAreOrdered'
    <2>1. ASSUME NEW e \in Domain, NEW k \in 1 .. Len(domain_queues[e])
          PROVE  place'[domain_queues[e][k]] = "queued"
      <3>1. domain_queues[e][k] \in Task /\ place[domain_queues[e][k]] = "queued"
        BY <1>1, QueueElements
      <3> QED
        BY <3>1, <1>1, <1>2 DEF CrawlerTypeOK
    <2>2. ASSUME NEW u \in Task, place'[u] = "queued" PROVE place[u] = "queued"
      BY <1>1, <1>2, <2>2 DEF CrawlerTypeOK
    <2> QED
      BY <1>1, <1>2, <2>1, <2>2 DEF QueuesAreOrdered
  <1> QED
    BY <1>7, <1>8, <1>9, <1>10, <1>11 DEF CrawlerInv, QuotaKept

\* A delayed task of the domain takes over the quota.
LEMMA YieldHandsOverStep ==
    ASSUME CrawlerInv, NEW t \in Task, Yield(t), domain_queues[domain[t]] # <<>> PROVE CrawlerInv'
  <1> DEFINE d == domain[t]
             q == domain_queues[d]
             h == Head(q)
  <1>1. /\ CrawlerTypeOK /\ QuotaInv /\ DelayedAtLimit /\ StartedInOrder
        /\ QueuesAreOrdered /\ IteratorIsBehind /\ DoneIsEmptied
    BY DEF CrawlerInv, QuotaKept
  <1>2. d \in Domain /\ q \in Seq(Task)
    BY <1>1 DEF CrawlerTypeOK
  <1>3. /\ h \in Task /\ h = q[1] /\ Tail(q) \in Seq(Task)
        /\ Len(q) \in Nat \ {0} /\ Len(Tail(q)) = Len(q) - 1
        /\ \A k \in 1 .. Len(Tail(q)) : Tail(q)[k] = q[k + 1]
    BY <1>2, HeadTailProperties, EmptySeq
  <1>4. /\ place' = [place EXCEPT ![t] = "yielded", ![h] = "pending"]
        /\ domain_queues' = [domain_queues EXCEPT ![d] = Tail(q)]
        /\ UNCHANGED <<domain, pending_tasks_per_domain, abandons>>
        /\ place[t] = "done" /\ generator' = "yield"
    BY DEF Yield
  <1>5. place[h] = "queued" /\ domain[h] = d /\ h # t
    BY <1>1, <1>2, <1>3, <1>4 DEF QueuesAreOrdered
  <1> HIDE DEF h
  <1>6. /\ \A u \in Task : place'[u] = IF u = t THEN "yielded" ELSE IF u = h THEN "pending" ELSE place[u]
        /\ domain' = domain /\ place[t] = "done" /\ place[h] = "queued"
    BY <1>1, <1>4, <1>5 DEF CrawlerTypeOK
  <1>7. /\ domain_queues'[d] = Tail(q)
        /\ \A e \in Domain : e # d => domain_queues'[e] = domain_queues[e]
    BY <1>1, <1>2, <1>4 DEF CrawlerTypeOK
  <1>8. CrawlerTypeOK'
    BY <1>1, <1>3, <1>4, <1>5 DEF CrawlerTypeOK, Place
  <1>9. QuotaInv'
    <2>1. \A e \in Domain :
             Charged(e)' = IF e = d THEN (Charged(e) \ {t}) \cup {h} ELSE Charged(e)
      <3> SUFFICES ASSUME NEW e \in Domain, NEW u \in Task
                   PROVE  u \in Charged(e)' <=>
                             u \in IF e = d THEN (Charged(e) \ {t}) \cup {h} ELSE Charged(e)
        BY <1>3 DEF Charged
      <3>1. CASE u = t
        <4>1. u \notin Charged(e)' /\ u \notin (Charged(e) \ {t}) \cup {h}
          BY <1>5, <1>6, <3>1 DEF Charged
        <4>2. e # d => u \notin Charged(e)
          BY <3>1 DEF Charged
        <4> QED
          BY <4>1, <4>2
      <3>2. CASE u = h
        <4>1. u \in Charged(e)' <=> e = d
          BY <1>5, <1>6, <3>2 DEF Charged
        <4>2. e # d => u \notin Charged(e)
          BY <1>5, <3>2 DEF Charged
        <4> QED
          BY <3>2, <4>1, <4>2
      <3>3. CASE u # t /\ u # h
        <4>1. u \in Charged(e)' <=> u \in Charged(e)
          BY <1>6, <3>3 DEF Charged
        <4> QED
          BY <3>3, <4>1
      <3> QED
        BY <3>1, <3>2, <3>3
    <2>2. t \in Charged(d) /\ h \in Task \ Charged(d) /\ t \in Active /\ h \in Task \ Active
      BY <1>3, <1>4, <1>5 DEF Charged, Active, At
    <2>3. Active' = (Active \ {t}) \cup {h}
      <3> SUFFICES ASSUME NEW u \in Task PROVE u \in Active' <=> u \in (Active \ {t}) \cup {h}
        BY <1>3 DEF Active, At
      <3>1. CASE u = t
        BY <1>5, <1>6, <3>1 DEF Active, At
      <3>2. CASE u = h
        BY <1>5, <1>6, <3>2 DEF Active, At
      <3>3. CASE u # t /\ u # h
        BY <1>6, <3>3 DEF Active, At
      <3> QED
        BY <3>1, <3>2, <3>3
    <2>4. Cardinality(Active') = Cardinality(Active)
      BY <2>2, <2>3, OneForAnother, SetsOfTasks
    <2>5. \A e \in Domain : Cardinality(Charged(e)') = Cardinality(Charged(e))
      BY <2>1, <2>2, OneForAnother, SetsOfTasks
    <2> QED
      BY <1>1, <1>4, <2>4, <2>5 DEF QuotaInv, Active
  <1>10. DelayedAtLimit'
    BY <1>1, <1>2, <1>4, <1>7 DEF DelayedAtLimit
  <1>11. StartedInOrder'
    <2> SUFFICES ASSUME NEW u \in Task, NEW v \in Task, u < v, domain[u] = domain[v],
                        place'[v] \notin {"iterator", "queued"}
                 PROVE  place'[u] \notin {"iterator", "queued"}
      BY <1>4 DEF StartedInOrder
    <2>1. CASE v = h
      <3>1. place[u] # "iterator"
        BY <1>1, <1>5, <2>1 DEF IteratorIsBehind
      <3>2. place[u] # "queued"
        <4> SUFFICES ASSUME place[u] = "queued" PROVE FALSE
          OBVIOUS
        <4>1. PICK k \in 1 .. Len(q) : q[k] = u
          BY <1>1, <1>5, <2>1 DEF QueuesAreOrdered
        <4>2. k = 1 \/ q[1] < q[k]
          BY <1>1, <1>2, <1>3 DEF QueuesAreOrdered
        <4> QED
          BY <1>3, <2>1, <4>1, <4>2 DEF Task
      <3> QED
        BY <1>6, <3>1, <3>2
    <2>2. CASE v # h
      <3>1. place[v] \notin {"iterator", "queued"}
        BY <1>4, <1>6, <2>2
      <3>2. place[u] \notin {"iterator", "queued"}
        BY <1>1, <3>1 DEF StartedInOrder
      <3> QED
        BY <1>6, <3>2
    <2> QED
      BY <2>1, <2>2
  <1>12. QueuesAreOrdered'
    <2>1. ASSUME NEW e \in Domain, NEW k \in 1 .. Len(domain_queues'[e])
          PROVE  place'[domain_queues'[e][k]] = "queued" /\ domain'[domain_queues'[e][k]] = e
      <3>1. CASE e = d
        <4>1. k + 1 \in 1 .. Len(q) /\ domain_queues'[e][k] = q[k + 1] /\ 1 < k + 1
          <5>1. domain_queues'[e] = Tail(q) /\ k \in 1 .. Len(Tail(q))
            BY <1>7, <3>1
          <5> QED
            BY <1>3, <5>1
        <4>2. /\ q[k + 1] \in Task /\ place[q[k + 1]] = "queued" /\ domain[q[k + 1]] = d
              /\ q[1] < q[k + 1]
          BY <1>1, <1>2, <1>3, <4>1 DEF QueuesAreOrdered
        <4>3. q[k + 1] # h /\ q[k + 1] # t
          BY <1>3, <1>4, <4>2 DEF Task
        <4> QED
          BY <1>4, <1>6, <3>1, <4>1, <4>2, <4>3
      <3>2. CASE e # d
        <4>1. /\ domain_queues'[e] = domain_queues[e] /\ domain_queues[e][k] \in Task
              /\ place[domain_queues[e][k]] = "queued" /\ domain[domain_queues[e][k]] = e
          BY <1>1, <1>7, <2>1, <3>2 DEF QueuesAreOrdered, CrawlerTypeOK
        <4> QED
          BY <1>4, <1>5, <1>6, <3>2, <4>1
      <3> QED
        BY <3>1, <3>2
    <2>2. ASSUME NEW e \in Domain, NEW k \in 1 .. Len(domain_queues'[e]),
                 NEW l \in 1 .. Len(domain_queues'[e]), k < l
          PROVE  domain_queues'[e][k] < domain_queues'[e][l]
      <3>1. CASE e = d
        <4>1. /\ k + 1 \in 1 .. Len(q) /\ domain_queues'[e][k] = q[k + 1]
              /\ l + 1 \in 1 .. Len(q) /\ domain_queues'[e][l] = q[l + 1] /\ k + 1 < l + 1
          <5>1. domain_queues'[e] = Tail(q) /\ k \in 1 .. Len(Tail(q)) /\ l \in 1 .. Len(Tail(q))
            BY <1>7, <3>1
          <5> QED
            BY <1>3, <2>2, <5>1
        <4> QED
          BY <1>1, <1>2, <4>1 DEF QueuesAreOrdered
      <3>2. CASE e # d
        BY <1>1, <1>7, <2>2, <3>2 DEF QueuesAreOrdered
      <3> QED
        BY <3>1, <3>2
    <2>3. ASSUME NEW u \in Task, place'[u] = "queued"
          PROVE  \E k \in 1 .. Len(domain_queues'[domain'[u]]) : domain_queues'[domain'[u]][k] = u
      <3>1. place[u] = "queued" /\ u # h /\ domain'[u] = domain[u] /\ domain[u] \in Domain
        BY <1>1, <1>4, <1>6, <2>3 DEF CrawlerTypeOK
      <3>2. PICK k \in 1 .. Len(domain_queues[domain[u]]) : domain_queues[domain[u]][k] = u
        BY <1>1, <3>1 DEF QueuesAreOrdered
      <3>3. CASE domain[u] = d
        <4>1. k # 1
          BY <1>3, <3>1, <3>2, <3>3
        <4>2. k - 1 \in 1 .. Len(Tail(q)) /\ Tail(q)[k - 1] = q[(k - 1) + 1] /\ (k - 1) + 1 = k
          BY <1>3, <3>2, <3>3, <4>1
        <4>3. Tail(q)[k - 1] = u
          BY <3>2, <3>3, <4>2
        <4> QED
          BY <1>7, <3>1, <3>3, <4>2, <4>3
      <3>4. CASE domain[u] # d
        BY <1>7, <3>1, <3>2, <3>4
      <3> QED
        BY <3>3, <3>4
    <2> QED
      BY <2>1, <2>2, <2>3 DEF QueuesAreOrdered
  <1>13. IteratorIsBehind'
    <2> SUFFICES ASSUME NEW u \in Task, NEW v \in Task, u < v, place'[u] = "iterator"
                 PROVE  place'[v] = "iterator"
      BY DEF IteratorIsBehind
    <2>1. place[u] = "iterator"
      BY <1>6
    <2>2. place[v] = "iterator"
      BY <1>1, <2>1 DEF IteratorIsBehind
    <2> QED
      BY <1>4, <1>5, <1>6, <2>2
  <1>14. DoneIsEmptied'
    BY <1>4 DEF DoneIsEmptied
  <1> QED
    BY <1>8, <1>9, <1>10, <1>11, <1>12, <1>13, <1>14 DEF CrawlerInv, QuotaKept

\* The inductive invariant of the crawler: types, quotas, queues, and the order of the tasks.
THEOREM CrawlerInvariant == CrawlerSpec => []CrawlerInv
  <1>1. CrawlerInv /\ [CrawlerNext]_crawlerVars => CrawlerInv'
    <2> SUFFICES ASSUME CrawlerInv, [CrawlerNext]_crawlerVars PROVE CrawlerInv'
      OBVIOUS
    <2>1. ASSUME NEW t \in Task, Delay(t) PROVE CrawlerInv'
      BY <2>1, DelayStep
    <2>2. ASSUME NEW t \in Task, StartCrawl(t) PROVE CrawlerInv'
      BY <2>2, StartCrawlStep
    <2>3. ASSUME NEW t \in Task, Yield(t) PROVE CrawlerInv'
      BY <2>3, YieldAloneStep, YieldHandsOverStep
    <2>4. CASE Populated \/ Resume \/ CrawlAgain
      BY <2>4, GeneratorStep
    <2>5. CASE AsyncioWaitReturns
      BY <2>5, WaitStep
    <2>6. CASE Abandon
      BY <2>6, AbandonStep
    <2>7. ASSUME NEW t \in Task, CrawlCompletes(t) PROVE CrawlerInv'
      BY <2>7, CompletionStep
    <2>8. CASE UNCHANGED crawlerVars
      <3>1. CrawlerTypeOK /\ DoneIsEmptied
        BY DEF CrawlerInv, QuotaKept
      <3>2. CrawlerTypeOK' /\ DoneIsEmptied'
        BY <2>8, <3>1 DEF crawlerVars, CrawlerTypeOK, DoneIsEmptied, At
      <3> QED
        BY <2>8, <3>2, CrawlsGoOn DEF crawlerVars
    <2> QED
      BY <2>1, <2>2, <2>3, <2>4, <2>5, <2>6, <2>7, <2>8 DEF CrawlerNext, Generator
  <1> QED
    BY <1>1, CrawlerInitHolds, PTL DEF CrawlerSpec

\* The counters of the domains are exact, no limit is exceeded (the assertion of
\* populate_pending_tasks among them), and a task is delayed only while its domain has
\* no quota left.
THEOREM QuotasAreExact == CrawlerSpec => []QuotaKept
  <1>1. CrawlerInv => QuotaKept
    BY DEF CrawlerInv
  <1> QED
    BY <1>1, CrawlerInvariant, PTL

\* The tasks of a domain are started in the order of the iterator, whether they were
\* delayed in its queue or not.
THEOREM DomainsAreInOrder == CrawlerSpec => []StartedInOrder
  <1>1. CrawlerInv => StartedInOrder
    BY DEF CrawlerInv
  <1> QED
    BY <1>1, CrawlerInvariant, PTL
=============================================================================
