--------------------------- MODULE HttpClientPool ---------------------------
(***************************************************************************)
(* HttpClientPool of golang/http_client_pool/http_client_pool.go: worker   *)
(* goroutines that take items from one bounded channel, callers that       *)
(* submit the items, a caller of WaitForPendingItems and a caller of Stop. *)
(*                                                                         *)
(* An item stands for one call of Submit with a function that returns. As  *)
(* sync.WaitGroup demands, nobody calls Submit while the counter is zero   *)
(* and WaitForPendingItems is waiting.  The channel has a buffer, as the   *)
(* one of NewOptions.                                                      *)
(***************************************************************************)
EXTENDS Integers, Sequences, FiniteSets

CONSTANTS
    Item,           \* the calls of Submit
    Worker,         \* the goroutines of Start, NumGoRoutines of them
    ItemQueueSize,  \* the buffer of itemch
    MayStop         \* whether Stop is called

ASSUME ItemAssumption == IsFiniteSet(Item)
ASSUME SizeAssumption == ItemQueueSize \in Nat \ {0} /\ MayStop \in BOOLEAN

VARIABLES
    submit,         \* how far each Submit, and the item it hands in, has come
    itemch,         \* the buffered items
    worker,         \* each worker goroutine
    running,        \* the item a worker calls, in a set that is empty while it selects
    pendingItemsWg, \* the counter of the WaitGroup
    stopCh,         \* whether it is closed
    waiter,         \* the call of WaitForPendingItems
    stopper         \* the call of Stop

vars == <<submit, itemch, worker, running, pendingItemsWg, stopCh, waiter, stopper>>

TypeOK ==
    /\ submit \in [Item -> {"new", "sending", "queued", "running", "done"}]
    /\ itemch \in Seq(Item)
    /\ worker \in [Worker -> {"none", "started", "exit"}]
    /\ running \in [Worker -> SUBSET Item]
    /\ pendingItemsWg \in Nat
    /\ stopCh \in BOOLEAN
    /\ waiter \in {"none", "waiting", "returned"}
    /\ stopper \in {"none", "waiting", "returned"}

Init ==
    /\ submit = [i \in Item |-> "new"]
    /\ itemch = <<>>
    /\ worker = [w \in Worker |-> "none"]
    /\ running = [w \in Worker |-> {}]
    /\ pendingItemsWg = 0
    /\ stopCh = FALSE
    /\ waiter = "none"
    /\ stopper = "none"

-----------------------------------------------------------------------------
Start ==
    /\ \A w \in Worker : worker[w] = "none"
    /\ worker' = [w \in Worker |-> "started"]
    /\ UNCHANGED <<submit, itemch, running, pendingItemsWg, stopCh, waiter, stopper>>

\* Slip: the item is counted by nobody before it is sent.
SubmitUncounted(i) ==
    /\ submit[i] = "new"
    /\ submit' = [submit EXCEPT ![i] = "sending"]
    /\ UNCHANGED <<itemch, worker, running, pendingItemsWg, stopCh, waiter, stopper>>

\* Submit counts the item and begins to send it.
Submit(i) ==
    /\ submit[i] = "new"
    /\ waiter = "waiting" => pendingItemsWg > 0
    /\ submit' = [submit EXCEPT ![i] = "sending"]
    /\ pendingItemsWg' = pendingItemsWg + 1
    /\ UNCHANGED <<itemch, worker, running, stopCh, waiter, stopper>>

\* Slip: Submit does not block on a full buffer, it gives the item up.
SendOrDrop(i) ==
    /\ submit[i] = "sending"
    /\ submit' = [submit EXCEPT ![i] = "queued"]
    /\ itemch' = IF Len(itemch) < ItemQueueSize THEN Append(itemch, i) ELSE itemch
    /\ UNCHANGED <<worker, running, pendingItemsWg, stopCh, waiter, stopper>>

\* There is room in the buffer; Submit returns.
Send(i) ==
    /\ submit[i] = "sending"
    /\ Len(itemch) < ItemQueueSize
    /\ submit' = [submit EXCEPT ![i] = "queued"]
    /\ itemch' = Append(itemch, i)
    /\ UNCHANGED <<worker, running, pendingItemsWg, stopCh, waiter, stopper>>

Selecting(w) == worker[w] = "started" /\ running[w] = {}

\* Slip: two workers may get the same item.
ReceiveWithoutRemoving(w) ==
    /\ Selecting(w)
    /\ itemch # <<>>
    /\ itemch' \in {itemch, Tail(itemch)}
    /\ running' = [running EXCEPT ![w] = {Head(itemch)}]
    /\ submit' = [submit EXCEPT ![Head(itemch)] = "running"]
    /\ UNCHANGED <<worker, pendingItemsWg, stopCh, waiter, stopper>>

\* The select takes an item from the buffer.
Receive(w) ==
    /\ Selecting(w)
    /\ itemch # <<>>
    /\ itemch' = Tail(itemch)
    /\ running' = [running EXCEPT ![w] = {Head(itemch)}]
    /\ submit' = [submit EXCEPT ![Head(itemch)] = "running"]
    /\ UNCHANGED <<worker, pendingItemsWg, stopCh, waiter, stopper>>

\* The item returns and is counted off.
Finish(w, i) ==
    /\ i \in running[w]
    /\ submit' = [submit EXCEPT ![i] = "done"]
    /\ running' = [running EXCEPT ![w] = {}]
    /\ pendingItemsWg' = pendingItemsWg - 1
    /\ UNCHANGED <<itemch, worker, stopCh, waiter, stopper>>

\* The select finds stopCh closed; it may, whatever itemch holds.
WorkerStops(w) ==
    /\ Selecting(w)
    /\ stopCh
    /\ worker' = [worker EXCEPT ![w] = "exit"]
    /\ UNCHANGED <<submit, itemch, running, pendingItemsWg, stopCh, waiter, stopper>>

-----------------------------------------------------------------------------
Wait ==
    /\ waiter = "none"
    /\ waiter' = "waiting"
    /\ UNCHANGED <<submit, itemch, worker, running, pendingItemsWg, stopCh, stopper>>

WaitReturns ==
    /\ waiter = "waiting"
    /\ pendingItemsWg = 0
    /\ waiter' = "returned"
    /\ UNCHANGED <<submit, itemch, worker, running, pendingItemsWg, stopCh, stopper>>

\* Slip: Stop does not close the channel.
StopWithoutClose ==
    /\ MayStop
    /\ stopper = "none"
    /\ \A w \in Worker : worker[w] # "none"
    /\ stopper' = "waiting"
    /\ UNCHANGED <<submit, itemch, worker, running, pendingItemsWg, stopCh, waiter>>

\* Stop, called after Start, closes stopCh and waits for the workers.
Stop ==
    /\ MayStop
    /\ stopper = "none"
    /\ \A w \in Worker : worker[w] # "none"
    /\ stopper' = "waiting"
    /\ stopCh' = TRUE
    /\ UNCHANGED <<submit, itemch, worker, running, pendingItemsWg, waiter>>

StopReturns ==
    /\ stopper = "waiting"
    /\ \A w \in Worker : worker[w] = "exit"
    /\ stopper' = "returned"
    /\ UNCHANGED <<submit, itemch, worker, running, pendingItemsWg, stopCh, waiter>>

WorkerStep(w) ==
    \/ Receive(w) \/ WorkerStops(w)
    \/ \E i \in Item : Finish(w, i)

Next ==
    \/ Start \/ Wait \/ WaitReturns \/ Stop \/ StopReturns
    \/ \E i \in Item : Submit(i) \/ Send(i)
    \/ \E w \in Worker : WorkerStep(w)

Spec == Init /\ [][Next]_vars

\* The goroutines run, and an item that is called returns.  Nothing forces the
\* callers to submit, to wait or to stop.
Fairness ==
    /\ WF_vars(Start) /\ WF_vars(WaitReturns) /\ WF_vars(StopReturns)
    /\ \A i \in Item : SF_vars(Send(i))     \* blocked senders queue up in order
    /\ \A w \in Worker : WF_vars(WorkerStep(w))

FairSpec == Spec /\ Fairness

-----------------------------------------------------------------------------
(***************************************************************************)
(* Safety.                                                                 *)
(***************************************************************************)
Outstanding == {i \in Item : submit[i] \in {"sending", "queued", "running"}}

\* The counter counts the items that were handed in and have not returned:
\* it is never negative, which would panic.
PendingCounts == pendingItemsWg = Cardinality(Outstanding)

\* An item is in one place of the channel or called by one worker, never both,
\* so it is called once.
OnePlace ==
    /\ \A i \in Item : submit[i] = "queued" <=> \E k \in 1 .. Len(itemch) : itemch[k] = i
    /\ \A k, l \in 1 .. Len(itemch) : itemch[k] = itemch[l] => k = l
    /\ \A i \in Item : submit[i] = "running" <=> \E w \in Worker : i \in running[w]
    /\ \A w \in Worker : \A i, j \in running[w] : i = j
    /\ \A v, w \in Worker : running[v] \cap running[w] # {} => v = w

\* A worker that is not started, or is gone, calls nothing, and once Stop has
\* returned all are gone.
QuietAfterStop ==
    /\ \A w \in Worker : running[w] # {} => worker[w] = "started"
    /\ stopper = "returned" => \A w \in Worker : worker[w] = "exit"

IInv == TypeOK /\ PendingCounts /\ OnePlace /\ QuietAfterStop

\* WaitForPendingItems returns only when everything handed in was processed.
WaitMeansProcessed ==
    [][waiter = "waiting" /\ waiter' = "returned" =>
         \A i \in Item : submit[i] \in {"new", "done"}]_vars

-----------------------------------------------------------------------------
(***************************************************************************)
(* Liveness.                                                               *)
(***************************************************************************)
\* Every item handed in is processed, unless the pool is stopped.
EveryItemIsProcessed == \A i \in Item : submit[i] = "sending" ~> submit[i] = "done" \/ stopCh

\* Stop returns, however many items are left.
StopEnds == stopper = "waiting" ~> stopper = "returned"
=============================================================================
