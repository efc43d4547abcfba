----------------------------- MODULE TurnTaking -----------------------------
(***************************************************************************)
(* Threads that take turns.  cpp/simple-concurrency-control.cc: OrderedSync *)
(* with its latches or with its atomic, and QueueSync;                     *)
(* python/simple-concurrency-control.py: Foo, the same three calls with    *)
(* barriers.  The threads call as the tests do: first, second and third    *)
(* once each; run of QueueSync Repeats times from each of its threads.     *)
(***************************************************************************)
EXTENDS Integers, Sequences

CONSTANTS
    QueueThreads,       \* threads of QueueSync
    Repeats             \* calls of run by each

ASSUME TurnAssumption == QueueThreads \in Nat \ {0} /\ Repeats \in Nat \ {0}

VARIABLES
    variant,            \* "latch", "atomic", "barrier" or "queue"
    turnPc,
    st,                 \* OrderedSync: the atomic
    arrived,            \* who counted each latch down, or called wait of each barrier
    nextId_,            \* QueueSync
    calls,              \* the calls of run each thread still makes
    turnAsleep,         \* the threads in cv_ that were not notified
    output              \* what the callbacks wrote

turnVars == <<variant, turnPc, st, arrived, nextId_, calls, turnAsleep, output>>

\* Threads 0, 1 and 2 call first, second and third.
TurnThread == IF variant = "queue" THEN 0 .. QueueThreads - 1 ELSE 0 .. 2

TurnTypeOK ==
    /\ turnPc \in [TurnThread -> {"await", "print", "signal", "run", "done"}]
    /\ st \in 0 .. 4
    /\ arrived \in [{1, 2} -> SUBSET TurnThread]
    /\ nextId_ \in 0 .. QueueThreads - 1
    /\ calls \in [TurnThread -> 0 .. Repeats]
    /\ turnAsleep \subseteq TurnThread
    /\ output \in Seq(TurnThread)

TurnInit ==
    /\ variant \in {"latch", "atomic", "barrier", "queue"}
    /\ turnPc = [t \in TurnThread |-> IF variant = "queue" THEN "run" ELSE IF t = 0 THEN "print" ELSE "await"]
    /\ st = 0
    /\ arrived = [b \in {1, 2} |-> {}]
    /\ nextId_ = 0
    /\ calls = [t \in TurnThread |-> IF variant = "queue" THEN Repeats ELSE 0]
    /\ turnAsleep = {}
    /\ output = <<>>

TurnGoto(t, place) == turnPc' = [turnPc EXCEPT ![t] = place]

-----------------------------------------------------------------------------
\* atomicTransit: the loop repeats until the exchange succeeds; a failure changes nothing.
atomicTransit(expected, desired) == st = expected /\ st' = desired

\* The callback of t runs.
Callback(t) ==
    /\ turnPc[t] = "print"
    /\ output' = Append(output, t)
    /\ TurnGoto(t, IF t = 2 THEN "done" ELSE "signal")
    /\ UNCHANGED <<variant, st, arrived, nextId_, calls, turnAsleep>>

Arrive(t, b) == arrived' = [arrived EXCEPT ![b] = @ \union {t}]

\* Slip: the third thread waits for the first latch.
AwaitLatchOne(t) ==
    /\ turnPc[t] = "await"
    /\ \/ variant = "latch" /\ arrived[1] # {} /\ UNCHANGED <<st, arrived>>
       \/ variant = "atomic" /\ atomicTransit(2 * t - 1, 2 * t) /\ UNCHANGED arrived
       \/ variant = "barrier" /\ t \notin arrived[t] /\ Arrive(t, t) /\ UNCHANGED st
    /\ IF variant = "barrier" THEN UNCHANGED turnPc ELSE TurnGoto(t, "print")
    /\ UNCHANGED <<variant, nextId_, calls, turnAsleep, output>>

\* Before its callback thread t waits for thread t - 1: for latch t, for the state
\* 2t - 1 of the atomic, or at barrier t.
Await(t) ==
    /\ turnPc[t] = "await"
    /\ \/ variant = "latch" /\ arrived[t] # {} /\ UNCHANGED <<st, arrived>>
       \/ variant = "atomic" /\ atomicTransit(2 * t - 1, 2 * t) /\ UNCHANGED arrived
       \/ variant = "barrier" /\ t \notin arrived[t] /\ Arrive(t, t) /\ UNCHANGED st
    /\ IF variant = "barrier" THEN UNCHANGED turnPc ELSE TurnGoto(t, "print")
    /\ UNCHANGED <<variant, nextId_, calls, turnAsleep, output>>

\* After its callback it lets thread t + 1 go on.
Signal(t) ==
    /\ turnPc[t] = "signal"
    /\ \/ variant = "atomic" /\ atomicTransit(2 * t, 2 * t + 1) /\ UNCHANGED arrived
       \/ variant # "atomic" /\ t \notin arrived[t + 1] /\ Arrive(t, t + 1) /\ UNCHANGED st
    /\ IF variant = "barrier" THEN UNCHANGED turnPc ELSE TurnGoto(t, "done")
    /\ UNCHANGED <<variant, nextId_, calls, turnAsleep, output>>

\* Barrier.wait returns once both threads have called it.
PassBarrier(t) ==
    /\ variant = "barrier"
    /\ \/ turnPc[t] = "await" /\ arrived[t] = {t - 1, t} /\ TurnGoto(t, "print")
       \/ turnPc[t] = "signal" /\ arrived[t + 1] = {t, t + 1} /\ TurnGoto(t, "done")
    /\ UNCHANGED <<variant, st, arrived, nextId_, calls, turnAsleep, output>>

-----------------------------------------------------------------------------
(***************************************************************************)
(* QueueSync::run: the callback and the hand-over are under m_.            *)
(***************************************************************************)
Run(t) ==
    /\ turnPc[t] = "run" /\ t \notin turnAsleep
    /\ nextId_ = t
    /\ output' = Append(output, t)
    /\ nextId_' = (nextId_ + 1) % QueueThreads
    /\ turnAsleep' = {}
    /\ calls' = [calls EXCEPT ![t] = @ - 1]
    /\ TurnGoto(t, IF calls[t] = 1 THEN "done" ELSE "run")
    /\ UNCHANGED <<variant, st, arrived>>

WaitForTurn(t) ==
    /\ turnPc[t] = "run" /\ t \notin turnAsleep
    /\ nextId_ # t
    /\ turnAsleep' = turnAsleep \union {t}
    /\ UNCHANGED <<variant, turnPc, st, arrived, nextId_, calls, output>>

TurnSpuriousWakeup(t) ==
    /\ t \in turnAsleep
    /\ turnAsleep' = turnAsleep \ {t}
    /\ UNCHANGED <<variant, turnPc, st, arrived, nextId_, calls, output>>

-----------------------------------------------------------------------------
TurnStep(t) == Callback(t) \/ Await(t) \/ Signal(t) \/ PassBarrier(t) \/ Run(t) \/ WaitForTurn(t)

TurnNext == \E t \in TurnThread : TurnStep(t) \/ TurnSpuriousWakeup(t)

TurnSpec == TurnInit /\ [][TurnNext]_turnVars

-----------------------------------------------------------------------------
TurnAllDone == \A t \in TurnThread : turnPc[t] = "done"

\* The callbacks run in the order of the threads, again and again for QueueSync, as
\* both tests expect of the output; and none is left out when all threads are joined.
OutputInTurn ==
    LET size == IF variant = "queue" THEN QueueThreads ELSE 3 IN
    /\ \A i \in 1 .. Len(output) : output[i] = (i - 1) % size
    /\ TurnAllDone => Len(output) = IF variant = "queue" THEN QueueThreads * Repeats ELSE 3
=============================================================================
