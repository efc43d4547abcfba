------------------------------- MODULE Reduce -------------------------------
(***************************************************************************)
(* The reductions of cpp/reduce.cc, one thread per value: a binary tree    *)
(* over a shared vector with a fence per round ("tree"), the same tree     *)
(* over the MessageQueue of cpp/message_queue.h ("message"), and a ring    *)
(* that leaves the whole sum with every thread ("ring").                   *)
(*                                                                         *)
(* values[t][c] is chunk c of thread t; a tree has the chunk 0 only.  The  *)
(* initial values are digits of different weight, so that a sum tells      *)
(* which values went into it and how often.                                *)
(*                                                                         *)
(* A section under a mutex has no inner wait and is one step.  A thread in *)
(* a condition variable is asleep until a notification, or nothing at all, *)
(* wakes it up; then it looks at its predicate again.                      *)
(***************************************************************************)
EXTENDS Integers, Sequences, FiniteSetsExt, Functions

CONSTANT MaxThreads     \* bounds the number of threads

VARIABLES
    algo,               \* which reduction runs
    n,                  \* its number of threads
    values,
    pc,
    round,              \* r of each thread; r + n in the sharing phase of the ring
    sum,                \* read from the shared vector, not yet stored there
    id2q,               \* the queues of the MessageQueue
    round2count,        \* of the Fence
    asleep              \* the threads in a condition variable that were not notified

vars == <<algo, n, values, pc, round, sum, id2q, round2count, asleep>>

Thread == 0 .. n - 1
Chunk == IF algo = "ring" THEN Thread ELSE {0}
Rounds == 0 .. 2 * n

InitialValue(t, c) == (c + 1) * (n + 1) ^ t
Total(c) == MapThenSumSet(LAMBDA t : InitialValue(t, c), Thread)

TypeOK ==
    /\ values \in [Thread -> [Chunk -> Nat]]
    /\ pc \in [Thread -> {"loop", "store", "receive", "arrive", "fence", "notify", "done"}]
    /\ round \in [Thread -> Rounds]
    /\ sum \in [Thread -> Nat]
    /\ id2q \in [Thread -> Seq([v : Nat, from : Thread])]
    /\ round2count \in [Rounds -> 0 .. n]
    /\ asleep \subseteq Thread

\* A call with one thread returns at once; the tree may be empty, the ring not.
Init ==
    /\ algo \in {"tree", "message", "ring"}
    /\ n \in 1 .. MaxThreads
    /\ values = [t \in Thread |-> [c \in Chunk |-> InitialValue(t, c)]]
    /\ pc = [t \in Thread |-> "loop"]
    /\ round = [t \in Thread |-> IF algo = "ring" THEN 0 ELSE 1]
    /\ sum = [t \in Thread |-> 0]
    /\ id2q = [t \in Thread |-> <<>>]
    /\ round2count = [r \in Rounds |-> 0]
    /\ asleep = {}

-----------------------------------------------------------------------------
(***************************************************************************)
(* The for loops: the test of a round, and what follows a round.           *)
(***************************************************************************)
\* An odd thread of round r hands its value down to Dest and leaves the tree.
Sends(t) == t % (2 * round[t]) # 0
Dest(t) == t - (t % (2 * round[t]))

\* How many threads the fence of round r waits for.
Participants(r) == IF algo = "ring" THEN n ELSE (n + r - 1) \div r

Goto(t, place) == pc' = [pc EXCEPT ![t] = place]
SetRound(t, r) == round' = [round EXCEPT ![t] = r]

\* End of the iteration of t: r <<= 1, or ++r in one of the phases of the ring.
NextRound(t) ==
    LET r == round[t] IN
    /\ Goto(t, IF algo = "tree" /\ Sends(t) THEN "done" ELSE "loop")
    /\ SetRound(t, IF algo # "ring" THEN IF algo = "tree" /\ Sends(t) THEN r ELSE 2 * r
                   ELSE IF r = n - 2 THEN n ELSE r + 1)

\* The condition of the loop is false: the function returns.
LoopEnds(t) ==
    /\ pc[t] = "loop"
    /\ IF algo = "ring" THEN n = 1 \/ round[t] = 2 * n - 1 ELSE round[t] >= n
    /\ Goto(t, "done")
    /\ UNCHANGED <<algo, n, values, round, sum, id2q, round2count, asleep>>

Iterates(t) ==
    /\ pc[t] = "loop"
    /\ IF algo = "ring" THEN n > 1 /\ round[t] # 2 * n - 1 ELSE round[t] < n

-----------------------------------------------------------------------------
(***************************************************************************)
(* Fence::waitFor(round, count).  The last thread of a round notifies      *)
(* after it has left the mutex.                                            *)
(***************************************************************************)
Arrive(t) ==
    /\ pc[t] = "arrive"
    /\ round2count' = [round2count EXCEPT ![round[t]] = @ + 1]
    /\ IF round2count'[round[t]] = Participants(round[t])
         THEN /\ Goto(t, "notify")
              /\ UNCHANGED asleep
         ELSE /\ Goto(t, "fence")
              /\ asleep' = asleep \union {t}
    /\ UNCHANGED <<algo, n, values, round, sum, id2q>>

NotifyFence(t) ==
    /\ pc[t] = "notify"
    /\ asleep' = {u \in asleep : pc[u] # "fence"}
    /\ NextRound(t)
    /\ UNCHANGED <<algo, n, values, sum, id2q, round2count>>

\* Slip: a wait without a predicate returns on every wake-up.
LeaveFenceUnchecked(t) ==
    /\ pc[t] = "fence"
    /\ t \notin asleep
    /\ NextRound(t)
    /\ UNCHANGED <<algo, n, values, sum, id2q, round2count, asleep>>

LeaveFence(t) ==
    /\ pc[t] = "fence"
    /\ t \notin asleep
    /\ round2count[round[t]] = Participants(round[t])
    /\ NextRound(t)
    /\ UNCHANGED <<algo, n, values, sum, id2q, round2count, asleep>>

\* The predicate of the wait is false (of the fence, or of receive).
SleepAgain(t) ==
    /\ t \notin asleep
    /\ \/ pc[t] = "fence" /\ round2count[round[t]] # Participants(round[t])
       \/ pc[t] = "receive" /\ id2q[t] = <<>>
    /\ asleep' = asleep \union {t}
    /\ UNCHANGED <<algo, n, values, pc, round, sum, id2q, round2count>>

SpuriousWakeup(t) ==
    /\ t \in asleep
    /\ asleep' = asleep \ {t}
    /\ UNCHANGED <<algo, n, values, pc, round, sum, id2q, round2count>>

-----------------------------------------------------------------------------
(***************************************************************************)
(* MessageQueue: one queue per recipient, one condition variable for all.  *)
(***************************************************************************)
\* Slip: the value is sent but nobody is notified.
SendToSilently(dest, m) ==
    /\ id2q' = [id2q EXCEPT ![dest] = Append(@, m)]
    /\ UNCHANGED asleep

sendTo(dest, m) ==
    /\ id2q' = [id2q EXCEPT ![dest] = Append(@, m)]
    /\ asleep' = {u \in asleep : pc[u] # "receive"}

\* receive(t) returns m.
receive(t, m) ==
    /\ pc[t] = "receive"
    /\ t \notin asleep
    /\ id2q[t] # <<>>
    /\ m = Head(id2q[t])
    /\ id2q' = [id2q EXCEPT ![t] = Tail(@)]

-----------------------------------------------------------------------------
(***************************************************************************)
(* binaryTreeTreadRun: values[dest] += values[t] is a read and a write of  *)
(* memory that the threads share without a lock.                           *)
(***************************************************************************)
TreeRead(t) ==
    /\ algo = "tree"
    /\ Iterates(t)
    /\ IF Sends(t)
         THEN /\ sum' = [sum EXCEPT ![t] = values[Dest(t)][0] + values[t][0]]
              /\ Goto(t, "store")
         ELSE /\ Goto(t, "arrive")
              /\ UNCHANGED sum
    /\ UNCHANGED <<algo, n, values, round, id2q, round2count, asleep>>

TreeStore(t) ==
    /\ pc[t] = "store"
    /\ values' = [values EXCEPT ![Dest(t)][0] = sum[t]]
    /\ sum' = [sum EXCEPT ![t] = 0]
    /\ Goto(t, "arrive")
    /\ UNCHANGED <<algo, n, round, id2q, round2count, asleep>>

-----------------------------------------------------------------------------
(***************************************************************************)
(* binaryTreeTreadRunWithMsg: no fence, and the receiver does not look at  *)
(* the sender of a message.                                                *)
(***************************************************************************)
TreeSend(t) ==
    /\ algo = "message"
    /\ Iterates(t)
    /\ Sends(t)
    /\ sendTo(Dest(t), [v |-> values[t][0], from |-> t])
    /\ Goto(t, "done")
    /\ UNCHANGED <<algo, n, values, round, sum, round2count>>

\* Nobody sends to t in this round when t + r is not a thread.
TreeAwaits(t) ==
    /\ algo = "message"
    /\ Iterates(t)
    /\ ~Sends(t)
    /\ IF t + round[t] < n THEN Goto(t, "receive") /\ UNCHANGED round ELSE NextRound(t)
    /\ UNCHANGED <<algo, n, values, sum, id2q, round2count, asleep>>

TreeReceive(t) ==
    /\ algo = "message"
    /\ \E m \in {id2q[t][i] : i \in 1 .. Len(id2q[t])} :
         /\ receive(t, m)
         /\ values' = [values EXCEPT ![t][0] = @ + m.v]
    /\ NextRound(t)
    /\ UNCHANGED <<algo, n, sum, round2count, asleep>>

-----------------------------------------------------------------------------
(***************************************************************************)
(* ringAllReduceThreadRun: in the first phase a chunk is added, in the     *)
(* second (round >= n) it is replaced.                                     *)
(***************************************************************************)
ChunkToSend(t) ==
    IF round[t] < n THEN (t + n - round[t]) % n ELSE (t + 1 + n - (round[t] - n)) % n
ChunkToRecv(t) == (ChunkToSend(t) + n - 1) % n

RingSend(t) ==
    /\ algo = "ring"
    /\ Iterates(t)
    /\ LET c == ChunkToSend(t) IN sendTo((t + 1) % n, [v |-> values[t][c], from |-> c])
    /\ Goto(t, "receive")
    /\ UNCHANGED <<algo, n, values, round, sum, round2count>>

RingReceive(t) ==
    /\ algo = "ring"
    /\ \E m \in {id2q[t][i] : i \in 1 .. Len(id2q[t])} :
         /\ receive(t, m)
         /\ values' = [values EXCEPT ![t][ChunkToRecv(t)] = IF round[t] < n THEN @ + m.v ELSE m.v]
    /\ Goto(t, "arrive")
    /\ UNCHANGED <<algo, n, round, sum, round2count, asleep>>

-----------------------------------------------------------------------------
Step(t) ==
    \/ LoopEnds(t) \/ Arrive(t) \/ NotifyFence(t) \/ LeaveFence(t) \/ SleepAgain(t)
    \/ TreeRead(t) \/ TreeStore(t)
    \/ TreeSend(t) \/ TreeAwaits(t) \/ TreeReceive(t)
    \/ RingSend(t) \/ RingReceive(t)

Next == \E t \in Thread : Step(t) \/ SpuriousWakeup(t)

Spec == Init /\ [][Next]_vars

-----------------------------------------------------------------------------
AllDone == \A t \in Thread : pc[t] = "done"

\* One round of simulateBinaryTreeReduce on the vector v.
SimulatedRound(v, r) ==
    [i \in Thread |-> IF i % (2 * r) = 0 /\ i + r < n THEN v[i] + v[i + r] ELSE v[i]]

\* simulateBinaryTreeReduce: the vector it leaves, reduced in one thread.
Simulated ==
    LET after[k \in Nat] ==
            IF k = 0 THEN [i \in Thread |-> InitialValue(i, 0)]
            ELSE IF 2 ^ (k - 1) < n THEN SimulatedRound(after[k - 1], 2 ^ (k - 1))
            ELSE after[k - 1]
    IN after[n]

\* The CHECK_EQ of the ring: a thread is never handed the chunk of another round.
ChunkIsExpected ==
    \A t \in Thread :
        algo = "ring" /\ pc[t] = "receive" /\ id2q[t] # <<>> => Head(id2q[t]).from = ChunkToRecv(t)

\* No message carries the chunk of another round; and when the threads are joined
\* every message has been received, a tree has left the vector that the simulation
\* leaves, with the sum of all values at 0, and a ring the sum of every chunk with
\* every thread, each value counted once.
ReduceIsExact ==
    /\ ChunkIsExpected
    /\ AllDone =>
        /\ \A t \in Thread : id2q[t] = <<>>
        /\ algo = "ring" => \A t \in Thread, c \in Chunk : values[t][c] = Total(c)
        /\ algo # "ring" => /\ \A t \in Thread : values[t][0] = Simulated[t]
                            /\ values[0][0] = Total(0)
=============================================================================
