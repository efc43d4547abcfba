--------------------------- MODULE SharedResource ---------------------------
(***************************************************************************)
(* SharedResource of python/threading_queue_example.py and its main: the   *)
(* producers put their items into one queue; when they are joined, main    *)
(* puts one None per consumer and joins the consumers.                     *)
(***************************************************************************)
EXTENDS Integers, Sequences, SequencesExt

CONSTANTS
    Producers, Consumers,
    Items               \* how many items each producer has

ASSUME SharedAssumption ==
    /\ IsFiniteSet(Producers) /\ IsFiniteSet(Consumers) /\ Consumers # {}
    /\ Items \in Nat /\ "main" \notin Consumers

VARIABLES
    produced,           \* how many items each producer has put
    shared_queue,       \* the items in the queue, and the sentinels
    queuePc,            \* of each consumer, and of main
    current,            \* the item each consumer works on
    consumed            \* the items whose consumption has ended

sharedVars == <<produced, shared_queue, queuePc, current, consumed>>

Item == Producers \X (1 .. Items)
None == <<>>            \* the sentinel, and the absence of an item
Main == "main"

SharedTypeOK ==
    /\ produced \in [Producers -> 0 .. Items]
    /\ shared_queue \in Seq(Item \union {None})
    /\ queuePc \in [Consumers \union {Main} -> {"get", "consume", "produce", "finish", "done"}]
    /\ current \in [Consumers -> Item \union {None}]
    /\ consumed \in Seq(Item)

SharedInit ==
    /\ produced = [p \in Producers |-> 0]
    /\ shared_queue = <<>>
    /\ queuePc = [c \in Consumers \union {Main} |-> IF c = Main THEN "produce" ELSE "get"]
    /\ current = [c \in Consumers |-> None]
    /\ consumed = <<>>

\* producer: one round of its loop.
Produce(p) ==
    /\ produced[p] < Items
    /\ produced' = [produced EXCEPT ![p] = @ + 1]
    /\ shared_queue' = Append(shared_queue, <<p, produced[p] + 1>>)
    /\ UNCHANGED <<queuePc, current, consumed>>

\* Both producers are joined: the sentinels follow the items.
PutSentinels ==
    /\ queuePc[Main] = "produce"
    /\ \A p \in Producers : produced[p] = Items
    /\ shared_queue' = shared_queue \o [c \in 1 .. Cardinality(Consumers) |-> None]
    /\ queuePc' = [queuePc EXCEPT ![Main] = "finish"]
    /\ UNCHANGED <<produced, current, consumed>>

\* consumer: get, which blocks while the queue is empty.
Get(c) ==
    /\ queuePc[c] = "get"
    /\ shared_queue # <<>>
    /\ shared_queue' = Tail(shared_queue)
    /\ current' = [current EXCEPT ![c] = Head(shared_queue)]
    /\ queuePc' = [queuePc EXCEPT ![c] = IF Head(shared_queue) = None THEN "done" ELSE "consume"]
    /\ UNCHANGED <<produced, consumed>>

\* The item is consumed, and task_done is called.
Consume(c) ==
    /\ queuePc[c] = "consume"
    /\ consumed' = Append(consumed, current[c])
    /\ current' = [current EXCEPT ![c] = None]
    /\ queuePc' = [queuePc EXCEPT ![c] = "get"]
    /\ UNCHANGED <<produced, shared_queue>>

\* main joins the consumers.
JoinConsumers ==
    /\ queuePc[Main] = "finish"
    /\ \A c \in Consumers : queuePc[c] = "done"
    /\ queuePc' = [queuePc EXCEPT ![Main] = "done"]
    /\ UNCHANGED <<produced, shared_queue, current, consumed>>

SharedNext ==
    \/ \E p \in Producers : Produce(p)
    \/ \E c \in Consumers : Get(c) \/ Consume(c)
    \/ PutSentinels \/ JoinConsumers

SharedSpec == SharedInit /\ [][SharedNext]_sharedVars

-----------------------------------------------------------------------------
\* A sentinel is taken only when no item is left in the queue; so a consumer that has
\* ended leaves nothing behind, and when main ends every item was consumed exactly once.
EverythingConsumed ==
    /\ \A c \in Consumers : queuePc[c] = "done" => \A i \in 1 .. Len(shared_queue) : shared_queue[i] = None
    /\ queuePc[Main] = "done" => /\ ToSet(consumed) = Item
                                 /\ Len(consumed) = Cardinality(Item)
                                 /\ shared_queue = <<>>

\* Main and the threads it joined have ended.
SharedAllDone == queuePc[Main] = "done"
=============================================================================
