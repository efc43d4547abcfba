--------------------------- MODULE CommitService ----------------------------
(***************************************************************************)
(* What GroupCommit promises to its callers: a datum handed in by a call   *)
(* of commit() becomes durable at most once, as a member of one group that *)
(* is committed in one go, and a call returns only after its datum is      *)
(* durable.  Leaders, events, the queue and the semaphore are not visible. *)
(***************************************************************************)
EXTENDS Sequences

CONSTANT Call       \* the calls of commit(), each with a datum of its own

VARIABLES
    status,         \* what each call has come to
    log             \* the groups that were committed, in order

ServiceInit ==
    /\ status = [c \in Call |-> "new"]
    /\ log = <<>>

Submit(c) ==
    /\ status[c] = "new"
    /\ status' = [status EXCEPT ![c] = "pending"]
    /\ UNCHANGED log

\* A group of pending data becomes durable.
CommitGroup(G) ==
    /\ \A c \in G : status[c] = "pending"
    /\ status' = [c \in Call |-> IF c \in G THEN "durable" ELSE status[c]]
    /\ log' = Append(log, G)

Return(c) ==
    /\ status[c] = "durable"
    /\ status' = [status EXCEPT ![c] = "returned"]
    /\ UNCHANGED log

\* A call may raise instead; then its datum does not become durable through it.
Raise(c) ==
    /\ status[c] = "pending"
    /\ status' = [status EXCEPT ![c] = "raised"]
    /\ UNCHANGED log

ServiceNext ==
    \/ \E c \in Call : Submit(c) \/ Return(c) \/ Raise(c)
    \/ \E G \in (SUBSET Call) \ {{}} : CommitGroup(G)

ServiceSpec == ServiceInit /\ [][ServiceNext]_<<status, log>>
=============================================================================
