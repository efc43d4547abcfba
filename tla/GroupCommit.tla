---------------------------- MODULE GroupCommit -----------------------------
(***************************************************************************)
(* GroupCommit of python/group_commit.py.  A caller that finds the queue   *)
(* empty becomes the leader of the group that gathers behind it: after a   *)
(* short sleep it takes the whole queue, merges the data, commits them     *)
(* under a semaphore and sets the events of its followers.                 *)
(*                                                                         *)
(* A call of commit() stands for its datum and its CommitEvent.  The data  *)
(* merged so far are the sequence of the calls they came from, so what     *)
(* commit_func gets is that sequence.                                      *)
(***************************************************************************)
EXTENDS Naturals, Sequences, FiniteSets

CONSTANTS
    Call,                   \* the calls of commit()
    MaxConcurrentCommits,   \* max_concurrent_commits
    MayRaise                \* whether merge_func and commit_func may raise

ASSUME CommitsAssumption == MaxConcurrentCommits \in Nat \ {0}
ASSUME MayRaiseAssumption == MayRaise \in BOOLEAN

VARIABLES
    queue,      \* self.queue
    permits,    \* the count of self.commit_sem
    events,     \* the calls whose event is set
    pc,         \* where each call is
    batch,      \* the local q of each leader
    result,     \* what each call returned
    commits     \* the merged data commit_func committed, in order

vars == <<queue, permits, events, pc, batch, result, commits>>

\* A leader that has taken its group and still holds it.
Leading == {"merge", "committing", "wake"}
Location == {"new", "wait", "sleep", "returned", "raised"} \cup Leading

TypeOK ==
    /\ queue \in Seq(Call)
    /\ permits \in Nat
    /\ events \in SUBSET Call
    /\ pc \in [Call -> Location]
    /\ batch \in [Call -> Seq(Call)]
    /\ result \in [Call -> Nat]
    /\ commits \in Seq(Seq(Call))

Init ==
    /\ queue = <<>>
    /\ permits = MaxConcurrentCommits
    /\ events = {}
    /\ pc = [c \in Call |-> "new"]
    /\ batch = [c \in Call |-> <<>>]
    /\ result = [c \in Call |-> 0]
    /\ commits = <<>>

-----------------------------------------------------------------------------
\* Slip: whether the caller leads is decided before it holds queue_lock, so the
\* answer may be stale: two leaders, or a follower without one.
EnterUnlocked(c) ==
    /\ pc[c] = "new"
    /\ queue' = Append(queue, c)
    /\ \E leads \in BOOLEAN :
          pc' = [pc EXCEPT ![c] = IF leads THEN "sleep" ELSE "wait"]
    /\ UNCHANGED <<permits, events, batch, result, commits>>

\* The first section under queue_lock: the first in the queue leads.
Enter(c) ==
    /\ pc[c] = "new"
    /\ queue' = Append(queue, c)
    /\ pc' = [pc EXCEPT ![c] = IF queue = <<>> THEN "sleep" ELSE "wait"]
    /\ UNCHANGED <<permits, events, batch, result, commits>>

\* Slip: the queue is read but not emptied.
TakeQueueAndKeepIt(c) ==
    /\ pc[c] = "sleep"
    /\ batch' = [batch EXCEPT ![c] = queue]
    /\ pc' = [pc EXCEPT ![c] = "merge"]
    /\ UNCHANGED <<queue, permits, events, result, commits>>

\* The second section under queue_lock: the leader takes everybody's data.
TakeQueue(c) ==
    /\ pc[c] = "sleep"
    /\ batch' = [batch EXCEPT ![c] = queue]
    /\ queue' = <<>>
    /\ pc' = [pc EXCEPT ![c] = "merge"]
    /\ UNCHANGED <<permits, events, result, commits>>

\* The data are merged; the leader gets a permit of commit_sem.
AcquireCommitSem(c) ==
    /\ pc[c] = "merge"
    /\ permits > 0
    /\ permits' = permits - 1
    /\ pc' = [pc EXCEPT ![c] = "committing"]
    /\ UNCHANGED <<queue, events, batch, result, commits>>

\* commit_func(merged) succeeds and the permit is given back.
Commit(c) ==
    /\ pc[c] = "committing"
    /\ commits' = Append(commits, batch[c])
    /\ permits' = permits + 1
    /\ pc' = [pc EXCEPT ![c] = "wake"]
    /\ UNCHANGED <<queue, events, batch, result>>

\* merge_func or commit_func raises: the exception leaves commit(), the with
\* statement gives a permit back, and nobody sets the followers' events.
Raise(c) ==
    /\ MayRaise
    /\ pc[c] \in {"merge", "committing"}
    /\ permits' = IF pc[c] = "committing" THEN permits + 1 ELSE permits
    /\ pc' = [pc EXCEPT ![c] = "raised"]
    /\ UNCHANGED <<queue, events, batch, result, commits>>

\* The loop over q[1:] sets the next event.
SetEvent(c) ==
    /\ pc[c] = "wake"
    /\ \E i \in 2 .. Len(batch[c]) :
          /\ \A j \in 2 .. i : batch[c][j] \in events <=> j < i
          /\ events' = events \cup {batch[c][i]}
    /\ UNCHANGED <<queue, permits, pc, batch, result, commits>>

\* All events are set; the leader forgets its group and returns its size.
LeaderReturns(c) ==
    /\ pc[c] = "wake"
    /\ \A i \in 2 .. Len(batch[c]) : batch[c][i] \in events
    /\ result' = [result EXCEPT ![c] = Len(batch[c])]
    /\ batch' = [batch EXCEPT ![c] = <<>>]
    /\ pc' = [pc EXCEPT ![c] = "returned"]
    /\ UNCHANGED <<queue, permits, events, commits>>

\* Slip: the wait times out.
FollowerTimesOut(c) ==
    /\ pc[c] = "wait"
    /\ pc' = [pc EXCEPT ![c] = "returned"]
    /\ UNCHANGED <<queue, permits, events, batch, result, commits>>

\* A follower gets past event.wait() and returns 0.
FollowerReturns(c) ==
    /\ pc[c] = "wait"
    /\ c \in events
    /\ pc' = [pc EXCEPT ![c] = "returned"]
    /\ UNCHANGED <<queue, permits, events, batch, result, commits>>

Next == \E c \in Call :
    \/ Enter(c)
    \/ TakeQueue(c)
    \/ AcquireCommitSem(c)
    \/ Commit(c)
    \/ Raise(c)
    \/ SetEvent(c)
    \/ LeaderReturns(c)
    \/ FollowerReturns(c)

Spec == Init /\ [][Next]_vars

\* Every thread keeps running and commit_func ends.
Fairness == \A c \in Call :
    WF_vars(\/ Enter(c) \/ TakeQueue(c) \/ AcquireCommitSem(c) \/ Commit(c)
            \/ SetEvent(c) \/ LeaderReturns(c) \/ FollowerReturns(c))

FairSpec == Spec /\ Fairness

-----------------------------------------------------------------------------
(***************************************************************************)
(* Safety.                                                                 *)
(***************************************************************************)
Members(s) == {s[i] : i \in DOMAIN s}
NoRepetition(s) == \A i, j \in DOMAIN s : s[i] = s[j] => i = j

Durable == UNION {Members(commits[i]) : i \in DOMAIN commits}

\* The groups that were taken and are not committed, those of the leaders that
\* raised included, and the data in them.
Uncommitted == {c \in Call : pc[c] \in {"merge", "committing", "raised"}}
Taken == UNION {Members(batch[l]) : l \in Uncommitted}

\* A datum handed in is in one place: no datum is dropped when the queue is
\* swapped, taken by two leaders, or committed twice.
ExactlyOnce ==
    /\ NoRepetition(queue)
    /\ \A l \in Uncommitted : NoRepetition(batch[l])
    /\ \A i \in DOMAIN commits : NoRepetition(commits[i])
    /\ \A k, l \in Uncommitted : k # l => Members(batch[k]) \cap Members(batch[l]) = {}
    /\ \A i, j \in DOMAIN commits : i # j => Members(commits[i]) \cap Members(commits[j]) = {}
    /\ Members(queue) \cap Taken = {}
    /\ Durable \cap (Members(queue) \cup Taken) = {}
    /\ \A c \in Call : pc[c] # "new" => c \in Durable \cup Members(queue) \cup Taken

\* The leader is the first of the group it takes: q[1:] are the others, and
\* only the others wait for an event.
LeaderHeadsGroup == \A l \in Call :
    /\ pc[l] = "sleep" => queue # <<>> /\ queue[1] = l
    /\ pc[l] \in Leading \cup {"raised"} =>
          /\ batch[l] # <<>> /\ batch[l][1] = l
          /\ \A i \in 2 .. Len(batch[l]) : pc[batch[l][i]] \in {"wait", "returned"}

\* Nobody returns before its datum is durable.
ReturnedIsDurable == \A c \in Call :
    pc[c] = "returned" \/ c \in events => c \in Durable

\* A follower still waiting is one somebody will wake: its leader sleeps, or
\* holds it in its group, unless that leader raised.
FollowerHasLeader == \A c \in Call : pc[c] = "wait" /\ c \notin events =>
    \/ c \in Members(queue) /\ pc[queue[1]] = "sleep"
    \/ \E l \in Call : pc[l] \in Leading \cup {"raised"} /\ c \in Members(batch[l])

\* No more than max_concurrent_commits calls of commit_func run at a time, and
\* permits are neither lost nor invented.
Committing == {c \in Call : pc[c] = "committing"}
ConcurrencyBounded == permits + Cardinality(Committing) = MaxConcurrentCommits

-----------------------------------------------------------------------------
(***************************************************************************)
(* The inductive invariant behind the safety properties.                   *)
(***************************************************************************)
\* The first in the queue is about to take it, the others wait.
QueueInv == \A i \in DOMAIN queue : pc[queue[i]] = IF i = 1 THEN "sleep" ELSE "wait"

\* Whoever's datum is durable is its leader, done committing, or a follower.
DurableInv == \A c \in Durable : pc[c] \in {"wake", "wait", "returned"}

\* A leader sets events for data it has committed.
WakeInv == \A l \in Call : pc[l] = "wake" => Members(batch[l]) \subseteq Durable

IInv ==
    /\ TypeOK
    /\ ExactlyOnce
    /\ LeaderHeadsGroup
    /\ ReturnedIsDurable
    /\ FollowerHasLeader
    /\ QueueInv
    /\ DurableInv
    /\ WakeInv

-----------------------------------------------------------------------------
(***************************************************************************)
(* The service that the callers see.                                       *)
(***************************************************************************)
Status == [c \in Call |->
    IF pc[c] \in {"new", "returned", "raised"} THEN pc[c]
    ELSE IF c \in Durable THEN "durable" ELSE "pending"]

Service == INSTANCE CommitService
           WITH status <- Status, log <- [i \in DOMAIN commits |-> Members(commits[i])]

\* Groups commit in one go, once, and before any of their calls returns.
RefinesService == Service!ServiceSpec

(***************************************************************************)
(* Liveness.                                                               *)
(***************************************************************************)
\* Every call returns or raises, unless it follows a leader that raised: those
\* followers are the only ones left behind.
LeftBehind(c) == \E l \in Call : pc[l] = "raised" /\ c \in Members(batch[l])

EveryCallReturns == \A c \in Call :
    pc[c] # "new" ~> pc[c] \in {"returned", "raised"} \/ LeftBehind(c)
=============================================================================
