--------------------------- MODULE LeaderElection ---------------------------
(***************************************************************************)
(* LeaderElection of golang/etcd_leader_election/leader_election.go: the   *)
(* participants of one election, each a LeaderElection object from         *)
(* StartLeaderElectionAsync to Close, with                                 *)
(*   - the goroutine that times out the creation of its session,           *)
(*   - the goroutine that runs Campaign and reports how it ended,          *)
(*   - a call of BlockingWaitForLeadership and a call of Close.            *)
(*                                                                         *)
(* etcd and its client library are external.  Of them the code uses that   *)
(* the key of a participant lives no longer than its lease, that a lease   *)
(* nobody keeps alive expires, that Campaign returns nil when no key older *)
(* than its own is left, and that a Campaign whose context is cancelled    *)
(* tries to delete its key before it returns the error.                    *)
(***************************************************************************)
EXTENDS Naturals, Sequences

CONSTANTS
    Participant,
    Waiters,        \* the participants that call BlockingWaitForLeadership
    Lossy           \* those whose calls to the servers may fail or time out

ASSUME WaitersAssumption == Waiters \subseteq Participant
ASSUME LossyAssumption == Lossy \subseteq Participant

VARIABLES
    line,   \* etcd: the participants that wrote their key, the oldest key first
    keys,   \* etcd: the participants whose key exists
    lease,  \* etcd: the lease of each participant
    le      \* the LeaderElection object and the goroutines of each participant

vars == <<line, keys, lease, le>>

(***************************************************************************)
(* The fields of le[p].  Contexts, the client and the flags of channels    *)
(* are TRUE once cancelled, closed or sent to.                             *)
(***************************************************************************)
LeaderElectionState == [
    start: {"idle", "session", "handoff", "started", "failed"},
    session: {"none", "open", "done"},      \* "done": session.Done() is closed
    sessionCancelled: BOOLEAN, campaignCancelled: BOOLEAN, clientClosed: BOOLEAN,
    camp: {"none", "begin", "waiting", "resigning", "failed", "won", "stored", "leading", "reported", "exit"},
    isLeader: BOOLEAN, isClosed: BOOLEAN,
    BecomeLeaderCh: BOOLEAN, ErrorCh: BOOLEAN, cancelCh: BOOLEAN,
    closer: {"none", "cancel", "load", "resign", "session", "revoke", "client", "closed"},
    waiter: {"none", "waiting", "true", "false"}]

\* A participant writes its key once, so line has no repetitions.
TypeOK ==
    /\ line \in Seq(Participant)
    /\ \A i, j \in DOMAIN line : line[i] = line[j] => i = j
    /\ keys \in SUBSET Participant
    /\ lease \in [Participant -> {"none", "live", "gone"}]
    /\ le \in [Participant -> LeaderElectionState]

Init ==
    /\ line = <<>>
    /\ keys = {}
    /\ lease = [p \in Participant |-> "none"]
    /\ le = [p \in Participant |-> [
            start |-> "idle", session |-> "none",
            sessionCancelled |-> FALSE, campaignCancelled |-> FALSE, clientClosed |-> FALSE,
            camp |-> "none", isLeader |-> FALSE, isClosed |-> FALSE,
            BecomeLeaderCh |-> FALSE, ErrorCh |-> FALSE, cancelCh |-> FALSE,
            closer |-> "none", waiter |-> "none"]]

etcd == <<line, keys, lease>>

\* The keys older than p's.
Older(p) == {q \in keys : \E i, j \in DOMAIN line : i < j /\ line[i] = q /\ line[j] = p}

\* A call to the servers deletes p's key, unless it fails.
DeleteKey(p) ==
    /\ \/ ~le[p].clientClosed /\ keys' = keys \ {p}
       \/ (le[p].clientClosed \/ p \in Lossy) /\ keys' = keys
    /\ UNCHANGED <<line, lease>>

-----------------------------------------------------------------------------
(***************************************************************************)
(* etcd.                                                                   *)
(***************************************************************************)
\* The servers have not heard from p for the TTL of its lease.
LeaseExpires(p) ==
    /\ lease[p] = "live"
    /\ le[p].session = "done" \/ p \in Lossy
    /\ lease' = [lease EXCEPT ![p] = "gone"]
    /\ keys' = keys \ {p}
    /\ UNCHANGED <<line, le>>

\* The client library stops to keep p's lease alive: the context of the session
\* was cancelled, the client was closed, or the lease is gone.
SessionEnds(p) ==
    /\ le[p].session = "open"
    /\ le[p].sessionCancelled \/ le[p].clientClosed \/ lease[p] = "gone"
    /\ le' = [le EXCEPT ![p].session = "done"]
    /\ UNCHANGED etcd

\* p gets no answer from the servers and gives its session up.
ContactLost(p) ==
    /\ p \in Lossy
    /\ le[p].session = "open"
    /\ le' = [le EXCEPT ![p].session = "done"]
    /\ UNCHANGED etcd

-----------------------------------------------------------------------------
(***************************************************************************)
(* StartLeaderElectionAsync.                                               *)
(***************************************************************************)
\* The client is connected; createEtcdSession starts its timer and NewSession.
Start(p) ==
    /\ le[p].start = "idle"
    /\ le' = [le EXCEPT ![p].start = "session"]
    /\ UNCHANGED etcd

\* NewSession succeeds; the timer is not stopped yet.
SessionCreated(p) ==
    /\ le[p].start = "session"
    /\ lease' = [lease EXCEPT ![p] = "live"]
    /\ le' = [le EXCEPT ![p].start = "handoff", ![p].session = "open"]
    /\ UNCHANGED <<line, keys>>

\* The timer fires, before or just after NewSession returns.
SessionTimeout(p) ==
    /\ p \in Lossy
    /\ le[p].start \in {"session", "handoff"}
    /\ ~le[p].sessionCancelled
    /\ le' = [le EXCEPT ![p].sessionCancelled = TRUE]
    /\ UNCHANGED etcd

\* NewSession returns an error; the deferred loop closes the client.
StartFails(p) ==
    /\ p \in Lossy
    /\ le[p].start = "session"
    /\ le' = [le EXCEPT ![p].start = "failed", ![p].clientClosed = TRUE]
    /\ UNCHANGED etcd

\* The timer goroutine is gone, the campaign goroutine is started.
StartSucceeds(p) ==
    /\ le[p].start = "handoff"
    /\ le' = [le EXCEPT ![p].start = "started", ![p].camp = "begin"]
    /\ UNCHANGED etcd

-----------------------------------------------------------------------------
(***************************************************************************)
(* The campaign goroutine.                                                 *)
(***************************************************************************)
WriteKey(p) == line' = Append(line, p) /\ keys' = keys \cup {p}

\* Campaign writes the key and begins to wait for the older ones to go.
CampaignEnters(p) ==
    /\ le[p].camp = "begin"
    /\ ~le[p].clientClosed
    /\ lease[p] = "live"
    /\ WriteKey(p)
    /\ le' = [le EXCEPT ![p].camp = "waiting"]
    /\ UNCHANGED lease

\* The write fails: it is cancelled, or there is no lease, client or contact.
\* When only its answer was lost, the key stays behind.
CampaignEnterFails(p) ==
    /\ le[p].camp = "begin"
    /\ p \in Lossy \/ le[p].campaignCancelled \/ le[p].clientClosed \/ lease[p] = "gone"
    /\ \/ lease[p] = "live" /\ ~le[p].clientClosed /\ WriteKey(p)
       \/ UNCHANGED <<line, keys>>
    /\ le' = [le EXCEPT ![p].camp = "failed"]
    /\ UNCHANGED lease

\* The wait ends with an error. Only a cancelled Campaign deletes its key.
CampaignWaitFails(p) ==
    /\ le[p].camp = "waiting"
    /\ p \in Lossy \/ le[p].campaignCancelled \/ le[p].clientClosed
    /\ le' = [le EXCEPT ![p].camp = IF le[p].campaignCancelled THEN "resigning" ELSE "failed"]
    /\ UNCHANGED etcd

CampaignResigns(p) ==
    /\ le[p].camp = "resigning"
    /\ DeleteKey(p)
    /\ le' = [le EXCEPT ![p].camp = "failed"]

\* Slip: the leadership is taken without waiting for it.
CampaignWinsAtOnce(p) ==
    /\ le[p].camp = "waiting"
    /\ le' = [le EXCEPT ![p].camp = "won"]
    /\ UNCHANGED etcd

\* Campaign returns nil.
CampaignWins(p) ==
    /\ le[p].camp = "waiting"
    /\ ~le[p].clientClosed
    /\ Older(p) = {}
    /\ le' = [le EXCEPT ![p].camp = "won"]
    /\ UNCHANGED etcd

StoreIsLeader(p) ==
    /\ le[p].camp = "won"
    /\ le' = [le EXCEPT ![p].camp = "stored", ![p].isLeader = TRUE]
    /\ UNCHANGED etcd

Announce(p) ==
    /\ le[p].camp = "stored"
    /\ le' = [le EXCEPT ![p].camp = "leading", ![p].BecomeLeaderCh = TRUE]
    /\ UNCHANGED etcd

\* Slip: the end of the session is reported by a watcher of its own.
ReportAside(p) ==
    /\ ~le[p].ErrorCh
    /\ le[p].camp = "failed" \/ le[p].session = "done"
    /\ le' = [le EXCEPT ![p].camp = IF @ \in {"failed", "leading"} THEN "reported" ELSE @, ![p].ErrorCh = TRUE]
    /\ UNCHANGED etcd

\* Campaign failed, or the session of the leader is done: send the error.
Report(p) ==
    /\ \/ le[p].camp = "failed"
       \/ le[p].camp = "leading" /\ le[p].session = "done"
    /\ le' = [le EXCEPT ![p].camp = "reported", ![p].ErrorCh = TRUE]
    /\ UNCHANGED etcd

CloseCancelCh(p) ==
    /\ le[p].camp = "reported"
    /\ le' = [le EXCEPT ![p].camp = "exit", ![p].cancelCh = TRUE]
    /\ UNCHANGED etcd

-----------------------------------------------------------------------------
(***************************************************************************)
(* Close.  Further calls find isClosed set and return.                     *)
(***************************************************************************)
Close(p) ==
    /\ le[p].start = "started"
    /\ ~le[p].isClosed
    /\ le' = [le EXCEPT ![p].isClosed = TRUE, ![p].closer = "cancel"]
    /\ UNCHANGED etcd

CloseCancelsCampaign(p) ==
    /\ le[p].closer = "cancel"
    /\ le' = [le EXCEPT ![p].closer = "load", ![p].campaignCancelled = TRUE]
    /\ UNCHANGED etcd

CloseLoadsIsLeader(p) ==
    /\ le[p].closer = "load"
    /\ le' = [le EXCEPT ![p].closer = IF le[p].isLeader THEN "resign" ELSE "session"]
    /\ UNCHANGED etcd

\* Resign with a timeout; its error is ignored.
CloseResigns(p) ==
    /\ le[p].closer = "resign"
    /\ DeleteKey(p)
    /\ le' = [le EXCEPT ![p].closer = "session"]

\* Slip: Close leaves the session as it is.
CloseKeepsSession(p) ==
    /\ le[p].closer = "session"
    /\ le' = [le EXCEPT ![p].closer = "closed"]
    /\ UNCHANGED etcd

CloseCancelsSession(p) ==
    /\ le[p].closer = "session"
    /\ le' = [le EXCEPT ![p].closer = "revoke", ![p].sessionCancelled = TRUE]
    /\ UNCHANGED etcd

\* etcdSession.Close: wait for the session to end, then try to revoke the lease.
CloseRevokesLease(p) ==
    /\ le[p].closer = "revoke"
    /\ le[p].session = "done"
    /\ \/ lease' = [lease EXCEPT ![p] = "gone"] /\ keys' = keys \ {p}
       \/ UNCHANGED <<lease, keys>>     \* its context was cancelled before
    /\ le' = [le EXCEPT ![p].closer = "client"]
    /\ UNCHANGED line

CloseClosesClient(p) ==
    /\ le[p].closer = "client"
    /\ le' = [le EXCEPT ![p].closer = "closed", ![p].clientClosed = TRUE]
    /\ UNCHANGED etcd

-----------------------------------------------------------------------------
(***************************************************************************)
(* BlockingWaitForLeadership.                                              *)
(***************************************************************************)
BlockingWait(p) ==
    /\ p \in Waiters
    /\ le[p].start = "started"
    /\ le[p].waiter = "none"
    /\ le' = [le EXCEPT ![p].waiter = IF le[p].isClosed THEN "false" ELSE "waiting"]
    /\ UNCHANGED etcd

\* The select: a closed channel is always ready, either may be taken.
WaiterSelects(p) ==
    /\ le[p].waiter = "waiting"
    /\ \/ le[p].BecomeLeaderCh /\ le' = [le EXCEPT ![p].waiter = "true"]
       \/ le[p].cancelCh /\ le' = [le EXCEPT ![p].waiter = "false"]
    /\ UNCHANGED etcd

Goroutine(p) ==
    \/ CampaignEnters(p) \/ CampaignEnterFails(p) \/ CampaignResigns(p) \/ CampaignWins(p)
    \/ le[p].campaignCancelled /\ CampaignWaitFails(p)
    \/ StoreIsLeader(p) \/ Announce(p) \/ Report(p) \/ CloseCancelCh(p)

Closing(p) ==
    \/ CloseCancelsCampaign(p) \/ CloseLoadsIsLeader(p) \/ CloseResigns(p)
    \/ CloseCancelsSession(p) \/ CloseRevokesLease(p) \/ CloseClosesClient(p)

Next == \E p \in Participant :
    \/ LeaseExpires(p) \/ SessionEnds(p) \/ ContactLost(p)
    \/ Start(p) \/ SessionCreated(p) \/ SessionTimeout(p) \/ StartFails(p) \/ StartSucceeds(p)
    \/ Goroutine(p) \/ CampaignWaitFails(p)
    \/ Close(p) \/ Closing(p)
    \/ BlockingWait(p) \/ WaiterSelects(p)

Spec == Init /\ [][Next]_vars

\* Goroutines run, a session that has a reason to end ends, a lease that is not
\* kept alive expires, and the owner closes an object that reported an error, as
\* the comment on ErrorCh asks.  Nothing forces a participant to start, to be
\* closed without an error, or to lose contact.
Fairness == \A p \in Participant :
    /\ WF_vars(Goroutine(p))
    /\ WF_vars(Closing(p))
    /\ WF_vars(WaiterSelects(p))
    /\ WF_vars(StartSucceeds(p))
    /\ WF_vars(SessionEnds(p))
    /\ WF_vars(le[p].session = "done" /\ LeaseExpires(p))
    /\ WF_vars(le[p].ErrorCh /\ Close(p))

FairSpec == Spec /\ Fairness

\* A bound on the states of a run, for its cfg.  BlockingWaitForLeadership only reads what its
\* own object shows, and nobody reads how far it has come: it is followed only while the
\* others have not started.  Whatever happens without it is explored in full.
WaitersAlone == \A p \in Participant :
    le[p].waiter # "none" => \A q \in Participant \ {p} : le[q].start = "idle"

-----------------------------------------------------------------------------
(***************************************************************************)
(* Safety.                                                                 *)
(***************************************************************************)
Elected == {p \in Participant : le[p].camp \in {"won", "stored", "leading"}}

\* "The leader won't involuntarily lose the leadership as long as its etcd
\* session is valid": an elected participant that has its key has the oldest,
\* so no two participants are elected while both have their keys.
ElectedIsFirst == \A p \in Elected \cap keys : Older(p) = {}

\* "If an error happens after the caller becomes a leader, the caller is not
\* the leader anymore": its session is done by then.
ErrorEndsLeadership == \A p \in Participant :
    le[p].ErrorCh /\ le[p].BecomeLeaderCh => le[p].session = "done"

\* BlockingWaitForLeadership returns false only after the object was closed or
\* an error was sent, which the caller then finds in ErrorCh.
FalseMeansOver == \A p \in Participant :
    le[p].waiter = "false" => le[p].isClosed \/ le[p].ErrorCh

\* The inductive invariant behind these: how far the campaign goroutine has come
\* determines what the two channels and the line of keys can show.
CampaignOrder(p) ==
    /\ le[p].camp # "none" => le[p].start = "started"
    /\ le[p].camp \in {"none", "begin"} => \A i \in DOMAIN line : line[i] # p
    /\ le[p].BecomeLeaderCh => le[p].camp \in {"leading", "reported", "exit"}
    /\ le[p].ErrorCh <=> le[p].camp \in {"reported", "exit"}
    /\ le[p].cancelCh <=> le[p].camp = "exit"

IInv ==
    /\ TypeOK
    /\ ElectedIsFirst
    /\ \A p \in Participant : CampaignOrder(p)
    /\ ErrorEndsLeadership
    /\ FalseMeansOver

\* "If an error happens before the caller becomes a leader, the caller will
\* never become a leader."  Whoever finds cancelCh closed finds the error in ErrorCh.
NoLeaderAfterError ==
    [][\A p \in Participant :
           /\ le[p].ErrorCh => le'[p].BecomeLeaderCh = le[p].BecomeLeaderCh
           /\ le'[p].cancelCh => le'[p].ErrorCh]_vars

-----------------------------------------------------------------------------
\* "Return false if any error happens": BlockingWaitForLeadership does not return true
\* once an error was sent.
TrueMeansNoError ==
    [][\A p \in Participant : le[p].waiter = "waiting" /\ le'[p].waiter = "true" => ~le[p].ErrorCh]_vars

(***************************************************************************)
(* Liveness.                                                               *)
(***************************************************************************)
\* Close returns, and "LeaderElection.Close() also causes an error".
CloseEnds == \A p \in Participant :
    le[p].isClosed ~> le[p].closer = "closed" /\ le[p].ErrorCh

\* Whatever Close races with, the key of a closed participant goes: the others
\* do not wait for it for ever.
KeyIsReleased == \A p \in Participant : le[p].isClosed ~> [](p \notin keys)

\* While somebody waits for the leadership, somebody holds it or comes to.
SomebodyLeads == \A p \in Participant :
    le[p].camp = "waiting" ~>
        \/ le[p].camp # "waiting"
        \/ \E q \in Participant : le[q].camp = "leading" /\ le[q].session = "open" /\ ~le[q].isClosed
=============================================================================
