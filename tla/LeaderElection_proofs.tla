----------------------- MODULE LeaderElection_proofs -----------------------
(***************************************************************************)
(* Proofs about LeaderElection, for every set of participants and          *)
(* whichever of them lose contact.                                         *)
(***************************************************************************)
EXTENDS LeaderElection, SequenceTheorems, TLAPS

\* What a step of p leaves true of p itself.
Own(p) ==
    /\ CampaignOrder(p)
    /\ le[p].ErrorCh /\ le[p].BecomeLeaderCh => le[p].session = "done"
    /\ le[p].waiter = "false" => le[p].isClosed \/ le[p].ErrorCh

LEMMA OwnByIInv == ASSUME IInv, NEW p \in Participant PROVE Own(p)
  BY DEF IInv, Own, ErrorEndsLeadership, FalseMeansOver

\* Assigning one field keeps the type of the record.
LEMMA SetField ==
    ASSUME NEW r \in LeaderElectionState
    PROVE  /\ \A v \in {"idle", "session", "handoff", "started", "failed"} :
                  [r EXCEPT !.start = v] \in LeaderElectionState
           /\ \A v \in {"none", "begin", "waiting", "resigning", "failed", "won", "stored", "leading", "reported", "exit"} :
                  [r EXCEPT !.camp = v] \in LeaderElectionState
           /\ \A v \in {"none", "open", "done"} : [r EXCEPT !.session = v] \in LeaderElectionState
           /\ \A v \in {"none", "cancel", "load", "resign", "session", "revoke", "client", "closed"} :
                  [r EXCEPT !.closer = v] \in LeaderElectionState
           /\ \A v \in {"none", "waiting", "true", "false"} : [r EXCEPT !.waiter = v] \in LeaderElectionState
           /\ \A v \in BOOLEAN : /\ [r EXCEPT !.sessionCancelled = v] \in LeaderElectionState
                                 /\ [r EXCEPT !.campaignCancelled = v] \in LeaderElectionState
                                 /\ [r EXCEPT !.clientClosed = v] \in LeaderElectionState
                                 /\ [r EXCEPT !.isLeader = v] \in LeaderElectionState
                                 /\ [r EXCEPT !.isClosed = v] \in LeaderElectionState
                                 /\ [r EXCEPT !.BecomeLeaderCh = v] \in LeaderElectionState
                                 /\ [r EXCEPT !.ErrorCh = v] \in LeaderElectionState
                                 /\ [r EXCEPT !.cancelCh = v] \in LeaderElectionState
  <1>1. \A v \in {"idle", "session", "handoff", "started", "failed"} :
            [r EXCEPT !.start = v] \in LeaderElectionState
    BY DEF LeaderElectionState
  <1>2. \A v \in {"none", "begin", "waiting", "resigning", "failed", "won", "stored", "leading", "reported", "exit"} :
            [r EXCEPT !.camp = v] \in LeaderElectionState
    BY DEF LeaderElectionState
  <1>3. \A v \in {"none", "open", "done"} : [r EXCEPT !.session = v] \in LeaderElectionState
    BY DEF LeaderElectionState
  <1>4. \A v \in {"none", "cancel", "load", "resign", "session", "revoke", "client", "closed"} :
            [r EXCEPT !.closer = v] \in LeaderElectionState
    BY DEF LeaderElectionState
  <1>5. \A v \in {"none", "waiting", "true", "false"} : [r EXCEPT !.waiter = v] \in LeaderElectionState
    BY DEF LeaderElectionState
  <1>6. \A v \in BOOLEAN : /\ [r EXCEPT !.sessionCancelled = v] \in LeaderElectionState
                           /\ [r EXCEPT !.campaignCancelled = v] \in LeaderElectionState
                           /\ [r EXCEPT !.clientClosed = v] \in LeaderElectionState
                           /\ [r EXCEPT !.isLeader = v] \in LeaderElectionState
    BY DEF LeaderElectionState
  <1>7. \A v \in BOOLEAN : /\ [r EXCEPT !.isClosed = v] \in LeaderElectionState
                           /\ [r EXCEPT !.BecomeLeaderCh = v] \in LeaderElectionState
                           /\ [r EXCEPT !.ErrorCh = v] \in LeaderElectionState
                           /\ [r EXCEPT !.cancelCh = v] \in LeaderElectionState
    BY DEF LeaderElectionState
  <1> QED
    BY <1>1, <1>2, <1>3, <1>4, <1>5, <1>6, <1>7

\* A step of p assigns the record of p and no other.
LEMMA SetRecord ==
    ASSUME NEW S, NEW f \in [Participant -> S], NEW p \in Participant, NEW r \in S,
           NEW g, g = [f EXCEPT ![p] = r]
    PROVE  g \in [Participant -> S] /\ g[p] = r /\ \A q \in Participant : q # p => g[q] = f[q]
  OBVIOUS

\* A step of p that writes no key preserves the invariant if it preserves what
\* concerns p alone and elects p only when no older key is left.
LEMMA StepWithoutKey ==
    ASSUME IInv, NEW p \in Participant,
           le' \in [Participant -> LeaderElectionState],
           \A q \in Participant : q # p => le'[q] = le[q],
           line' = line, keys' \subseteq keys,
           lease' \in [Participant -> {"none", "live", "gone"}],
           Own(p)',
           p \in Elected' => p \in Elected \/ Older(p) = {}
    PROVE  IInv'
  <1>1. TypeOK'
    BY DEF IInv, TypeOK
  <1>2. \A q \in Participant : Own(q)'
    BY OwnByIInv DEF Own, CampaignOrder
  <1>3. ElectedIsFirst'
    <2> SUFFICES ASSUME NEW q \in Participant, q \in Elected', q \in keys'
                 PROVE  Older(q)' = {}
      BY DEF ElectedIsFirst, Elected
    <2>1. Older(q)' \subseteq Older(q)
      BY DEF Older
    <2>2. q \in Elected \/ Older(q) = {}
      BY DEF Elected
    <2> QED
      BY <2>1, <2>2 DEF IInv, ElectedIsFirst
  <1> QED
    BY <1>1, <1>2, <1>3 DEF IInv, Own, ErrorEndsLeadership, FalseMeansOver

\* Writing the key at the end of the line disturbs nobody who is elected.
LEMMA StepWithKey ==
    ASSUME IInv, NEW p \in Participant, le[p].camp = "begin", WriteKey(p),
           le' \in [Participant -> LeaderElectionState],
           \A q \in Participant : q # p => le'[q] = le[q],
           UNCHANGED lease, Own(p)', p \notin Elected'
    PROVE  IInv'
  <1>1. /\ line \in Seq(Participant) /\ Len(line) \in Nat
        /\ DOMAIN line = 1 .. Len(line) /\ DOMAIN line' = 1 .. Len(line) + 1
        /\ \A i \in 1 .. Len(line) : line'[i] = line[i] /\ line[i] # p
        /\ line'[Len(line) + 1] = p
        /\ line' \in Seq(Participant)
    BY DEF IInv, TypeOK, CampaignOrder, WriteKey
  <1>2. TypeOK'
    <2>1. \A i, j \in DOMAIN line' : line'[i] = line'[j] => i = j
      BY <1>1 DEF IInv, TypeOK
    <2> QED
      BY <1>1, <2>1 DEF IInv, TypeOK, WriteKey
  <1>3. \A q \in Participant : Own(q)'
    <2> SUFFICES ASSUME NEW q \in Participant, q # p PROVE Own(q)'
      OBVIOUS
    <2>1. Own(q) /\ le'[q] = le[q]
      BY OwnByIInv
    <2>2. (\A i \in DOMAIN line : line[i] # q) => \A i \in DOMAIN line' : line'[i] # q
      BY <1>1
    <2> QED
      BY <2>1, <2>2 DEF Own, CampaignOrder
  <1>4. ElectedIsFirst'
    <2> SUFFICES ASSUME NEW q \in Participant, q \in Elected', q \in keys', NEW o \in Older(q)'
                 PROVE  FALSE
      BY DEF ElectedIsFirst, Elected
    <2>1. q # p /\ q \in Elected /\ q \in keys
      BY DEF Elected, WriteKey
    <2>2. PICK i, j \in DOMAIN line' : i < j /\ line'[i] = o /\ line'[j] = q
      BY DEF Older
    <2>3. i \in DOMAIN line /\ j \in DOMAIN line /\ line[i] = o /\ line[j] = q /\ o # p
      BY <1>1, <2>1, <2>2
    <2>4. o \in keys
      BY <2>3 DEF Older, WriteKey
    <2>5. o \in Older(q)
      BY <2>2, <2>3, <2>4 DEF Older
    <2> QED
      BY <2>1, <2>5 DEF IInv, ElectedIsFirst
  <1> QED
    BY <1>2, <1>3, <1>4 DEF IInv, Own, ErrorEndsLeadership, FalseMeansOver

LEMMA StepOfParticipant ==
    ASSUME IInv, NEW p \in Participant,
           \/ LeaseExpires(p) \/ SessionEnds(p) \/ ContactLost(p)
           \/ Start(p) \/ SessionCreated(p) \/ SessionTimeout(p) \/ StartFails(p) \/ StartSucceeds(p)
           \/ Goroutine(p) \/ CampaignWaitFails(p)
           \/ Close(p) \/ Closing(p)
           \/ BlockingWait(p) \/ WaiterSelects(p)
    PROVE  IInv'
  <1>0. /\ le \in [Participant -> LeaderElectionState] /\ le[p] \in LeaderElectionState
        /\ lease \in [Participant -> {"none", "live", "gone"}] /\ keys \subseteq Participant
        /\ Own(p)
    BY OwnByIInv DEF IInv, TypeOK
  <1>1. CASE Start(p)
    <2>1. /\ le' \in [Participant -> LeaderElectionState]
          /\ \A q \in Participant : q # p => le'[q] = le[q]
          /\ le'[p] = [le[p] EXCEPT !.start = "session"]
      BY <1>0, <1>1, SetField, SetRecord DEF Start
    <2>2. /\ line' = line /\ keys' \subseteq keys
          /\ lease' \in [Participant -> {"none", "live", "gone"}]
      BY <1>0, <1>1 DEF Start, etcd
    <2>3. Own(p)' /\ (p \in Elected' => p \in Elected \/ Older(p) = {})
      BY <1>0, <1>1, <2>1, <2>2 DEF Start, Own, CampaignOrder, Elected, LeaderElectionState
    <2> QED
      BY <2>1, <2>2, <2>3, StepWithoutKey
  <1>2. CASE SessionCreated(p)
    <2>1. /\ le' \in [Participant -> LeaderElectionState]
          /\ \A q \in Participant : q # p => le'[q] = le[q]
          /\ le'[p] = [le[p] EXCEPT !.start = "handoff", !.session = "open"]
      BY <1>0, <1>2, SetField, SetRecord DEF SessionCreated
    <2>2. /\ line' = line /\ keys' \subseteq keys
          /\ lease' \in [Participant -> {"none", "live", "gone"}]
      BY <1>0, <1>2 DEF SessionCreated, etcd
    <2>3. Own(p)' /\ (p \in Elected' => p \in Elected \/ Older(p) = {})
      BY <1>0, <1>2, <2>1, <2>2 DEF SessionCreated, Own, CampaignOrder, Elected, LeaderElectionState
    <2> QED
      BY <2>1, <2>2, <2>3, StepWithoutKey
  <1>3. CASE SessionTimeout(p)
    <2>1. /\ le' \in [Participant -> LeaderElectionState]
          /\ \A q \in Participant : q # p => le'[q] = le[q]
          /\ le'[p] = [le[p] EXCEPT !.sessionCancelled = TRUE]
      BY <1>0, <1>3, SetField, SetRecord DEF SessionTimeout
    <2>2. /\ line' = line /\ keys' \subseteq keys
          /\ lease' \in [Participant -> {"none", "live", "gone"}]
      BY <1>0, <1>3 DEF SessionTimeout, etcd
    <2>3. Own(p)' /\ (p \in Elected' => p \in Elected \/ Older(p) = {})
      BY <1>0, <1>3, <2>1, <2>2 DEF SessionTimeout, Own, CampaignOrder, Elected, LeaderElectionState
    <2> QED
      BY <2>1, <2>2, <2>3, StepWithoutKey
  <1>4. CASE StartFails(p)
    <2>1. /\ le' \in [Participant -> LeaderElectionState]
          /\ \A q \in Participant : q # p => le'[q] = le[q]
          /\ le'[p] = [le[p] EXCEPT !.start = "failed", !.clientClosed = TRUE]
      BY <1>0, <1>4, SetField, SetRecord DEF StartFails
    <2>2. /\ line' = line /\ keys' \subseteq keys
          /\ lease' \in [Participant -> {"none", "live", "gone"}]
      BY <1>0, <1>4 DEF StartFails, etcd
    <2>3. Own(p)' /\ (p \in Elected' => p \in Elected \/ Older(p) = {})
      BY <1>0, <1>4, <2>1, <2>2 DEF StartFails, Own, CampaignOrder, Elected, LeaderElectionState
    <2> QED
      BY <2>1, <2>2, <2>3, StepWithoutKey
  <1>5. CASE StartSucceeds(p)
    <2>1. /\ le' \in [Participant -> LeaderElectionState]
          /\ \A q \in Participant : q # p => le'[q] = le[q]
          /\ le'[p] = [le[p] EXCEPT !.start = "started", !.camp = "begin"]
      BY <1>0, <1>5, SetField, SetRecord DEF StartSucceeds
    <2>2. /\ line' = line /\ keys' \subseteq keys
          /\ lease' \in [Participant -> {"none", "live", "gone"}]
      BY <1>0, <1>5 DEF StartSucceeds, etcd
    <2>3. Own(p)' /\ (p \in Elected' => p \in Elected \/ Older(p) = {})
      BY <1>0, <1>5, <2>1, <2>2 DEF StartSucceeds, Own, CampaignOrder, Elected, LeaderElectionState
    <2> QED
      BY <2>1, <2>2, <2>3, StepWithoutKey
  <1>6. CASE SessionEnds(p)
    <2>1. /\ le' \in [Participant -> LeaderElectionState]
          /\ \A q \in Participant : q # p => le'[q] = le[q]
          /\ le'[p] = [le[p] EXCEPT !.session = "done"]
      BY <1>0, <1>6, SetField, SetRecord DEF SessionEnds
    <2>2. /\ line' = line /\ keys' \subseteq keys
          /\ lease' \in [Participant -> {"none", "live", "gone"}]
      BY <1>0, <1>6 DEF SessionEnds, etcd
    <2>3. Own(p)' /\ (p \in Elected' => p \in Elected \/ Older(p) = {})
      BY <1>0, <1>6, <2>1, <2>2 DEF SessionEnds, Own, CampaignOrder, Elected, LeaderElectionState
    <2> QED
      BY <2>1, <2>2, <2>3, StepWithoutKey
  <1>7. CASE ContactLost(p)
    <2>1. /\ le' \in [Participant -> LeaderElectionState]
          /\ \A q \in Participant : q # p => le'[q] = le[q]
          /\ le'[p] = [le[p] EXCEPT !.session = "done"]
      BY <1>0, <1>7, SetField, SetRecord DEF ContactLost
    <2>2. /\ line' = line /\ keys' \subseteq keys
          /\ lease' \in [Participant -> {"none", "live", "gone"}]
      BY <1>0, <1>7 DEF ContactLost, etcd
    <2>3. Own(p)' /\ (p \in Elected' => p \in Elected \/ Older(p) = {})
      BY <1>0, <1>7, <2>1, <2>2 DEF ContactLost, Own, CampaignOrder, Elected, LeaderElectionState
    <2> QED
      BY <2>1, <2>2, <2>3, StepWithoutKey
  <1>8. CASE CampaignWaitFails(p)
    <2>1. /\ le' \in [Participant -> LeaderElectionState]
          /\ \A q \in Participant : q # p => le'[q] = le[q]
          /\ le'[p] = [le[p] EXCEPT !.camp = IF le[p].campaignCancelled THEN "resigning" ELSE "failed"]
      BY <1>0, <1>8, SetField, SetRecord DEF CampaignWaitFails
    <2>2. /\ line' = line /\ keys' \subseteq keys
          /\ lease' \in [Participant -> {"none", "live", "gone"}]
      BY <1>0, <1>8 DEF CampaignWaitFails, etcd
    <2>3. Own(p)' /\ (p \in Elected' => p \in Elected \/ Older(p) = {})
      BY <1>0, <1>8, <2>1, <2>2 DEF CampaignWaitFails, Own, CampaignOrder, Elected, LeaderElectionState
    <2> QED
      BY <2>1, <2>2, <2>3, StepWithoutKey
  <1>9. CASE CampaignResigns(p)
    <2>1. /\ le' \in [Participant -> LeaderElectionState]
          /\ \A q \in Participant : q # p => le'[q] = le[q]
          /\ le'[p] = [le[p] EXCEPT !.camp = "failed"]
      BY <1>0, <1>9, SetField, SetRecord DEF CampaignResigns
    <2>2. /\ line' = line /\ keys' \subseteq keys
          /\ lease' \in [Participant -> {"none", "live", "gone"}]
      BY <1>0, <1>9 DEF CampaignResigns, etcd, DeleteKey
    <2>3. Own(p)' /\ (p \in Elected' => p \in Elected \/ Older(p) = {})
      BY <1>0, <1>9, <2>1, <2>2 DEF CampaignResigns, Own, CampaignOrder, Elected, LeaderElectionState
    <2> QED
      BY <2>1, <2>2, <2>3, StepWithoutKey
  <1>10. CASE CampaignWins(p)
    <2>1. /\ le' \in [Participant -> LeaderElectionState]
          /\ \A q \in Participant : q # p => le'[q] = le[q]
          /\ le'[p] = [le[p] EXCEPT !.camp = "won"]
      BY <1>0, <1>10, SetField, SetRecord DEF CampaignWins
    <2>2. /\ line' = line /\ keys' \subseteq keys
          /\ lease' \in [Participant -> {"none", "live", "gone"}]
      BY <1>0, <1>10 DEF CampaignWins, etcd
    <2>3. Own(p)' /\ (p \in Elected' => p \in Elected \/ Older(p) = {})
      BY <1>0, <1>10, <2>1, <2>2 DEF CampaignWins, Own, CampaignOrder, Elected, LeaderElectionState
    <2> QED
      BY <2>1, <2>2, <2>3, StepWithoutKey
  <1>11. CASE StoreIsLeader(p)
    <2>1. /\ le' \in [Participant -> LeaderElectionState]
          /\ \A q \in Participant : q # p => le'[q] = le[q]
          /\ le'[p] = [le[p] EXCEPT !.camp = "stored", !.isLeader = TRUE]
      BY <1>0, <1>11, SetField, SetRecord DEF StoreIsLeader
    <2>2. /\ line' = line /\ keys' \subseteq keys
          /\ lease' \in [Participant -> {"none", "live", "gone"}]
      BY <1>0, <1>11 DEF StoreIsLeader, etcd
    <2>3. Own(p)' /\ (p \in Elected' => p \in Elected \/ Older(p) = {})
      BY <1>0, <1>11, <2>1, <2>2 DEF StoreIsLeader, Own, CampaignOrder, Elected, LeaderElectionState
    <2> QED
      BY <2>1, <2>2, <2>3, StepWithoutKey
  <1>12. CASE Announce(p)
    <2>1. /\ le' \in [Participant -> LeaderElectionState]
          /\ \A q \in Participant : q # p => le'[q] = le[q]
          /\ le'[p] = [le[p] EXCEPT !.camp = "leading", !.BecomeLeaderCh = TRUE]
      BY <1>0, <1>12, SetField, SetRecord DEF Announce
    <2>2. /\ line' = line /\ keys' \subseteq keys
          /\ lease' \in [Participant -> {"none", "live", "gone"}]
      BY <1>0, <1>12 DEF Announce, etcd
    <2>3. Own(p)' /\ (p \in Elected' => p \in Elected \/ Older(p) = {})
      BY <1>0, <1>12, <2>1, <2>2 DEF Announce, Own, CampaignOrder, Elected, LeaderElectionState
    <2> QED
      BY <2>1, <2>2, <2>3, StepWithoutKey
  <1>13. CASE Report(p)
    <2>1. /\ le' \in [Participant -> LeaderElectionState]
          /\ \A q \in Participant : q # p => le'[q] = le[q]
          /\ le'[p] = [le[p] EXCEPT !.camp = "reported", !.ErrorCh = TRUE]
      BY <1>0, <1>13, SetField, SetRecord DEF Report
    <2>2. /\ line' = line /\ keys' \subseteq keys
          /\ lease' \in [Participant -> {"none", "live", "gone"}]
      BY <1>0, <1>13 DEF Report, etcd
    <2>3. Own(p)' /\ (p \in Elected' => p \in Elected \/ Older(p) = {})
      BY <1>0, <1>13, <2>1, <2>2 DEF Report, Own, CampaignOrder, Elected, LeaderElectionState
    <2> QED
      BY <2>1, <2>2, <2>3, StepWithoutKey
  <1>14. CASE CloseCancelCh(p)
    <2>1. /\ le' \in [Participant -> LeaderElectionState]
          /\ \A q \in Participant : q # p => le'[q] = le[q]
          /\ le'[p] = [le[p] EXCEPT !.camp = "exit", !.cancelCh = TRUE]
      BY <1>0, <1>14, SetField, SetRecord DEF CloseCancelCh
    <2>2. /\ line' = line /\ keys' \subseteq keys
          /\ lease' \in [Participant -> {"none", "live", "gone"}]
      BY <1>0, <1>14 DEF CloseCancelCh, etcd
    <2>3. Own(p)' /\ (p \in Elected' => p \in Elected \/ Older(p) = {})
      BY <1>0, <1>14, <2>1, <2>2 DEF CloseCancelCh, Own, CampaignOrder, Elected, LeaderElectionState
    <2> QED
      BY <2>1, <2>2, <2>3, StepWithoutKey
  <1>15. CASE Close(p)
    <2>1. /\ le' \in [Participant -> LeaderElectionState]
          /\ \A q \in Participant : q # p => le'[q] = le[q]
          /\ le'[p] = [le[p] EXCEPT !.isClosed = TRUE, !.closer = "cancel"]
      BY <1>0, <1>15, SetField, SetRecord DEF Close
    <2>2. /\ line' = line /\ keys' \subseteq keys
          /\ lease' \in [Participant -> {"none", "live", "gone"}]
      BY <1>0, <1>15 DEF Close, etcd
    <2>3. Own(p)' /\ (p \in Elected' => p \in Elected \/ Older(p) = {})
      BY <1>0, <1>15, <2>1, <2>2 DEF Close, Own, CampaignOrder, Elected, LeaderElectionState
    <2> QED
      BY <2>1, <2>2, <2>3, StepWithoutKey
  <1>16. CASE CloseCancelsCampaign(p)
    <2>1. /\ le' \in [Participant -> LeaderElectionState]
          /\ \A q \in Participant : q # p => le'[q] = le[q]
          /\ le'[p] = [le[p] EXCEPT !.closer = "load", !.campaignCancelled = TRUE]
      BY <1>0, <1>16, SetField, SetRecord DEF CloseCancelsCampaign
    <2>2. /\ line' = line /\ keys' \subseteq keys
          /\ lease' \in [Participant -> {"none", "live", "gone"}]
      BY <1>0, <1>16 DEF CloseCancelsCampaign, etcd
    <2>3. Own(p)' /\ (p \in Elected' => p \in Elected \/ Older(p) = {})
      BY <1>0, <1>16, <2>1, <2>2 DEF CloseCancelsCampaign, Own, CampaignOrder, Elected, LeaderElectionState
    <2> QED
      BY <2>1, <2>2, <2>3, StepWithoutKey
  <1>17. CASE CloseLoadsIsLeader(p)
    <2>1. /\ le' \in [Participant -> LeaderElectionState]
          /\ \A q \in Participant : q # p => le'[q] = le[q]
          /\ le'[p] = [le[p] EXCEPT !.closer = IF le[p].isLeader THEN "resign" ELSE "session"]
      BY <1>0, <1>17, SetField, SetRecord DEF CloseLoadsIsLeader
    <2>2. /\ line' = line /\ keys' \subseteq keys
          /\ lease' \in [Participant -> {"none", "live", "gone"}]
      BY <1>0, <1>17 DEF CloseLoadsIsLeader, etcd
    <2>3. Own(p)' /\ (p \in Elected' => p \in Elected \/ Older(p) = {})
      BY <1>0, <1>17, <2>1, <2>2 DEF CloseLoadsIsLeader, Own, CampaignOrder, Elected, LeaderElectionState
    <2> QED
      BY <2>1, <2>2, <2>3, StepWithoutKey
  <1>18. CASE CloseResigns(p)
    <2>1. /\ le' \in [Participant -> LeaderElectionState]
          /\ \A q \in Participant : q # p => le'[q] = le[q]
          /\ le'[p] = [le[p] EXCEPT !.closer = "session"]
      BY <1>0, <1>18, SetField, SetRecord DEF CloseResigns
    <2>2. /\ line' = line /\ keys' \subseteq keys
          /\ lease' \in [Participant -> {"none", "live", "gone"}]
      BY <1>0, <1>18 DEF CloseResigns, etcd, DeleteKey
    <2>3. Own(p)' /\ (p \in Elected' => p \in Elected \/ Older(p) = {})
      BY <1>0, <1>18, <2>1, <2>2 DEF CloseResigns, Own, CampaignOrder, Elected, LeaderElectionState
    <2> QED
      BY <2>1, <2>2, <2>3, StepWithoutKey
  <1>19. CASE CloseCancelsSession(p)
    <2>1. /\ le' \in [Participant -> LeaderElectionState]
          /\ \A q \in Participant : q # p => le'[q] = le[q]
          /\ le'[p] = [le[p] EXCEPT !.closer = "revoke", !.sessionCancelled = TRUE]
      BY <1>0, <1>19, SetField, SetRecord DEF CloseCancelsSession
    <2>2. /\ line' = line /\ keys' \subseteq keys
          /\ lease' \in [Participant -> {"none", "live", "gone"}]
      BY <1>0, <1>19 DEF CloseCancelsSession, etcd
    <2>3. Own(p)' /\ (p \in Elected' => p \in Elected \/ Older(p) = {})
      BY <1>0, <1>19, <2>1, <2>2 DEF CloseCancelsSession, Own, CampaignOrder, Elected, LeaderElectionState
    <2> QED
      BY <2>1, <2>2, <2>3, StepWithoutKey
  <1>20. CASE CloseRevokesLease(p)
    <2>1. /\ le' \in [Participant -> LeaderElectionState]
          /\ \A q \in Participant : q # p => le'[q] = le[q]
          /\ le'[p] = [le[p] EXCEPT !.closer = "client"]
      BY <1>0, <1>20, SetField, SetRecord DEF CloseRevokesLease
    <2>2. /\ line' = line /\ keys' \subseteq keys
          /\ lease' \in [Participant -> {"none", "live", "gone"}]
      BY <1>0, <1>20 DEF CloseRevokesLease, etcd
    <2>3. Own(p)' /\ (p \in Elected' => p \in Elected \/ Older(p) = {})
      BY <1>0, <1>20, <2>1, <2>2 DEF CloseRevokesLease, Own, CampaignOrder, Elected, LeaderElectionState
    <2> QED
      BY <2>1, <2>2, <2>3, StepWithoutKey
  <1>21. CASE CloseClosesClient(p)
    <2>1. /\ le' \in [Participant -> LeaderElectionState]
          /\ \A q \in Participant : q # p => le'[q] = le[q]
          /\ le'[p] = [le[p] EXCEPT !.closer = "closed", !.clientClosed = TRUE]
      BY <1>0, <1>21, SetField, SetRecord DEF CloseClosesClient
    <2>2. /\ line' = line /\ keys' \subseteq keys
          /\ lease' \in [Participant -> {"none", "live", "gone"}]
      BY <1>0, <1>21 DEF CloseClosesClient, etcd
    <2>3. Own(p)' /\ (p \in Elected' => p \in Elected \/ Older(p) = {})
      BY <1>0, <1>21, <2>1, <2>2 DEF CloseClosesClient, Own, CampaignOrder, Elected, LeaderElectionState
    <2> QED
      BY <2>1, <2>2, <2>3, StepWithoutKey
  <1>22. CASE BlockingWait(p)
    <2>1. /\ le' \in [Participant -> LeaderElectionState]
          /\ \A q \in Participant : q # p => le'[q] = le[q]
          /\ le'[p] = [le[p] EXCEPT !.waiter = IF le[p].isClosed THEN "false" ELSE "waiting"]
      BY <1>0, <1>22, SetField, SetRecord DEF BlockingWait
    <2>2. /\ line' = line /\ keys' \subseteq keys
          /\ lease' \in [Participant -> {"none", "live", "gone"}]
      BY <1>0, <1>22 DEF BlockingWait, etcd
    <2>3. Own(p)' /\ (p \in Elected' => p \in Elected \/ Older(p) = {})
      BY <1>0, <1>22, <2>1, <2>2 DEF BlockingWait, Own, CampaignOrder, Elected, LeaderElectionState
    <2> QED
      BY <2>1, <2>2, <2>3, StepWithoutKey
  <1>23. CASE LeaseExpires(p)
    <2>1. /\ UNCHANGED <<line, le>> /\ keys' \subseteq keys
          /\ lease' \in [Participant -> {"none", "live", "gone"}]
      BY <1>0, <1>23 DEF LeaseExpires
    <2>2. Own(p)' /\ (p \in Elected' => p \in Elected)
      BY <1>0, <2>1 DEF Own, CampaignOrder, Elected
    <2> QED
      BY <1>0, <2>1, <2>2, StepWithoutKey
  <1>24. CASE CampaignEnters(p)
    <2>1. /\ le' \in [Participant -> LeaderElectionState]
          /\ \A q \in Participant : q # p => le'[q] = le[q]
          /\ le'[p] = [le[p] EXCEPT !.camp = "waiting"]
      BY <1>0, <1>24, SetField, SetRecord DEF CampaignEnters
    <2>2. Own(p)' /\ p \notin Elected'
      BY <1>0, <1>24, <2>1 DEF CampaignEnters, Own, CampaignOrder, Elected, LeaderElectionState
    <2> QED
      BY <1>24, <2>1, <2>2, StepWithKey DEF CampaignEnters
  <1>25. CASE CampaignEnterFails(p)
    <2>1. /\ le' \in [Participant -> LeaderElectionState]
          /\ \A q \in Participant : q # p => le'[q] = le[q]
          /\ le'[p] = [le[p] EXCEPT !.camp = "failed"]
      BY <1>0, <1>25, SetField, SetRecord DEF CampaignEnterFails
    <2>2. Own(p)' /\ p \notin Elected'
      BY <1>0, <1>25, <2>1 DEF CampaignEnterFails, Own, CampaignOrder, Elected, LeaderElectionState
    <2>3. CASE WriteKey(p)
      BY <1>25, <2>1, <2>2, <2>3, StepWithKey DEF CampaignEnterFails
    <2>4. CASE UNCHANGED <<line, keys>>
      BY <1>0, <1>25, <2>1, <2>2, <2>4, StepWithoutKey DEF CampaignEnterFails
    <2> QED
      BY <1>25, <2>3, <2>4 DEF CampaignEnterFails
  <1>26. CASE WaiterSelects(p)
    <2>1. PICK v \in {"true", "false"} :
              /\ le' = [le EXCEPT ![p].waiter = v]
              /\ v = "false" => le[p].cancelCh
      BY <1>26 DEF WaiterSelects
    <2>2. /\ le' \in [Participant -> LeaderElectionState]
          /\ \A q \in Participant : q # p => le'[q] = le[q]
          /\ le'[p] = [le[p] EXCEPT !.waiter = v]
      BY <1>0, <2>1, SetField, SetRecord
    <2>3. UNCHANGED <<line, keys, lease>>
      BY <1>26 DEF WaiterSelects, etcd
    <2>4. Own(p)' /\ (p \in Elected' => p \in Elected)
      BY <1>0, <2>1, <2>2, <2>3 DEF Own, CampaignOrder, Elected, LeaderElectionState
    <2> QED
      BY <1>0, <2>2, <2>3, <2>4, StepWithoutKey
  <1> QED
    BY <1>1, <1>2, <1>3, <1>4, <1>5, <1>6, <1>7, <1>8, <1>9, <1>10, <1>11, <1>12, <1>13, <1>14, <1>15, <1>16, <1>17, <1>18, <1>19, <1>20, <1>21, <1>22, <1>23, <1>24, <1>25, <1>26
       DEF Goroutine, Closing

LEMMA InitHolds == Init => IInv
  <1> SUFFICES ASSUME Init PROVE IInv
    OBVIOUS
  <1> DEFINE r == [start |-> "idle", session |-> "none",
            sessionCancelled |-> FALSE, campaignCancelled |-> FALSE, clientClosed |-> FALSE,
            camp |-> "none", isLeader |-> FALSE, isClosed |-> FALSE,
            BecomeLeaderCh |-> FALSE, ErrorCh |-> FALSE, cancelCh |-> FALSE,
            closer |-> "none", waiter |-> "none"]
  <1>0. r \in LeaderElectionState
    BY DEF LeaderElectionState
  <1>1. TypeOK
    <2>1. line \in Seq(Participant) /\ \A i, j \in DOMAIN line : line[i] = line[j] => i = j
      BY DEF Init
    <2>2. le \in [Participant -> LeaderElectionState]
      <3> HIDE DEF r
      <3>1. le = [p \in Participant |-> r]
        BY DEF Init, r
      <3> QED
        BY <1>0, <3>1
    <2> QED
      BY <2>1, <2>2 DEF Init, TypeOK
  <1>2. \A p \in Participant : Own(p) /\ p \notin Elected
    <2> SUFFICES ASSUME NEW p \in Participant PROVE Own(p) /\ p \notin Elected
      OBVIOUS
    <2>1. le[p] = r
      BY DEF Init
    <2>2. line = <<>> /\ DOMAIN <<>> = {}
      BY DEF Init
    <2> QED
      BY <2>1, <2>2 DEF Own, CampaignOrder, Elected
  <1> QED
    BY <1>1, <1>2 DEF IInv, Own, ElectedIsFirst, Elected, ErrorEndsLeadership, FalseMeansOver

LEMMA StepPreserves == IInv /\ [Next]_vars => IInv'
  <1> SUFFICES ASSUME IInv, [Next]_vars PROVE IInv'
    OBVIOUS
  <1>1. CASE Next
    BY <1>1, StepOfParticipant DEF Next
  <1>2. CASE UNCHANGED vars
    BY <1>2 DEF vars, IInv, TypeOK, ElectedIsFirst, Elected, Older, CampaignOrder, ErrorEndsLeadership, FalseMeansOver
  <1> QED
    BY <1>1, <1>2

(***************************************************************************)
(* The invariant holds for every set of participants.                      *)
(***************************************************************************)
THEOREM Invariant == Spec => []IInv
  BY InitHolds, StepPreserves, PTL DEF Spec

\* Each key is written at most once, and every field has its type.
THEOREM TypeCorrect == Spec => []TypeOK
  BY Invariant, PTL DEF IInv

\* No two participants are elected while both have their keys.
THEOREM OneLeaderWithItsKey == Spec => []ElectedIsFirst
  BY Invariant, PTL DEF IInv

\* A leader whose error was sent has lost its session.
THEOREM ErrorsEndLeadership == Spec => []ErrorEndsLeadership
  BY Invariant, PTL DEF IInv

\* BlockingWaitForLeadership returns false only when it is over.
THEOREM FalseOnlyWhenOver == Spec => []FalseMeansOver
  BY Invariant, PTL DEF IInv

\* Only Announce closes BecomeLeaderCh, and its goroutine has sent no error yet.
LEMMA ErrorKeepsChannel ==
    ASSUME IInv, Next, NEW q \in Participant, le[q].ErrorCh
    PROVE  le'[q].BecomeLeaderCh = le[q].BecomeLeaderCh
  <1>0. le \in [Participant -> LeaderElectionState] /\ le[q] \in LeaderElectionState /\ CampaignOrder(q)
    BY DEF IInv, TypeOK
  <1>1. PICK p \in Participant :
            \/ LeaseExpires(p) \/ SessionEnds(p) \/ ContactLost(p)
            \/ Start(p) \/ SessionCreated(p) \/ SessionTimeout(p) \/ StartFails(p) \/ StartSucceeds(p)
            \/ Goroutine(p) \/ CampaignWaitFails(p)
            \/ Close(p) \/ Closing(p)
            \/ BlockingWait(p) \/ WaiterSelects(p)
    BY DEF Next
  <1>2. CASE LeaseExpires(p) \/ SessionEnds(p) \/ ContactLost(p)
    BY <1>0, <1>2 DEF LeaseExpires, SessionEnds, ContactLost, LeaderElectionState
  <1>3. CASE Start(p) \/ SessionCreated(p) \/ SessionTimeout(p) \/ StartFails(p) \/ StartSucceeds(p)
    BY <1>0, <1>3 DEF Start, SessionCreated, SessionTimeout, StartFails, StartSucceeds, LeaderElectionState
  <1>4. CASE Goroutine(p) \/ CampaignWaitFails(p)
    <2>1. CASE CampaignEnters(p) \/ CampaignEnterFails(p) \/ CampaignWaitFails(p) \/ CampaignResigns(p) \/ CampaignWins(p)
      BY <1>0, <2>1 DEF CampaignEnters, CampaignEnterFails, CampaignWaitFails, CampaignResigns, CampaignWins, LeaderElectionState
    <2>2. CASE StoreIsLeader(p) \/ Report(p) \/ CloseCancelCh(p)
      BY <1>0, <2>2 DEF StoreIsLeader, Report, CloseCancelCh, LeaderElectionState
    <2>3. CASE Announce(p)
      <3>1. p # q
        BY <1>0, <2>3 DEF Announce, CampaignOrder
      <3> QED
        BY <1>0, <2>3, <3>1 DEF Announce
    <2> QED
      BY <1>4, <2>1, <2>2, <2>3 DEF Goroutine
  <1>5. CASE Close(p) \/ Closing(p)
    BY <1>0, <1>5 DEF Close, Closing, CloseCancelsCampaign, CloseLoadsIsLeader, CloseResigns, CloseCancelsSession,
                      CloseRevokesLease, CloseClosesClient, LeaderElectionState
  <1>6. CASE BlockingWait(p) \/ WaiterSelects(p)
    BY <1>0, <1>6 DEF BlockingWait, WaiterSelects, LeaderElectionState
  <1> QED
    BY <1>1, <1>2, <1>3, <1>4, <1>5, <1>6

\* After an error nobody becomes the leader, and cancelCh is closed after the error was sent.
THEOREM NobodyLeadsAfterAnError == Spec => NoLeaderAfterError
  <1>1. IInv /\ IInv' /\ [Next]_vars =>
            [\A p \in Participant :
                /\ le[p].ErrorCh => le'[p].BecomeLeaderCh = le[p].BecomeLeaderCh
                /\ le'[p].cancelCh => le'[p].ErrorCh]_vars
    <2> SUFFICES ASSUME IInv, IInv', Next, NEW p \in Participant
                 PROVE  /\ le[p].ErrorCh => le'[p].BecomeLeaderCh = le[p].BecomeLeaderCh
                        /\ le'[p].cancelCh => le'[p].ErrorCh
      OBVIOUS
    <2>1. CampaignOrder(p)'
      BY DEF IInv
    <2>2. le'[p].cancelCh => le'[p].ErrorCh
      BY <2>1 DEF CampaignOrder
    <2> QED
      BY <2>2, ErrorKeepsChannel
  <1> QED
    BY <1>1, Invariant, PTL DEF Spec, NoLeaderAfterError

=============================================================================
