------------------------- MODULE GroupCommit_proofs -------------------------
(***************************************************************************)
(* Proofs about GroupCommit, for every set of calls, every bound on the    *)
(* concurrent commits, and with or without functions that raise.           *)
(***************************************************************************)
EXTENDS GroupCommit, FiniteSetTheorems, SequenceTheorems, TLAPS

(***************************************************************************)
(* Appending to a sequence.                                                *)
(***************************************************************************)
LEMMA MembersOfAppend ==
    ASSUME NEW S, NEW s \in Seq(S), NEW x \in S
    PROVE  /\ Members(Append(s, x)) = Members(s) \cup {x}
           /\ x \notin Members(s) /\ NoRepetition(s) => NoRepetition(Append(s, x))
  <1> DEFINE t == Append(s, x)
  <1>1. /\ DOMAIN s = 1 .. Len(s) /\ DOMAIN t = 1 .. Len(s) + 1 /\ Len(s) \in Nat
        /\ \A i \in 1 .. Len(s) : t[i] = s[i]
        /\ t[Len(s) + 1] = x
    OBVIOUS
  <1> HIDE DEF t
  <1>2. Members(t) = Members(s) \cup {x}
    <2>1. ASSUME NEW y \in Members(t) PROVE y \in Members(s) \cup {x}
      BY <1>1, <2>1 DEF Members
    <2>2. ASSUME NEW y \in Members(s) \cup {x} PROVE y \in Members(t)
      <3>1. CASE y = x
        BY <1>1, <3>1 DEF Members
      <3>2. CASE y # x
        BY <1>1, <2>2, <3>2 DEF Members
      <3> QED
        BY <3>1, <3>2
    <2> QED
      BY <2>1, <2>2
  <1>3. ASSUME x \notin Members(s), NoRepetition(s)
        PROVE  NoRepetition(t)
    BY <1>1, <1>3 DEF Members, NoRepetition
  <1> QED
    BY <1>2, <1>3 DEF t

LEMMA AppendAsFunction ==
    ASSUME NEW S, NEW s \in Seq(S), NEW x \in S
    PROVE  Append(s, x) = [i \in 1 .. Len(s) + 1 |-> IF i = Len(s) + 1 THEN x ELSE s[i]]
  <1> DEFINE t == [i \in 1 .. Len(s) + 1 |-> IF i = Len(s) + 1 THEN x ELSE s[i]]
  <1>1. t \in Seq(S) /\ Len(t) = Len(s) + 1
    OBVIOUS
  <1>2. Append(s, x) \in Seq(S) /\ Len(Append(s, x)) = Len(s) + 1
    OBVIOUS
  <1>3. \A i \in 1 .. Len(s) + 1 : Append(s, x)[i] = t[i]
    OBVIOUS
  <1> QED
    BY <1>1, <1>2, <1>3, SeqEqual

LEMMA MembersOfEmpty == Members(<<>>) = {} /\ NoRepetition(<<>>)
  BY DEF Members, NoRepetition

\* A member has an index, and the first member is not the whole group.
LEMMA MembersByIndex ==
    ASSUME NEW S, NEW s \in Seq(S)
    PROVE  /\ Members(s) \subseteq S
           /\ \A x \in Members(s) : \E i \in 1 .. Len(s) : s[i] = x
           /\ s # <<>> => s[1] \in Members(s)
  BY DEF Members

\* Committing a group makes exactly its members durable.
LEMMA DurableAfterCommit ==
    ASSUME TypeOK, NEW g \in Seq(Call), commits' = Append(commits, g)
    PROVE  Durable' = Durable \cup Members(g)
  <1>1. /\ DOMAIN commits' = DOMAIN commits \cup {Len(commits) + 1}
        /\ \A i \in DOMAIN commits : commits'[i] = commits[i]
        /\ commits'[Len(commits) + 1] = g
    BY DEF TypeOK
  <1> QED
    BY <1>1 DEF Durable

\* What the proofs use of TypeOK.
LEMMA Shape ==
    ASSUME TypeOK
    PROVE  /\ queue \in Seq(Call)
           /\ \A i \in DOMAIN queue : queue[i] \in Call
           /\ queue # <<>> => 1 \in DOMAIN queue
           /\ pc \in [Call -> Location]
           /\ \A l \in Call :
                 /\ batch[l] \in Seq(Call)
                 /\ \A i \in 2 .. Len(batch[l]) : batch[l][i] \in Call
  BY DEF TypeOK

\* The members of a group are its leader and calls that wait or have returned.
LEMMA GroupMembers ==
    ASSUME TypeOK, LeaderHeadsGroup,
           NEW l \in Call, pc[l] \in Leading \cup {"raised"}, NEW x \in Members(batch[l])
    PROVE  x = l \/ pc[x] \in {"wait", "returned"}
  <1>1. PICK i \in 1 .. Len(batch[l]) : batch[l][i] = x
    BY Shape, MembersByIndex
  <1>2. i = 1 \/ i \in 2 .. Len(batch[l])
    BY <1>1, Shape
  <1> QED
    BY <1>1, <1>2 DEF LeaderHeadsGroup

\* A leader that has its group moves on, or raises, and keeps the group: the
\* others in the group and in the queue are not disturbed.
LEMMA LeaderMoves ==
    ASSUME IInv, NEW c \in Call, pc[c] \in Leading,
           NEW to \in Leading \cup {"raised"}, pc' = [pc EXCEPT ![c] = to],
           UNCHANGED <<queue, batch>>, events \subseteq events'
    PROVE  LeaderHeadsGroup' /\ FollowerHasLeader' /\ QueueInv'
  <1>0. /\ pc'[c] = to
        /\ \A l \in Call : l # c => pc'[l] = pc[l]
    BY Shape DEF IInv
  <1>1. LeaderHeadsGroup'
    <2> SUFFICES ASSUME NEW l \in Call
                 PROVE  /\ pc'[l] = "sleep" => queue # <<>> /\ queue[1] = l
                        /\ pc'[l] \in Leading \cup {"raised"} =>
                              /\ batch[l] # <<>> /\ batch[l][1] = l
                              /\ \A i \in 2 .. Len(batch[l]) : pc'[batch[l][i]] \in {"wait", "returned"}
      BY DEF LeaderHeadsGroup
    <2>1. pc'[l] = "sleep" => pc[l] = "sleep"
      BY <1>0 DEF Leading
    <2>2. pc'[l] \in Leading \cup {"raised"} => pc[l] \in Leading \cup {"raised"}
      BY <1>0
    <2>3. \A x \in Call : pc[x] \in {"wait", "returned"} => pc'[x] \in {"wait", "returned"}
      BY <1>0 DEF Leading
    <2> QED
      BY <2>1, <2>2, <2>3, Shape DEF IInv, LeaderHeadsGroup
  <1>2. QueueInv'
    <2> SUFFICES ASSUME NEW i \in DOMAIN queue
                 PROVE  pc'[queue[i]] = IF i = 1 THEN "sleep" ELSE "wait"
      BY DEF QueueInv
    <2>1. queue[i] \in Call /\ queue[i] # c
      BY Shape DEF IInv, QueueInv, Leading
    <2> QED
      BY <2>1, <1>0 DEF IInv, QueueInv
  <1>3. FollowerHasLeader'
    <2> SUFFICES ASSUME NEW d \in Call, pc'[d] = "wait", d \notin events'
                 PROVE  \/ d \in Members(queue) /\ pc'[queue[1]] = "sleep"
                        \/ \E l \in Call : pc'[l] \in Leading \cup {"raised"} /\ d \in Members(batch[l])
      BY DEF FollowerHasLeader
    <2>1. pc[d] = "wait" /\ d \notin events
      BY <1>0 DEF Leading
    <2>2. CASE d \in Members(queue)
      <3>1. queue # <<>>
        BY <2>2, MembersOfEmpty
      <3>2. 1 \in DOMAIN queue
        BY <3>1, Shape DEF IInv
      <3> QED
        BY <2>2, <3>2, <1>2 DEF QueueInv
    <2>3. CASE \E l \in Call : pc[l] \in Leading \cup {"raised"} /\ d \in Members(batch[l])
      BY <2>3, <1>0
    <2> QED
      BY <2>1, <2>2, <2>3 DEF IInv, FollowerHasLeader
  <1> QED
    BY <1>1, <1>2, <1>3

-----------------------------------------------------------------------------
LEMMA InitIInv == Init => IInv
  <1> SUFFICES ASSUME Init PROVE IInv
    OBVIOUS
  <1> USE DEF Init
  <1>1. Durable = {} /\ Taken = {} /\ Members(queue) = {}
    BY MembersOfEmpty DEF Durable, Taken, Uncommitted
  <1>2. TypeOK
    BY CommitsAssumption DEF TypeOK, Location
  <1>3. ExactlyOnce
    BY <1>1, MembersOfEmpty DEF ExactlyOnce, Uncommitted
  <1>4. LeaderHeadsGroup /\ ReturnedIsDurable /\ FollowerHasLeader
    BY DEF LeaderHeadsGroup, ReturnedIsDurable, FollowerHasLeader, Leading
  <1>5. QueueInv /\ DurableInv /\ WakeInv
    BY <1>1 DEF QueueInv, DurableInv, WakeInv
  <1> QED
    BY <1>2, <1>3, <1>4, <1>5 DEF IInv

\* The newcomer is in no group yet; it leads if and only if nobody is queued.
LEMMA EnterIInv ==
    ASSUME IInv, NEW c \in Call, Enter(c)
    PROVE  IInv'
  <1> USE DEF IInv, Enter
  <1>0. /\ c \notin Members(queue)
        /\ c \notin Taken
        /\ c \notin Durable
        /\ \A l \in Call : pc[l] \in Leading \cup {"raised"} => c \notin Members(batch[l])
    <2>1. c \notin Members(queue)
      BY DEF TypeOK, QueueInv, Members
    <2>2. c \notin Durable
      BY DEF DurableInv
    <2>3. ASSUME NEW l \in Call, pc[l] \in Leading \cup {"raised"}
          PROVE  c \notin Members(batch[l])
      <3>1. /\ batch[l] \in Seq(Call) /\ batch[l][1] = l
            /\ \A i \in 2 .. Len(batch[l]) : pc[batch[l][i]] \in {"wait", "returned"}
        BY <2>3 DEF TypeOK, LeaderHeadsGroup
      <3>2. \A i \in 1 .. Len(batch[l]) : i = 1 \/ i \in 2 .. Len(batch[l])
        BY <3>1
      <3>3. l # c
        BY <2>3 DEF Leading
      <3> QED
        BY <3>1, <3>2, <3>3, MembersByIndex
    <2> QED
      BY <2>1, <2>2, <2>3 DEF Taken, Uncommitted, Leading
  <1>1. /\ Members(queue)' = Members(queue) \cup {c}
        /\ NoRepetition(queue)'
        /\ Uncommitted' = Uncommitted /\ Taken' = Taken
        /\ Durable' = Durable
    BY <1>0, MembersOfAppend DEF TypeOK, ExactlyOnce, Uncommitted, Taken, Durable
  <1>2. TypeOK'
    BY DEF TypeOK, Location
  <1>3. ExactlyOnce'
    <2>1. batch' = batch /\ commits' = commits
      OBVIOUS
    <2>2. /\ \A l \in Uncommitted' : NoRepetition(batch[l])
          /\ \A i \in DOMAIN commits : NoRepetition(commits[i])
          /\ \A k, l \in Uncommitted' : k # l => Members(batch[k]) \cap Members(batch[l]) = {}
          /\ \A i, j \in DOMAIN commits : i # j => Members(commits[i]) \cap Members(commits[j]) = {}
      BY <1>1 DEF ExactlyOnce
    <2>3. /\ Members(queue)' \cap Taken' = {}
          /\ Durable' \cap (Members(queue)' \cup Taken') = {}
      BY <1>0, <1>1 DEF ExactlyOnce
    <2>4. \A k \in Call : pc'[k] # "new" => k \in Durable' \cup Members(queue)' \cup Taken'
      <3>1. \A k \in Call : k # c => pc'[k] = pc[k]
        BY DEF TypeOK
      <3> QED
        BY <1>1, <3>1 DEF ExactlyOnce
    <2> QED
      BY <1>1, <2>1, <2>2, <2>3, <2>4 DEF ExactlyOnce
  <1>4. LeaderHeadsGroup'
    <2> SUFFICES ASSUME NEW l \in Call
                 PROVE  /\ pc'[l] = "sleep" => queue' # <<>> /\ queue'[1] = l
                        /\ pc'[l] \in Leading \cup {"raised"} =>
                              /\ batch'[l] # <<>> /\ batch'[l][1] = l
                              /\ \A i \in 2 .. Len(batch'[l]) : pc'[batch'[l][i]] \in {"wait", "returned"}
      BY DEF LeaderHeadsGroup
    <2>1. ASSUME pc'[l] = "sleep" PROVE queue' # <<>> /\ queue'[1] = l
      <3>1. CASE l = c
        BY <2>1, <3>1 DEF TypeOK
      <3>2. CASE l # c
        <4>1. queue # <<>> /\ queue[1] = l
          BY <2>1, <3>2 DEF TypeOK, LeaderHeadsGroup
        <4> QED
          BY <4>1, Shape
      <3> QED
        BY <3>1, <3>2
    <2>2. ASSUME pc'[l] \in Leading \cup {"raised"}
          PROVE  /\ batch'[l] # <<>> /\ batch'[l][1] = l
                 /\ \A i \in 2 .. Len(batch'[l]) : pc'[batch'[l][i]] \in {"wait", "returned"}
      <3>1. pc[l] \in Leading \cup {"raised"}
        BY <2>2 DEF TypeOK, Leading
      <3>2. \A i \in 2 .. Len(batch[l]) : batch[l][i] \in Call
        BY DEF TypeOK
      <3> QED
        BY <3>1, <3>2 DEF TypeOK, LeaderHeadsGroup
    <2> QED
      BY <2>1, <2>2
  <1>5. ReturnedIsDurable'
    BY <1>1 DEF TypeOK, ReturnedIsDurable
  <1>6. FollowerHasLeader'
    <2> SUFFICES ASSUME NEW d \in Call, pc'[d] = "wait", d \notin events'
                 PROVE  \/ d \in Members(queue)' /\ pc'[queue'[1]] = "sleep"
                        \/ \E l \in Call : pc'[l] \in Leading \cup {"raised"} /\ d \in Members(batch'[l])
      BY DEF FollowerHasLeader
    <2>1. CASE d = c
      <3>1. queue # <<>> /\ queue[1] \in Call /\ queue'[1] = queue[1]
        BY <2>1 DEF TypeOK
      <3>2. pc[queue[1]] = "sleep"
        BY <3>1 DEF TypeOK, QueueInv
      <3> QED
        BY <2>1, <3>1, <3>2, <1>1 DEF TypeOK
    <2>2. CASE d # c
      <3>1. pc[d] = "wait" /\ d \notin events
        BY <2>2 DEF TypeOK
      <3>2. CASE d \in Members(queue) /\ pc[queue[1]] = "sleep"
        <4>1. queue[1] \in Call /\ queue'[1] = queue[1]
          BY <3>2, MembersByIndex DEF TypeOK, Members
        <4> QED
          BY <3>2, <4>1, <1>1 DEF TypeOK
      <3>3. CASE \E l \in Call : pc[l] \in Leading \cup {"raised"} /\ d \in Members(batch[l])
        BY <3>3 DEF TypeOK, Leading
      <3> QED
        BY <3>1, <3>2, <3>3 DEF FollowerHasLeader
    <2> QED
      BY <2>1, <2>2
  <1>7. QueueInv'
    <2> SUFFICES ASSUME NEW i \in DOMAIN queue'
                 PROVE  pc'[queue'[i]] = IF i = 1 THEN "sleep" ELSE "wait"
      BY DEF QueueInv
    <2>1. CASE i \in DOMAIN queue
      <3>1. queue'[i] = queue[i] /\ queue[i] \in Members(queue)
        BY <2>1, Shape DEF Members
      <3>2. pc'[queue[i]] = pc[queue[i]]
        BY <3>1, <1>0 DEF TypeOK
      <3> QED
        BY <2>1, <3>1, <3>2 DEF QueueInv
    <2>2. CASE i \notin DOMAIN queue
      <3>1. i = Len(queue) + 1 /\ queue'[i] = c /\ (i = 1 <=> queue = <<>>)
        BY <2>2, Shape
      <3> QED
        BY <3>1 DEF TypeOK
    <2> QED
      BY <2>1, <2>2
  <1>8. DurableInv' /\ WakeInv'
    BY <1>0, <1>1 DEF TypeOK, DurableInv, WakeInv
  <1> QED
    BY <1>2, <1>3, <1>4, <1>5, <1>6, <1>7, <1>8

\* The leader heads the queue, so it heads the group it takes, and the rest of
\* the group waits.
LEMMA TakeQueueIInv ==
    ASSUME IInv, NEW c \in Call, TakeQueue(c)
    PROVE  IInv'
  <1> USE DEF IInv, TakeQueue
  <1>0. /\ queue \in Seq(Call) /\ queue # <<>> /\ queue[1] = c
        /\ c \in Members(queue)
        /\ batch'[c] = queue
        /\ \A l \in Call : l # c => batch'[l] = batch[l] /\ pc'[l] = pc[l]
        /\ pc'[c] = "merge"
    BY MembersByIndex DEF TypeOK, LeaderHeadsGroup
  <1>1. Members(queue)' = {} /\ NoRepetition(queue)'
    BY MembersOfEmpty
  <1>2. Uncommitted' = Uncommitted \cup {c} /\ c \notin Uncommitted
    BY <1>0 DEF Uncommitted
  <1>3. Taken' = Taken \cup Members(queue)
    BY <1>0, <1>2 DEF Taken, Uncommitted
  <1>4. Durable' = Durable
    BY DEF Durable
  <1>5. TypeOK'
    BY DEF TypeOK, Location, Leading
  <1>6. ExactlyOnce'
    <2>1. \A l \in Uncommitted : Members(queue) \cap Members(batch[l]) = {}
      BY DEF ExactlyOnce, Taken
    <2>2. \A l \in Uncommitted' : NoRepetition(batch'[l])
      BY <1>0, <1>2 DEF ExactlyOnce, Uncommitted
    <2>3. \A k, l \in Uncommitted' : k # l => Members(batch'[k]) \cap Members(batch'[l]) = {}
      BY <2>1, <1>0, <1>2 DEF ExactlyOnce, Uncommitted
    <2>4. \A d \in Call : pc'[d] # "new" => d \in Durable' \cup Members(queue)' \cup Taken'
      BY <1>0, <1>1, <1>3, <1>4 DEF ExactlyOnce
    <2>5. Durable' \cap (Members(queue)' \cup Taken') = {}
      BY <1>1, <1>3, <1>4 DEF ExactlyOnce
    <2> QED
      BY <2>2, <2>3, <2>4, <2>5, <1>1 DEF ExactlyOnce
  <1>7. LeaderHeadsGroup'
    <2> SUFFICES ASSUME NEW l \in Call
                 PROVE  /\ pc'[l] = "sleep" => queue' # <<>> /\ queue'[1] = l
                        /\ pc'[l] \in Leading \cup {"raised"} =>
                              /\ batch'[l] # <<>> /\ batch'[l][1] = l
                              /\ \A i \in 2 .. Len(batch'[l]) : pc'[batch'[l][i]] \in {"wait", "returned"}
      BY DEF LeaderHeadsGroup
    <2>1. pc'[l] # "sleep"
      BY <1>0 DEF LeaderHeadsGroup
    <2>2. CASE l = c
      <3>1. \A i \in 2 .. Len(queue) : queue[i] \in Call /\ pc[queue[i]] = "wait"
        BY <1>0 DEF QueueInv
      <3> QED
        BY <2>1, <2>2, <3>1, <1>0
    <2>3. CASE l # c
      <3>1. \A i \in 2 .. Len(batch[l]) : batch[l][i] \in Call
        BY DEF TypeOK
      <3> QED
        BY <2>1, <2>3, <3>1, <1>0 DEF LeaderHeadsGroup
    <2> QED
      BY <2>2, <2>3
  <1>8. ReturnedIsDurable'
    BY <1>0, <1>4 DEF ReturnedIsDurable
  <1>9. FollowerHasLeader'
    BY <1>0 DEF FollowerHasLeader, Leading
  <1>10. QueueInv'
    BY DEF QueueInv
  <1>11. DurableInv' /\ WakeInv'
    BY <1>0, <1>4 DEF DurableInv, WakeInv
  <1> QED
    BY <1>5, <1>6, <1>7, <1>8, <1>9, <1>10, <1>11

\* Steps that only move a leader between places where it holds its group.
LEMMA HoldingIInv ==
    ASSUME IInv, NEW c \in Call, AcquireCommitSem(c) \/ Raise(c)
    PROVE  IInv'
  <1> USE DEF IInv
  <1>0. PICK to \in {"committing", "raised"} :
           /\ pc[c] \in {"merge", "committing"}
           /\ pc' = [pc EXCEPT ![c] = to]
           /\ queue' = queue /\ events' = events /\ batch' = batch
           /\ result' = result /\ commits' = commits
    BY DEF AcquireCommitSem, Raise
  <1>1. pc'[c] = to /\ \A d \in Call : d # c => pc'[d] = pc[d]
    BY <1>0, Shape
  <1>2. Uncommitted' = Uncommitted
    BY <1>0, <1>1 DEF Uncommitted
  <1>3. Durable' = Durable
    BY <1>0 DEF Durable
  <1>4. Taken' = Taken
    <2>1. \A l \in Uncommitted : Members(batch'[l]) = Members(batch[l])
      BY <1>0
    <2> QED
      BY <2>1, <1>2 DEF Taken
  <1>5. TypeOK'
    <2>1. permits' \in Nat
      BY DEF TypeOK, AcquireCommitSem, Raise
    <2>2. to \in Location
      BY DEF Location, Leading
    <2> QED
      BY <2>1, <2>2, <1>0 DEF TypeOK
  <1>6. ExactlyOnce'
    <2>1. \A d \in Call : pc'[d] # "new" => pc[d] # "new"
      BY <1>0, <1>1
    <2> QED
      BY <2>1, <1>0, <1>2, <1>3, <1>4 DEF ExactlyOnce
  <1>7. ReturnedIsDurable' /\ WakeInv'
    BY <1>0, <1>1, <1>3 DEF ReturnedIsDurable, WakeInv
  <1>8. DurableInv'
    BY <1>0, <1>1, <1>3 DEF DurableInv
  <1>9. LeaderHeadsGroup' /\ FollowerHasLeader' /\ QueueInv'
    BY <1>0, LeaderMoves DEF Leading
  <1> QED
    BY <1>5, <1>6, <1>7, <1>8, <1>9

\* The group becomes durable and leaves the uncommitted ones.
LEMMA CommitIInv ==
    ASSUME IInv, NEW c \in Call, Commit(c)
    PROVE  IInv'
  <1> USE DEF IInv, Commit
  <1>0. /\ c \in Uncommitted /\ batch[c] \in Seq(Call)
        /\ pc'[c] = "wake" /\ \A l \in Call : l # c => pc'[l] = pc[l]
    BY DEF TypeOK, Uncommitted
  <1>1. Durable' = Durable \cup Members(batch[c])
    BY <1>0, DurableAfterCommit
  <1>2. Uncommitted' = Uncommitted \ {c}
    BY <1>0 DEF Uncommitted
  <1>3. Taken = Taken' \cup Members(batch[c])
    <2>1. Uncommitted = Uncommitted' \cup {c} /\ batch' = batch
      BY <1>0, <1>2
    <2>2. \A l \in Uncommitted' : Members(batch'[l]) = Members(batch[l])
      BY <2>1
    <2> QED
      BY <2>1, <2>2 DEF Taken
  <1>4. Taken' \cap Members(batch[c]) = {}
    <2>1. \A l \in Uncommitted' : Members(batch'[l]) \cap Members(batch[c]) = {}
      BY <1>0, <1>2 DEF ExactlyOnce
    <2> QED
      BY <2>1 DEF Taken
  <1>5. /\ DOMAIN commits' = DOMAIN commits \cup {Len(commits) + 1}
        /\ Len(commits) + 1 \notin DOMAIN commits
        /\ \A i \in DOMAIN commits : commits'[i] = commits[i]
        /\ commits'[Len(commits) + 1] = batch[c]
    BY <1>0 DEF TypeOK
  <1>6. TypeOK'
    BY <1>0 DEF TypeOK, Location, Leading
  <1>7. ExactlyOnce'
    <2>1. Members(queue) \cap Taken' = {}
      BY <1>3 DEF ExactlyOnce
    <2>2. Durable' \cap (Members(queue)' \cup Taken') = {}
      BY <1>1, <1>3, <1>4 DEF ExactlyOnce
    <2>3. \A d \in Call : pc'[d] # "new" => d \in Durable' \cup Members(queue)' \cup Taken'
      BY <1>0, <1>1, <1>3 DEF ExactlyOnce
    <2>4. \A i \in DOMAIN commits' : NoRepetition(commits'[i])
      BY <1>0, <1>5 DEF ExactlyOnce
    <2>5. \A i \in DOMAIN commits : Members(commits[i]) \cap Members(batch[c]) = {}
      BY <1>3 DEF ExactlyOnce, Durable
    <2>6. \A i, j \in DOMAIN commits' : i # j => Members(commits'[i]) \cap Members(commits'[j]) = {}
      BY <2>5, <1>5 DEF ExactlyOnce
    <2> QED
      BY <2>1, <2>2, <2>3, <2>4, <2>6, <1>2 DEF ExactlyOnce
  <1>8. LeaderHeadsGroup' /\ FollowerHasLeader' /\ QueueInv'
    BY LeaderMoves DEF Leading
  <1>9. ReturnedIsDurable'
    BY <1>0, <1>1 DEF ReturnedIsDurable
  <1>10. DurableInv'
    <2>1. ASSUME NEW d \in Members(batch[c]) PROVE pc'[d] \in {"wake", "wait", "returned"}
      <3>1. d = c \/ pc[d] \in {"wait", "returned"}
        BY <2>1, GroupMembers DEF Leading
      <3>2. d \in Call
        BY <2>1, <1>0, MembersByIndex
      <3> QED
        BY <3>1, <3>2, <1>0
    <2>2. ASSUME NEW d \in Durable PROVE pc'[d] \in {"wake", "wait", "returned"}
      BY <2>2, Shape DEF DurableInv
    <2> QED
      BY <2>1, <2>2, <1>1 DEF DurableInv
  <1>11. WakeInv'
    BY <1>0, <1>1 DEF WakeInv
  <1> QED
    BY <1>6, <1>7, <1>8, <1>9, <1>10, <1>11

\* The next follower whose event is set is durable.
LEMMA SetEventIInv ==
    ASSUME IInv, NEW c \in Call, SetEvent(c)
    PROVE  IInv'
  <1> USE DEF IInv
  <1>0. PICK i \in 2 .. Len(batch[c]) :
           /\ pc[c] = "wake"
           /\ events' = events \cup {batch[c][i]}
           /\ pc' = pc /\ queue' = queue /\ batch' = batch /\ permits' = permits
           /\ result' = result /\ commits' = commits
    BY DEF SetEvent
  <1>1. batch[c][i] \in Call /\ batch[c][i] \in Durable
    <2>1. batch[c][i] \in Members(batch[c])
      BY <1>0, Shape DEF Members
    <2> QED
      BY <2>1, <1>0, Shape DEF WakeInv
  <1>2. Uncommitted' = Uncommitted /\ Durable' = Durable
    BY <1>0 DEF Uncommitted, Durable
  <1>3. Taken' = Taken
    <2>1. \A l \in Uncommitted : Members(batch'[l]) = Members(batch[l])
      BY <1>0
    <2> QED
      BY <2>1, <1>2 DEF Taken
  <1>4. TypeOK'
    BY <1>0, <1>1 DEF TypeOK
  <1>5. ExactlyOnce'
    BY <1>0, <1>2, <1>3 DEF ExactlyOnce
  <1>6. LeaderHeadsGroup' /\ QueueInv' /\ FollowerHasLeader'
    BY <1>0 DEF LeaderHeadsGroup, QueueInv, FollowerHasLeader
  <1>7. ReturnedIsDurable' /\ DurableInv' /\ WakeInv'
    BY <1>0, <1>1, <1>2 DEF ReturnedIsDurable, DurableInv, WakeInv
  <1> QED
    BY <1>4, <1>5, <1>6, <1>7

\* A call returns. A leader that returns leaves no follower waiting, and a
\* follower that returns was in a group that is durable.
LEMMA ReturnIInv ==
    ASSUME IInv, NEW c \in Call, LeaderReturns(c) \/ FollowerReturns(c)
    PROVE  IInv'
  <1> USE DEF IInv
  <1>0. /\ pc[c] \in {"wake", "wait"} /\ c \in Durable
        /\ pc' = [pc EXCEPT ![c] = "returned"]
        /\ \A l \in Call : l # c => batch'[l] = batch[l]
        /\ queue' = queue /\ events' = events /\ permits' = permits /\ commits' = commits
    <2>1. CASE LeaderReturns(c)
      <3>1. c \in Members(batch[c])
        BY <2>1, Shape, MembersByIndex DEF LeaderReturns, LeaderHeadsGroup, Leading
      <3> QED
        BY <2>1, <3>1, Shape DEF LeaderReturns, WakeInv, TypeOK
    <2>2. CASE FollowerReturns(c)
      BY <2>2 DEF FollowerReturns, ReturnedIsDurable
    <2> QED
      BY <2>1, <2>2
  <1>1. pc'[c] = "returned" /\ \A d \in Call : d # c => pc'[d] = pc[d]
    BY <1>0, Shape
  <1>2. Uncommitted' = Uncommitted /\ c \notin Uncommitted
    BY <1>0, <1>1 DEF Uncommitted
  <1>3. Durable' = Durable
    BY <1>0 DEF Durable
  <1>4. \A l \in Uncommitted : batch'[l] = batch[l] /\ Members(batch'[l]) = Members(batch[l])
    BY <1>0, <1>2 DEF Uncommitted
  <1>5. Taken' = Taken
    BY <1>2, <1>4 DEF Taken
  <1>6. TypeOK'
    <2>1. batch' \in [Call -> Seq(Call)] /\ result' \in [Call -> Nat]
      <3>1. CASE LeaderReturns(c)
        <4>1. <<>> \in Seq(Call) /\ Len(batch[c]) \in Nat
          BY Shape
        <4> QED
          BY <3>1, <4>1 DEF TypeOK, LeaderReturns
      <3>2. CASE FollowerReturns(c)
        BY <3>2 DEF TypeOK, FollowerReturns
      <3> QED
        BY <3>1, <3>2
    <2>2. pc' \in [Call -> Location]
      BY <1>0 DEF TypeOK, Location
    <2> QED
      BY <2>1, <2>2, <1>0 DEF TypeOK
  <1>7. ExactlyOnce'
    <2>1. \A d \in Call : pc'[d] # "new" => pc[d] # "new"
      BY <1>0, <1>1
    <2> QED
      BY <2>1, <1>0, <1>2, <1>3, <1>4, <1>5 DEF ExactlyOnce
  <1>8. LeaderHeadsGroup'
    <2> SUFFICES ASSUME NEW l \in Call
                 PROVE  /\ pc'[l] = "sleep" => queue # <<>> /\ queue[1] = l
                        /\ pc'[l] \in Leading \cup {"raised"} =>
                              /\ batch'[l] # <<>> /\ batch'[l][1] = l
                              /\ \A i \in 2 .. Len(batch'[l]) : pc'[batch'[l][i]] \in {"wait", "returned"}
      BY <1>0 DEF LeaderHeadsGroup
    <2>1. CASE l = c
      BY <2>1, <1>1 DEF Leading
    <2>2. CASE l # c
      <3>1. \A x \in Call : pc[x] \in {"wait", "returned"} => pc'[x] \in {"wait", "returned"}
        BY <1>1
      <3> QED
        BY <2>2, <3>1, <1>0, <1>1, Shape DEF LeaderHeadsGroup
    <2> QED
      BY <2>1, <2>2
  <1>9. ReturnedIsDurable' /\ DurableInv' /\ WakeInv'
    BY <1>0, <1>1, <1>3 DEF ReturnedIsDurable, DurableInv, WakeInv
  <1>10. QueueInv'
    <2> SUFFICES ASSUME NEW i \in DOMAIN queue
                 PROVE  pc'[queue[i]] = IF i = 1 THEN "sleep" ELSE "wait"
      BY <1>0 DEF QueueInv
    <2>1. queue[i] \in Call /\ queue[i] \in Members(queue)
      BY Shape DEF Members
    <2>2. queue[i] # c
      BY <2>1, <1>0 DEF ExactlyOnce
    <2> QED
      BY <2>1, <2>2, <1>1 DEF QueueInv
  <1>11. FollowerHasLeader'
    <2> SUFFICES ASSUME NEW d \in Call, pc'[d] = "wait", d \notin events
                 PROVE  \/ d \in Members(queue) /\ pc'[queue[1]] = "sleep"
                        \/ \E l \in Call : pc'[l] \in Leading \cup {"raised"} /\ d \in Members(batch'[l])
      BY <1>0 DEF FollowerHasLeader
    <2>1. d # c /\ pc[d] = "wait"
      BY <1>1
    <2>2. CASE d \in Members(queue)
      <3>1. 1 \in DOMAIN queue
        BY <2>2, MembersOfEmpty, Shape
      <3> QED
        BY <2>2, <3>1, <1>0, <1>10 DEF QueueInv
    <2>3. ASSUME NEW l \in Call, pc[l] \in Leading \cup {"raised"}, d \in Members(batch[l])
          PROVE  \E k \in Call : pc'[k] \in Leading \cup {"raised"} /\ d \in Members(batch'[k])
      <3>1. l # c
        <4> SUFFICES ASSUME l = c PROVE FALSE
          OBVIOUS
        <4>1. LeaderReturns(c)
          BY <2>3 DEF FollowerReturns, Leading
        <4>2. PICK i \in 1 .. Len(batch[c]) : batch[c][i] = d
          BY <2>3, Shape, MembersByIndex
        <4>3. i # 1
          BY <4>2, <2>1, <2>3 DEF LeaderHeadsGroup
        <4>4. i \in 2 .. Len(batch[c])
          BY <4>2, <4>3, Shape
        <4> QED
          BY <4>1, <4>2, <4>4 DEF LeaderReturns
      <3> QED
        BY <2>3, <3>1, <1>0, <1>1
    <2> QED
      BY <2>1, <2>2, <2>3 DEF FollowerHasLeader
  <1> QED
    BY <1>6, <1>7, <1>8, <1>9, <1>10, <1>11

LEMMA NextIInv == IInv /\ [Next]_vars => IInv'
  <1> SUFFICES ASSUME IInv, [Next]_vars PROVE IInv'
    OBVIOUS
  <1>1. CASE UNCHANGED vars
    <2>1. /\ queue' = queue /\ permits' = permits /\ events' = events /\ pc' = pc
          /\ batch' = batch /\ result' = result /\ commits' = commits
      BY <1>1 DEF vars
    <2>2. Durable' = Durable /\ Uncommitted' = Uncommitted
      BY <2>1 DEF Durable, Uncommitted
    <2>3. Taken' = Taken
      <3>1. \A l \in Uncommitted : Members(batch'[l]) = Members(batch[l])
        BY <2>1
      <3> QED
        BY <3>1, <2>2 DEF Taken
    <2>4. ExactlyOnce'
      BY <2>1, <2>2, <2>3 DEF IInv, ExactlyOnce
    <2>5. TypeOK'
      BY <2>1 DEF IInv, TypeOK
    <2>6. LeaderHeadsGroup' /\ FollowerHasLeader' /\ QueueInv'
      BY <2>1 DEF IInv, LeaderHeadsGroup, FollowerHasLeader, QueueInv
    <2>7. ReturnedIsDurable' /\ DurableInv' /\ WakeInv'
      BY <2>1, <2>2 DEF IInv, ReturnedIsDurable, DurableInv, WakeInv
    <2> QED
      BY <2>4, <2>5, <2>6, <2>7 DEF IInv
  <1>2. ASSUME NEW c \in Call,
               \/ Enter(c) \/ TakeQueue(c) \/ AcquireCommitSem(c) \/ Commit(c) \/ Raise(c)
               \/ SetEvent(c) \/ LeaderReturns(c) \/ FollowerReturns(c)
        PROVE  IInv'
    BY <1>2, EnterIInv, TakeQueueIInv, HoldingIInv, CommitIInv, SetEventIInv, ReturnIInv
  <1> QED
    BY <1>1, <1>2 DEF Next

-----------------------------------------------------------------------------
(***************************************************************************)
(* The theorems.                                                           *)
(***************************************************************************)
THEOREM Invariant == Spec => []IInv
  <1>1. Init => IInv
    BY InitIInv
  <1>2. IInv /\ [Next]_vars => IInv'
    BY NextIInv
  <1> QED
    BY <1>1, <1>2, PTL DEF Spec

THEOREM TypeCorrect == Spec => []TypeOK
  <1>1. IInv => TypeOK
    BY DEF IInv
  <1> QED
    BY <1>1, Invariant, PTL

\* However many calls are made and however they interleave, the swap of the
\* queue under queue_lock loses no datum and hands none to two leaders.
THEOREM CommittedExactlyOnce == Spec => []ExactlyOnce
  <1>1. IInv => ExactlyOnce
    BY DEF IInv
  <1> QED
    BY <1>1, Invariant, PTL

\* q[0] is the leader itself, q[1:] are calls that wait for their event.
THEOREM LeaderIsFirst == Spec => []LeaderHeadsGroup
  <1>1. IInv => LeaderHeadsGroup
    BY DEF IInv
  <1> QED
    BY <1>1, Invariant, PTL

\* commit() returns only after the datum was committed.
THEOREM DurableBeforeReturn == Spec => []ReturnedIsDurable
  <1>1. IInv => ReturnedIsDurable
    BY DEF IInv
  <1> QED
    BY <1>1, Invariant, PTL

\* A waiting follower always has a leader that will set its event, unless that
\* leader raised.
THEOREM NobodyWaitsAlone == Spec => []FollowerHasLeader
  <1>1. IInv => FollowerHasLeader
    BY DEF IInv
  <1> QED
    BY <1>1, Invariant, PTL

(***************************************************************************)
(* The semaphore.                                                          *)
(***************************************************************************)
PermitInv == TypeOK /\ IsFiniteSet(Committing) /\ ConcurrencyBounded

LEMMA PermitStep ==
    ASSUME TypeOK', PermitInv, [Next]_vars
    PROVE  PermitInv'
  <1> USE DEF PermitInv, ConcurrencyBounded
  <1>1. ASSUME Committing' = Committing, permits' = permits
        PROVE  PermitInv'
    BY <1>1
  <1>2. CASE UNCHANGED vars
    BY <1>1, <1>2 DEF vars, Committing
  <1>3. ASSUME NEW c \in Call, AcquireCommitSem(c)
        PROVE  PermitInv'
    <2>1. Committing' = Committing \cup {c} /\ c \notin Committing
      BY <1>3 DEF TypeOK, AcquireCommitSem, Committing
    <2>2. Cardinality(Committing') = Cardinality(Committing) + 1 /\ IsFiniteSet(Committing')
      BY <2>1, FS_AddElement
    <2>3. Cardinality(Committing) \in Nat /\ permits \in Nat /\ permits' = permits - 1
      BY <1>3, FS_CardinalityType DEF TypeOK, AcquireCommitSem
    <2> QED
      BY <2>2, <2>3, CommitsAssumption
  <1>4. ASSUME NEW c \in Committing, Committing' = Committing \ {c}, permits' = permits + 1
        PROVE  PermitInv'
    <2>1. Cardinality(Committing') = Cardinality(Committing) - 1 /\ IsFiniteSet(Committing')
      BY <1>4, FS_RemoveElement
    <2> QED
      BY <2>1, <1>4, FS_CardinalityType, CommitsAssumption DEF TypeOK
  <1>5. ASSUME NEW c \in Call, Commit(c)
        PROVE  PermitInv'
    BY <1>4, <1>5 DEF TypeOK, Commit, Committing
  <1>6. ASSUME NEW c \in Call, Raise(c)
        PROVE  PermitInv'
    <2>0. pc'[c] = "raised" /\ \A d \in Call : d # c => pc'[d] = pc[d]
      BY <1>6 DEF TypeOK, Raise
    <2>1. CASE pc[c] = "committing"
      <3>1. c \in Committing /\ Committing' = Committing \ {c} /\ permits' = permits + 1
        BY <2>0, <2>1, <1>6 DEF Raise, Committing
      <3> QED
        BY <3>1, <1>4
    <2>2. CASE pc[c] = "merge"
      <3>1. Committing' = Committing /\ permits' = permits
        BY <2>0, <2>2, <1>6 DEF Raise, Committing
      <3> QED
        BY <3>1, <1>1
    <2> QED
      BY <2>1, <2>2, <1>6 DEF Raise
  <1>7. ASSUME NEW c \in Call,
               \/ Enter(c) \/ TakeQueue(c) \/ SetEvent(c) \/ LeaderReturns(c) \/ FollowerReturns(c)
        PROVE  PermitInv'
    BY <1>1, <1>7 DEF TypeOK, Enter, TakeQueue, SetEvent, LeaderReturns, FollowerReturns, Committing
  <1> QED
    BY <1>2, <1>3, <1>5, <1>6, <1>7 DEF Next

\* At most max_concurrent_commits calls of commit_func run at a time, whether
\* or not commit_func raises.
THEOREM CommitsAreBounded == Spec => []ConcurrencyBounded
  <1>1. Init => PermitInv
    <2> SUFFICES ASSUME Init PROVE PermitInv
      OBVIOUS
    <2>1. Committing = {}
      BY DEF Init, Committing
    <2> QED
      BY <2>1, InitIInv, FS_EmptySet, CommitsAssumption DEF Init, IInv, PermitInv, ConcurrencyBounded
  <1>2. TypeOK' /\ PermitInv /\ [Next]_vars => PermitInv'
    BY PermitStep
  <1>3. PermitInv => ConcurrencyBounded
    BY DEF PermitInv
  <1> QED
    BY <1>1, <1>2, <1>3, TypeCorrect, PTL DEF Spec

-----------------------------------------------------------------------------
(***************************************************************************)
(* The callers' view: CommitService is implemented.                        *)
(***************************************************************************)
Log == [i \in DOMAIN commits |-> Members(commits[i])]

\* A step that leaves the durable data alone shows as a change of the status
\* of the one call whose location it changes.
LEMMA StatusAfter ==
    ASSUME NEW c \in Call, NEW to, pc' = [pc EXCEPT ![c] = to], pc \in [Call -> Location],
           commits' = commits
    PROVE  /\ Log' = Log
           /\ Status' = [Status EXCEPT ![c] = IF to \in {"new", "returned", "raised"} THEN to
                                              ELSE IF c \in Durable THEN "durable" ELSE "pending"]
  <1>1. Durable' = Durable
    BY DEF Durable
  <1>2. Log' = Log
    <2>1. \A i \in DOMAIN commits : Members(commits'[i]) = Members(commits[i])
      OBVIOUS
    <2> QED
      BY <2>1 DEF Log
  <1>3. pc'[c] = to /\ \A d \in Call : d # c => pc'[d] = pc[d]
    OBVIOUS
  <1> QED
    BY <1>1, <1>2, <1>3 DEF Status

LEMMA StepOfService ==
    ASSUME IInv, [Next]_vars
    PROVE  [Service!ServiceNext]_<<Status, Log>>
  <1> USE DEF IInv
  <1>1. CASE UNCHANGED vars
    <2>1. pc' = pc /\ commits' = commits /\ Durable' = Durable
      BY <1>1 DEF vars, Durable
    <2>2. \A i \in DOMAIN commits : Members(commits'[i]) = Members(commits[i])
      BY <2>1
    <2> QED
      BY <2>1, <2>2 DEF Status, Log
  <1>2. ASSUME NEW c \in Call, Enter(c)
        PROVE  Service!Submit(c) /\ Log' = Log
    <2>1. PICK to \in {"sleep", "wait"} : pc' = [pc EXCEPT ![c] = to] /\ commits' = commits
      BY <1>2 DEF Enter
    <2>2. c \notin Durable /\ Status[c] = "new"
      BY <1>2 DEF Enter, DurableInv, Status
    <2>3. Log' = Log /\ Status' = [Status EXCEPT ![c] = "pending"]
      BY <2>1, <2>2, StatusAfter, Shape
    <2> QED
      BY <2>2, <2>3 DEF Service!Submit, Log
  <1>3. ASSUME NEW c \in Call, TakeQueue(c) \/ AcquireCommitSem(c)
        PROVE  Status' = Status /\ Log' = Log
    <2>1. PICK to \in {"merge", "committing"} : pc' = [pc EXCEPT ![c] = to] /\ commits' = commits
      BY <1>3 DEF TakeQueue, AcquireCommitSem
    <2>2. pc[c] \in {"sleep", "merge"}
      BY <1>3 DEF TakeQueue, AcquireCommitSem
    <2>3. Status[c] = IF c \in Durable THEN "durable" ELSE "pending"
      BY <2>2 DEF Status
    <2>4. Log' = Log /\ Status' = [Status EXCEPT ![c] = Status[c]]
      BY <2>1, <2>3, StatusAfter, Shape
    <2> QED
      BY <2>4 DEF Status
  <1>4. ASSUME NEW c \in Call, SetEvent(c)
        PROVE  Status' = Status /\ Log' = Log
    <2>1. pc' = pc /\ commits' = commits /\ Durable' = Durable
      BY <1>4 DEF SetEvent, Durable
    <2>2. \A i \in DOMAIN commits : Members(commits'[i]) = Members(commits[i])
      BY <2>1
    <2> QED
      BY <2>1, <2>2 DEF Status, Log
  <1>5. ASSUME NEW c \in Call, Raise(c)
        PROVE  Service!Raise(c)
    <2>1. pc' = [pc EXCEPT ![c] = "raised"] /\ commits' = commits
      BY <1>5 DEF Raise
    <2>2. pc[c] \in {"merge", "committing"} /\ c \notin Durable
      BY <1>5 DEF Raise, DurableInv
    <2>3. Status[c] = "pending"
      BY <2>2 DEF Status
    <2>4. Log' = Log /\ Status' = [Status EXCEPT ![c] = "raised"]
      BY <2>1, StatusAfter, Shape
    <2> QED
      BY <2>3, <2>4 DEF Service!Raise, Log
  <1>6. ASSUME NEW c \in Call, LeaderReturns(c) \/ FollowerReturns(c)
        PROVE  Service!Return(c)
    <2>1. pc' = [pc EXCEPT ![c] = "returned"] /\ commits' = commits
      BY <1>6 DEF LeaderReturns, FollowerReturns
    <2>2. pc[c] \in {"wake", "wait"} /\ c \in Durable
      <3>1. CASE LeaderReturns(c)
        <4>1. c \in Members(batch[c])
          BY <3>1, Shape, MembersByIndex DEF LeaderReturns, LeaderHeadsGroup, Leading
        <4> QED
          BY <3>1, <4>1 DEF LeaderReturns, WakeInv
      <3>2. CASE FollowerReturns(c)
        BY <3>2 DEF FollowerReturns, ReturnedIsDurable
      <3> QED
        BY <1>6, <3>1, <3>2
    <2>3. Status[c] = "durable"
      BY <2>2 DEF Status
    <2>4. Log' = Log /\ Status' = [Status EXCEPT ![c] = "returned"]
      BY <2>1, StatusAfter, Shape
    <2> QED
      BY <2>3, <2>4 DEF Service!Return, Log
  <1>7. ASSUME NEW c \in Call, Commit(c)
        PROVE  \E G \in (SUBSET Call) \ {{}} : Service!CommitGroup(G)
    <2> DEFINE G == Members(batch[c])
    <2>1. /\ pc[c] = "committing" /\ pc'[c] = "wake"
          /\ \A d \in Call : d # c => pc'[d] = pc[d]
          /\ commits' = Append(commits, batch[c])
          /\ batch[c] \in Seq(Call) /\ c \in Uncommitted /\ commits \in Seq(Seq(Call))
      BY <1>7 DEF Commit, TypeOK, Uncommitted
    <2>2. G \in SUBSET Call /\ c \in G
      <3>1. batch[c] # <<>> /\ batch[c][1] = c
        BY <2>1 DEF LeaderHeadsGroup, Leading
      <3> QED
        BY <2>1, <3>1, MembersByIndex
    <2>3. \A d \in G : d \notin Durable
      BY <2>1 DEF ExactlyOnce, Taken
    <2>4. \A d \in G : d = c \/ pc[d] = "wait"
      <3> SUFFICES ASSUME NEW d \in G, d # c PROVE pc[d] = "wait"
        OBVIOUS
      <3>1. pc[d] \in {"wait", "returned"} /\ d \in Call
        BY <2>1, <2>2, GroupMembers DEF Leading
      <3> QED
        BY <3>1, <2>3 DEF ReturnedIsDurable
    <2>5. Durable' = Durable \cup G
      BY <2>1, DurableAfterCommit
    <2>6. \A d \in G : Status[d] = "pending"
      BY <2>1, <2>2, <2>3, <2>4 DEF Status
    <2>7. Status' = [d \in Call |-> IF d \in G THEN "durable" ELSE Status[d]]
      <3> SUFFICES ASSUME NEW d \in Call
                   PROVE  Status'[d] = IF d \in G THEN "durable" ELSE Status[d]
        BY DEF Status
      <3>1. CASE d \in G
        BY <3>1, <2>1, <2>4, <2>5 DEF Status
      <3>2. CASE d \notin G
        BY <3>2, <2>1, <2>2, <2>5 DEF Status
      <3> QED
        BY <3>1, <3>2
    <2>8. Log' = Append(Log, G)
      <3>1. /\ DOMAIN commits = 1 .. Len(commits) /\ Len(commits) \in Nat
            /\ DOMAIN commits' = 1 .. Len(commits) + 1
            /\ \A i \in 1 .. Len(commits) : commits'[i] = commits[i]
            /\ commits'[Len(commits) + 1] = batch[c]
        BY <2>1
      <3>2. /\ Log \in Seq(SUBSET Call) /\ Len(Log) = Len(commits)
            /\ \A i \in 1 .. Len(commits) : Log[i] = Members(commits[i])
        <4>1. \A i \in 1 .. Len(commits) : Members(commits[i]) \in SUBSET Call
          BY <2>1, MembersByIndex
        <4> QED
          BY <3>1, <4>1 DEF Log
      <3>3. Log' = [i \in 1 .. Len(commits) + 1 |-> IF i = Len(commits) + 1 THEN G ELSE Log[i]]
        BY <3>1, <3>2 DEF Log
      <3> HIDE DEF G
      <3> QED
        BY <3>2, <3>3, <2>2, AppendAsFunction
    <2>9. G \in (SUBSET Call) \ {{}}
      BY <2>2
    <2>10. Service!CommitGroup(G)
      BY <2>6, <2>7, <2>8 DEF Service!CommitGroup, Log
    <2> QED
      BY <2>9, <2>10
  <1> QED
    BY <1>1, <1>2, <1>3, <1>4, <1>5, <1>6, <1>7 DEF Next, Service!ServiceNext

\* The queue, the events and the semaphore implement the service: groups commit
\* in one go and once, and no call returns before its group.
THEOREM ImplementsService == Spec => RefinesService
  <1>1. Init => Service!ServiceInit
    <2> SUFFICES ASSUME Init PROVE Service!ServiceInit
      OBVIOUS
    <2>1. Status = [c \in Call |-> "new"]
      BY DEF Init, Status
    <2>2. Log = <<>>
      BY DEF Init, Log
    <2> QED
      BY <2>1, <2>2 DEF Service!ServiceInit, Log
  <1>2. IInv /\ [Next]_vars => [Service!ServiceNext]_<<Status, Log>>
    BY StepOfService
  <1> QED
    BY <1>1, <1>2, Invariant, PTL DEF Spec, RefinesService, Service!ServiceSpec, Log
=============================================================================
