---------------------- MODULE DiningPhilosophers_proofs ----------------------
(* Proofs about DiningPhilosophers, for every number of philosophers. *)
EXTENDS DiningPhilosophers, TLAPS

(***************************************************************************)
(* The neighbours on the ring.                                             *)
(***************************************************************************)
LEMMA RightValue ==
    ASSUME NEW p \in Phil
    PROVE  Right(p) = IF p = N - 1 THEN 0 ELSE p + 1
  BY NAssumption DEF Phil, Right

LEMMA LeftValue ==
    ASSUME NEW p \in Phil
    PROVE  Left(p) = IF p = 0 THEN N - 1 ELSE p - 1
  BY NAssumption DEF Phil, Left

\* Left and Right are inverse permutations of the ring.
LEMMA Ring ==
    ASSUME NEW p \in Phil
    PROVE  /\ Right(p) \in Phil
           /\ Left(p) \in Phil
           /\ Left(Right(p)) = p
           /\ Right(Left(p)) = p
  BY RightValue, LeftValue, NAssumption DEF Phil

LEMMA FreeIsNobody == Free \notin Phil
  BY NAssumption DEF Free, Phil

LEMMA SubjectOnRing ==
    ASSUME NEW q \in Phil
    PROVE  Subject(q) \in Phil
  BY Ring DEF Subject

-----------------------------------------------------------------------------
(***************************************************************************)
(* IInv is inductive: one lemma per action.                                *)
(***************************************************************************)
\* Initially everybody thinks and nobody is inside m_.
LEMMA InitIInv == Init => IInv
  <1> SUFFICES ASSUME Init PROVE IInv
    OBVIOUS
  <1>1. TypeOK
    BY DEF Init, TypeOK, Location
  <1>2. MutexInv
    BY FreeIsNobody DEF Init, MutexInv, Locked, TakeLocked, PutLocked
  <1>3. GrantInv
    BY DEF Init, GrantInv, Acquiring
  <1>4. ForkInv
    BY Ring DEF Init, ForkInv
  <1>5. NeighboursApart /\ NoLostWakeup /\ HungryIsCovered
    BY Ring DEF Init, NeighboursApart, NoLostWakeup, HungryIsCovered
  <1> QED
    BY <1>1, <1>2, <1>3, <1>4, <1>5 DEF IInv

\* takeForks: p gets m_, is HUNGRY, and is going to try for itself.
LEMMA TakeForksIInv ==
    ASSUME IInv, NEW p \in Phil, TakeForks(p)
    PROVE  IInv'
  <1> USE DEF IInv, TakeForks
  <1>0. states[p] = "THINKING" /\ m # p
    BY FreeIsNobody DEF GrantInv
  <1>1. TypeOK'
    BY DEF TypeOK, Location, Locked, TakeLocked
  <1>2. MutexInv'
    BY FreeIsNobody DEF TypeOK, MutexInv, Locked, TakeLocked, PutLocked
  <1>3. GrantInv'
    BY <1>0 DEF TypeOK, GrantInv, PutLocked, Acquiring
  <1>4. ForkInv'
    BY Ring DEF TypeOK, ForkInv
  <1>5. NeighboursApart'
    BY <1>0, Ring DEF TypeOK, NeighboursApart
  <1>6. NoLostWakeup'
    BY DEF TypeOK, NoLostWakeup, Subject, TakeLocked
  <1>7. HungryIsCovered'
    <2> SUFFICES ASSUME NEW x \in Phil, states'[x] = "HUNGRY"
                 PROVE  \/ states'[Left(x)] = "EATING"
                        \/ states'[Right(x)] = "EATING"
                        \/ \E q \in Phil : WillTry(q, x)'
      BY DEF HungryIsCovered
    <2>1. CASE x = p
      BY <2>1 DEF TypeOK, WillTry
    <2>2. CASE x # p
      BY <2>2, <1>0, Ring DEF TypeOK, HungryIsCovered, WillTry
    <2> QED
      BY <2>1, <2>2
  <1> QED
    BY <1>1, <1>2, <1>3, <1>4, <1>5, <1>6, <1>7

\* putForks: p gets m_, is THINKING, and is going to try for both neighbours.
LEMMA PutForksIInv ==
    ASSUME IInv, NEW p \in Phil, PutForks(p)
    PROVE  IInv'
  <1> USE DEF IInv, PutForks
  <1>0. states[p] = "EATING" /\ sems[p] = 0 /\ m # p
    BY FreeIsNobody DEF TypeOK, GrantInv, Acquiring
  <1>1. TypeOK'
    BY DEF TypeOK, Location, Locked, PutLocked
  <1>2. MutexInv'
    BY FreeIsNobody DEF TypeOK, MutexInv, Locked, TakeLocked, PutLocked
  <1>3. GrantInv'
    BY <1>0 DEF TypeOK, GrantInv, PutLocked, Acquiring
  <1>4. ForkInv'
    <2> SUFFICES ASSUME NEW f \in Phil
                 PROVE  forksInUse'[f] <=> pc'[f] = "eat" \/ pc'[Left(f)] = "eat"
      BY DEF ForkInv
    <2>1. CASE f = p
      <3>1. Left(p) # p => pc[Left(p)] # "eat"
        BY <1>0, Ring DEF NeighboursApart, GrantInv
      <3> QED
        BY <2>1, <3>1, Ring DEF TypeOK
    <2>2. CASE f = Right(p) /\ f # p
      <3>1. pc[f] # "eat" /\ Left(f) = p
        BY <2>2, <1>0, Ring DEF NeighboursApart, GrantInv
      <3> QED
        BY <2>2, <3>1, Ring DEF TypeOK
    <2>3. CASE f \notin {p, Right(p)}
      BY <2>3, Ring DEF TypeOK, ForkInv
    <2> QED
      BY <2>1, <2>2, <2>3
  <1>5. NeighboursApart'
    BY Ring DEF TypeOK, NeighboursApart
  <1>6. NoLostWakeup'
    BY DEF TypeOK, NoLostWakeup, Subject, TakeLocked
  <1>7. HungryIsCovered'
    <2> SUFFICES ASSUME NEW x \in Phil, states'[x] = "HUNGRY"
                 PROVE  \/ states'[Left(x)] = "EATING"
                        \/ states'[Right(x)] = "EATING"
                        \/ \E q \in Phil : WillTry(q, x)'
      BY DEF HungryIsCovered
    <2>1. CASE p \in {Left(x), Right(x)}
      BY <2>1, Ring DEF TypeOK, WillTry
    <2>2. CASE p \notin {Left(x), Right(x)}
      BY <2>2, <1>0, Ring DEF TypeOK, HungryIsCovered, WillTry
    <2> QED
      BY <2>1, <2>2
  <1> QED
    BY <1>1, <1>2, <1>3, <1>4, <1>5, <1>6, <1>7

\* The three places tryToEat is called from: the locations of the call, of its
\* notification, and where the caller continues.
Calls == {<<"trySelf", "sigSelf", "acquire">>,
          <<"tryRight", "sigRight", "tryLeft">>,
          <<"tryLeft", "sigLeft", "think">>}

\* tryToEat grants the forks: its subject is HUNGRY and blocked, or on its way
\* to block, and its neighbours do not eat.
LEMMA GrantIInv ==
    ASSUME IInv, NEW q \in Phil, NEW call \in Calls, Grant(q, call[1], call[2])
    PROVE  IInv'
  <1> DEFINE x == Subject(q)
  <1> USE DEF IInv
  <1>0. /\ x \in Phil
        /\ pc[q] = call[1]
        /\ CanEat(x)
        /\ states' = [states EXCEPT ![x] = "EATING"]
        /\ sems' = [sems EXCEPT ![x] = 1]
        /\ pc' = [pc EXCEPT ![q] = call[2]]
        /\ UNCHANGED <<m, forksInUse>>
    BY SubjectOnRing DEF Grant
  <1>1. /\ call[1] \in Locked
        /\ call[2] \in Locked
        /\ call[1] \in PutLocked <=> call[2] \in PutLocked
        /\ call[2] = "sigSelf" => x = q
    BY <1>0 DEF Calls, Locked, TakeLocked, PutLocked, Subject
  <1>2. m = q /\ \A p \in Phil : p # q => pc[p] \notin Locked
    BY <1>0, <1>1 DEF TypeOK, MutexInv
  <1>3. /\ sems[x] = 0
        /\ pc[x] \in Acquiring \cup {"trySelf"}
        /\ x # q => pc[x] \in Acquiring
        /\ x = q => call[2] = "sigSelf"
    <2>1. sems[x] = 0 /\ pc[x] \notin {"think", "acquired", "eat"} \cup PutLocked
      BY <1>0 DEF CanEat, TypeOK, GrantInv
    <2>2. pc[x] \in Acquiring \cup {"trySelf"}
      BY <1>0, <2>1 DEF TypeOK, GrantInv, Location, Locked, TakeLocked
    <2> QED
      BY <1>0, <1>2, <2>1, <2>2 DEF Calls, Locked, TakeLocked, Acquiring
  <1> HIDE DEF x
  <1>4. TypeOK'
    BY <1>0, <1>1 DEF TypeOK, Location
  <1>5. MutexInv'
    BY <1>0, <1>1 DEF TypeOK, MutexInv
  <1>6. GrantInv'
    <2> SUFFICES ASSUME NEW p \in Phil
                 PROVE  /\ states'[p] = "THINKING" <=> pc'[p] \in {"think"} \cup PutLocked
                        /\ states'[p] = "EATING" <=> sems'[p] = 1 \/ pc'[p] \in {"acquired", "eat"}
                        /\ sems'[p] = 1 => pc'[p] \in {"sigSelf"} \cup Acquiring
                        /\ pc'[p] = "sigSelf" => sems'[p] = 1
      BY DEF GrantInv
    <2>1. CASE p = x
      BY <2>1, <1>0, <1>1, <1>3 DEF TypeOK, PutLocked, Acquiring
    <2>2. CASE p # x /\ p = q
      BY <2>2, <1>0, <1>1 DEF TypeOK, GrantInv, Calls, Locked, TakeLocked, PutLocked, Acquiring
    <2>3. CASE p # x /\ p # q
      BY <2>3, <1>0 DEF TypeOK, GrantInv
    <2> QED
      BY <2>1, <2>2, <2>3
  <1>7. ForkInv'
    BY <1>0, <1>1, Ring DEF TypeOK, ForkInv, Locked, TakeLocked, PutLocked
  <1>8. NeighboursApart'
    BY <1>0, Ring DEF TypeOK, NeighboursApart, CanEat
  <1>9. NoLostWakeup'
    <2> SUFFICES ASSUME NEW p \in Phil, sems'[p] = 1, pc'[p] = "wait"
                 PROVE  \E r \in Phil : pc'[r] \in {"sigRight", "sigLeft"} /\ Subject(r)' = p
      BY DEF NoLostWakeup
    <2>1. CASE p = x
      <3>1. call[2] # "sigSelf"
        BY <2>1, <1>0, <1>1 DEF TypeOK
      <3>2. pc'[q] = call[2] /\ Subject(q)' = x
        BY <3>1, <1>0 DEF TypeOK, Calls, Subject, TakeLocked, x
      <3> QED
        BY <2>1, <3>1, <3>2 DEF Calls
    <2>2. CASE p # x
      <3>1. pc[p] = "wait" /\ sems[p] = 1
        BY <2>2, <1>0, <1>1 DEF TypeOK, Locked, TakeLocked, PutLocked
      <3>2. PICK r \in Phil : pc[r] \in {"sigRight", "sigLeft"} /\ Subject(r) = p
        BY <3>1 DEF NoLostWakeup
      <3>3. r # q
        BY <3>2, <1>0 DEF Calls
      <3> QED
        BY <3>2, <3>3, <1>2 DEF Locked, PutLocked
    <2> QED
      BY <2>1, <2>2
  <1>10. HungryIsCovered'
    <2> SUFFICES ASSUME NEW p \in Phil, states'[p] = "HUNGRY"
                 PROVE  \/ states'[Left(p)] = "EATING"
                        \/ states'[Right(p)] = "EATING"
                        \/ \E r \in Phil : WillTry(r, p)'
      BY DEF HungryIsCovered
    <2>1. p # x /\ states[p] = "HUNGRY"
      BY <1>0 DEF TypeOK
    <2>2. \A r \in Phil : WillTry(r, p) => r = q
      BY <1>2 DEF WillTry, Locked, TakeLocked, PutLocked
    <2>3. WillTry(q, p) => WillTry(q, p)'
      BY <2>1, <1>0, Ring DEF TypeOK, Calls, WillTry, Subject, TakeLocked, x
    <2> QED
      BY <2>1, <2>2, <2>3, <1>0, Ring DEF TypeOK, HungryIsCovered
  <1> QED
    BY <1>4, <1>5, <1>6, <1>7, <1>8, <1>9, <1>10

\* tryToEat grants nothing, so its subject is not HUNGRY or has a neighbour
\* that eats.
LEMMA SkipIInv ==
    ASSUME IInv, NEW q \in Phil, NEW call \in Calls, Skip(q, call[1], call[3])
    PROVE  IInv'
  <1> DEFINE x == Subject(q)
  <1> USE DEF IInv
  <1>0. /\ x \in Phil
        /\ pc[q] = call[1]
        /\ ~CanEat(x)
        /\ pc' = [pc EXCEPT ![q] = call[3]]
        /\ m' = IF call[3] \in Locked THEN m ELSE Free
        /\ UNCHANGED <<states, sems, forksInUse>>
    BY SubjectOnRing DEF Skip, Leave
  <1>1. m = q /\ \A p \in Phil : p # q => pc[p] \notin Locked
    BY <1>0 DEF TypeOK, MutexInv, Calls, Locked, TakeLocked, PutLocked
  <1>2. TypeOK'
    BY <1>0 DEF TypeOK, Calls, Location, Acquiring, Locked, TakeLocked, PutLocked
  <1>3. MutexInv'
    BY <1>0, <1>1, FreeIsNobody DEF TypeOK, MutexInv
  <1>4. GrantInv'
    BY <1>0 DEF TypeOK, GrantInv, Calls, PutLocked, Acquiring
  <1>5. ForkInv'
    BY <1>0, Ring DEF TypeOK, ForkInv, Calls
  <1>6. NeighboursApart'
    BY <1>0 DEF NeighboursApart
  <1>7. NoLostWakeup'
    BY <1>0 DEF TypeOK, NoLostWakeup, Calls, Subject, TakeLocked
  <1>8. HungryIsCovered'
    <2> SUFFICES ASSUME NEW p \in Phil, states[p] = "HUNGRY"
                 PROVE  \/ states[Left(p)] = "EATING"
                        \/ states[Right(p)] = "EATING"
                        \/ \E r \in Phil : WillTry(r, p)'
      BY <1>0 DEF HungryIsCovered
    <2>1. CASE p = x
      BY <2>1, <1>0 DEF CanEat
    <2>2. CASE p # x
      <3>1. \A r \in Phil : WillTry(r, p) => r = q
        BY <1>1 DEF WillTry, Locked, TakeLocked, PutLocked
      <3>2. WillTry(q, p) => WillTry(q, p)'
        BY <2>2, <1>0, Ring DEF TypeOK, Calls, WillTry, Subject, TakeLocked
      <3> QED
        BY <3>1, <3>2 DEF HungryIsCovered
    <2> QED
      BY <2>1, <2>2
  <1> QED
    BY <1>2, <1>3, <1>4, <1>5, <1>6, <1>7, <1>8

\* The notification reaches the subject if it is blocked.
LEMMA NotifyIInv ==
    ASSUME IInv, NEW q \in Phil, NEW call \in Calls, Notify(q, call[2], call[3])
    PROVE  IInv'
  <1> DEFINE x == Subject(q)
  <1> USE DEF IInv
  <1>0. /\ x \in Phil
        /\ pc[q] = call[2]
        /\ pc' = [y \in Phil |-> IF y = q THEN call[3]
                                ELSE IF y = x /\ pc[x] = "wait" THEN "woken" ELSE pc[y]]
        /\ m' = IF call[3] \in Locked THEN m ELSE Free
        /\ UNCHANGED <<states, sems, forksInUse>>
    BY SubjectOnRing DEF Notify
  <1>1. m = q /\ \A p \in Phil : p # q => pc[p] \notin Locked
    BY <1>0 DEF TypeOK, MutexInv, Calls, Locked, TakeLocked, PutLocked
  <1>2. TypeOK'
    BY <1>0 DEF TypeOK, Calls, Location, Acquiring, Locked, TakeLocked, PutLocked
  <1>3. MutexInv'
    BY <1>0, <1>1, FreeIsNobody DEF TypeOK, MutexInv, Locked, TakeLocked, PutLocked
  <1>4. GrantInv'
    BY <1>0 DEF TypeOK, GrantInv, Calls, PutLocked, Acquiring
  <1>5. ForkInv'
    BY <1>0, Ring DEF TypeOK, ForkInv, Calls
  <1>6. NeighboursApart'
    BY <1>0 DEF NeighboursApart
  <1>7. NoLostWakeup'
    <2> SUFFICES ASSUME NEW p \in Phil, sems[p] = 1, pc'[p] = "wait"
                 PROVE  \E r \in Phil : pc'[r] \in {"sigRight", "sigLeft"} /\ Subject(r)' = p
      BY <1>0 DEF NoLostWakeup
    <2>1. p # q /\ p # x /\ pc[p] = "wait"
      BY <1>0 DEF Calls
    <2>2. PICK r \in Phil : pc[r] \in {"sigRight", "sigLeft"} /\ Subject(r) = p
      BY <2>1 DEF NoLostWakeup
    <2>3. r # q
      BY <2>1, <2>2
    <2> QED
      BY <2>2, <2>3, <1>1 DEF Locked, PutLocked
  <1>8. HungryIsCovered'
    <2> SUFFICES ASSUME NEW p \in Phil, states[p] = "HUNGRY"
                 PROVE  \/ states[Left(p)] = "EATING"
                        \/ states[Right(p)] = "EATING"
                        \/ \E r \in Phil : WillTry(r, p)'
      BY <1>0 DEF HungryIsCovered
    <2>1. \A r \in Phil : WillTry(r, p) => r = q
      BY <1>1 DEF WillTry, Locked, TakeLocked, PutLocked
    <2>2. WillTry(q, p) => WillTry(q, p)'
      BY <1>0, Ring DEF Calls, WillTry
    <2> QED
      BY <2>1, <2>2 DEF HungryIsCovered
  <1> QED
    BY <1>2, <1>3, <1>4, <1>5, <1>6, <1>7, <1>8

LEMMA CriticalIInv ==
    ASSUME IInv, NEW q \in Phil, Critical(q)
    PROVE  IInv'
  <1>1. PICK call \in Calls : TryToEat(q, call[1], call[2], call[3])
    BY DEF Critical, TryToEatSelf, TryToEatRight, TryToEatLeft, Calls
  <1> QED
    BY <1>1, GrantIInv, SkipIInv, NotifyIInv DEF TryToEat

\* acquire() consumes the grant or blocks because there is none.
LEMMA AcquireIInv ==
    ASSUME IInv, NEW p \in Phil, Acquire(p)
    PROVE  IInv'
  <1> USE DEF IInv, Acquire
  <1>1. TypeOK'
    BY DEF TypeOK, Location, Acquiring
  <1>2. MutexInv'
    BY DEF TypeOK, MutexInv, Locked, TakeLocked, PutLocked
  <1>3. GrantInv'
    BY DEF TypeOK, GrantInv, PutLocked, Acquiring
  <1>4. ForkInv'
    BY Ring DEF TypeOK, ForkInv
  <1>5. NeighboursApart'
    BY DEF NeighboursApart
  <1>6. NoLostWakeup'
    BY DEF TypeOK, NoLostWakeup, Subject, TakeLocked
  <1>7. HungryIsCovered'
    <2>1. \A q, x \in Phil : WillTry(q, x) => WillTry(q, x)'
      BY DEF TypeOK, WillTry
    <2> QED
      BY <2>1 DEF HungryIsCovered
  <1> QED
    BY <1>1, <1>2, <1>3, <1>4, <1>5, <1>6, <1>7

LEMMA SpuriousWakeupIInv ==
    ASSUME IInv, NEW p \in Phil, SpuriousWakeup(p)
    PROVE  IInv'
  <1> USE DEF IInv, SpuriousWakeup
  <1>1. TypeOK'
    BY DEF TypeOK, Location, Acquiring
  <1>2. MutexInv'
    BY DEF TypeOK, MutexInv, Locked, TakeLocked, PutLocked
  <1>3. GrantInv'
    BY DEF TypeOK, GrantInv, PutLocked, Acquiring
  <1>4. ForkInv'
    BY Ring DEF TypeOK, ForkInv
  <1>5. NeighboursApart'
    BY DEF NeighboursApart
  <1>6. NoLostWakeup'
    BY DEF TypeOK, NoLostWakeup, Subject, TakeLocked
  <1>7. HungryIsCovered'
    <2>1. \A q, x \in Phil : WillTry(q, x) => WillTry(q, x)'
      BY DEF TypeOK, WillTry
    <2> QED
      BY <2>1 DEF HungryIsCovered
  <1> QED
    BY <1>1, <1>2, <1>3, <1>4, <1>5, <1>6, <1>7

\* p has its grant, so no neighbour eats: it finds both forks unused.
LEMMA PickUpIInv ==
    ASSUME IInv, NEW p \in Phil, PickUp(p)
    PROVE  IInv'
  <1> USE DEF IInv, PickUp
  <1>1. TypeOK'
    BY DEF TypeOK, Location
  <1>2. MutexInv'
    BY DEF TypeOK, MutexInv, Locked, TakeLocked, PutLocked
  <1>3. GrantInv'
    BY DEF TypeOK, GrantInv, PutLocked, Acquiring
  <1>4. ForkInv'
    BY Ring DEF TypeOK, ForkInv
  <1>5. NeighboursApart'
    BY DEF NeighboursApart
  <1>6. NoLostWakeup'
    BY DEF TypeOK, NoLostWakeup, Subject, TakeLocked
  <1>7. HungryIsCovered'
    <2>1. \A q, x \in Phil : WillTry(q, x) => WillTry(q, x)'
      BY DEF TypeOK, WillTry
    <2> QED
      BY <2>1 DEF HungryIsCovered
  <1> QED
    BY <1>1, <1>2, <1>3, <1>4, <1>5, <1>6, <1>7

LEMMA NextIInv == IInv /\ [Next]_vars => IInv'
  <1> SUFFICES ASSUME IInv, [Next]_vars PROVE IInv'
    OBVIOUS
  <1>1. CASE UNCHANGED vars
    BY <1>1 DEF vars, IInv, TypeOK, MutexInv, GrantInv, ForkInv, NeighboursApart,
                NoLostWakeup, HungryIsCovered, WillTry, Subject
  <1>2. ASSUME NEW p \in Phil,
               \/ TakeForks(p)
               \/ PutForks(p)
               \/ Critical(p)
               \/ Acquire(p)
               \/ SpuriousWakeup(p)
               \/ PickUp(p)
        PROVE  IInv'
    BY <1>2, TakeForksIInv, PutForksIInv, CriticalIInv, AcquireIInv,
       SpuriousWakeupIInv, PickUpIInv
  <1> QED
    BY <1>1, <1>2 DEF Next

-----------------------------------------------------------------------------
(***************************************************************************)
(* The theorems.                                                           *)
(***************************************************************************)
\* Whatever the number of philosophers and however their threads interleave,
\* the inductive invariant holds; it contains TypeOK, NeighboursApart,
\* NoLostWakeup and HungryIsCovered as conjuncts.
THEOREM Invariant == Spec => []IInv
  <1>1. Init => IInv
    BY InitIInv
  <1>2. IInv /\ [Next]_vars => IInv'
    BY NextIInv
  <1> QED
    BY <1>1, <1>2, PTL DEF Spec

\* The variables keep their types.
THEOREM TypeCorrect == Spec => []TypeOK
  <1>1. IInv => TypeOK
    BY DEF IInv
  <1> QED
    BY <1>1, Invariant, PTL

\* Two neighbours are never both EATING (the CHECK of the test's main thread).
THEOREM NeighboursNeverEatTogether == Spec => []NeighboursApart
  <1>1. IInv => NeighboursApart
    BY DEF IInv
  <1> QED
    BY <1>1, Invariant, PTL

\* The CHECKs of checkActions hold: no fork is picked up twice or put down
\* without having been picked up.
THEOREM ForksAreExclusive == Spec => []ForksExclusive
  <1>1. IInv => ForksExclusive
    <2> SUFFICES ASSUME IInv, NEW p \in Phil
                 PROVE  /\ pc[p] = "acquired" => ~forksInUse[p] /\ ~forksInUse[Right(p)]
                        /\ pc[p] = "eat" => forksInUse[p] /\ forksInUse[Right(p)]
      BY DEF ForksExclusive
    <2>1. CASE pc[p] = "acquired"
      <3>1. \A q \in {Left(p), Right(p)} : pc[q] # "eat"
        BY <2>1, Ring DEF IInv, GrantInv, NeighboursApart
      <3> QED
        BY <2>1, <3>1, Ring DEF IInv, ForkInv
    <2>2. CASE pc[p] = "eat"
      BY <2>2, Ring DEF IInv, ForkInv
    <2> QED
      BY <2>1, <2>2
  <1> QED
    BY <1>1, Invariant, PTL

\* A philosopher blocked in acquire() with its v_ set is about to be notified.
THEOREM NoWakeupIsLost == Spec => []NoLostWakeup
  <1>1. IInv => NoLostWakeup
    BY DEF IInv
  <1> QED
    BY <1>1, Invariant, PTL

\* A HUNGRY philosopher has somebody who will try for it.
THEOREM NobodyIsForgotten == Spec => []HungryIsCovered
  <1>1. IInv => HungryIsCovered
    BY DEF IInv
  <1> QED
    BY <1>1, Invariant, PTL

-----------------------------------------------------------------------------
(***************************************************************************)
(* The philosophers' view: PhilosopherTable is implemented.                *)
(***************************************************************************)
\* A step of the detailed specification is a step of the table or changes
\* nothing the table shows.
LEMMA StepOfTable ==
    ASSUME IInv, IInv', [Next]_vars
    PROVE  [Table!TableNext]_Doing
  <1> USE DEF IInv, DoingAt
  <1>1. CASE UNCHANGED vars
    BY <1>1 DEF vars, Doing
  <1>2. ASSUME NEW p \in Phil, TakeForks(p)
        PROVE  Table!GetHungry(p)
    BY <1>2 DEF TakeForks, Table!GetHungry, Doing, TypeOK, PutLocked
  <1>3. ASSUME NEW p \in Phil, PutForks(p)
        PROVE  Table!StopEating(p)
    BY <1>3 DEF PutForks, Table!StopEating, Doing, TypeOK, PutLocked
  <1>4. ASSUME NEW p \in Phil, PickUp(p)
        PROVE  Table!StartEating(p)
    <2>1. \A q \in {Left(p), Right(p)} : q \in Phil /\ pc[q] # "eat"
      BY <1>4, Ring DEF PickUp, GrantInv, NeighboursApart
    <2>2. \A q \in {Left(p), Right(p)} : Doing[q] # "eating"
      BY <2>1 DEF Doing
    <2>3. Doing[p] = "hungry" /\ Doing' = [Doing EXCEPT ![p] = "eating"]
      BY <1>4 DEF PickUp, Doing, TypeOK, PutLocked
    <2> QED
      BY <2>2, <2>3 DEF Table!StartEating, Table!Left, Table!Right, Left, Right
  <1>5. ASSUME NEW p \in Phil, Critical(p)
        PROVE  UNCHANGED Doing
    <2>1. PICK call \in Calls : TryToEat(p, call[1], call[2], call[3])
      BY <1>5 DEF Critical, TryToEatSelf, TryToEatRight, TryToEatLeft, Calls
    <2>2. CASE Grant(p, call[1], call[2])
      BY <2>2 DEF Grant, Doing, TypeOK, Calls, PutLocked
    <2>3. CASE Skip(p, call[1], call[3])
      BY <2>3 DEF Skip, Leave, Doing, TypeOK, Calls, PutLocked
    <2>4. CASE Notify(p, call[2], call[3])
      BY <2>4 DEF Notify, Doing, TypeOK, Calls, PutLocked
    <2> QED
      BY <2>1, <2>2, <2>3, <2>4 DEF TryToEat
  <1>6. ASSUME NEW p \in Phil, Acquire(p) \/ SpuriousWakeup(p)
        PROVE  UNCHANGED Doing
    BY <1>6 DEF Acquire, SpuriousWakeup, Doing, TypeOK, PutLocked
  <1> QED
    BY <1>1, <1>2, <1>3, <1>4, <1>5, <1>6 DEF Next, Table!TableNext, Table!Phil, Phil

\* PhilosophersSync with its semaphores implements the table: nobody starts to
\* eat beside a neighbour that eats.
THEOREM ImplementsTable == Spec => RefinesTable
  <1>1. Init => Table!TableInit
    BY DEF Init, Table!TableInit, Table!Phil, Phil, Doing, DoingAt
  <1>2. IInv /\ IInv' /\ [Next]_vars => [Table!TableNext]_Doing
    BY StepOfTable
  <1> QED
    BY <1>1, <1>2, Invariant, PTL DEF Spec, RefinesTable, Table!TableSpec
=============================================================================
