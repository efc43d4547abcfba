------------------------- MODULE RpcTraining_proofs -------------------------
(***************************************************************************)
(* Proofs about RpcTraining, for every number of trainers and of epochs.   *)
(***************************************************************************)
EXTENDS RpcTraining, FiniteSetTheorems, TLAPS

W == NumWraps

KindsInv ==
    /\ test \in {"forward", "batch", "dlrm"} /\ ddp_mode \in {"none", "outside", "inside"}
    /\ num_trainers \in 1 .. MaxTrainers
    /\ test = "dlrm" => num_trainers = 2 /\ ddp_mode # "outside"

\* What the master has called, and whose answers it has.
Made(t, e) ==
    \/ e < epoch
    \/ e = epoch /\ (master = "wait" \/ (master = "call" /\ t < rank))
Awaited(t, e) == e < epoch \/ (e = epoch /\ master = "wait" /\ t < rank)

MasterInv ==
    /\ rank \in Trainers /\ epoch \in Nat /\ master # "failed"
    /\ master \in {"em", "net", "trainers"} => epoch = 0
    /\ master \in {"em", "net"} => rank = 1
    /\ master \in {"em", "net", "trainers"} => \A t \in Trainers :
         t >= rank \/ master # "trainers" => trainer[t] = "none"
    /\ master \in {"call", "wait"} => epoch \in Epoch

CallsInv == \A t \in Trainers, e \in Epoch :
    /\ call[<<t, e>>] # "none" => Made(t, e)
    /\ Awaited(t, e) => call[<<t, e>>] = "answered"

\* How far the call of a trainer in an epoch can be.
CallOK(t, e) ==
    /\ call[<<t, e>>] \notin {"none", "sent"} => trainer[t] = "ready"
    /\ test = "forward" => call[<<t, e>>] \notin {"reduce", "step"}
    /\ test = "dlrm" => call[<<t, e>>] \in {"none", "sent", "reduce", "answered"}
    /\ call[<<t, e>>] = "reduce" => W # 0
    /\ test = "batch" /\ call[<<t, e>>] = "answered" => <<t, e>> \in remote_params

\* The collective operations a trainer has entered tell where it is: first the group, then
\* the W nets of the constructor, then W gradients in every epoch.
EnteredOK(t) ==
    /\ entered[t] \in Nat
    /\ trainer[t] \in {"none", "begin"} => entered[t] = 0
    /\ trainer[t] \in {"group", "em", "net"} => entered[t] = 1
    /\ trainer[t] = "wrap" => entered[t] \in 2 .. W + 1
    /\ trainer[t] = "ready" /\ W # 0 => entered[t] >= W + 1

LevelOK(t, e) == W # 0 /\ test # "forward" =>
    /\ call[<<t, e>>] \in {"none", "sent", "em", "net"} => entered[t] <= W + 1 + W * e
    /\ call[<<t, e>>] = "reduce" => W + 1 + W * e < entered[t] /\ entered[t] <= W + 1 + W * (e + 1)
    /\ call[<<t, e>>] \in {"step", "answered"} => entered[t] >= W + 1 + W * (e + 1)

\* With DDP the gradients of all trainers in an epoch go into a replica together.
LocalOK(t) == W # 0 =>
    /\ \A g \in local_params[t] : \E e \in Epoch :
         g \in Trainers \X {e} /\ Trainers \X {e} \subseteq local_params[t] /\ call[<<t, e>>] \in {"step", "answered"}
    /\ \A e \in Epoch : test = "batch" /\ call[<<t, e>>] = "answered" => Trainers \X {e} \subseteq local_params[t]
    /\ test # "batch" => local_params[t] = {}

TrainingInv ==
    /\ TrainingTypeOK /\ KindsInv /\ MasterInv /\ CallsInv
    /\ \A t \in Trainers : EnteredOK(t) /\ LocalOK(t)
    /\ \A t \in Trainers, e \in Epoch : CallOK(t, e) /\ LevelOK(t, e)

LEMMA Sizes ==
    ASSUME KindsInv
    PROVE  /\ num_trainers \in Nat \ {0} /\ Trainers = 1 .. num_trainers /\ Trainers \subseteq AllTrainers
           /\ NumEpochs \in Nat \ {0} /\ MaxTrainers \in Nat
           /\ \A e \in Epoch : e \in 0 .. NumEpochs - 1 /\ e \in Nat
           /\ \A e \in Epoch : \A d \in 0 .. e - 1 : d \in Epoch
           /\ 0 \in Epoch
           /\ W \in {0, 1, 2}
  <1>1. num_trainers \in Nat \ {0} /\ Trainers = 1 .. num_trainers /\ Trainers \subseteq AllTrainers
    BY TrainingAssumption DEF KindsInv, Trainers, AllTrainers
  <1>2. W \in {0, 1, 2}
    BY DEF KindsInv, W, NumWraps
  <1>3. NumEpochs \in Nat \ {0} /\ MaxTrainers \in Nat
    BY TrainingAssumption
  <1>4. \/ Epoch = 0 .. 0
        \/ Epoch = 0 .. NumEpochs - 1
    BY DEF Epoch
  <1>5. /\ \A e \in Epoch : e \in 0 .. NumEpochs - 1 /\ e \in Nat
        /\ \A e \in Epoch : \A d \in 0 .. e - 1 : d \in Epoch
        /\ 0 \in Epoch
    BY <1>3, <1>4
  <1> QED
    BY <1>1, <1>2, <1>3, <1>5

LEMMA SameSizes ==
    ASSUME UNCHANGED kinds
    PROVE  /\ Trainers' = Trainers /\ Epoch' = Epoch /\ W' = W
           /\ test' = test /\ ddp_mode' = ddp_mode /\ num_trainers' = num_trainers
           /\ KindsInv => KindsInv'
  BY DEF kinds, Trainers, Epoch, W, NumWraps, KindsInv

LEMMA TrainingInitHolds == TrainingInit => TrainingInv
  <1> SUFFICES ASSUME TrainingInit PROVE TrainingInv
    OBVIOUS
  <1>1. KindsInv
    BY TrainingAssumption DEF TrainingInit, KindsInv
  <1>2. /\ rank = 1 /\ epoch = 0 /\ master \in {"trainers", "em"}
        /\ \A t \in AllTrainers : trainer[t] = "none" /\ entered[t] = 0 /\ local_params[t] = {}
    BY DEF TrainingInit
  <1>3. \A t \in AllTrainers, e \in 0 .. NumEpochs - 1 : call[<<t, e>>] = "none"
    BY DEF TrainingInit, AllCalls
  <1>4. TrainingTypeOK
    <2>1. /\ num_trainers \in TrainerCounts \union {2}
          /\ master \in {"em", "net", "trainers", "call", "wait", "done", "failed"}
          /\ rank \in AllTrainers /\ epoch \in 0 .. NumEpochs
      BY <1>2, TrainingAssumption DEF TrainingInit, AllTrainers
    <2> QED
      BY <1>1, <2>1 DEF TrainingInit, TrainingTypeOK, KindsInv
  <1>5. MasterInv
    BY <1>1, <1>2, Sizes DEF MasterInv
  <1>6. CallsInv
    <2> SUFFICES ASSUME NEW t \in Trainers, NEW e \in Epoch
                 PROVE  call[<<t, e>>] = "none" /\ ~Awaited(t, e)
      BY DEF CallsInv
    <2>1. t \in AllTrainers /\ e \in 0 .. NumEpochs - 1 /\ e \in Nat
      BY <1>1, Sizes
    <2> QED
      BY <1>2, <1>3, <2>1 DEF Awaited
  <1>7. \A t \in Trainers : EnteredOK(t) /\ LocalOK(t)
    BY <1>1, <1>2, <1>3, Sizes DEF EnteredOK, LocalOK
  <1>8. \A t \in Trainers, e \in Epoch : CallOK(t, e) /\ LevelOK(t, e)
    <2> SUFFICES ASSUME NEW t \in Trainers, NEW e \in Epoch PROVE CallOK(t, e) /\ LevelOK(t, e)
      OBVIOUS
    <2>1. call[<<t, e>>] = "none" /\ entered[t] = 0 /\ e \in Nat /\ W \in {0, 1, 2}
      BY <1>1, <1>2, <1>3, Sizes
    <2>2. 0 <= W + 1 + W * e
      BY <2>1
    <2> QED
      BY <2>1, <2>2 DEF CallOK, LevelOK
  <1> QED
    BY <1>1, <1>4, <1>5, <1>6, <1>7, <1>8 DEF TrainingInv

-----------------------------------------------------------------------------
(***************************************************************************)
(* The master.                                                             *)
(***************************************************************************)
LEMMA MasterMoves ==
    ASSUME TrainingInv, UNCHANGED <<kinds, trainer, call, entered, local_params, remote_params>>,
           TrainingTypeOK', MasterInv', CallsInv'
    PROVE  TrainingInv'
  <1>1. /\ Trainers' = Trainers /\ Epoch' = Epoch /\ W' = W /\ test' = test /\ KindsInv'
    BY SameSizes DEF TrainingInv
  <1>2. \A t \in Trainers : EnteredOK(t)' /\ LocalOK(t)'
    BY <1>1 DEF TrainingInv, EnteredOK, LocalOK
  <1>3. \A t \in Trainers, e \in Epoch : CallOK(t, e)' /\ LevelOK(t, e)'
    BY <1>1 DEF TrainingInv, CallOK, LevelOK
  <1> QED
    BY <1>1, <1>2, <1>3 DEF TrainingInv

LEMMA CreateModuleHolds ==
    ASSUME TrainingInv, NEW m \in {"em", "net"}, CreateModule(m) PROVE TrainingInv'
  <1>1. /\ master = m /\ master' = IF m = "em" THEN "net" ELSE "trainers"
        /\ UNCHANGED <<kinds, rank, epoch, constructed, trainer, call, entered, local_params, remote_params>>
    BY DEF CreateModule
  <1>2. Trainers' = Trainers /\ Epoch' = Epoch
    BY <1>1, SameSizes
  <1>3. TrainingTypeOK'
    BY <1>1, <1>2, SameSizes DEF TrainingInv, TrainingTypeOK
  <1>4. MasterInv'
    BY <1>1, <1>2 DEF TrainingInv, MasterInv
  <1>5. CallsInv'
    BY <1>1, <1>2 DEF TrainingInv, CallsInv, Made, Awaited
  <1> QED
    BY <1>1, <1>3, <1>4, <1>5, MasterMoves

LEMMA ConstructHolds ==
    ASSUME TrainingInv, NEW m \in {"em", "net"}, Construct(m) PROVE TrainingInv'
  <1>1. /\ constructed' = constructed \union {m}
        /\ UNCHANGED <<kinds, master, rank, epoch, trainer, call, entered, local_params, remote_params>>
    BY DEF Construct
  <1>2. Trainers' = Trainers /\ Epoch' = Epoch
    BY <1>1, SameSizes
  <1>3. TrainingTypeOK'
    BY <1>1, <1>2, SameSizes DEF TrainingInv, TrainingTypeOK
  <1>4. MasterInv' /\ CallsInv'
    BY <1>1, <1>2 DEF TrainingInv, MasterInv, CallsInv, Made, Awaited
  <1> QED
    BY <1>1, <1>3, <1>4, MasterMoves

\* The two examples of the second program have gradients of opposite signs.
LEMMA SumOfTwo ==
    ASSUME NEW f \in [1 .. 2 -> {1, 0, -1}], f[1] = 0 - f[2]
    PROVE  SumOf(f) = 0
  <1> DEFINE A == {t \in DOMAIN f : f[t] = 1}
             B == {t \in DOMAIN f : f[t] = -1}
  <1>1. 1 .. 2 = {1, 2} /\ DOMAIN f = {1, 2}
    OBVIOUS
  <1>2. CASE f[1] = 0
    <2>1. A = {} /\ B = {}
      BY <1>1, <1>2
    <2> QED
      BY <2>1, FS_EmptySet DEF SumOf
  <1>3. CASE f[1] = 1
    <2>1. A = {1} /\ B = {2}
      BY <1>1, <1>3
    <2>2. Cardinality(A) = 1 /\ Cardinality(B) = 1
      BY <2>1, FS_Singleton
    <2> QED
      BY <2>2 DEF SumOf
  <1>4. CASE f[1] = -1
    <2>1. A = {2} /\ B = {1}
      BY <1>1, <1>4
    <2>2. Cardinality(A) = 1 /\ Cardinality(B) = 1
      BY <2>1, FS_Singleton
    <2> QED
      BY <2>2 DEF SumOf
  <1> QED
    BY <1>1, <1>2, <1>3, <1>4

LEMMA TheGradientsCancel ==
    ASSUME KindsInv, test = "dlrm", NEW t \in Trainers
    PROVE  AssertionsHold(t)
  <1>1. num_trainers = 2 /\ Trainers = 1 .. 2 /\ t \in {1, 2}
    BY Sizes DEF KindsInv
  <1>2. SumOf([u \in Trainers |-> Sign(u)]) = 0
    <2> DEFINE f == [u \in Trainers |-> Sign(u)]
    <2>1. f \in [1 .. 2 -> {1, 0, -1}] /\ f[1] = 1 /\ f[2] = -1
      BY <1>1 DEF Sign
    <2> HIDE DEF f
    <2>2. SumOf(f) = 0
      BY <2>1, SumOfTwo
    <2> QED
      BY <2>2 DEF f
  <1>3. CASE W = 0
    <2> DEFINE f == [u \in Trainers |-> LinearGrads(u)]
    <2>1. f \in [1 .. 2 -> {1, 0, -1}] /\ f[1] = 1 /\ f[2] = -1
      BY <1>1, <1>3 DEF Sign, LinearGrads, W
    <2> HIDE DEF f
    <2>2. SumOf(f) = 0
      BY <2>1, SumOfTwo
    <2> QED
      BY <1>1, <1>3, <2>2 DEF f, AssertionsHold, LinearGrads, Sign, W
  <1>4. CASE W # 0
    <2> DEFINE f == [u \in Trainers |-> LinearGrads(u)]
    <2>1. f \in [1 .. 2 -> {1, 0, -1}] /\ f[1] = 0 /\ f[2] = 0
      BY <1>1, <1>2, <1>4 DEF LinearGrads, W
    <2> HIDE DEF f
    <2>2. SumOf(f) = 0
      BY <2>1, SumOfTwo
    <2> QED
      BY <1>2, <1>4, <2>2 DEF f, AssertionsHold, LinearGrads, W
  <1> QED
    BY <1>3, <1>4

LEMMA CreateTrainerHolds == ASSUME TrainingInv, CreateTrainer PROVE TrainingInv'
  <1>1. /\ master = "trainers" /\ trainer' = [trainer EXCEPT ![rank] = "begin"]
        /\ \/ rank < num_trainers /\ rank' = rank + 1 /\ master' = master /\ epoch' = epoch
           \/ ~(rank < num_trainers) /\ rank' = 1 /\ master' = "call" /\ epoch' = epoch
        /\ UNCHANGED <<kinds, constructed, call, entered, local_params, remote_params>>
    BY DEF CreateTrainer, NextRank
  <1>2. /\ Trainers' = Trainers /\ Epoch' = Epoch /\ W' = W /\ test' = test /\ KindsInv'
        /\ num_trainers' = num_trainers /\ ddp_mode' = ddp_mode
    BY <1>1, SameSizes DEF TrainingInv
  <1>3. /\ num_trainers \in Nat \ {0} /\ Trainers = 1 .. num_trainers /\ Trainers \subseteq AllTrainers
        /\ 0 \in Epoch /\ \A e \in Epoch : e \in Nat
    BY Sizes DEF TrainingInv
  <1>4. /\ rank \in Trainers /\ epoch = 0
        /\ \A t \in Trainers : t >= rank => trainer[t] = "none"
    BY <1>1 DEF TrainingInv, MasterInv
  <1>5. trainer \in [AllTrainers -> {"none", "begin", "group", "em", "net", "wrap", "ready"}]
    BY DEF TrainingInv, TrainingTypeOK
  <1>6. rank' \in Trainers /\ rank \in Nat /\ trainer[rank] = "none"
    BY <1>1, <1>3, <1>4
  <1>7. /\ trainer'[rank] = "begin" /\ \A t \in Trainers : t # rank => trainer'[t] = trainer[t]
    BY <1>1, <1>3, <1>4, <1>5
  <1>8. TrainingTypeOK'
    <2>1. trainer' \in [AllTrainers -> {"none", "begin", "group", "em", "net", "wrap", "ready"}]
      BY <1>1, <1>5
    <2>2. rank' \in AllTrainers /\ AllTrainers' = AllTrainers
      BY <1>3, <1>6 DEF AllTrainers
    <2> QED
      BY <1>1, <1>2, <2>1, <2>2 DEF TrainingInv, TrainingTypeOK
  <1>9. MasterInv'
    <2>1. master' \in {"trainers", "call"} /\ epoch' = 0
      BY <1>1, <1>4
    <2>2. master' = "trainers" => \A t \in Trainers : t >= rank' => t # rank /\ t >= rank
      BY <1>1, <1>3, <1>6
    <2>3. master' = "trainers" => \A t \in Trainers : t >= rank' => trainer'[t] = "none"
      BY <1>4, <1>7, <2>2
    <2> QED
      BY <1>2, <1>3, <1>6, <2>1, <2>3 DEF MasterInv
  <1>10. CallsInv'
    <2> SUFFICES ASSUME NEW t \in Trainers, NEW e \in Epoch
                 PROVE  (call[<<t, e>>] # "none" => Made(t, e)') /\ ~Awaited(t, e)'
      BY <1>1, <1>2 DEF CallsInv
    <2>1. ~Made(t, e)
      BY <1>1, <1>3, <1>4 DEF Made
    <2>2. ~Awaited(t, e)'
      BY <1>1, <1>3, <1>4 DEF Awaited
    <2> QED
      BY <2>1, <2>2 DEF TrainingInv, CallsInv
  <1>11. \A t \in Trainers : EnteredOK(t)' /\ LocalOK(t)'
    <2> SUFFICES ASSUME NEW t \in Trainers PROVE EnteredOK(t)' /\ LocalOK(t)'
      OBVIOUS
    <2>1. EnteredOK(t) /\ LocalOK(t)
      BY DEF TrainingInv
    <2>2. EnteredOK(t)'
      BY <1>1, <1>2, <1>6, <1>7, <2>1 DEF EnteredOK
    <2>3. LocalOK(t)'
      BY <1>1, <1>2, <2>1 DEF LocalOK
    <2> QED
      BY <2>2, <2>3
  <1>12. \A t \in Trainers, e \in Epoch : CallOK(t, e)' /\ LevelOK(t, e)'
    <2> SUFFICES ASSUME NEW t \in Trainers, NEW e \in Epoch PROVE CallOK(t, e)' /\ LevelOK(t, e)'
      OBVIOUS
    <2>1. CallOK(t, e) /\ LevelOK(t, e)
      BY DEF TrainingInv
    <2>2. CallOK(t, e)'
      BY <1>1, <1>2, <1>6, <1>7, <2>1 DEF CallOK
    <2>3. LevelOK(t, e)'
      BY <1>1, <1>2, <2>1 DEF LevelOK
    <2> QED
      BY <2>2, <2>3
  <1> QED
    BY <1>2, <1>8, <1>9, <1>10, <1>11, <1>12 DEF TrainingInv

LEMMA CallHolds == ASSUME TrainingInv, Call PROVE TrainingInv'
  <1>1. /\ master = "call" /\ call' = [call EXCEPT ![<<rank, epoch>>] = "sent"]
        /\ \/ rank < num_trainers /\ rank' = rank + 1 /\ master' = master /\ epoch' = epoch
           \/ ~(rank < num_trainers) /\ rank' = 1 /\ master' = "wait" /\ epoch' = epoch
        /\ UNCHANGED <<kinds, constructed, trainer, entered, local_params, remote_params>>
    BY DEF Call, NextRank
  <1>2. /\ Trainers' = Trainers /\ Epoch' = Epoch /\ W' = W /\ test' = test /\ KindsInv'
        /\ num_trainers' = num_trainers /\ ddp_mode' = ddp_mode
    BY <1>1, SameSizes DEF TrainingInv
  <1>3. /\ num_trainers \in Nat \ {0} /\ Trainers = 1 .. num_trainers /\ Trainers \subseteq AllTrainers
        /\ \A e \in Epoch : e \in 0 .. NumEpochs - 1 /\ e \in Nat
    BY Sizes DEF TrainingInv
  <1>4. rank \in Trainers /\ epoch \in Epoch /\ rank' \in Trainers /\ rank \in Nat /\ epoch \in Nat
    <2>1. rank \in Trainers /\ epoch \in Epoch
      BY <1>1 DEF TrainingInv, MasterInv
    <2> QED
      BY <1>1, <1>3, <2>1
  <1>5. /\ call \in [AllCalls -> {"none", "sent", "em", "net", "reduce", "step", "answered"}]
        /\ \A t \in Trainers, e \in Epoch : <<t, e>> \in AllCalls
    BY <1>3 DEF TrainingInv, TrainingTypeOK, AllCalls
  <1>6. call[<<rank, epoch>>] = "none"
    <2>1. ~Made(rank, epoch)
      BY <1>1, <1>4 DEF Made
    <2> QED
      BY <1>4, <2>1 DEF TrainingInv, CallsInv
  <1>7. \A t \in Trainers, e \in Epoch :
           call'[<<t, e>>] = IF t = rank /\ e = epoch THEN "sent" ELSE call[<<t, e>>]
    BY <1>1, <1>4, <1>5
  <1>8. TrainingTypeOK'
    <2>1. call' \in [AllCalls -> {"none", "sent", "em", "net", "reduce", "step", "answered"}]
      BY <1>1, <1>5
    <2>2. rank' \in AllTrainers /\ AllTrainers' = AllTrainers /\ AllCalls' = AllCalls
      BY <1>3, <1>4 DEF AllTrainers, AllCalls
    <2> QED
      BY <1>1, <1>2, <2>1, <2>2 DEF TrainingInv, TrainingTypeOK
  <1>9. MasterInv'
    <2>1. master' \in {"wait", "call"} /\ epoch' = epoch
      BY <1>1
    <2> QED
      BY <1>2, <1>4, <2>1 DEF MasterInv
  <1>10. CallsInv'
    <2> SUFFICES ASSUME NEW t \in Trainers, NEW e \in Epoch
                 PROVE  (call'[<<t, e>>] # "none" => Made(t, e)') /\ (Awaited(t, e)' => call'[<<t, e>>] = "answered")
      BY <1>2 DEF CallsInv
    <2>1. t \in Nat /\ e \in Nat /\ t <= num_trainers /\ t >= 1
      BY <1>3
    <2>2. Made(t, e) \/ (t = rank /\ e = epoch) => Made(t, e)'
      BY <1>1, <1>3, <1>4, <2>1 DEF Made
    <2>3. Awaited(t, e)' => Awaited(t, e) /\ e # epoch
      BY <1>1, <1>4, <2>1 DEF Awaited
    <2>4. /\ call[<<t, e>>] # "none" => Made(t, e)
          /\ Awaited(t, e) => call[<<t, e>>] = "answered"
      BY DEF TrainingInv, CallsInv
    <2> QED
      BY <1>7, <2>2, <2>3, <2>4
  <1>11. \A t \in Trainers : EnteredOK(t)' /\ LocalOK(t)'
    <2> SUFFICES ASSUME NEW t \in Trainers PROVE EnteredOK(t)' /\ LocalOK(t)'
      OBVIOUS
    <2>1. EnteredOK(t) /\ LocalOK(t)
      BY DEF TrainingInv
    <2>2. EnteredOK(t)'
      BY <1>1, <1>2, <2>1 DEF EnteredOK
    <2>3. /\ \A e \in Epoch : call[<<t, e>>] \in {"step", "answered"} => call'[<<t, e>>] \in {"step", "answered"}
          /\ \A e \in Epoch : call'[<<t, e>>] = "answered" => call[<<t, e>>] = "answered"
      BY <1>6, <1>7
    <2>4. LocalOK(t)'
      BY <1>1, <1>2, <2>1, <2>3 DEF LocalOK
    <2> QED
      BY <2>2, <2>4
  <1>12. \A t \in Trainers, e \in Epoch : CallOK(t, e)' /\ LevelOK(t, e)'
    <2> SUFFICES ASSUME NEW t \in Trainers, NEW e \in Epoch PROVE CallOK(t, e)' /\ LevelOK(t, e)'
      OBVIOUS
    <2>1. CallOK(t, e) /\ LevelOK(t, e)
      BY DEF TrainingInv
    <2>2. CallOK(t, e)'
      BY <1>1, <1>2, <1>6, <1>7, <2>1 DEF CallOK
    <2>3. LevelOK(t, e)'
      BY <1>1, <1>2, <1>6, <1>7, <2>1 DEF LevelOK
    <2> QED
      BY <2>2, <2>3
  <1> QED
    BY <1>2, <1>8, <1>9, <1>10, <1>11, <1>12 DEF TrainingInv

LEMMA FutureWaitHolds == ASSUME TrainingInv, FutureWait PROVE TrainingInv'
  <1>1. /\ master = "wait" /\ call[<<rank, epoch>>] = "answered"
        /\ UNCHANGED <<kinds, constructed, trainer, call, entered, local_params, remote_params>>
    BY DEF FutureWait
  <1>2. rank \in Trainers /\ epoch \in Epoch /\ KindsInv
    BY <1>1 DEF TrainingInv, MasterInv
  <1>3. ~(test = "dlrm" /\ ~AssertionsHold(rank))
    BY <1>2, TheGradientsCancel
  <1>4. \/ rank < num_trainers /\ rank' = rank + 1 /\ master' = master /\ epoch' = epoch
        \/ /\ ~(rank < num_trainers) /\ rank' = 1 /\ epoch' = epoch + 1
           /\ master' = IF epoch + 1 \in Epoch THEN "call" ELSE "done"
    BY <1>3 DEF FutureWait, NextRank
  <1>5. /\ Trainers' = Trainers /\ Epoch' = Epoch /\ num_trainers' = num_trainers /\ KindsInv'
    BY <1>1, <1>2, SameSizes
  <1>6. /\ num_trainers \in Nat \ {0} /\ Trainers = 1 .. num_trainers /\ Trainers \subseteq AllTrainers
        /\ NumEpochs \in Nat /\ \A e \in Epoch : e \in 0 .. NumEpochs - 1 /\ e \in Nat
    BY <1>2, Sizes
  <1>7. rank \in Nat /\ epoch \in Nat /\ rank' \in Trainers /\ epoch' \in 0 .. NumEpochs
    BY <1>2, <1>4, <1>6
  <1>8. TrainingTypeOK'
    <2>1. rank' \in AllTrainers /\ AllTrainers' = AllTrainers /\ master' \in {"wait", "call", "done"}
      BY <1>1, <1>4, <1>6, <1>7 DEF AllTrainers
    <2> QED
      BY <1>1, <1>7, <2>1 DEF TrainingInv, TrainingTypeOK, kinds
  <1>9. MasterInv'
    <2>1. master' \in {"wait", "call", "done"} /\ (master' \in {"call", "wait"} => epoch' \in Epoch)
      BY <1>1, <1>2, <1>4
    <2>2. epoch' \in Nat /\ rank' \in Trainers'
      BY <1>5, <1>6, <1>7
    <2> QED
      BY <1>5, <2>1, <2>2 DEF MasterInv
  <1>10. CallsInv'
    <2> SUFFICES ASSUME NEW t \in Trainers, NEW e \in Epoch
                 PROVE  (call[<<t, e>>] # "none" => Made(t, e)') /\ (Awaited(t, e)' => call[<<t, e>>] = "answered")
      BY <1>1, <1>5 DEF CallsInv
    <2>1. t \in Nat /\ e \in Nat /\ t <= num_trainers /\ t >= 1
      BY <1>6
    <2>2. Made(t, e) => Made(t, e)'
      BY <1>1, <1>4, <1>7, <2>1 DEF Made
    <2>3. Awaited(t, e)' => Awaited(t, e) \/ (t = rank /\ e = epoch)
      BY <1>1, <1>4, <1>6, <1>7, <2>1 DEF Awaited
    <2>4. /\ call[<<t, e>>] # "none" => Made(t, e)
          /\ Awaited(t, e) => call[<<t, e>>] = "answered"
      BY DEF TrainingInv, CallsInv
    <2> QED
      BY <1>1, <2>2, <2>3, <2>4
  <1> QED
    BY <1>1, <1>8, <1>9, <1>10, MasterMoves

-----------------------------------------------------------------------------
(***************************************************************************)
(* The constructors.                                                       *)
(***************************************************************************)
TrainerStates == {"none", "begin", "group", "em", "net", "wrap", "ready"}

LEMMA ConstructorMoves ==
    ASSUME TrainingInv, NEW t \in Trainers, trainer[t] \notin {"none", "ready"},
           UNCHANGED <<kinds, master, rank, epoch, constructed, call, local_params, remote_params>>,
           trainer' \in [AllTrainers -> TrainerStates], entered' \in [AllTrainers -> Nat],
           \A u \in Trainers : u # t => trainer'[u] = trainer[u] /\ entered'[u] = entered[u],
           W # 0 => entered'[t] <= W + 1, EnteredOK(t)'
    PROVE  TrainingInv'
  <1>1. /\ Trainers' = Trainers /\ Epoch' = Epoch /\ W' = W /\ test' = test /\ KindsInv'
        /\ num_trainers' = num_trainers /\ ddp_mode' = ddp_mode
    BY SameSizes DEF TrainingInv
  <1>2. Trainers \subseteq AllTrainers /\ W \in {0, 1, 2} /\ \A e \in Epoch : e \in Nat
    BY Sizes DEF TrainingInv
  <1>3. TrainingTypeOK'
    BY <1>1 DEF TrainingInv, TrainingTypeOK, TrainerStates, AllTrainers, AllCalls, Gradient
  <1>4. MasterInv' /\ CallsInv'
    BY <1>1 DEF TrainingInv, MasterInv, CallsInv, Made, Awaited
  <1>5. \A u \in Trainers : EnteredOK(u)' /\ LocalOK(u)'
    <2> SUFFICES ASSUME NEW u \in Trainers PROVE EnteredOK(u)' /\ LocalOK(u)'
      OBVIOUS
    <2>1. EnteredOK(u) /\ LocalOK(u)
      BY DEF TrainingInv
    <2>2. LocalOK(u)'
      BY <1>1, <2>1 DEF LocalOK
    <2>3. CASE u = t
      BY <2>2, <2>3
    <2>4. CASE u # t
      BY <1>1, <2>1, <2>2, <2>4 DEF EnteredOK
    <2> QED
      BY <2>3, <2>4
  <1>6. \A u \in Trainers, e \in Epoch : CallOK(u, e)' /\ LevelOK(u, e)'
    <2> SUFFICES ASSUME NEW u \in Trainers, NEW e \in Epoch PROVE CallOK(u, e)' /\ LevelOK(u, e)'
      OBVIOUS
    <2>1. CallOK(u, e) /\ LevelOK(u, e)
      BY DEF TrainingInv
    <2>2. CASE u = t
      <3>1. call[<<u, e>>] \in {"none", "sent"}
        BY <2>1, <2>2 DEF CallOK
      <3>2. entered'[t] \in Nat /\ W * e >= 0 /\ W * e \in Nat
        BY <1>2
      <3>3. W # 0 => entered'[t] <= W + 1 + W * e
        BY <1>2, <3>2
      <3> QED
        BY <1>1, <2>1, <2>2, <3>1, <3>3 DEF CallOK, LevelOK
    <2>3. CASE u # t
      BY <1>1, <2>1, <2>3 DEF CallOK, LevelOK
    <2> QED
      BY <2>2, <2>3
  <1> QED
    BY <1>1, <1>3, <1>4, <1>5, <1>6 DEF TrainingInv

LEMMA ConstructorHolds ==
    ASSUME TrainingInv, NEW t \in Trainers, Constructor(t) PROVE TrainingInv'
  <1> DEFINE Becomes(s) == trainer' = [trainer EXCEPT ![t] = s]
             Same == UNCHANGED <<kinds, master, rank, epoch, constructed, call, local_params, remote_params>>
  <1>1. /\ trainer \in [AllTrainers -> TrainerStates] /\ entered \in [AllTrainers -> Nat]
        /\ t \in AllTrainers /\ Trainers \subseteq AllTrainers /\ W \in {0, 1, 2} /\ EnteredOK(t)
    BY Sizes DEF TrainingInv, TrainingTypeOK, TrainerStates
  <1>2. Same /\ trainer[t] \notin {"none", "ready"}
    BY DEF Constructor, Begin, NewGroup, GetParameters, Wrap
  <1>3. W' = W
    BY <1>2, SameSizes
  <1>4. /\ trainer' \in [AllTrainers -> TrainerStates] /\ entered' \in [AllTrainers -> Nat]
        /\ \A u \in Trainers : u # t => trainer'[u] = trainer[u] /\ entered'[u] = entered[u]
        /\ (W # 0 => entered'[t] <= W + 1) /\ EnteredOK(t)'
    <2>1. \/ /\ trainer[t] = "begin" /\ W = 0 /\ Becomes("ready") /\ UNCHANGED entered
          \/ /\ trainer[t] = "begin" /\ Becomes("group") /\ Enter(t)
          \/ /\ trainer[t] \in {"group", "net"} /\ W = 0 /\ Becomes("ready") /\ UNCHANGED entered
          \/ /\ trainer[t] \in {"group", "net"} /\ W # 0 /\ Becomes("wrap") /\ Enter(t)
          \/ /\ trainer[t] = "group" /\ Becomes("em") /\ UNCHANGED entered
          \/ /\ trainer[t] = "em" /\ Becomes("net") /\ UNCHANGED entered
          \/ /\ trainer[t] = "wrap" /\ entered[t] - 1 < W /\ UNCHANGED trainer /\ Enter(t)
          \/ /\ trainer[t] = "wrap" /\ ~(entered[t] - 1 < W) /\ Becomes("ready") /\ UNCHANGED entered
      BY DEF Constructor, Begin, NewGroup, GetParameters, Wrap, WrapNets, W
    <2>2. /\ trainer' \in [AllTrainers -> TrainerStates] /\ entered' \in [AllTrainers -> Nat]
          /\ \A u \in Trainers : u # t => trainer'[u] = trainer[u] /\ entered'[u] = entered[u]
      BY <1>1, <2>1 DEF Enter, TrainerStates
    <2>3. \/ /\ trainer[t] = "begin" /\ W = 0 /\ trainer'[t] = "ready" /\ entered'[t] = entered[t]
          \/ /\ trainer[t] = "begin" /\ trainer'[t] = "group" /\ entered'[t] = entered[t] + 1
          \/ /\ trainer[t] \in {"group", "net"} /\ W = 0 /\ trainer'[t] = "ready" /\ entered'[t] = entered[t]
          \/ /\ trainer[t] \in {"group", "net"} /\ W # 0 /\ trainer'[t] = "wrap" /\ entered'[t] = entered[t] + 1
          \/ /\ trainer[t] = "group" /\ trainer'[t] = "em" /\ entered'[t] = entered[t]
          \/ /\ trainer[t] = "em" /\ trainer'[t] = "net" /\ entered'[t] = entered[t]
          \/ /\ trainer[t] = "wrap" /\ entered[t] - 1 < W /\ trainer'[t] = "wrap" /\ entered'[t] = entered[t] + 1
          \/ /\ trainer[t] = "wrap" /\ ~(entered[t] - 1 < W) /\ trainer'[t] = "ready" /\ entered'[t] = entered[t]
      BY <1>1, <2>1 DEF Enter
    <2>4. (W # 0 => entered'[t] <= W + 1) /\ EnteredOK(t)'
      BY <1>1, <1>3, <2>3 DEF EnteredOK
    <2> QED
      BY <2>2, <2>4
  <1> QED
    BY <1>2, <1>4, ConstructorMoves

-----------------------------------------------------------------------------
(***************************************************************************)
(* The calls.                                                              *)
(***************************************************************************)
CallStates == {"none", "sent", "em", "net", "reduce", "step", "answered"}

\* Nobody starts an epoch before all have answered in the epochs before it.
LEMMA EarlierAreAnswered ==
    ASSUME TrainingInv, NEW t \in Trainers, NEW e \in Epoch, call[<<t, e>>] # "none",
           NEW u \in Trainers, NEW d \in 0 .. e - 1
    PROVE  d \in Epoch /\ call[<<u, d>>] = "answered"
  <1>1. d \in Epoch /\ e \in Nat /\ d \in Nat /\ d < e /\ epoch \in Nat
    BY Sizes DEF TrainingInv, MasterInv
  <1>2. Made(t, e)
    BY DEF TrainingInv, CallsInv
  <1>3. Awaited(u, d)
    BY <1>1, <1>2 DEF Made, Awaited
  <1> QED
    BY <1>1, <1>3 DEF TrainingInv, CallsInv

LEMMA LaterAreNotMade ==
    ASSUME TrainingInv, NEW t \in Trainers, NEW e \in Epoch, call[<<t, e>>] # "answered",
           NEW u \in Trainers, NEW d \in Epoch, d > e
    PROVE  call[<<u, d>>] = "none"
  <1>1. e \in 0 .. d - 1
    BY Sizes DEF TrainingInv
  <1> QED
    BY <1>1, EarlierAreAnswered

LEMMA Levels ==
    ASSUME NEW w \in {1, 2}, NEW d \in Nat, NEW e \in Nat
    PROVE  /\ w * d \in Nat /\ w * e \in Nat /\ w * (e + 1) = w * e + w /\ w * (d + 1) = w * d + w
           /\ d < e => w * (d + 1) <= w * e
           /\ (w * d = w * e) => d = e
           /\ w * 0 = 0
  <1>1. CASE w = 1
    BY <1>1
  <1>2. CASE w = 2
    BY <1>2
  <1> QED
    BY <1>1, <1>2

\* Before its backward pass a trainer has entered what the constructor and the earlier
\* epochs ask for, and nothing else.
LEMMA LevelBeforeBackward ==
    ASSUME TrainingInv, NEW t \in Trainers, NEW e \in Epoch, W # 0, test # "forward",
           call[<<t, e>>] \in {"sent", "em", "net"}, trainer[t] = "ready"
    PROVE  entered[t] = W + 1 + W * e
  <1>1. e \in Nat /\ W \in {1, 2} /\ entered[t] \in Nat /\ W * e \in Nat
    BY Sizes DEF TrainingInv, EnteredOK
  <1>2. entered[t] <= W + 1 + W * e
    BY DEF TrainingInv, LevelOK
  <1>3. CASE e = 0
    <2>1. entered[t] >= W + 1 /\ W * e = 0
      BY <1>1, <1>3 DEF TrainingInv, EnteredOK
    <2> QED
      BY <1>1, <1>2, <2>1
  <1>4. CASE e # 0
    <2>1. e - 1 \in Nat /\ e - 1 \in 0 .. e - 1 /\ (e - 1) + 1 = e
      BY <1>1, <1>4
    <2>2. e - 1 \in Epoch /\ call[<<t, e - 1>>] = "answered"
      BY <2>1, EarlierAreAnswered
    <2>3. entered[t] >= W + 1 + W * ((e - 1) + 1)
      BY <2>2 DEF TrainingInv, LevelOK
    <2> QED
      BY <1>1, <1>2, <2>1, <2>3
  <1> QED
    BY <1>3, <1>4

LEMMA CallMoves ==
    ASSUME TrainingInv, NEW t \in Trainers, NEW e \in Epoch,
           trainer[t] = "ready", call[<<t, e>>] \notin {"none", "answered"},
           UNCHANGED <<kinds, master, rank, epoch, constructed, trainer, local_params, remote_params>>,
           call' \in [AllCalls -> CallStates], call'[<<t, e>>] # "none",
           \A u \in Trainers, d \in Epoch : ~(u = t /\ d = e) => call'[<<u, d>>] = call[<<u, d>>],
           entered' \in [AllTrainers -> Nat], \A u \in Trainers : u # t => entered'[u] = entered[u],
           entered'[t] >= entered[t],
           entered'[t] = entered[t] \/ (W # 0 /\ test # "forward" => entered'[t] <= W + 1 + W * (e + 1)),
           CallOK(t, e)', LevelOK(t, e)',
           call[<<t, e>>] = "step" => call'[<<t, e>>] \in {"step", "answered"},
           W # 0 /\ test = "batch" /\ call'[<<t, e>>] = "answered" => Trainers \X {e} \subseteq local_params[t]
    PROVE  TrainingInv'
  <1>1. /\ Trainers' = Trainers /\ Epoch' = Epoch /\ W' = W /\ test' = test /\ KindsInv'
        /\ num_trainers' = num_trainers /\ ddp_mode' = ddp_mode
    BY SameSizes DEF TrainingInv
  <1>2. /\ Trainers \subseteq AllTrainers /\ W \in {0, 1, 2} /\ \A d \in Epoch : d \in Nat
        /\ entered \in [AllTrainers -> Nat]
    BY Sizes DEF TrainingInv, TrainingTypeOK
  <1>3. TrainingTypeOK'
    BY <1>1 DEF TrainingInv, TrainingTypeOK, CallStates, AllTrainers, AllCalls, Gradient
  <1>4. MasterInv'
    BY <1>1 DEF TrainingInv, MasterInv
  <1>5. CallsInv'
    <2> SUFFICES ASSUME NEW u \in Trainers, NEW d \in Epoch
                 PROVE  /\ (call'[<<u, d>>] # "none" => Made(u, d))
                        /\ (Awaited(u, d) => call'[<<u, d>>] = "answered")
      BY <1>1 DEF CallsInv, Made, Awaited
    <2>1. /\ call[<<u, d>>] # "none" => Made(u, d)
          /\ Awaited(u, d) => call[<<u, d>>] = "answered"
      BY DEF TrainingInv, CallsInv
    <2>2. CASE u = t /\ d = e
      BY <2>1, <2>2
    <2>3. CASE ~(u = t /\ d = e)
      BY <2>1, <2>3
    <2> QED
      BY <2>2, <2>3
  <1>6. \A u \in Trainers : EnteredOK(u)' /\ LocalOK(u)'
    <2> SUFFICES ASSUME NEW u \in Trainers PROVE EnteredOK(u)' /\ LocalOK(u)'
      OBVIOUS
    <2>1. EnteredOK(u) /\ LocalOK(u)
      BY DEF TrainingInv
    <2>2. EnteredOK(u)'
      BY <1>1, <1>2, <2>1 DEF EnteredOK
    <2>3. \A d \in Epoch : call[<<u, d>>] \in {"step", "answered"} => call'[<<u, d>>] \in {"step", "answered"}
      OBVIOUS
    <2>4. \A d \in Epoch : W # 0 /\ test = "batch" /\ call'[<<u, d>>] = "answered" =>
            Trainers \X {d} \subseteq local_params[u]
      <3> SUFFICES ASSUME NEW d \in Epoch, W # 0, test = "batch", call'[<<u, d>>] = "answered"
                   PROVE  Trainers \X {d} \subseteq local_params[u]
        OBVIOUS
      <3>1. CASE u = t /\ d = e
        BY <3>1
      <3>2. CASE ~(u = t /\ d = e)
        BY <2>1, <3>2 DEF LocalOK
      <3> QED
        BY <3>1, <3>2
    <2>5. LocalOK(u)'
      <3> SUFFICES ASSUME W # 0
                   PROVE  /\ \A g \in local_params[u] : \E d \in Epoch :
                               /\ g \in Trainers \X {d} /\ Trainers \X {d} \subseteq local_params[u]
                               /\ call'[<<u, d>>] \in {"step", "answered"}
                          /\ test # "batch" => local_params[u] = {}
        BY <1>1, <2>4 DEF LocalOK
      <3> QED
        BY <2>1, <2>3 DEF LocalOK
    <2> QED
      BY <2>2, <2>5
  <1>7. \A u \in Trainers, d \in Epoch : CallOK(u, d)' /\ LevelOK(u, d)'
    <2> SUFFICES ASSUME NEW u \in Trainers, NEW d \in Epoch PROVE CallOK(u, d)' /\ LevelOK(u, d)'
      OBVIOUS
    <2>1. CallOK(u, d) /\ LevelOK(u, d)
      BY DEF TrainingInv
    <2>2. CASE u # t
      BY <1>1, <2>1, <2>2 DEF CallOK, LevelOK
    <2>3. CASE u = t /\ d = e
      BY <2>3
    <2>4. CASE u = t /\ d # e
      <3>1. call'[<<t, d>>] = call[<<t, d>>] /\ d \in Nat /\ e \in Nat /\ (d < e \/ d > e)
        BY <1>2, <2>4
      <3>2. CallOK(t, d)'
        BY <1>1, <2>1, <2>4, <3>1 DEF CallOK
      <3>3. LevelOK(t, d)'
        <4> SUFFICES ASSUME W # 0, test # "forward"
                     PROVE  LevelOK(t, d)'
          BY <1>1 DEF LevelOK
        <4>1. entered[t] \in Nat /\ entered'[t] \in Nat /\ W \in {1, 2}
          BY <1>2
        <4>2. W * d \in Nat /\ W * e \in Nat /\ W * (d + 1) \in Nat /\ W * (e + 1) \in Nat
          BY <3>1, <4>1
        <4>3. CASE d < e
          <5>0. d \in 0 .. e - 1
            BY <3>1, <4>3
          <5>1. call[<<t, d>>] = "answered"
            BY <5>0, EarlierAreAnswered
          <5>2. entered[t] >= W + 1 + W * (d + 1)
            BY <2>1, <2>4, <5>1 DEF LevelOK
          <5>3. entered'[t] >= W + 1 + W * (d + 1)
            BY <4>1, <4>2, <5>2
          <5> QED
            BY <1>1, <3>1, <5>1, <5>3 DEF LevelOK
        <4>4. CASE d > e
          <5>1. call[<<t, d>>] = "none"
            BY <4>4, LaterAreNotMade
          <5>2. entered[t] <= W + 1 + W * d
            BY <2>1, <2>4, <5>1 DEF LevelOK
          <5>3. W * (e + 1) <= W * d
            BY <3>1, <4>1, <4>4, Levels
          <5>4. entered'[t] <= W + 1 + W * d
            BY <4>1, <4>2, <5>2, <5>3
          <5> QED
            BY <1>1, <3>1, <5>1, <5>4 DEF LevelOK
        <4> QED
          BY <3>1, <4>3, <4>4
      <3> QED
        BY <2>4, <3>2, <3>3
    <2> QED
      BY <2>2, <2>3, <2>4
  <1> QED
    BY <1>1, <1>3, <1>4, <1>5, <1>6, <1>7 DEF TrainingInv

\* What the steps of a call other than the updates of the parameters have in common.
LEMMA CallFacts ==
    ASSUME TrainingInv, NEW t \in Trainers, NEW e \in Epoch
    PROVE  /\ t \in AllTrainers /\ Trainers \subseteq AllTrainers /\ <<t, e>> \in AllCalls
           /\ \A u \in Trainers, d \in Epoch : <<u, d>> \in AllCalls
           /\ call \in [AllCalls -> CallStates] /\ entered \in [AllTrainers -> Nat]
           /\ W \in {0, 1, 2} /\ e \in Nat /\ entered[t] \in Nat /\ W * e \in Nat
           /\ CallOK(t, e) /\ LevelOK(t, e) /\ EnteredOK(t) /\ LocalOK(t)
           /\ test \in {"forward", "batch", "dlrm"}
  <1>1. /\ t \in AllTrainers /\ Trainers \subseteq AllTrainers /\ e \in Nat /\ W \in {0, 1, 2}
        /\ \A d \in Epoch : d \in 0 .. NumEpochs - 1
    BY Sizes DEF TrainingInv
  <1>2. W * e \in Nat
    BY <1>1
  <1>3. call \in [AllCalls -> CallStates] /\ entered \in [AllTrainers -> Nat] /\ test \in {"forward", "batch", "dlrm"}
    BY DEF TrainingInv, TrainingTypeOK, CallStates
  <1> QED
    BY <1>1, <1>2, <1>3 DEF TrainingInv, AllCalls

LEMMA StepsOfACall ==
    ASSUME TrainingInv, NEW t \in Trainers, NEW e \in Epoch, NEW s \in CallStates \ {"none"},
           trainer[t] = "ready", call[<<t, e>>] \notin {"none", "answered"}, Goes(t, e, s),
           UNCHANGED <<kinds, master, rank, epoch, constructed, trainer, local_params, remote_params>>,
           \/ UNCHANGED entered
           \/ Enter(t) /\ (W # 0 /\ test # "forward" => entered[t] + 1 <= W + 1 + W * (e + 1)),
           test = "forward" => s \notin {"reduce", "step"},
           test = "dlrm" => s \in {"sent", "reduce", "answered"},
           s = "reduce" => W # 0,
           test = "batch" /\ s = "answered" => <<t, e>> \in remote_params,
           W # 0 /\ test # "forward" =>
             /\ s \in {"sent", "em", "net"} => entered'[t] <= W + 1 + W * e
             /\ s = "reduce" => W + 1 + W * e < entered'[t] /\ entered'[t] <= W + 1 + W * (e + 1)
             /\ s \in {"step", "answered"} => entered'[t] >= W + 1 + W * (e + 1),
           call[<<t, e>>] = "step" => s \in {"step", "answered"},
           W # 0 /\ test = "batch" /\ s = "answered" => Trainers \X {e} \subseteq local_params[t]
    PROVE  TrainingInv'
  <1>1. /\ W' = W /\ test' = test
    BY SameSizes
  <1>2. /\ t \in AllTrainers /\ Trainers \subseteq AllTrainers /\ <<t, e>> \in AllCalls
        /\ \A u \in Trainers, d \in Epoch : <<u, d>> \in AllCalls
        /\ call \in [AllCalls -> CallStates] /\ entered \in [AllTrainers -> Nat]
    BY CallFacts
  <1>3. /\ call' \in [AllCalls -> CallStates] /\ call'[<<t, e>>] = s
        /\ \A u \in Trainers, d \in Epoch : ~(u = t /\ d = e) => call'[<<u, d>>] = call[<<u, d>>]
    BY <1>2 DEF Goes
  <1>4. /\ entered' \in [AllTrainers -> Nat] /\ \A u \in Trainers : u # t => entered'[u] = entered[u]
        /\ entered'[t] = entered[t] \/ entered'[t] = entered[t] + 1
        /\ entered'[t] >= entered[t]
        /\ entered'[t] = entered[t] \/ (W # 0 /\ test # "forward" => entered'[t] <= W + 1 + W * (e + 1))
    BY <1>2 DEF Enter
  <1>5. CallOK(t, e)' /\ LevelOK(t, e)'
    BY <1>1, <1>3 DEF CallOK, LevelOK
  <1> QED
    BY <1>3, <1>4, <1>5, CallMoves

LEMMA BackwardHolds ==
    ASSUME TrainingInv, NEW t \in Trainers, NEW e \in Epoch, Backward(t, e),
           trainer[t] = "ready", call[<<t, e>>] \in {"sent", "em", "net"}, test # "forward",
           UNCHANGED <<kinds, master, rank, epoch, constructed, trainer, local_params, remote_params>>
    PROVE  TrainingInv'
  <1>1. /\ W \in {0, 1, 2} /\ e \in Nat /\ entered[t] \in Nat /\ W * e \in Nat /\ test \in {"forward", "batch", "dlrm"}
        /\ t \in AllTrainers /\ entered \in [AllTrainers -> Nat]
    BY CallFacts
  <1>2. CASE W = 0
    <2> DEFINE s == IF test = "dlrm" THEN "answered" ELSE "step"
    <2>1. Goes(t, e, s) /\ UNCHANGED entered
      BY <1>2 DEF Backward, W
    <2>2. s \in CallStates \ {"none"} /\ s # "reduce" /\ s \notin {"sent", "em", "net"}
      BY DEF CallStates
    <2>3. (test = "batch" => s = "step") /\ (test = "dlrm" => s = "answered")
      OBVIOUS
    <2> HIDE DEF s
    <2> QED
      BY <1>1, <1>2, <2>1, <2>2, <2>3, StepsOfACall
  <1>3. CASE W # 0
    <2>1. Goes(t, e, "reduce") /\ Enter(t)
      BY <1>3 DEF Backward, W
    <2>2. entered[t] = W + 1 + W * e
      BY <1>3, LevelBeforeBackward
    <2>3. W * (e + 1) = W * e + W
      BY <1>1, <1>3, Levels
    <2>4. entered'[t] = entered[t] + 1
      BY <1>1, <2>1 DEF Enter
    <2>5. W + 1 + W * e < entered'[t] /\ entered'[t] <= W + 1 + W * (e + 1) /\ entered[t] + 1 <= W + 1 + W * (e + 1)
      BY <1>1, <1>3, <2>2, <2>3, <2>4
    <2>6. "reduce" \in CallStates \ {"none"}
      BY DEF CallStates
    <2> QED
      BY <1>1, <1>3, <2>1, <2>5, <2>6, StepsOfACall
  <1> QED
    BY <1>2, <1>3

LEMMA CallMethodHolds ==
    ASSUME TrainingInv, NEW t \in Trainers, NEW e \in Epoch, CallMethod(t, e) PROVE TrainingInv'
  <1>1. /\ call[<<t, e>>] = "sent" /\ trainer[t] = "ready"
        /\ UNCHANGED <<kinds, master, rank, epoch, constructed, trainer, local_params, remote_params>>
    BY DEF CallMethod
  <1>2. CASE test = "dlrm"
    BY <1>1, <1>2, BackwardHolds DEF CallMethod
  <1>3. CASE test # "dlrm"
    <2>1. Goes(t, e, "em") /\ UNCHANGED entered
      BY <1>3 DEF CallMethod
    <2>2. W # 0 /\ test # "forward" => entered'[t] <= W + 1 + W * e
      BY <1>1, <2>1, CallFacts DEF LevelOK
    <2>3. "em" \in CallStates \ {"none"}
      BY DEF CallStates
    <2> QED
      BY <1>1, <1>3, <2>1, <2>2, <2>3, StepsOfACall
  <1> QED
    BY <1>2, <1>3

LEMMA ForwardHolds ==
    ASSUME TrainingInv, NEW t \in Trainers, NEW e \in Epoch, Forward(t, e) PROVE TrainingInv'
  <1>1. /\ call[<<t, e>>] \in {"em", "net"}
        /\ UNCHANGED <<kinds, master, rank, epoch, constructed, trainer, local_params, remote_params>>
    BY DEF Forward
  <1>2. trainer[t] = "ready" /\ test # "dlrm"
    BY <1>1, CallFacts DEF CallOK
  <1>3. CASE call[<<t, e>>] = "em" /\ Goes(t, e, "net") /\ UNCHANGED entered
    <2>1. W # 0 /\ test # "forward" => entered'[t] <= W + 1 + W * e
      BY <1>3, CallFacts DEF LevelOK
    <2>2. "net" \in CallStates \ {"none"}
      BY DEF CallStates
    <2> QED
      BY <1>1, <1>2, <1>3, <2>1, <2>2, StepsOfACall
  <1>4. CASE test = "forward" /\ Goes(t, e, "answered") /\ UNCHANGED entered
    <2>1. "answered" \in CallStates \ {"none"}
      BY DEF CallStates
    <2> QED
      BY <1>1, <1>2, <1>4, <2>1, StepsOfACall
  <1>5. CASE test = "batch" /\ Backward(t, e)
    BY <1>1, <1>2, <1>5, BackwardHolds
  <1> QED
    BY <1>3, <1>4, <1>5 DEF Forward

LEMMA ReduceHolds ==
    ASSUME TrainingInv, NEW t \in Trainers, NEW e \in Epoch, Reduce(t, e) PROVE TrainingInv'
  <1>1. /\ call[<<t, e>>] = "reduce"
        /\ UNCHANGED <<kinds, master, rank, epoch, constructed, trainer, local_params, remote_params>>
    BY DEF Reduce
  <1>2. /\ trainer[t] = "ready" /\ W \in {1, 2} /\ test \in {"batch", "dlrm"} /\ e \in Nat
        /\ entered[t] \in Nat /\ t \in AllTrainers /\ entered \in [AllTrainers -> Nat]
        /\ W + 1 + W * e < entered[t] /\ entered[t] <= W + 1 + W * (e + 1)
    BY <1>1, CallFacts DEF CallOK, LevelOK
  <1>3. /\ (entered[t] - 1) % W # 0 => entered[t] + 1 <= W + 1 + W * (e + 1)
        /\ (entered[t] - 1) % W = 0 => entered[t] >= W + 1 + W * (e + 1)
    <2>1. PICK n \in Nat : n = entered[t]
      BY <1>2
    <2>2. CASE W = 1
      <3>1. 1 + 1 + 1 * e < n /\ n <= 1 + 1 + 1 * (e + 1)
        BY <1>2, <2>1, <2>2
      <3>2. n = e + 3 /\ (n - 1) % 1 = 0
        BY <1>2, <3>1
      <3> QED
        BY <1>2, <2>1, <2>2, <3>2
    <2>3. CASE W = 2
      <3>1. 2 + 1 + 2 * e < n /\ n <= 2 + 1 + 2 * (e + 1)
        BY <1>2, <2>1, <2>3
      <3>2. n = 2 * e + 4 \/ n = 2 * e + 5
        BY <1>2, <3>1
      <3>3. (n - 1) % 2 = 0 => n = 2 * e + 5
        BY <1>2, <3>2
      <3>4. (n - 1) % 2 # 0 => n = 2 * e + 4
        BY <1>2, <3>2
      <3> QED
        BY <1>2, <2>1, <2>3, <3>3, <3>4
    <2> QED
      BY <1>2, <2>2, <2>3
  <1>4. CASE (entered[t] - 1) % W # 0
    <2>1. Enter(t) /\ UNCHANGED call
      BY <1>4 DEF Reduce, W
    <2>2. Goes(t, e, "reduce")
      BY <1>1, <2>1, CallFacts DEF Goes
    <2>3. entered'[t] = entered[t] + 1
      BY <1>2, <2>1 DEF Enter
    <2>4. W + 1 + W * e < entered'[t] /\ entered'[t] <= W + 1 + W * (e + 1)
      BY <1>2, <1>3, <1>4, <2>3
    <2>5. "reduce" \in CallStates \ {"none"}
      BY DEF CallStates
    <2> QED
      BY <1>1, <1>2, <1>3, <1>4, <2>1, <2>2, <2>4, <2>5, StepsOfACall
  <1>5. CASE (entered[t] - 1) % W = 0
    <2> DEFINE s == IF test = "dlrm" THEN "answered" ELSE "step"
    <2>1. Goes(t, e, s) /\ UNCHANGED entered
      BY <1>5 DEF Reduce, W
    <2>2. s \in CallStates \ {"none"} /\ s # "reduce" /\ s \notin {"sent", "em", "net"}
      BY DEF CallStates
    <2>3. (test = "batch" => s = "step") /\ (test = "dlrm" => s = "answered")
      OBVIOUS
    <2>4. entered'[t] >= W + 1 + W * (e + 1)
      BY <1>3, <1>5, <2>1
    <2> HIDE DEF s
    <2> QED
      BY <1>1, <1>2, <2>1, <2>2, <2>3, <2>4, StepsOfACall
  <1> QED
    BY <1>4, <1>5

\* A call that updates the parameters is one of the batches.
LEMMA StepsAreBatches ==
    ASSUME TrainingInv, NEW t \in Trainers, NEW e \in Epoch, call[<<t, e>>] = "step"
    PROVE  test = "batch" /\ trainer[t] = "ready"
  BY CallFacts DEF CallOK

LEMMA UpdateLocalHolds ==
    ASSUME TrainingInv, NEW t \in Trainers, NEW e \in Epoch, UpdateLocal(t, e) PROVE TrainingInv'
  <1>1. /\ call[<<t, e>>] = "step"
        /\ local_params' = [local_params EXCEPT ![t] = @ \union LocalGradients(t, e)]
        /\ UNCHANGED <<kinds, master, rank, epoch, constructed, trainer, call, entered, remote_params>>
    BY DEF UpdateLocal
  <1>2. /\ Trainers' = Trainers /\ Epoch' = Epoch /\ W' = W /\ test' = test /\ KindsInv' /\ test = "batch"
        /\ num_trainers' = num_trainers /\ ddp_mode' = ddp_mode
    BY <1>1, SameSizes, StepsAreBatches DEF TrainingInv
  <1>3. /\ t \in AllTrainers /\ Trainers \subseteq AllTrainers /\ <<t, e>> \in AllCalls
        /\ \A u \in Trainers, d \in Epoch : <<u, d>> \in AllCalls
    BY CallFacts
  <1>4. LocalGradients(t, e) \subseteq Gradient /\ (W # 0 => LocalGradients(t, e) = Trainers \X {e})
    BY <1>3 DEF LocalGradients, Gradient, W
  <1>5. local_params \in [AllTrainers -> SUBSET Gradient]
    BY DEF TrainingInv, TrainingTypeOK
  <1>6. /\ local_params' \in [AllTrainers -> SUBSET Gradient]
        /\ local_params'[t] = local_params[t] \union LocalGradients(t, e)
        /\ \A u \in Trainers : u # t => local_params'[u] = local_params[u]
    BY <1>1, <1>3, <1>4, <1>5
  <1>7. TrainingTypeOK'
    BY <1>1, <1>2, <1>6 DEF TrainingInv, TrainingTypeOK, AllTrainers, AllCalls, Gradient
  <1>8. MasterInv' /\ CallsInv'
    BY <1>1, <1>2 DEF TrainingInv, MasterInv, CallsInv, Made, Awaited
  <1>9. \A u \in Trainers : EnteredOK(u)' /\ LocalOK(u)'
    <2> SUFFICES ASSUME NEW u \in Trainers PROVE EnteredOK(u)' /\ LocalOK(u)'
      OBVIOUS
    <2>1. EnteredOK(u) /\ LocalOK(u)
      BY DEF TrainingInv
    <2>2. EnteredOK(u)'
      BY <1>1, <1>2, <2>1 DEF EnteredOK
    <2>3. CASE u # t
      BY <1>1, <1>2, <1>6, <2>1, <2>2, <2>3 DEF LocalOK
    <2>4. CASE u = t
      <3> SUFFICES ASSUME W # 0 PROVE LocalOK(t)'
        BY <1>2, <2>2, <2>4 DEF LocalOK
      <3>1. local_params'[t] = local_params[t] \union (Trainers \X {e})
        BY <1>4, <1>6
      <3>2. \A d \in Epoch : Trainers \X {d} \subseteq local_params[t] => Trainers \X {d} \subseteq local_params'[t]
        BY <3>1
      <3>3. \A g \in local_params'[t] : \E d \in Epoch :
              /\ g \in Trainers \X {d} /\ Trainers \X {d} \subseteq local_params'[t]
              /\ call[<<t, d>>] \in {"step", "answered"}
        <4> SUFFICES ASSUME NEW g \in local_params'[t]
                     PROVE  \E d \in Epoch :
                              /\ g \in Trainers \X {d} /\ Trainers \X {d} \subseteq local_params'[t]
                              /\ call[<<t, d>>] \in {"step", "answered"}
          OBVIOUS
        <4>1. CASE g \in Trainers \X {e}
          BY <1>1, <3>1, <4>1
        <4>2. CASE g \in local_params[t]
          BY <2>1, <2>4, <3>2, <4>2 DEF LocalOK
        <4> QED
          BY <3>1, <4>1, <4>2
      <3>4. \A d \in Epoch : test = "batch" /\ call[<<t, d>>] = "answered" => Trainers \X {d} \subseteq local_params'[t]
        BY <2>1, <2>4, <3>2 DEF LocalOK
      <3> QED
        BY <1>1, <1>2, <3>3, <3>4 DEF LocalOK
    <2> QED
      BY <2>3, <2>4, <2>2
  <1>10. \A u \in Trainers, d \in Epoch : CallOK(u, d)' /\ LevelOK(u, d)'
    BY <1>1, <1>2 DEF TrainingInv, CallOK, LevelOK
  <1> QED
    BY <1>2, <1>7, <1>8, <1>9, <1>10 DEF TrainingInv

LEMMA UpdateRemoteHolds ==
    ASSUME TrainingInv, NEW t \in Trainers, NEW e \in Epoch, UpdateRemote(t, e) PROVE TrainingInv'
  <1>1. /\ remote_params' = remote_params \union {<<t, e>>}
        /\ UNCHANGED <<kinds, master, rank, epoch, constructed, trainer, call, entered, local_params>>
    BY DEF UpdateRemote
  <1>2. /\ Trainers' = Trainers /\ Epoch' = Epoch /\ W' = W /\ test' = test /\ KindsInv'
        /\ num_trainers' = num_trainers /\ ddp_mode' = ddp_mode
    BY <1>1, SameSizes DEF TrainingInv
  <1>3. TrainingTypeOK'
    BY <1>1, <1>2, CallFacts DEF TrainingInv, TrainingTypeOK, AllTrainers, AllCalls, Gradient
  <1>4. MasterInv' /\ CallsInv'
    BY <1>1, <1>2 DEF TrainingInv, MasterInv, CallsInv, Made, Awaited
  <1>5. \A u \in Trainers : EnteredOK(u)' /\ LocalOK(u)'
    BY <1>1, <1>2 DEF TrainingInv, EnteredOK, LocalOK
  <1>6. \A u \in Trainers, d \in Epoch : CallOK(u, d)' /\ LevelOK(u, d)'
    BY <1>1, <1>2 DEF TrainingInv, CallOK, LevelOK
  <1> QED
    BY <1>2, <1>3, <1>4, <1>5, <1>6 DEF TrainingInv

LEMMA ReturnHolds ==
    ASSUME TrainingInv, NEW t \in Trainers, NEW e \in Epoch, Return(t, e) PROVE TrainingInv'
  <1>1. /\ call[<<t, e>>] = "step" /\ Goes(t, e, "answered") /\ UNCHANGED entered
        /\ LocalGradients(t, e) \subseteq local_params[t] /\ <<t, e>> \in remote_params
        /\ UNCHANGED <<kinds, master, rank, epoch, constructed, trainer, local_params, remote_params>>
    BY DEF Return
  <1>2. test = "batch" /\ trainer[t] = "ready"
    BY <1>1, StepsAreBatches
  <1>3. W # 0 => entered'[t] >= W + 1 + W * (e + 1)
    BY <1>1, <1>2, CallFacts DEF LevelOK
  <1>4. W # 0 => Trainers \X {e} \subseteq local_params[t]
    BY <1>1 DEF LocalGradients, W
  <1>5. "answered" \in CallStates \ {"none"}
    BY DEF CallStates
  <1> QED
    BY <1>1, <1>2, <1>3, <1>4, <1>5, StepsOfACall

LEMMA TrainingStepHolds == TrainingInv /\ [TrainingNext]_trainingVars => TrainingInv'
  <1> SUFFICES ASSUME TrainingInv, [TrainingNext]_trainingVars PROVE TrainingInv'
    OBVIOUS
  <1>1. CASE Master
    BY <1>1, CreateModuleHolds, CreateTrainerHolds, CallHolds, FutureWaitHolds DEF Master
  <1>2. CASE \E m \in {"em", "net"} : Construct(m)
    BY <1>2, ConstructHolds
  <1>3. CASE \E t \in Trainers : Constructor(t)
    BY <1>3, ConstructorHolds
  <1>4. CASE \E t \in Trainers, e \in Epoch : Work(t, e)
    BY <1>4, CallMethodHolds, ForwardHolds, ReduceHolds, UpdateLocalHolds, UpdateRemoteHolds, ReturnHolds
    DEF Work
  <1>5. CASE UNCHANGED trainingVars
    <2>1. UNCHANGED <<kinds, master, rank, epoch, constructed, trainer, call, entered, local_params, remote_params>>
      BY <1>5 DEF trainingVars, kinds
    <2>2. Trainers' = Trainers /\ Epoch' = Epoch /\ test' = test /\ ddp_mode' = ddp_mode /\ num_trainers' = num_trainers
      BY <2>1, SameSizes
    <2>3. TrainingTypeOK'
      BY <2>1, <2>2 DEF TrainingInv, TrainingTypeOK, AllTrainers, AllCalls, Gradient
    <2>4. MasterInv' /\ CallsInv'
      BY <2>1, <2>2 DEF TrainingInv, MasterInv, CallsInv, Made, Awaited
    <2> QED
      BY <2>1, <2>3, <2>4, MasterMoves
  <1> QED
    BY <1>1, <1>2, <1>3, <1>4, <1>5 DEF TrainingNext

-----------------------------------------------------------------------------
(***************************************************************************)
(* What the invariant says.                                                *)
(***************************************************************************)
LEMMA TheyAreInStep == ASSUME TrainingInv PROVE InStep
  <1> SUFFICES ASSUME NEW t \in Trainers, NEW e \in Epoch, call[<<t, e>>] # "none",
                      NEW u \in Trainers, NEW d \in 0 .. e - 1
               PROVE  call[<<u, d>>] = "answered" /\ (test = "batch" => <<u, d>> \in remote_params)
    BY DEF InStep, Started, Answered
  <1>1. d \in Epoch /\ call[<<u, d>>] = "answered"
    BY EarlierAreAnswered
  <1> QED
    BY <1>1, CallFacts DEF CallOK

LEMMA TheCollectivesMatch == ASSUME TrainingInv PROVE CollectivesMatch
  <1> SUFFICES ASSUME NEW t \in Trainers, NEW u \in Trainers, entered[t] = entered[u]
               PROVE  /\ trainer[t] \in {"group", "wrap"} /\ trainer[u] \in {"group", "wrap"} => trainer[t] = trainer[u]
                      /\ trainer[t] = "wrap" => Reducing(u) = {}
                      /\ Reducing(t) # {} /\ Reducing(u) # {} => Reducing(t) = Reducing(u)
    BY DEF CollectivesMatch
  <1>1. W \in {0, 1, 2} /\ EnteredOK(t) /\ EnteredOK(u) /\ entered[t] \in Nat
    BY Sizes DEF TrainingInv, EnteredOK
  <1>2. trainer[t] \in {"group", "wrap"} /\ trainer[u] \in {"group", "wrap"} => trainer[t] = trainer[u]
    BY <1>1 DEF EnteredOK
  <1>3. \A v \in {t, u} : \A e \in Reducing(v) :
          /\ e \in Nat /\ W \in {1, 2} /\ W * e \in Nat
          /\ W + 1 + W * e < entered[t] /\ entered[t] <= W + 1 + W * (e + 1)
    <2> SUFFICES ASSUME NEW v \in {t, u}, NEW e \in Reducing(v)
                 PROVE  /\ e \in Nat /\ W \in {1, 2} /\ W * e \in Nat
                        /\ W + 1 + W * e < entered[t] /\ entered[t] <= W + 1 + W * (e + 1)
      OBVIOUS
    <2>1. v \in Trainers /\ e \in Epoch /\ call[<<v, e>>] = "reduce" /\ entered[v] = entered[t]
      BY DEF Reducing
    <2> QED
      BY <1>1, <2>1, CallFacts DEF CallOK, LevelOK
  <1>4. trainer[t] = "wrap" => Reducing(u) = {}
    <2> SUFFICES ASSUME trainer[t] = "wrap", NEW e \in Reducing(u) PROVE FALSE
      OBVIOUS
    <2>1. entered[t] <= W + 1
      BY <1>1 DEF EnteredOK
    <2>2. W * e \in Nat /\ W + 1 + W * e < entered[t]
      BY <1>3
    <2> QED
      BY <1>1, <2>1, <2>2
  <1>5. \A e \in Reducing(t), d \in Reducing(u) : e = d
    <2> SUFFICES ASSUME NEW e \in Reducing(t), NEW d \in Reducing(u) PROVE e = d
      OBVIOUS
    <2>1. /\ e \in Nat /\ d \in Nat /\ W \in {1, 2} /\ W * e \in Nat /\ W * d \in Nat
          /\ W + 1 + W * e < entered[t] /\ entered[t] <= W + 1 + W * (e + 1)
          /\ W + 1 + W * d < entered[t] /\ entered[t] <= W + 1 + W * (d + 1)
      BY <1>3
    <2>2. /\ e < d => W * (e + 1) <= W * d
          /\ d < e => W * (d + 1) <= W * e
          /\ W * (e + 1) \in Nat /\ W * (d + 1) \in Nat
      BY <2>1, Levels
    <2> QED
      BY <1>1, <2>1, <2>2
  <1> QED
    BY <1>2, <1>4, <1>5

LEMMA TheReplicasAgree == ASSUME TrainingInv PROVE ReplicasAgree
  <1> SUFFICES ASSUME master \in {"call", "done"}, rank = 1, W # 0,
                      NEW t \in Trainers, NEW u \in Trainers, NEW g \in local_params[t]
               PROVE  g \in local_params[u]
    <2> SUFFICES ASSUME master \in {"call", "done"}, rank = 1, W # 0, NEW t \in Trainers, NEW u \in Trainers
                 PROVE  local_params[t] = local_params[u]
      BY DEF ReplicasAgree, W
    <2>1. local_params[t] \subseteq local_params[u] /\ local_params[u] \subseteq local_params[t]
      OBVIOUS
    <2> QED
      BY <2>1
  <1>1. LocalOK(t) /\ LocalOK(u) /\ test = "batch"
    BY DEF TrainingInv, LocalOK
  <1>2. PICK e \in Epoch : g \in Trainers \X {e} /\ call[<<t, e>>] \in {"step", "answered"}
    BY <1>1 DEF LocalOK
  <1>3. e < epoch
    <2>1. Made(t, e) /\ t \in Nat /\ t >= 1
      BY <1>2, Sizes DEF TrainingInv, CallsInv
    <2> QED
      BY <2>1 DEF Made
  <1>4. call[<<u, e>>] = "answered"
    BY <1>3 DEF TrainingInv, CallsInv, Awaited
  <1> QED
    BY <1>1, <1>2, <1>4 DEF LocalOK

LEMMA ExamplesOfEach ==
    ASSUME NEW n \in Nat \ {0}
    PROVE  8 \div n \in {0, 1, 2, 4, 8} /\ 8 % n \in Nat /\ n * (8 \div n) = 8 - (8 % n)
  <1>1. CASE n = 1
    BY <1>1
  <1>2. CASE n = 2
    BY <1>2
  <1>3. CASE n = 3
    BY <1>3
  <1>4. CASE n = 4
    BY <1>4
  <1>5. CASE n = 5
    BY <1>5
  <1>6. CASE n = 6
    BY <1>6
  <1>7. CASE n = 7
    BY <1>7
  <1>8. CASE n = 8
    BY <1>8
  <1>9. CASE n > 8
    <2>1. 8 \div n = 0 /\ 8 % n = 8
      BY <1>9
    <2> QED
      BY <2>1
  <1> QED
    BY <1>1, <1>2, <1>3, <1>4, <1>5, <1>6, <1>7, <1>8, <1>9

LEMMA TheSharesAreApart == ASSUME TrainingInv PROVE SharesAreApart
  <1> DEFINE k == 8 \div num_trainers
             n == num_trainers
             All == UNION {Share(t) : t \in Trainers}
  <1>1. /\ n \in Nat \ {0} /\ k \in {0, 1, 2, 4, 8} /\ 8 % n \in Nat /\ n * k = 8 - (8 % n)
        /\ Trainers = 1 .. n
    BY Sizes, ExamplesOfEach DEF TrainingInv
  <1>2. \A t \in Trainers : Share(t) = (t - 1) * k .. t * k - 1
    BY DEF Share, NumExamples
  <1> HIDE DEF k, n
  <1>3. \A t, u \in Trainers : t # u => Share(t) \intersect Share(u) = {}
    <2> SUFFICES ASSUME NEW t \in Trainers, NEW u \in Trainers, t < u
                 PROVE  \A x \in Share(t) : x \notin Share(u)
      BY <1>1
    <2>3. t * k <= (u - 1) * k /\ t * k \in Int /\ (u - 1) * k \in Int /\ (t - 1) * k \in Int /\ u * k \in Int
      BY <1>1
    <2>1. \A x \in Share(t) : x \in Int /\ x < t * k
      <3>1. \A x \in (t - 1) * k .. t * k - 1 : x \in Int /\ x < t * k
        BY <2>3
      <3> QED
        BY <1>2, <3>1
    <2>2. \A x \in Share(u) : x >= (u - 1) * k
      <3>1. \A x \in (u - 1) * k .. u * k - 1 : x >= (u - 1) * k
        BY <2>3
      <3> QED
        BY <1>2, <3>1
    <2> QED
      BY <2>1, <2>2, <2>3
  <1>4. All = 0 .. n * k - 1
    <2>1. \A t \in Trainers : Share(t) \subseteq 0 .. n * k - 1
      <3> SUFFICES ASSUME NEW t \in Trainers PROVE (t - 1) * k .. t * k - 1 \subseteq 0 .. n * k - 1
        BY <1>2
      <3>1. 0 <= (t - 1) * k /\ t * k <= n * k /\ t * k \in Int /\ n * k \in Int /\ (t - 1) * k \in Int
        BY <1>1
      <3> QED
        BY <3>1
    <2>2. \A x \in 0 .. n * k - 1 : \E t \in Trainers : x \in Share(t)
      <3> SUFFICES ASSUME NEW x \in 0 .. n * k - 1
                   PROVE  \E t \in 1 .. n : x \in (t - 1) * k .. t * k - 1
        BY <1>1, <1>2
      <3>1. k # 0
        BY <1>1
      <3>2. CASE k = 1
        <4>1. x + 1 \in 1 .. n /\ x \in (x + 1 - 1) * k .. (x + 1) * k - 1
          BY <1>1, <3>2
        <4> QED
          BY <4>1
      <3>3. CASE k = 2
        <4>1. (x \div 2) + 1 \in 1 .. n /\ x \in ((x \div 2) + 1 - 1) * k .. ((x \div 2) + 1) * k - 1
          BY <1>1, <3>3
        <4> QED
          BY <4>1
      <3>4. CASE k = 4
        <4>1. (x \div 4) + 1 \in 1 .. n /\ x \in ((x \div 4) + 1 - 1) * k .. ((x \div 4) + 1) * k - 1
          BY <1>1, <3>4
        <4> QED
          BY <4>1
      <3>5. CASE k = 8
        <4>1. (x \div 8) + 1 \in 1 .. n /\ x \in ((x \div 8) + 1 - 1) * k .. ((x \div 8) + 1) * k - 1
          BY <1>1, <3>5
        <4> QED
          BY <4>1
      <3> QED
        BY <1>1, <3>1, <3>2, <3>3, <3>4, <3>5
    <2> QED
      BY <2>1, <2>2
  <1>5. (0 .. 7) \ All = 8 - (8 % n) .. 7
    <2>1. PICK m \in Nat : m = n * k /\ m = 8 - (8 % n) /\ m <= 8
      BY <1>1
    <2>2. (0 .. 7) \ (0 .. m - 1) = m .. 7
      OBVIOUS
    <2>3. All = 0 .. m - 1
      BY <1>4, <2>1
    <2> QED
      BY <2>1, <2>2, <2>3
  <1>6. Cardinality(8 - (8 % n) .. 7) = 8 % n
    <2>1. 8 - (8 % n) \in Int /\ 7 \in Int /\ 8 % n \in Nat
      BY <1>1
    <2>2. Cardinality(8 - (8 % n) .. 7) =
            IF 8 - (8 % n) > 7 THEN 0 ELSE 7 - (8 - (8 % n)) + 1
      BY <2>1, FS_Interval
    <2> QED
      BY <2>1, <2>2
  <1>7. Cardinality((0 .. 7) \ All) = 8 % n
    BY <1>5, <1>6
  <1>8. NumExamples - 1 = 7
    BY DEF NumExamples
  <1> QED
    BY <1>3, <1>7, <1>8 DEF SharesAreApart, NumExamples, n

\* Trainers keep in step for every number of trainers and of epochs: no trainer starts an
\* epoch before all have ended the one before, collective operations match, replicas under
\* DDP agree between two epochs, the shares of the examples are disjoint, and the master's
\* assertions about the gradients never fail (TrainersInStep).
THEOREM TrainersKeepInStep == TrainingSpec => []TrainersInStep
  <1>1. TrainingInv => TrainersInStep
    BY TheyAreInStep, TheCollectivesMatch, TheReplicasAgree, TheSharesAreApart
    DEF TrainersInStep, TrainingInv, MasterInv
  <1> QED
    BY <1>1, TrainingInitHolds, TrainingStepHolds, PTL DEF TrainingSpec

\* The variables keep their types: nobody is ever in a state that the program does not have.
THEOREM TrainingTypeIsKept == TrainingSpec => []TrainingTypeOK
  <1>1. TrainingInv => TrainingTypeOK
    BY DEF TrainingInv
  <1> QED
    BY <1>1, TrainingInitHolds, TrainingStepHolds, PTL DEF TrainingSpec
=============================================================================
