---------------------------- MODULE RpcTraining ----------------------------
(***************************************************************************)
(* The tests of ai-ml/ddp_with_rpc.py and ai-ml/drlm_with_ddp.py: a master *)
(* constructs a Trainer on every trainer process by rpc.remote, which does *)
(* not wait, and calls a method of all of them in every epoch.  A call     *)
(* that arrives early waits in local_value for the constructor.  A Trainer *)
(* uses two modules that the master has put on the remote worker.          *)
(*                                                                         *)
(* DistributedDataParallel (DDP) is external: constructing it and the end  *)
(* of a backward pass through it are collective operations of the trainer  *)
(* group, which match in the order they are entered and return when all    *)
(* trainers have entered.  A gradient is who computed it and in which      *)
(* epoch; DDP makes it the average over all trainers.                      *)
(***************************************************************************)
EXTENDS Integers, FiniteSets

CONSTANTS
    TrainerCounts,      \* values of NUM_TRAINERS
    MaxTrainers,        \* bounds them
    NumEpochs

\* The second program has two trainers.
ASSUME TrainingAssumption ==
    /\ MaxTrainers \in Nat /\ MaxTrainers >= 2 /\ TrainerCounts \subseteq 1 .. MaxTrainers
    /\ NumEpochs \in Nat \ {0}

VARIABLES
    test,               \* the method the master calls: "forward", "batch" or "dlrm"
    ddp_mode,
    num_trainers,
    master,             \* what the master does
    rank,               \* the trainer its loop is at
    epoch,
    constructed,        \* the modules of the remote worker that are constructed
    trainer,            \* the constructor of each Trainer
    call,               \* the call of each trainer in each epoch
    entered,            \* the collective operations each trainer has entered
    local_params,       \* the gradients that went into the parameters of each trainer
    remote_params       \* and into those of the remote worker

trainingVars == <<test, ddp_mode, num_trainers, master, rank, epoch, constructed, trainer, call, entered,
          local_params, remote_params>>
kinds == <<test, ddp_mode, num_trainers>>

NumExamples == 8
Trainers == 1 .. num_trainers                   \* TRAINER_RANKS
AllTrainers == 1 .. MaxTrainers
Epoch == 0 .. (IF test = "dlrm" THEN 0 ELSE NumEpochs - 1)
AllCalls == AllTrainers \X (0 .. NumEpochs - 1)
Gradient == AllCalls

\* The nets of a Trainer that are wrapped into DDP one by one.
NumWraps == CASE ddp_mode = "none" -> 0 [] ddp_mode = "outside" -> 1 [] ddp_mode = "inside" -> 2

TrainingTypeOK ==
    /\ test \in {"forward", "batch", "dlrm"} /\ ddp_mode \in {"none", "outside", "inside"}
    /\ num_trainers \in TrainerCounts \union {2}
    /\ master \in {"em", "net", "trainers", "call", "wait", "done", "failed"}
    /\ rank \in AllTrainers /\ epoch \in 0 .. NumEpochs
    /\ constructed \subseteq {"em", "net"}
    /\ trainer \in [AllTrainers -> {"none", "begin", "group", "em", "net", "wrap", "ready"}]
    /\ call \in [AllCalls -> {"none", "sent", "em", "net", "reduce", "step", "answered"}]
    /\ entered \in [AllTrainers -> Nat]
    /\ local_params \in [AllTrainers -> SUBSET Gradient]
    /\ remote_params \subseteq Gradient

\* Each test of the two files; that of the second has two trainers and one call.
TrainingInit ==
    /\ test \in {"forward", "batch", "dlrm"}
    /\ ddp_mode \in IF test = "dlrm" THEN {"none", "inside"} ELSE {"none", "outside", "inside"}
    /\ num_trainers \in IF test = "dlrm" THEN {2} ELSE TrainerCounts
    /\ master = IF test = "dlrm" THEN "trainers" ELSE "em"
    /\ rank = 1 /\ epoch = 0
    /\ constructed = {}
    /\ trainer = [t \in AllTrainers |-> "none"]
    /\ call = [c \in AllCalls |-> "none"]
    /\ entered = [t \in AllTrainers |-> 0]
    /\ local_params = [t \in AllTrainers |-> {}]
    /\ remote_params = {}

-----------------------------------------------------------------------------
(***************************************************************************)
(* The collective operations of the trainer group (external).              *)
(***************************************************************************)
Enter(t) == entered' = [entered EXCEPT ![t] = @ + 1]
Met(t) == \A u \in Trainers : entered[u] >= entered[t]

-----------------------------------------------------------------------------
(***************************************************************************)
(* The master.                                                             *)
(***************************************************************************)
\* rpc.remote of the modules of the remote worker: the constructors run there, later.
CreateModule(m) ==
    /\ master = m
    /\ master' = IF m = "em" THEN "net" ELSE "trainers"
    /\ UNCHANGED <<kinds, rank, epoch, constructed, trainer, call, entered, local_params, remote_params>>

Construct(m) ==
    /\ master \notin (IF m = "em" THEN {"em"} ELSE {"em", "net"})
    /\ test # "dlrm"
    /\ m \notin constructed
    /\ constructed' = constructed \union {m}
    /\ UNCHANGED <<kinds, master, rank, epoch, trainer, call, entered, local_params, remote_params>>

\* The loop of the master over the trainers goes on, or ends with the given next step.
NextRank(step) ==
    IF rank < num_trainers
      THEN rank' = rank + 1 /\ UNCHANGED <<master, epoch>>
      ELSE rank' = 1 /\ step

CreateTrainer ==
    /\ master = "trainers"
    /\ trainer' = [trainer EXCEPT ![rank] = "begin"]
    /\ NextRank(master' = "call" /\ UNCHANGED epoch)
    /\ UNCHANGED <<kinds, constructed, call, entered, local_params, remote_params>>

\* Slip: each call is waited for before the next one is made.
CallOneByOne ==
    /\ master = "call"
    /\ \A t \in 1 .. rank - 1 : call[<<t, epoch>>] = "answered"
    /\ call' = [call EXCEPT ![<<rank, epoch>>] = "sent"]
    /\ NextRank(master' = "wait" /\ UNCHANGED epoch)
    /\ UNCHANGED <<kinds, constructed, trainer, entered, local_params, remote_params>>

\* _remote_method_async, once for every trainer.
Call ==
    /\ master = "call"
    /\ call' = [call EXCEPT ![<<rank, epoch>>] = "sent"]
    /\ NextRank(master' = "wait" /\ UNCHANGED epoch)
    /\ UNCHANGED <<kinds, constructed, trainer, entered, local_params, remote_params>>

\* The gradient of the linear nets that do_one_example returns: the two examples differ
\* in the label, which changes its sign; after DDP it is that of all trainers.
Sign(t) == IF t = 1 THEN 1 ELSE -1
SumOf(grads) ==
    LET Having(s) == {t \in DOMAIN grads : grads[t] = s} IN Cardinality(Having(1)) - Cardinality(Having(-1))
LinearGrads(t) == IF NumWraps = 0 THEN Sign(t) ELSE SumOf([u \in Trainers |-> Sign(u)])
AssertionsHold(t) ==
    /\ (NumWraps # 0) <=> (LinearGrads(t) = 0)
    /\ t = num_trainers => SumOf([u \in Trainers |-> LinearGrads(u)]) = 0

\* Slip: the futures of an epoch are forgotten after the first one.
WaitForFirst ==
    /\ master = "wait"
    /\ call[<<rank, epoch>>] = "answered"
    /\ master' = IF epoch + 1 \in Epoch THEN "call" ELSE "done"
    /\ epoch' = epoch + 1
    /\ UNCHANGED <<kinds, rank, constructed, trainer, call, entered, local_params, remote_params>>

\* future.wait() of each call in turn, with the assertions of drlm_with_ddp.py; then
\* the next epoch.
FutureWait ==
    /\ master = "wait"
    /\ call[<<rank, epoch>>] = "answered"
    /\ IF test = "dlrm" /\ ~AssertionsHold(rank)
         THEN master' = "failed" /\ UNCHANGED <<rank, epoch>>
         ELSE NextRank(/\ master' = IF epoch + 1 \in Epoch THEN "call" ELSE "done"
                       /\ epoch' = epoch + 1)
    /\ UNCHANGED <<kinds, constructed, trainer, call, entered, local_params, remote_params>>

Master == CreateModule("em") \/ CreateModule("net") \/ CreateTrainer \/ Call \/ FutureWait

-----------------------------------------------------------------------------
(***************************************************************************)
(* The constructor of a Trainer.                                           *)
(***************************************************************************)
\* new_group, which every trainer of the group has to enter; the second program makes
\* a group only for DDP.
Begin(t) ==
    /\ trainer[t] = "begin"
    /\ IF test = "dlrm" /\ NumWraps = 0
         THEN trainer' = [trainer EXCEPT ![t] = "ready"] /\ UNCHANGED entered
         ELSE trainer' = [trainer EXCEPT ![t] = "group"] /\ Enter(t)
    /\ UNCHANGED <<kinds, master, rank, epoch, constructed, call, local_params, remote_params>>

\* The nets are wrapped into DDP, one collective operation after the other.
WrapNets(t) ==
    IF NumWraps = 0
      THEN trainer' = [trainer EXCEPT ![t] = "ready"] /\ UNCHANGED entered
      ELSE trainer' = [trainer EXCEPT ![t] = "wrap"] /\ Enter(t)

NewGroup(t) ==
    /\ trainer[t] = "group" /\ Met(t)
    /\ IF test = "dlrm"
         THEN WrapNets(t)
         ELSE trainer' = [trainer EXCEPT ![t] = "em"] /\ UNCHANGED entered
    /\ UNCHANGED <<kinds, master, rank, epoch, constructed, call, local_params, remote_params>>

\* HybridModel asks the remote modules for their parameters, which waits for them.
GetParameters(t, m) ==
    /\ trainer[t] = m /\ m \in constructed
    /\ IF m = "em"
         THEN trainer' = [trainer EXCEPT ![t] = "net"] /\ UNCHANGED entered
         ELSE WrapNets(t)
    /\ UNCHANGED <<kinds, master, rank, epoch, constructed, call, local_params, remote_params>>

Wrap(t) ==
    /\ trainer[t] = "wrap" /\ Met(t)
    /\ IF entered[t] - 1 < NumWraps
         THEN Enter(t) /\ UNCHANGED trainer
         ELSE trainer' = [trainer EXCEPT ![t] = "ready"] /\ UNCHANGED entered
    /\ UNCHANGED <<kinds, master, rank, epoch, constructed, call, local_params, remote_params>>

Constructor(t) ==
    Begin(t) \/ NewGroup(t) \/ GetParameters(t, "em") \/ GetParameters(t, "net") \/ Wrap(t)

-----------------------------------------------------------------------------
(***************************************************************************)
(* A call of a Trainer.                                                    *)
(***************************************************************************)
Goes(t, e, step) == call' = [call EXCEPT ![<<t, e>>] = step]

\* backward through the nets: a collective operation for every one that DDP wraps.
Backward(t, e) ==
    IF NumWraps = 0
      THEN Goes(t, e, IF test = "dlrm" THEN "answered" ELSE "step") /\ UNCHANGED entered
      ELSE Goes(t, e, "reduce") /\ Enter(t)

\* _call_method: local_value waits for the constructor.
CallMethod(t, e) ==
    /\ call[<<t, e>>] = "sent" /\ trainer[t] = "ready"
    /\ IF test = "dlrm" THEN Backward(t, e) ELSE Goes(t, e, "em") /\ UNCHANGED entered
    /\ UNCHANGED <<kinds, master, rank, epoch, constructed, trainer, local_params, remote_params>>

\* HybridModel.forward: the embeddings, then the remote net.
Forward(t, e) ==
    /\ \/ call[<<t, e>>] = "em" /\ Goes(t, e, "net") /\ UNCHANGED entered
       \/ call[<<t, e>>] = "net" /\ test = "forward" /\ Goes(t, e, "answered") /\ UNCHANGED entered
       \/ call[<<t, e>>] = "net" /\ test = "batch" /\ Backward(t, e)
    /\ UNCHANGED <<kinds, master, rank, epoch, constructed, trainer, local_params, remote_params>>

Reduce(t, e) ==
    /\ call[<<t, e>>] = "reduce" /\ Met(t)
    /\ IF (entered[t] - 1) % NumWraps # 0
         THEN Enter(t) /\ UNCHANGED call
         ELSE Goes(t, e, IF test = "dlrm" THEN "answered" ELSE "step") /\ UNCHANGED entered
    /\ UNCHANGED <<kinds, master, rank, epoch, constructed, trainer, local_params, remote_params>>

\* dist_optimizer.step updates the remote and the local parameters, in any order, and
\* waits for both.
LocalGradients(t, e) == IF NumWraps = 0 THEN {<<t, e>>} ELSE Trainers \X {e}

UpdateLocal(t, e) ==
    /\ call[<<t, e>>] = "step" /\ ~(LocalGradients(t, e) \subseteq local_params[t])
    /\ local_params' = [local_params EXCEPT ![t] = @ \union LocalGradients(t, e)]
    /\ UNCHANGED <<kinds, master, rank, epoch, constructed, trainer, call, entered, remote_params>>

UpdateRemote(t, e) ==
    /\ call[<<t, e>>] = "step" /\ <<t, e>> \notin remote_params
    /\ remote_params' = remote_params \union {<<t, e>>}
    /\ UNCHANGED <<kinds, master, rank, epoch, constructed, trainer, call, entered, local_params>>

Return(t, e) ==
    /\ call[<<t, e>>] = "step"
    /\ LocalGradients(t, e) \subseteq local_params[t] /\ <<t, e>> \in remote_params
    /\ Goes(t, e, "answered")
    /\ UNCHANGED <<kinds, master, rank, epoch, constructed, trainer, entered, local_params, remote_params>>

Work(t, e) == CallMethod(t, e) \/ Forward(t, e) \/ Reduce(t, e)
              \/ UpdateLocal(t, e) \/ UpdateRemote(t, e) \/ Return(t, e)

TrainingNext ==
    \/ Master
    \/ \E m \in {"em", "net"} : Construct(m)
    \/ \E t \in Trainers : Constructor(t)
    \/ \E t \in Trainers, e \in Epoch : Work(t, e)

TrainingSpec == TrainingInit /\ [][TrainingNext]_trainingVars

-----------------------------------------------------------------------------
(***************************************************************************)
(* Properties.                                                             *)
(***************************************************************************)
Started(t, e) == call[<<t, e>>] # "none"
Answered(t, e) == call[<<t, e>>] = "answered"

\* No trainer starts an epoch before all have ended the one before; its forward pass
\* sees the remote parameters with the gradients of all earlier epochs.
InStep == \A t \in Trainers, e \in Epoch : Started(t, e) =>
    \A u \in Trainers, d \in 0 .. e - 1 :
        Answered(u, d) /\ (test = "batch" => <<u, d>> \in remote_params)

\* Trainers that wait for each other in a collective operation do so at the same place:
\* in the same constructor, or in the backward pass of the same epoch.
Reducing(t) == {e \in Epoch : call[<<t, e>>] = "reduce"}
CollectivesMatch == \A t, u \in Trainers : entered[t] = entered[u] =>
    /\ trainer[t] \in {"group", "wrap"} /\ trainer[u] \in {"group", "wrap"} => trainer[t] = trainer[u]
    /\ trainer[t] = "wrap" => Reducing(u) = {}
    /\ Reducing(t) # {} /\ Reducing(u) # {} => Reducing(t) = Reducing(u)

\* With DDP the replicas agree whenever the master is between two epochs.
ReplicasAgree == master \in {"call", "done"} /\ rank = 1 /\ NumWraps # 0 =>
    \A t, u \in Trainers : local_params[t] = local_params[u]

\* get_training_examples: each trainer gets int(n / NUM_TRAINERS) of them.
Share(t) == LET k == NumExamples \div num_trainers IN (t - 1) * k .. t * k - 1

\* Nobody's example is trained by another one; those left over by a division that is
\* not exact are not trained at all.
SharesAreApart ==
    /\ \A t, u \in Trainers : t # u => Share(t) \intersect Share(u) = {}
    /\ Cardinality(0 .. NumExamples - 1 \ UNION {Share(t) : t \in Trainers}) = NumExamples % num_trainers

TrainersInStep == InStep /\ CollectivesMatch /\ ReplicasAgree /\ SharesAreApart /\ master # "failed"

\* The master gets all its answers.
TrainingEnds == <>(master = "done")
=============================================================================
