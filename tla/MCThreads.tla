----------------------------- MODULE MCThreads -----------------------------
(***************************************************************************)
(* The small threaded programs, one of them per behaviour: the others stay *)
(* in an initial state of theirs.  One of them is a single participant of  *)
(* the election, with a caller in BlockingWaitForLeadership.               *)
(***************************************************************************)
EXTENDS GroupCommit, Semaphores, TurnTaking, SharedResource

CONSTANT MaxThreads     \* Reduce

VARIABLES
    program,            \* the program that runs
    algo, n, values, rPc, round, sum, id2q, round2count, rAsleep,
    line, keys, lease, le

rVars == <<algo, n, values, rPc, round, sum, id2q, round2count, rAsleep>>
electionVars == <<line, keys, lease, le>>

R == INSTANCE Reduce WITH pc <- rPc, asleep <- rAsleep

Caller == "caller"
E == INSTANCE LeaderElection WITH Participant <- {Caller}, Waiters <- {Caller}, Lossy <- {Caller}

\* A fixed initial state for a program that does not run.
IdleReduce == program # "reduce" => algo = "tree" /\ n = 1
IdleTurns == program # "turns" => variant = "latch"
IdleSemaphores == program # "semaphores" => kind = "binary"

ThreadsInit ==
    /\ program \in {"commit", "reduce", "turns", "semaphores", "shared", "election"}
    /\ Init
    /\ R!Init /\ IdleReduce
    /\ TurnInit /\ IdleTurns
    /\ SemInit /\ IdleSemaphores
    /\ SharedInit
    /\ E!Init

RunCommit ==
    /\ program = "commit" /\ Next
    /\ UNCHANGED <<program, rVars, turnVars, semVars, sharedVars, electionVars>>
RunReduce ==
    /\ program = "reduce" /\ R!Next
    /\ UNCHANGED <<program, vars, turnVars, semVars, sharedVars, electionVars>>
RunTurns ==
    /\ program = "turns" /\ TurnNext
    /\ UNCHANGED <<program, vars, rVars, semVars, sharedVars, electionVars>>
RunSemaphores ==
    /\ program = "semaphores" /\ SemNext
    /\ UNCHANGED <<program, vars, rVars, turnVars, sharedVars, electionVars>>
RunShared ==
    /\ program = "shared" /\ SharedNext
    /\ UNCHANGED <<program, vars, rVars, turnVars, semVars, electionVars>>
RunElection ==
    /\ program = "election" /\ E!Next
    /\ UNCHANGED <<program, vars, rVars, turnVars, semVars, sharedVars>>

ThreadsNext == RunCommit \/ RunReduce \/ RunTurns \/ RunSemaphores \/ RunShared \/ RunElection

threadsVars == <<program, vars, rVars, turnVars, semVars, sharedVars, electionVars>>

\* Every thread of the program that runs is scheduled (the steps of the others are not
\* enabled): of the election, the goroutine of the campaign and the one that waits.  Nothing
\* is assumed of spurious wake-ups, and nothing forces a call of commit() to raise.
ThreadsFairness ==
    /\ \A c \in Call :
         WF_vars(program = "commit" /\
                 (\/ Enter(c) \/ TakeQueue(c) \/ AcquireCommitSem(c) \/ Commit(c)
                  \/ SetEvent(c) \/ LeaderReturns(c) \/ FollowerReturns(c)))
    /\ \A t \in 0 .. MaxThreads - 1 :
         WF_rVars(program = "reduce" /\ t \in R!Thread /\ R!Step(t))
    /\ \A t \in 0 .. QueueThreads + 2 :
         WF_turnVars(program = "turns" /\ t \in TurnThread /\ TurnStep(t))
    /\ \A w \in Workers : WF_semVars(program = "semaphores" /\ SemStep(w))
    /\ \A p \in Producers : WF_sharedVars(program = "shared" /\ Produce(p))
    /\ \A c \in Consumers : WF_sharedVars(program = "shared" /\ (Get(c) \/ Consume(c)))
    /\ WF_sharedVars(program = "shared" /\ (PutSentinels \/ JoinConsumers))
    /\ WF_electionVars(program = "election" /\ E!Goroutine(Caller))
    /\ WF_electionVars(program = "election" /\ E!WaiterSelects(Caller))

ThreadsSpec == ThreadsInit /\ [][ThreadsNext]_threadsVars /\ ThreadsFairness

-----------------------------------------------------------------------------
ThreadsTypeOK == TypeOK /\ R!TypeOK /\ TurnTypeOK /\ SemTypeOK /\ SharedTypeOK /\ E!TypeOK

\* Each program keeps its promise of the module it comes from.
ReduceIsExact == R!ReduceIsExact

\* Neither a permit of the semaphores nor an item of the shared queue is lost or doubled.
NothingIsLost == PermitsKept /\ EverythingConsumed

\* Every thread of the program that runs returns, and stays so; a call of
\* BlockingWaitForLeadership returns whatever becomes of the campaign.
ThreadsReturn ==
    <>[] /\ program = "reduce" => R!AllDone
         /\ program = "turns" => TurnAllDone
         /\ program = "semaphores" => SemAllDone
         /\ program = "shared" => SharedAllDone
         /\ program = "election" => le[Caller].waiter # "waiting"
=============================================================================
