------------------------- MODULE DiningPhilosophers -------------------------
(***************************************************************************)
(* PhilosophersSync of cpp/Dining_philosophers_problem.cc, with the        *)
(* BinarySemaphore of every philosopher down to its condition variable,    *)
(* and the philosopher threads of DiningPhilosophersTest.                  *)
(*                                                                         *)
(* The mutex m_ of PhilosophersSync is a variable: everything a            *)
(* philosopher does while it holds m_ is a sequence of steps that the      *)
(* threads waiting on a semaphore interleave with.  The mutex inside a     *)
(* BinarySemaphore guards only v_ and is held for one step at a time, so   *)
(* each of its critical sections is one action.                            *)
(***************************************************************************)
EXTENDS Integers

CONSTANT N          \* numPhils_

ASSUME NAssumption == N \in Nat \ {0}

Phil == 0 .. (N - 1)
Right(p) == (p + 1) % N
Left(p) == (p + N - 1) % N

Free == N           \* the value of m while m_ is not locked

VARIABLES
    states,         \* states_: the state the synchroniser gives each philosopher
    sems,           \* sems_[p]->v_
    m,              \* m_: the philosopher that holds it, or Free
    pc,             \* where each philosopher thread is
    forksInUse      \* forksInUse of checkActions, kept up to date by the callbacks

vars == <<states, sems, m, pc, forksInUse>>

(***************************************************************************)
(* Where a philosopher thread can be.                                      *)
(*   takeForks:  trySelf, sigSelf      under m_                            *)
(*               acquire               about to lock the semaphore         *)
(*               wait, woken           blocked in cv_.wait, notified       *)
(*               acquired              past acquire(), before cb           *)
(*   putForks:   tryRight, sigRight, tryLeft, sigLeft    under m_          *)
(* A sig location is inside release(): v_ is 1, notify_one() is next.      *)
(***************************************************************************)
TakeLocked == {"trySelf", "sigSelf"}
PutLocked == {"tryRight", "sigRight", "tryLeft", "sigLeft"}
Locked == TakeLocked \cup PutLocked
Acquiring == {"acquire", "wait", "woken"}
Location == {"think", "acquired", "eat"} \cup Locked \cup Acquiring

\* The philosopher whom q, at a try or sig location, calls tryToEat for.
Subject(q) == IF pc[q] \in TakeLocked THEN q
              ELSE IF pc[q] \in {"tryRight", "sigRight"} THEN Right(q) ELSE Left(q)

TypeOK ==
    /\ states \in [Phil -> {"THINKING", "HUNGRY", "EATING"}]
    /\ sems \in [Phil -> {0, 1}]
    /\ m \in Phil \cup {Free}
    /\ pc \in [Phil -> Location]
    /\ forksInUse \in [Phil -> BOOLEAN]

Init ==
    /\ states = [p \in Phil |-> "THINKING"]
    /\ sems = [p \in Phil |-> 0]
    /\ m = Free
    /\ pc = [p \in Phil |-> "think"]
    /\ forksInUse = [f \in Phil |-> FALSE]

-----------------------------------------------------------------------------
\* takeForks: lock m_, become HUNGRY.
TakeForks(p) ==
    /\ pc[p] = "think"
    /\ m = Free
    /\ m' = p
    /\ states' = [states EXCEPT ![p] = "HUNGRY"]
    /\ pc' = [pc EXCEPT ![p] = "trySelf"]
    /\ UNCHANGED <<sems, forksInUse>>

\* putForks: lock m_, become THINKING, report the forks as put down.
PutForks(p) ==
    /\ pc[p] = "eat"
    /\ m = Free
    /\ m' = p
    /\ states' = [states EXCEPT ![p] = "THINKING"]
    /\ forksInUse' = [f \in Phil |-> f \notin {p, Right(p)} /\ forksInUse[f]]
    /\ pc' = [pc EXCEPT ![p] = "tryRight"]
    /\ UNCHANGED sems

\* Slip: only the left neighbour is looked at.
CanEatLeftOnly(x) ==
    /\ states[x] = "HUNGRY"
    /\ states[Left(x)] # "EATING"

\* The condition of tryToEat.
CanEat(x) ==
    /\ states[x] = "HUNGRY"
    /\ states[Left(x)] # "EATING"
    /\ states[Right(x)] # "EATING"

\* The caller leaves this call of tryToEat; m_ is unlocked after the last one.
Leave(q, from, next) ==
    /\ pc[q] \in from
    /\ pc' = [pc EXCEPT ![q] = next]
    /\ m' = IF next \in Locked THEN m ELSE Free

\* tryToEat(x) by q with the condition true: grant x the forks and set its v_.
Grant(q, from, sig) ==
    LET x == Subject(q) IN
    /\ pc[q] = from
    /\ CanEat(x)
    /\ states' = [states EXCEPT ![x] = "EATING"]
    /\ sems' = [sems EXCEPT ![x] = 1]
    /\ pc' = [pc EXCEPT ![q] = sig]
    /\ UNCHANGED <<m, forksInUse>>

\* tryToEat(x) by q with the condition false: nothing happens.
Skip(q, from, next) ==
    /\ Leave(q, {from}, next)
    /\ ~CanEat(Subject(q))
    /\ UNCHANGED <<states, sems, forksInUse>>

\* Slip: release() forgets to notify.
NotifyNobody(q, sig, next) ==
    /\ Leave(q, {sig}, next)
    /\ UNCHANGED <<states, sems, forksInUse>>

\* The notify_one() that ends release(): the thread blocked on x's
\* semaphore, if there is one, is woken.
Notify(q, sig, next) ==
    LET x == Subject(q) IN
    /\ pc[q] = sig
    /\ pc' = [y \in Phil |-> IF y = q THEN next
                             ELSE IF y = x /\ pc[x] = "wait" THEN "woken" ELSE pc[y]]
    /\ m' = IF next \in Locked THEN m ELSE Free
    /\ UNCHANGED <<states, sems, forksInUse>>

TryToEat(q, try, sig, next) ==
    \/ Grant(q, try, sig)
    \/ Skip(q, try, next)
    \/ Notify(q, sig, next)

TryToEatSelf(q) == TryToEat(q, "trySelf", "sigSelf", "acquire")

\* Slip: putForks returns after the right neighbour.
TryToEatRightAndReturn(q) == TryToEat(q, "tryRight", "sigRight", "think")

TryToEatRight(q) == TryToEat(q, "tryRight", "sigRight", "tryLeft")
TryToEatLeft(q) == TryToEat(q, "tryLeft", "sigLeft", "think")

-----------------------------------------------------------------------------
\* BinarySemaphore::acquire, the predicate of its wait included: a thread that
\* finds v_ = 1 takes it, any other thread blocks.
Acquire(p) ==
    /\ pc[p] \in {"acquire", "woken"}
    /\ pc' = [pc EXCEPT ![p] = IF sems[p] = 1 THEN "acquired" ELSE "wait"]
    /\ sems' = [sems EXCEPT ![p] = 0]
    /\ UNCHANGED <<states, m, forksInUse>>

\* A condition variable may wake a thread that nobody notified.
SpuriousWakeup(p) ==
    /\ pc[p] = "wait"
    /\ pc' = [pc EXCEPT ![p] = "woken"]
    /\ UNCHANGED <<states, sems, m, forksInUse>>

\* The end of takeForks: the callback reports both forks as picked up.
PickUp(p) ==
    /\ pc[p] = "acquired"
    /\ forksInUse' = [f \in Phil |-> f \in {p, Right(p)} \/ forksInUse[f]]
    /\ pc' = [pc EXCEPT ![p] = "eat"]
    /\ UNCHANGED <<states, sems, m>>

Critical(p) == TryToEatSelf(p) \/ TryToEatRight(p) \/ TryToEatLeft(p)

Next == \E p \in Phil :
    \/ TakeForks(p)
    \/ PutForks(p)
    \/ Critical(p)
    \/ Acquire(p)
    \/ SpuriousWakeup(p)
    \/ PickUp(p)

Spec == Init /\ [][Next]_vars

\* Every thread keeps running, a finished meal is always ended, and a thread
\* that asks for m_ again and again gets it.  A philosopher may think for ever,
\* and nothing is assumed about spurious wake-ups.
Fairness == \A p \in Phil :
    /\ WF_vars(Critical(p))
    /\ WF_vars(Acquire(p))
    /\ WF_vars(PickUp(p))
    /\ SF_vars(PutForks(p))

FairSpec == Spec /\ Fairness

\* In the test every philosopher also asks for the forks again and again.
BusySpec == FairSpec /\ \A p \in Phil : SF_vars(TakeForks(p))

-----------------------------------------------------------------------------
(***************************************************************************)
(* Safety.                                                                 *)
(***************************************************************************)
\* The main thread of the test reads states_ under m_ and requires that no two
\* neighbours are EATING; nobody can see m_ free in another state.
NeighboursApart == \A p \in Phil :
    (Right(p) # p /\ states[p] = "EATING") => states[Right(p)] # "EATING"

\* checkActions: a philosopher about to report its forks as picked up finds
\* both unused, one that eats finds both in use when it puts them down.
ForksExclusive == \A p \in Phil :
    /\ pc[p] = "acquired" => ~forksInUse[p] /\ ~forksInUse[Right(p)]
    /\ pc[p] = "eat" => forksInUse[p] /\ forksInUse[Right(p)]

\* release() notifies after it has unlocked the semaphore.  A philosopher may
\* still block with v_ = 1 only while that notification is on its way.
NoLostWakeup == \A p \in Phil :
    (sems[p] = 1 /\ pc[p] = "wait") =>
        \E q \in Phil : pc[q] \in {"sigRight", "sigLeft"} /\ Subject(q) = p

\* q is inside m_ and is going to call tryToEat for p.
WillTry(q, p) ==
    \/ pc[q] = "trySelf" /\ p = q
    \/ pc[q] = "tryRight" /\ p = Right(q)
    \/ pc[q] \in {"tryRight", "sigRight", "tryLeft"} /\ p = Left(q)

\* The synchroniser never forgets a hungry philosopher: whenever one is not
\* granted the forks, a neighbour holds them (and tries on its behalf when it
\* puts them down) or somebody inside m_ is about to try for it.
HungryIsCovered == \A p \in Phil : states[p] = "HUNGRY" =>
    \/ states[Left(p)] = "EATING"
    \/ states[Right(p)] = "EATING"
    \/ \E q \in Phil : WillTry(q, p)

-----------------------------------------------------------------------------
(***************************************************************************)
(* The inductive invariant behind the safety properties.                   *)
(***************************************************************************)
\* m_ is held by the one thread that is at a location inside it.
MutexInv == \A p \in Phil : (pc[p] \in Locked) <=> (m = p)

\* Location, state and semaphore of a philosopher agree: an EATING philosopher
\* has either a pending grant or has consumed it, never both.
GrantInv == \A p \in Phil :
    /\ states[p] = "THINKING" <=> pc[p] \in {"think"} \cup PutLocked
    /\ states[p] = "EATING" <=> sems[p] = 1 \/ pc[p] \in {"acquired", "eat"}
    /\ sems[p] = 1 => pc[p] \in {"sigSelf"} \cup Acquiring
    /\ pc[p] = "sigSelf" => sems[p] = 1

\* A fork is in use exactly while one of its two owners eats.
ForkInv == \A f \in Phil : forksInUse[f] <=> pc[f] = "eat" \/ pc[Left(f)] = "eat"

IInv ==
    /\ TypeOK
    /\ MutexInv
    /\ GrantInv
    /\ ForkInv
    /\ NeighboursApart
    /\ NoLostWakeup
    /\ HungryIsCovered

-----------------------------------------------------------------------------
(***************************************************************************)
(* The table that the philosophers see.                                    *)
(***************************************************************************)
DoingAt(loc) == IF loc = "eat" THEN "eating"
                ELSE IF loc \in {"think"} \cup PutLocked THEN "thinking" ELSE "hungry"
Doing == [p \in Phil |-> DoingAt(pc[p])]

Table == INSTANCE PhilosopherTable WITH doing <- Doing

\* Threads that take and put forks through this code do what the table allows:
\* in particular nobody starts to eat while a neighbour eats.
RefinesTable == Table!TableSpec

(***************************************************************************)
(* Liveness.                                                               *)
(***************************************************************************)
\* Whenever somebody is hungry, somebody gets to eat.
SomebodyEats == (\E p \in Phil : Doing[p] = "hungry") ~> (\E p \in Phil : pc[p] = "eat")

\* No philosopher starves (what the comment above sems_[selfPid]->release() says).
NoStarvation == \A p \in Phil : Doing[p] = "hungry" ~> pc[p] = "eat"
=============================================================================
