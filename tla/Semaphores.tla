----------------------------- MODULE Semaphores -----------------------------
(***************************************************************************)
(* BinarySemaphore and Semaphore of cpp/Dining_philosophers_problem.cc,    *)
(* used as its tests BinarySemaphoreTest.Threads and SemaphoreTest.Threads *)
(* do: every thread enters the same critical section several times.        *)
(***************************************************************************)
EXTENDS Integers, FiniteSets

CONSTANTS
    Workers,
    Entries,            \* how often each thread enters
    Permits             \* of the Semaphore; a BinarySemaphore has one

ASSUME SemaphoreAssumption ==
    IsFiniteSet(Workers) /\ Entries \in Nat \ {0} /\ Permits \in Nat \ {0}

VARIABLES
    kind,               \* "binary" or "counting"
    v_,
    semPc,
    semAsleep,          \* the threads in cv_ that were not notified
    left                \* how often each thread still enters

semVars == <<kind, v_, semPc, semAsleep, left>>

MaxPermits == IF kind = "binary" THEN 1 ELSE Permits

SemTypeOK ==
    /\ v_ \in 0 .. MaxPermits
    /\ semPc \in [Workers -> {"acquire", "wait", "inside", "notify", "done"}]
    /\ semAsleep \subseteq Workers
    /\ left \in [Workers -> 0 .. Entries]

SemInit ==
    /\ kind \in {"binary", "counting"}
    /\ v_ = MaxPermits
    /\ semPc = [t \in Workers |-> "acquire"]
    /\ semAsleep = {}
    /\ left = [t \in Workers |-> Entries]

SemGoto(t, place) == semPc' = [semPc EXCEPT ![t] = place]

\* Slip: the thread that was woken up does not take the permit.
TakeNothing == v_' = v_

\* v_ = 0 of the binary semaphore, --v_ of the other.
Take == v_' = IF kind = "binary" THEN 0 ELSE v_ - 1

\* acquire: the first look at v_ under m_, and the wait.
Acquire(t) ==
    /\ semPc[t] = "acquire"
    /\ IF v_ > 0
         THEN /\ Take
              /\ SemGoto(t, "inside")
              /\ UNCHANGED semAsleep
         ELSE /\ SemGoto(t, "wait")
              /\ semAsleep' = semAsleep \union {t}
              /\ UNCHANGED v_
    /\ UNCHANGED <<kind, left>>

\* The predicate of cv_.wait, after a wake-up.
Wake(t) ==
    /\ semPc[t] = "wait" /\ t \notin semAsleep
    /\ IF v_ > 0
         THEN /\ Take
              /\ SemGoto(t, "inside")
              /\ UNCHANGED semAsleep
         ELSE /\ semAsleep' = semAsleep \union {t}
              /\ UNCHANGED <<v_, semPc>>
    /\ UNCHANGED <<kind, left>>

SemSpuriousWakeup(t) ==
    /\ t \in semAsleep
    /\ semAsleep' = semAsleep \ {t}
    /\ UNCHANGED <<kind, v_, semPc, left>>

\* release: v_ is changed under m_ ...
Release(t) ==
    /\ semPc[t] = "inside"
    /\ v_' = IF kind = "binary" THEN 1 ELSE v_ + 1
    /\ SemGoto(t, "notify")
    /\ left' = [left EXCEPT ![t] = @ - 1]
    /\ UNCHANGED <<kind, semAsleep>>

\* ... and notify_one, or notify_all, called without it.
NotifyWaiters ==
    IF kind = "binary" /\ semAsleep # {} THEN \E u \in semAsleep : semAsleep' = semAsleep \ {u}
    ELSE semAsleep' = {}

Notify(t) ==
    /\ semPc[t] = "notify"
    /\ NotifyWaiters
    /\ SemGoto(t, IF left[t] = 0 THEN "done" ELSE "acquire")
    /\ UNCHANGED <<kind, v_, left>>

SemStep(t) == Acquire(t) \/ Wake(t) \/ Release(t) \/ Notify(t)

SemNext == \E t \in Workers : SemStep(t) \/ SemSpuriousWakeup(t)

SemSpec == SemInit /\ [][SemNext]_semVars

-----------------------------------------------------------------------------
Inside == {t \in Workers : semPc[t] = "inside"}
SemAllDone == \A t \in Workers : semPc[t] = "done"

\* Every permit is either free or with one thread in the critical section, so that at
\* most one, or Permits, threads are in it: the CHECK_EQ and the CHECK_LE of the tests.
PermitsKept == v_ + Cardinality(Inside) = MaxPermits
=============================================================================
