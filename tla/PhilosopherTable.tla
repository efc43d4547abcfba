-------------------------- MODULE PhilosopherTable --------------------------
(***************************************************************************)
(* What PhilosophersSync promises to the philosophers that call it: each   *)
(* one thinks, becomes hungry, eats and thinks again, and nobody eats      *)
(* while one of the two neighbours eats.  How the neighbours are kept      *)
(* apart (states, semaphores, a mutex) is not visible here.                *)
(***************************************************************************)
EXTENDS Integers

CONSTANT N          \* numPhils_, the number of philosophers

Phil == 0 .. (N - 1)
Right(p) == (p + 1) % N
Left(p) == (p + N - 1) % N

VARIABLE doing      \* what each philosopher is doing

TableTypeOK == doing \in [Phil -> {"thinking", "hungry", "eating"}]

TableInit == doing = [p \in Phil |-> "thinking"]

GetHungry(p) ==
    /\ doing[p] = "thinking"
    /\ doing' = [doing EXCEPT ![p] = "hungry"]

StartEating(p) ==
    /\ doing[p] = "hungry"
    /\ doing[Left(p)] # "eating"
    /\ doing[Right(p)] # "eating"
    /\ doing' = [doing EXCEPT ![p] = "eating"]

StopEating(p) ==
    /\ doing[p] = "eating"
    /\ doing' = [doing EXCEPT ![p] = "thinking"]

TableNext == \E p \in Phil : GetHungry(p) \/ StartEating(p) \/ StopEating(p)

TableSpec == TableInit /\ [][TableNext]_doing
=============================================================================
