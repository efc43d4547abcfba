------------------------------ MODULE Counters ------------------------------
(***************************************************************************)
(* What counters with a maximum and a minimum promise: inc and dec change  *)
(* the count of one key by one, a count never goes below zero, and max and *)
(* min are a key with the highest and the lowest count, of those counted.  *)
(***************************************************************************)
EXTENDS Naturals

CONSTANTS Key, None

VARIABLES count, max, min

vars == <<count, max, min>>

\* The keys of the highest, or the lowest, positive count c, with that count.
Highest(c) == {<<k, c[k]>> : k \in {k \in Key : c[k] > 0 /\ \A j \in Key : c[j] <= c[k]}}
Lowest(c) == {<<k, c[k]>> : k \in {k \in Key : c[k] > 0 /\ \A j \in Key : c[j] > 0 => c[j] >= c[k]}}
OrNothing(S) == IF S = {} THEN {<<None, 0>>} ELSE S

Init ==
    /\ count = [k \in Key |-> 0]
    /\ max = <<None, 0>> /\ min = <<None, 0>>

Set(k, c) ==
    /\ count' = [count EXCEPT ![k] = c]
    /\ max' \in OrNothing(Highest(count'))
    /\ min' \in OrNothing(Lowest(count'))

Inc(k) == Set(k, count[k] + 1)
Dec(k) == IF count[k] > 0 THEN Set(k, count[k] - 1) ELSE UNCHANGED vars

Next == \E k \in Key : Inc(k) \/ Dec(k)

Spec == Init /\ [][Next]_vars
=============================================================================
