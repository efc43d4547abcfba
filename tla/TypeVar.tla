------------------------------ MODULE TypeVar ------------------------------
(***************************************************************************)
(* get_return_type of python/type_var.py: the parameters of a function are *)
(* matched with the types of the arguments, and the type variables of its  *)
(* output are replaced by what they were matched with, in the output       *)
(* itself, which the next call of the same function meets.                 *)
(*                                                                         *)
(* A type is a record as in the program: v is its name, or l the list of   *)
(* its parts when it has none.                                             *)
(***************************************************************************)
EXTENDS Integers, Sequences

CONSTANTS MaxCalls

VARIABLES
    params,             \* of the Func
    written,            \* history: the output the Func was made with
    output,             \* of the Func, as it is now
    calls               \* history: the calls, with their arguments and results

vars == <<params, written, output, calls>>
NoName == ""
Named(name) == [v |-> name, l |-> <<>>]
Tuple(parts) == [v |-> NoName, l |-> parts]

is_type_var(t) == t.v \in {"T", "X", "Y"}

T == Named("T")
X == Named("X")
int == Named("int")
str == Named("str")

Params == {<<T>>, <<T, T>>, <<T, X>>, <<Tuple(<<T>>), X>>, <<Tuple(<<int, T>>), T>>}
Outputs == {T, X, int, Tuple(<<T, int>>), Tuple(<<X, Tuple(<<T>>)>>), Tuple(<<T, Named("Y")>>)}
Ground == {int, str, Tuple(<<int>>), Tuple(<<int, str>>), Tuple(<<int, Tuple(<<str>>)>>)}
Args == {<<a>> : a \in Ground} \union {<<a, b>> : a \in Ground, b \in Ground}

Init ==
    /\ params \in Params
    /\ written \in Outputs
    /\ output = written
    /\ calls = <<>>

-----------------------------------------------------------------------------
(***************************************************************************)
(* get_return_type.                                                        *)
(***************************************************************************)
TypeMisMatch == [raised |-> TRUE, map |-> <<>>]
Pairs(xs, ys) == [i \in 1 .. Len(xs) |-> <<xs[i], ys[i]>>]
Bind(map, x, t) == [y \in DOMAIN map \union {x} |-> IF y = x THEN t ELSE map[y]]

\* Slip: a variable takes the type it meets last.
RECURSIVE MatchLast(_, _)
MatchLast(q, map) ==
    IF q = <<>> THEN [raised |-> FALSE, map |-> map]
    ELSE LET p == Head(q)[1]  a == Head(q)[2] IN
         IF p.v # a.v
           THEN IF is_type_var(p) THEN MatchLast(Tail(q), Bind(map, p.v, a)) ELSE TypeMisMatch
           ELSE IF Len(p.l) # Len(a.l) THEN TypeMisMatch
                ELSE MatchLast(Tail(q) \o Pairs(p.l, a.l), map)

\* The loop over the queue of pairs.
RECURSIVE Match(_, _)
Match(q, map) ==
    IF q = <<>> THEN [raised |-> FALSE, map |-> map]
    ELSE LET p == Head(q)[1]  a == Head(q)[2] IN
         IF p.v # a.v
           THEN IF is_type_var(p) /\ (p.v \in DOMAIN map => map[p.v] = a)
                  THEN Match(Tail(q), Bind(map, p.v, a))
                  ELSE TypeMisMatch
           ELSE IF Len(p.l) # Len(a.l) THEN TypeMisMatch
                ELSE Match(Tail(q) \o Pairs(p.l, a.l), map)

\* The second loop: every variable in the tree is replaced.
RECURSIVE Replaced(_, _)
Replaced(t, map) ==
    IF is_type_var(t) THEN map[t.v] ELSE [t EXCEPT !.l = [i \in DOMAIN @ |-> Replaced(@[i], map)]]

RECURSIVE TypeVars(_)
TypeVars(t) == IF is_type_var(t) THEN {t.v} ELSE UNION {TypeVars(t.l[i]) : i \in DOMAIN t.l}

\* A variable without a type raises, in every call: it is in no parameter.  What was
\* replaced until then is not modelled, no call returns it.  The tree is the function's own unless it is one variable.
get_return_type(args) ==
    LET match == IF Len(params) = Len(args) THEN Match(Pairs(params, args), <<>>) ELSE TypeMisMatch
        raised == match.raised \/ ~(TypeVars(output) \subseteq DOMAIN match.map)
    IN /\ calls' = Append(calls, [args |-> args, raised |-> raised,
                                  type |-> IF raised THEN output ELSE Replaced(output, match.map)])
       /\ output' = IF raised \/ is_type_var(output) THEN output ELSE Replaced(output, match.map)
       /\ UNCHANGED <<params, written>>

Next == Len(calls) < MaxCalls /\ \E args \in Args : get_return_type(args)

Spec == Init /\ [][Next]_vars

-----------------------------------------------------------------------------
(***************************************************************************)
(* What a call promises.                                                   *)
(***************************************************************************)
\* The arguments are the parameters with a type for every variable.
Assignments == [{"T", "X"} -> Ground \union {Tuple(<<str>>)}]
Fits(args, m) == args = [i \in DOMAIN params |-> Replaced(params[i], m)]
VarsOfParams == UNION {TypeVars(params[i]) : i \in DOMAIN params}

\* A call raises when the arguments do not fit, or a variable of the output is in no
\* parameter.  Otherwise it returns the output as it was written with the types of its own
\* variables, when the output is a variable or this is the first call that returns; after
\* that, the output being a list, it returns what the first one returned, whatever its
\* arguments are.
ReturnTypeIsExact == \A c \in DOMAIN calls :
    LET fitting == {m \in Assignments : Fits(calls[c].args, m)}
        before == {d \in 1 .. c - 1 : ~calls[d].raised}
    IN /\ calls[c].raised <=> fitting = {} \/ ~(TypeVars(written) \subseteq VarsOfParams)
       /\ ~calls[c].raised =>
            IF before = {} \/ is_type_var(written)
              THEN \A m \in fitting : calls[c].type = Replaced(written, m)
              ELSE \A d \in before : calls[c].type = calls[d].type
=============================================================================
