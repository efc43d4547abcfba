----------------------------- MODULE ParsedTexts -----------------------------
(***************************************************************************)
(* Two small parsers.  The Calculator of python/calculator.py reduces sums *)
(* of numbers and sums in brackets on one stack, as soon as a number is    *)
(* complete.  What gen_tokens yields is read here a token at a time, and   *)
(* only what the comment on calculate lets into a valid expression.        *)
(*                                                                         *)
(* The Path of python/path_cd.py has cd, which takes the dots out of a     *)
(* path, and resolve_links, which replaces the longest prefix that is a    *)
(* link until there is none.  resolve_links stops at a path that it has    *)
(* seen.  A link into itself, as /a to /a/b, makes the path longer for     *)
(* ever; beyond MaxDepth segments the outcome is Endless here.             *)
(***************************************************************************)
EXTENDS Integers, SequencesExt

CONSTANTS
    Digits,             \* the numbers
    MaxTokens,
    Names,              \* the segments that are not dots
    MaxTrail,           \* the segments that cd is given one after the other
    MaxLinks,
    MaxDepth

VARIABLES
    tokens, stack,      \* what was read, and the stack of calculate
    segs, is_abs,       \* the path
    trail,              \* all segments it was made of
    links               \* of absolute paths, the segments of both

tokenVars == <<tokens, stack>>
pathVars == <<segs, is_abs, trail, links>>
vars == <<tokenVars, pathVars>>

Symbol(t) == [t |-> t, v |-> 0]
Num(v) == [t |-> "NUM", v |-> v]
Token == {Symbol(t) : t \in {"LEFT", "RIGHT", "PLUS", "MINUS"}} \union {Num(v) : v \in Digits}

NoTokens == tokens = <<>> /\ stack = <<>>

\* An assertion that fails ends the calculation.
Aborted == <<Symbol("ABORTED")>>

EndsWith(s, types) == s # <<>> /\ Last(s).t \in types

\* Slip: a sign without an operand on its left is dropped.
PushNumUnsigned(s, v) ==
    LET sign == IF Last(s).t = "PLUS" THEN 1 ELSE -1
        rest == Front(s)
    IN IF s = <<>> \/ EndsWith(s, {"LEFT"}) THEN Append(s, Num(v))
       ELSE IF ~EndsWith(s, {"PLUS", "MINUS"}) THEN Aborted
       ELSE IF EndsWith(rest, {"NUM"}) THEN Append(Front(rest), Num(Last(rest).v + sign * v))
       ELSE Append(rest, Num(v))

\* The operand on the left is 0 for a sign.
push_num(s, v) ==
    LET sign == IF Last(s).t = "PLUS" THEN 1 ELSE -1
        rest == Front(s)
    IN IF s = <<>> \/ EndsWith(s, {"LEFT"}) THEN Append(s, Num(v))
       ELSE IF ~EndsWith(s, {"PLUS", "MINUS"}) THEN Aborted
       ELSE IF EndsWith(rest, {"NUM"}) THEN Append(Front(rest), Num(Last(rest).v + sign * v))
       ELSE Append(rest, Num(sign * v))

push_right(s) ==
    IF Len(s) < 2 \/ ~EndsWith(s, {"NUM"}) \/ ~EndsWith(Front(s), {"LEFT"}) THEN Aborted
    ELSE push_num(Front(Front(s)), Last(s).v)

\* The loop of calculate.
Push(s, t) ==
    IF t.t = "RIGHT" THEN push_right(s)
    ELSE IF t.t = "NUM" THEN push_num(s, t.v)
    ELSE Append(s, t)

NumOf(ts, type) == Cardinality({i \in DOMAIN ts : ts[i].t = type})
Depth(ts) == NumOf(ts, "LEFT") - NumOf(ts, "RIGHT")

\* What may follow: no two operators in a row, and no plus as a sign.
MayFollow(ts) ==
    IF ts = <<>> \/ EndsWith(ts, {"LEFT"}) THEN {"NUM", "LEFT", "MINUS"}
    ELSE IF EndsWith(ts, {"PLUS", "MINUS"}) THEN {"NUM", "LEFT"}
    ELSE {"PLUS", "MINUS"} \union (IF Depth(ts) > 0 THEN {"RIGHT"} ELSE {})

Read(t) ==
    /\ Len(tokens) < MaxTokens /\ t.t \in MayFollow(tokens)
    /\ tokens' = Append(tokens, t)
    /\ stack' = IF stack = Aborted THEN Aborted ELSE Push(stack, t)
    /\ UNCHANGED pathVars

-----------------------------------------------------------------------------
\* The brackets that are open between i and j.
Encloses(i, j) == tokens[i].t = "LEFT" /\ \A k \in i .. j : Depth(SubSeq(tokens, i, k)) > 0

SignAt(i) == IF i > 1 /\ tokens[i - 1].t = "MINUS" THEN -1 ELSE 1

\* A number counts with the signs in front of it and of all brackets around it.
Signed(j) ==
    IF tokens[j].t # "NUM" THEN 0
    ELSE tokens[j].v * SignAt(j) * (IF Cardinality({i \in 1 .. j : Encloses(i, j) /\ SignAt(i) = -1}) % 2 = 1 THEN -1 ELSE 1)

\* No assertion fails, and an expression that is complete has become the sum of its numbers.
ExpressionsAgree ==
    /\ stack # Aborted
    /\ EndsWith(tokens, {"NUM", "RIGHT"}) /\ Depth(tokens) = 0 =>
           stack = <<Num(MapThenSumSet(Signed, DOMAIN tokens))>>

-----------------------------------------------------------------------------
Segment == Names \union {".", ".."}
ShortPaths == UNION {[1 .. n -> Names] : n \in 0 .. 2}

\* The paths / and . as they are taken apart: dots go only with cd.
FirstPath ==
    /\ is_abs \in BOOLEAN /\ segs = IF is_abs THEN <<>> ELSE <<".">>
    /\ trail = segs /\ links = [p \in {} |-> p]

Walk(way, seg) ==
    CASE seg = "." -> way
      [] seg = ".." -> IF way = <<>> THEN way ELSE Front(way)
      [] OTHER -> Append(way, seg)

\* An absolute path starts at the root.
cd(p, p_is_abs) ==
    /\ Len(trail) + Len(p) <= MaxTrail /\ DOMAIN links = {}
    /\ segs' = FoldLeft(Walk, <<>>, (IF p_is_abs THEN <<>> ELSE segs) \o p)
    /\ is_abs' = (is_abs \/ p_is_abs)
    /\ trail' = IF p_is_abs THEN p ELSE trail \o p
    /\ UNCHANGED <<links, tokenVars>>

AddLink(k, v) ==
    /\ Cardinality(DOMAIN links) < MaxLinks /\ k \notin DOMAIN links /\ trail = <<>>
    /\ links' = [p \in DOMAIN links \union {k} |-> IF p = k THEN v ELSE links[p]]
    /\ UNCHANGED <<segs, is_abs, trail, tokenVars>>

ChangePath ==
    \/ \E n \in 1 .. 2 : \E p \in [1 .. n -> Segment], p_is_abs \in BOOLEAN : cd(p, p_is_abs)
    \/ \E k, v \in ShortPaths : AddLink(k, v)

Init == NoTokens /\ FirstPath

TypeOK ==
    /\ tokens \in Seq(Token) /\ \A i \in DOMAIN stack : stack[i].t \in {"LEFT", "PLUS", "MINUS", "NUM", "ABORTED"}
    /\ segs \in Seq(Segment) /\ is_abs \in BOOLEAN /\ trail \in Seq(Segment)
    /\ links \in [DOMAIN links -> ShortPaths]

ReadToken == \E t \in Token : Read(t)

Next == ReadToken \/ ChangePath

Spec == Init /\ [][Next]_vars

-----------------------------------------------------------------------------
LinkedPrefixes(p) == {l \in 0 .. Len(p) : SubSeq(p, 1, l) \in DOMAIN links}

\* Slip: only the link is left of the path.
MatchedLinkAlone(p) == links[SubSeq(p, 1, Max(LinkedPrefixes(p)))]

\* The path behind the longest prefix that is a link.
find_matched_link(p) ==
    LET l == Max(LinkedPrefixes(p)) IN links[SubSeq(p, 1, l)] \o SubSeq(p, l + 1, Len(p))

Resolved(p) == <<"resolved", p>>
Cycle == <<"cycle">>
Endless == <<"endless">>

RECURSIVE Follow(_, _)
Follow(current, visited) ==
    IF LinkedPrefixes(current) = {} THEN Resolved(current)
    ELSE LET p == find_matched_link(current) IN
         IF p \in visited THEN Cycle
         ELSE IF Len(p) > MaxDepth THEN Endless
         ELSE Follow(p, visited \union {p})

resolve_links(p) == Follow(p, {p})

-----------------------------------------------------------------------------
\* A name of the trail is left unless more steps go up than down after it.
Left(i) ==
    /\ trail[i] \in Names
    /\ \A j \in i .. Len(trail) :
           Cardinality({k \in i + 1 .. j : trail[k] = ".."}) <= Cardinality({k \in i + 1 .. j : trail[k] \in Names})

\* The path with the longest link that it begins with replaced.
IsLinked(p) == \E k \in DOMAIN links : IsPrefix(k, p)
Replaced(p) ==
    LET longest == CHOOSE k \in DOMAIN links :
            IsPrefix(k, p) /\ \A other \in DOMAIN links : IsPrefix(other, p) => Len(other) <= Len(k)
    IN links[longest] \o SubSeq(p, Len(longest) + 1, Len(p))

\* What the paths with at most MaxDepth segments become, as far as it does not take a cycle.
RECURSIVE Reached(_, _)
Reached(p, n) ==
    IF n = 0 \/ ~IsLinked(p) \/ Len(p) > MaxDepth THEN p ELSE Reached(Replaced(p), n - 1)

\* cd step by step comes to where the whole trail leads.  resolve_links ends with the path
\* that replacing the longest links leads to and that holds no link any more; it gives up
\* exactly on a path that comes back.
PathsAgree ==
    /\ trail # <<".">> => LET left == SetToSortSeq({j \in DOMAIN trail : Left(j)}, <)
                          IN segs = [i \in DOMAIN left |-> trail[left[i]]]
    /\ \A p \in ShortPaths :
           LET out == resolve_links(p)
               end == Reached(p, 20)
           IN /\ out = Cycle <=> IsLinked(end) /\ Len(end) <= MaxDepth
              /\ out \notin {Cycle, Endless} => out = Resolved(end) /\ ~IsLinked(end)
=============================================================================
