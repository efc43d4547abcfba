------------------------------ MODULE MiniSql ------------------------------
(***************************************************************************)
(* Table and Query of python/min_sql.py: a query is put together by        *)
(* select, where and order_by, which look its columns up at once, and is   *)
(* answered by commit from the rows the table has by then.                 *)
(*                                                                         *)
(* A value is a number, and None is the number 0: __lt__ puts None before  *)
(* every number, and None equals only None.                                *)
(***************************************************************************)
EXTENDS Integers, Sequences, SequencesExt, FiniteSets

CONSTANTS
    NumColumns,         \* the table has the columns 1 .. NumColumns
    Inserts,            \* what is inserted: lists of columns with their values
    Conditions,         \* the conditions of the queries
    MaxRows

NoColumn == NumColumns + 1      \* a name that is no column
Null == 0
Columns == 1 .. NumColumns
Operators == {"<", "==", ">=", "!="}

VARIABLES
    rows,               \* of the table
    query

vars == <<rows, query>>

TypeOK ==
    /\ rows \in Seq([Columns -> Nat]) /\ Len(rows) <= MaxRows
    /\ query.selects \in Seq(Columns) /\ query.orders \in Seq(Columns) /\ query.order_desc \in BOOLEAN
    /\ query.wheres \in Seq([column : Columns, op : Operators, value : Nat])
    /\ query.where_op \in {"AND", "OR"}

\* Table.select makes the query.
Init ==
    /\ rows = <<>>
    /\ query = [selects |-> [c \in Columns |-> c], wheres |-> <<>>, where_op |-> "AND",
                orders |-> <<>>, order_desc |-> FALSE]

-----------------------------------------------------------------------------
\* The columns of the list get their values, one after the other, up to the first that
\* is not one of the table; the others are None.
Filled(cols, vals) ==
    LET known == {n \in 1 .. Len(cols) : \A i \in 1 .. n : cols[i] # NoColumn}
    IN FoldLeft(LAMBDA row, i : [row EXCEPT ![cols[i]] = vals[i]],
                [c \in Columns |-> Null], [i \in 1 .. Cardinality(known) |-> i])

\* Table.insert appends the row first, so the row stays when NoSuchColumn is raised.
Insert(cols, vals) ==
    /\ Len(rows) < MaxRows
    /\ rows' = Append(rows, Filled(cols, vals))
    /\ UNCHANGED query

Select(cols) ==
    /\ query' = [query EXCEPT !.selects = cols]
    /\ UNCHANGED rows

Where(conds, op) ==
    /\ query' = [query EXCEPT !.wheres = conds, !.where_op = op]
    /\ UNCHANGED rows

OrderBy(cols, desc) ==
    /\ query' = [query EXCEPT !.orders = cols, !.order_desc = desc]
    /\ UNCHANGED rows

\* One or two different ones.
Lists(set) == {<<a>> : a \in set} \union {<<ab[1], ab[2]>> : ab \in {p \in set \X set : p[1] # p[2]}}

Next ==
    \/ \E i \in Inserts : Insert(i[1], i[2])
    \/ Select(<<2>>)
    \/ query.wheres = <<>> /\ \E conds \in Lists(Conditions), op \in {"AND", "OR"} : Where(conds, op)
    \/ query.orders = <<>> /\ \E cols \in Lists(Columns), desc \in BOOLEAN : OrderBy(cols, desc)

Spec == Init /\ [][Next]_vars

-----------------------------------------------------------------------------
(***************************************************************************)
(* commit.                                                                 *)
(***************************************************************************)
Compare(lv, op, rv) ==
    CASE op = "<" -> lv < rv [] op = "==" -> lv = rv [] op = ">=" -> lv >= rv [] op = "!=" -> lv # rv

\* match_row: the first condition that decides.
MatchRow(row) ==
    LET Holds(i) == Compare(row[query.wheres[i].column], query.wheres[i].op, query.wheres[i].value)
        match[i \in 1 .. Len(query.wheres) + 1] ==
            IF i > Len(query.wheres) THEN query.where_op = "AND"
            ELSE IF Holds(i) THEN query.where_op = "OR" \/ match[i + 1]
            ELSE query.where_op = "OR" /\ match[i + 1]
    IN query.wheres = <<>> \/ match[1]

SortKey(row) == [i \in 1 .. Len(query.orders) |-> row[query.orders[i]]]

\* Lists are compared as Python compares them.
LexLess(a, b) == \E i \in 1 .. Len(a) : a[i] < b[i] /\ \A j \in 1 .. i - 1 : a[j] = b[j]

\* Slip: the sorted rows are reversed, and with them the rows of equal keys.
SortedThenReversed(res) ==
    LET insert(sorted, row) ==
            LET after == {i \in 1 .. Len(sorted) : LexLess(SortKey(row), SortKey(sorted[i]))}
                place == IF after = {} THEN Len(sorted) + 1 ELSE CHOOSE i \in after : \A j \in after : i <= j
            IN InsertAt(sorted, place, row)
        ascending == FoldLeft(insert, <<>>, res)
    IN IF query.order_desc THEN Reverse(ascending) ELSE ascending

\* sorted, which keeps the order of rows with equal keys, also with reverse.
Sorted(res) ==
    LET Before(a, b) == IF query.order_desc THEN LexLess(SortKey(b), SortKey(a)) ELSE LexLess(SortKey(a), SortKey(b))
        insert(sorted, row) ==
            LET after == {i \in 1 .. Len(sorted) : Before(row, sorted[i])}
                place == IF after = {} THEN Len(sorted) + 1 ELSE CHOOSE i \in after : \A j \in after : i <= j
            IN InsertAt(sorted, place, row)
    IN FoldLeft(insert, <<>>, res)

commit ==
    LET res == Sorted(SelectSeq(rows, MatchRow))
    IN [i \in 1 .. Len(res) |-> [j \in 1 .. Len(query.selects) |-> res[i][query.selects[j]]]]

-----------------------------------------------------------------------------
(***************************************************************************)
(* What a query promises.                                                  *)
(***************************************************************************)
Satisfies(row) ==
    LET Holds(c) == Compare(row[c.column], c.op, c.value)
    IN query.wheres = <<>> \/ IF query.where_op = "AND" THEN \A c \in ToSet(query.wheres) : Holds(c)
                                                        ELSE \E c \in ToSet(query.wheres) : Holds(c)

\* The place of a row in the answer: behind those that come first by the keys, and behind
\* earlier rows with the same keys.
Rank(n, kept) ==
    Cardinality({m \in kept : LET a == SortKey(rows[m])  b == SortKey(rows[n]) IN
        \/ IF query.order_desc THEN LexLess(b, a) ELSE LexLess(a, b)
        \/ a = b /\ m <= n})

\* commit answers with the rows that satisfy the conditions by then, in the order asked
\* for, and rows with the same keys in the order of their insertion.
QueryIsExact ==
    LET kept == {n \in 1 .. Len(rows) : Satisfies(rows[n])}
        answer == commit IN
    /\ Len(answer) = Cardinality(kept)
    /\ \A n \in kept : answer[Rank(n, kept)] = [j \in 1 .. Len(query.selects) |-> rows[n][query.selects[j]]]
=============================================================================
