------------------------------- MODULE Sheet -------------------------------
(***************************************************************************)
(* Sheet of python/spreadsheet_graph.py: cells with a number or the sum of *)
(* one or two cells, and a breadth-first search that brings the cells      *)
(* which depend on a changed one up to date.                               *)
(*                                                                         *)
(* A cell is named by its index in cells.  get_cell creates the cells it   *)
(* is asked for, and here it has been asked for all of them.  Python goes  *)
(* over a set of small integers in ascending order.                        *)
(***************************************************************************)
EXTENDS Integers, Sequences, FiniteSets

CONSTANTS
    NumCells,
    Numbers,            \* the literals
    MaxRefused          \* bounds the cells that name themselves

\* NoNumber stands for the None of a cell without a literal.
NoNumber == -1
ASSUME SheetAssumption == NumCells \in Nat /\ Numbers \subseteq Int \ {NoNumber}

VARIABLES
    cells,
    refused             \* set_cell has raised CycleDetected: never, only for references of a
                        \* cell to itself, or at last for a longer cycle

sheetVars == <<cells, refused>>

Idx == 1 .. NumCells
NoCell == 0
Ops(c) == {c.op1, c.op2} \ {NoCell}

SheetTypeOK ==
    /\ cells \in [Idx -> [v : Numbers \union {NoNumber}, op1 : Idx \union {NoCell}, op2 : Idx \union {NoCell},
                          impacts : SUBSET Idx, r : Int]]
    /\ refused \in {"no", "self", "cycle"}

SheetInit ==
    /\ cells = [i \in Idx |-> [v |-> NoNumber, op1 |-> NoCell, op2 |-> NoCell, impacts |-> {}, r |-> 0]]
    /\ refused = "no"

-----------------------------------------------------------------------------
\* What calc_cell makes of c; only a cell that was never set has neither v nor op1.
calc_cell(cs, c) ==
    IF c.v # NoNumber THEN c.v ELSE cs[c.op1].r + (IF c.op2 = NoCell THEN 0 ELSE cs[c.op2].r)

\* The cells of a set one after the other, as Python goes over them.
Ascending(set) == [i \in 1 .. Cardinality(set) |-> CHOOSE c \in set : Cardinality({d \in set : d <= c}) = i]

\* The cells in the list are worked out.
CalcAll(cs, list) ==
    LET turn[i \in 0 .. Len(list)] ==
            IF i = 0 THEN cs
            ELSE LET ds == turn[i - 1] IN [ds EXCEPT ![list[i]].r = calc_cell(ds, ds[list[i]])]
    IN turn[Len(list)]

\* One turn of the loop of _bfs: the head of the queue, and with "calculate" the cells
\* it impacts, which are queued when they are reached for the first time.
Turn(s, calculate) ==
    LET impacts == s.cells[Head(s.q)].impacts
    IN [cells |-> IF calculate THEN CalcAll(s.cells, Ascending(impacts)) ELSE s.cells,
        q |-> Tail(s.q) \o Ascending(impacts \ s.reached),
        reached |-> s.reached \union impacts]

\* Every cell is queued once at most.
_bfs(cs, start, calculate) ==
    LET turn[t \in 0 .. NumCells] ==
            IF t = 0 THEN [cells |-> cs, q |-> <<start>>, reached |-> {start}]
            ELSE LET s == turn[t - 1] IN IF s.q = <<>> THEN s ELSE Turn(s, calculate)
    IN turn[NumCells]

-----------------------------------------------------------------------------
\* The edges from the operands of a cell to it go, and come.  To remove one that is not
\* there raises KeyError; the first one is missing then, and nothing has changed.
HasEdges(cs, start) == \A op \in Ops(cs[start]) : start \in cs[op].impacts
RemoveEdges(cs, start) ==
    [i \in Idx |-> [cs[i] EXCEPT !.impacts = IF i \in Ops(cs[start]) THEN @ \ {start} ELSE @]]
AddEdges(cs, start) ==
    [i \in Idx |-> [cs[i] EXCEPT !.impacts = IF i \in Ops(cs[start]) THEN @ \union {start} ELSE @]]

\* The new value is worked out, and then handed on.
Recalculate(cs, start) ==
    cells' = _bfs([cs EXCEPT ![start].r = calc_cell(cs, cs[start])], start, TRUE).cells

\* set_cell with a number.
SetNumber(start, v) ==
    /\ HasEdges(cells, start)
    /\ Recalculate([RemoveEdges(cells, start) EXCEPT ![start].v = v, ![start].op1 = NoCell, ![start].op2 = NoCell],
                   start)
    /\ UNCHANGED refused

\* Slip: only the first operand is looked for among the reached cells.
FirstReachable(cs, start) == cs[start].op1 \in _bfs(cs, start, FALSE).reached

\* The new edges form a cycle.
FormsCycle(cs, start) == Ops(cs[start]) \intersect _bfs(cs, start, FALSE).reached # {}

\* set_cell with a formula.  A reference of the cell to itself is noticed before there are
\* edges, but with the operands in place; a longer cycle when the edges have been added,
\* which stay, while the cell gets back what it had, without the edges to it.
SetFormula(start, op1, op2) ==
    LET original == RemoveEdges(cells, start)
        assigned == [original EXCEPT ![start].v = NoNumber, ![start].op1 = op1, ![start].op2 = op2]
        linked == AddEdges(assigned, start)
    IN  /\ HasEdges(cells, start)
        /\ \/ /\ start \in {op1, op2}
              /\ cells' = assigned
              /\ refused' = "self"
           \/ /\ start \notin {op1, op2}
              /\ FormsCycle(linked, start)
              /\ cells' = [linked EXCEPT ![start] = original[start]]
              /\ refused' = "cycle"
           \/ /\ start \notin {op1, op2}
              /\ ~FormsCycle(linked, start)
              /\ Recalculate(linked, start)
              /\ UNCHANGED refused

\* What follows the refusal of a longer cycle is not explored: cycles go unnoticed from
\* then on, and the values may grow without bound.  MaxRefused bounds how many cells name
\* themselves.
SheetNext ==
    /\ refused # "cycle"
    /\ \E start \in Idx :
         \/ \E v \in Numbers : SetNumber(start, v)
         \/ \E op1 \in Idx, op2 \in Idx \union {NoCell} : SetFormula(start, op1, op2)
    /\ Cardinality({i \in Idx : i \in Ops(cells[i])'}) <= MaxRefused

SheetSpec == SheetInit /\ [][SheetNext]_sheetVars

-----------------------------------------------------------------------------
\* The operands a cell has edges from: all, or none when it names itself.
Operands(cs, i) == IF i \in Ops(cs[i]) THEN {} ELSE Ops(cs[i])

\* The cells that depend on i, directly or not.
DependOn(cs, i) ==
    LET level[m \in 0 .. NumCells] ==
            IF m = 0 THEN {j \in Idx : i \in Operands(cs, j)}
            ELSE LET least == level[m - 1] IN least \union {j \in Idx : Operands(cs, j) \intersect least # {}}
    IN level[NumCells]

\* Each call of set_cell adds and removes the edges that the next one relies on.  No cell
\* depends on itself, and the edges are those of the operands, except of a cell that names
\* itself: it has none, and no call of set_cell reaches it any more.  The refusal of a
\* longer cycle leaves the edges to one cell wrong, those to the others right.
EdgesTo(cs, j) == {i \in Idx : j \in cs[i].impacts}
SheetIsAcyclic ==
    /\ refused # "cycle" => \A i \in Idx : i \notin DependOn(cells, i) /\ EdgesTo(cells, i) = Operands(cells, i)
    /\ refused = "no" => \A i \in Idx : Operands(cells, i) = Ops(cells[i])
    /\ refused = "cycle" => \E i \in Idx : \A j \in Idx \ {i} : EdgesTo(cells, j) = Operands(cells, j)

\* What the assertions of the file check after each change: a cell shows the sum of the
\* cells it names.
SheetUpToDate ==
    refused = "no" => \A i \in Idx : Ops(cells[i]) # {} => cells[i].r = calc_cell(cells, cells[i])
=============================================================================
