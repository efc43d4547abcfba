------------------------------ MODULE GameSearch ------------------------------
(***************************************************************************)
(* Two searches: the game tree of cpp/connext_4.cc, with its memo, and the *)
(* SudokuSolver of cpp/4fun/Sudoku-Solver.cpp, with its masks.             *)
(*                                                                         *)
(* The sizes are constants here: the program has 7 columns and 6 rows, and *)
(* boxes of side 3.  board[col] are the pieces of a column, the lowest one *)
(* first, which is what the program packs into a key.                      *)
(***************************************************************************)
EXTENDS Integers, SequencesExt

CONSTANTS
    Columns, Rows,
    Side,               \* of a box
    Givens,             \* the cells that digits may be given for
    MaxGivens

VARIABLES board, grid

vars == <<board, grid>>

RED == 1
YELLOW == 2
EMPTY == 0

Size == Side * Side
Lines == 0 .. Size - 1
Cells == Lines \X Lines

TypeOK ==
    /\ board \in [0 .. Columns - 1 -> Seq({RED, YELLOW})]
    /\ grid \in [Cells -> 0 .. Size]

-----------------------------------------------------------------------------
PieceAt(b, col, row) ==
    IF col \in DOMAIN b /\ row \in 0 .. Len(b[col]) - 1 THEN b[col][row + 1] ELSE EMPTY

\* The pieces of a color among the next three cells; a gap between them does not matter.
COUNT(b, col, row, dcol, drow, color) ==
    Cardinality({i \in 1 .. 3 : PieceAt(b, col + i * dcol, row + i * drow) = color})

isWinningMove(b, col, row, color) ==
    \E d \in {<<1, 0>>, <<0, 1>>, <<1, 1>>, <<1, -1>>} :
        COUNT(b, col, row, d[1], d[2], color) + COUNT(b, col, row, -d[1], -d[2], color) >= 3

setColor(b, col, color) == [b EXCEPT ![col] = Append(@, color)]

Open(b) == {col \in DOMAIN b : Len(b[col]) < Rows}
Winning(b, color) == {col \in Open(b) : isWinningMove(b, col, Len(b[col]), color)}
Other(color) == 3 - color

\* The result of a position together with the memo after it.  Results are kept for positions
\* where no move wins at once and that are not full.
RECURSIVE treeSearch(_, _, _), TryColumns(_, _, _, _, _)

\* Slip: a draw counts no more than a loss.
TryForWin(b, memo, color, col, res) ==
    LET found == treeSearch(setColor(b, col, color), memo, Other(color)) IN
    IF col = Columns THEN [res |-> res, memo |-> memo]
    ELSE IF col \notin Open(b) THEN TryColumns(b, memo, color, col + 1, res)
    ELSE IF found.res = color THEN [res |-> color, memo |-> found.memo]
    ELSE TryColumns(b, found.memo, color, col + 1, res)

\* The columns from col on; a win ends the loop, a draw is better than a loss.
TryColumns(b, memo, color, col, res) ==
    LET found == treeSearch(setColor(b, col, color), memo, Other(color)) IN
    IF col = Columns THEN [res |-> res, memo |-> memo]
    ELSE IF col \notin Open(b) THEN TryColumns(b, memo, color, col + 1, res)
    ELSE IF found.res = color THEN [res |-> color, memo |-> found.memo]
    ELSE TryColumns(b, found.memo, color, col + 1, IF found.res = EMPTY THEN EMPTY ELSE res)

treeSearch(b, memo, color) ==
    LET tried == TryColumns(b, memo, color, 0, Other(color)) IN
    IF Open(b) = {} THEN [res |-> EMPTY, memo |-> memo]
    ELSE IF b \in DOMAIN memo THEN [res |-> memo[b], memo |-> memo]
    ELSE IF Winning(b, color) # {} THEN [res |-> color, memo |-> memo]
    ELSE [res |-> tried.res,
          memo |-> (b :> tried.res) @@ tried.memo]

NoMemo == [b \in {} |-> EMPTY]

RECURSIVE Pieces(_, _)
Pieces(b, col) == IF col = Columns THEN 0 ELSE Len(b[col]) + Pieces(b, col + 1)

ToMove == IF Pieces(board, 0) % 2 = 0 THEN RED ELSE YELLOW

\* A move that does not end the game.
Play(col) ==
    /\ col \in Open(board) \ Winning(board, ToMove)
    /\ board' = setColor(board, col, ToMove)
    /\ UNCHANGED grid

-----------------------------------------------------------------------------
\* Sudoku: a mask is the set of the digits that were set an odd number of times.
Box(r, c) == (r \div Side) * Side + c \div Side
Toggled(mask, d) == IF d \in mask THEN mask \ {d} ELSE mask \union {d}

setDigit(masks, r, c, d) ==
    [row |-> [masks.row EXCEPT ![r] = Toggled(@, d)], col |-> [masks.col EXCEPT ![c] = Toggled(@, d)],
     cell |-> [masks.cell EXCEPT ![Box(r, c)] = Toggled(@, d)]]

Clear == [i \in Lines |-> {}]
init(g) ==
    FoldLeft(LAMBDA masks, p : IF g[p] = 0 THEN masks ELSE setDigit(masks, p[1], p[2], g[p]),
             [row |-> Clear, col |-> Clear, cell |-> Clear],
             [i \in 1 .. Size * Size |-> <<(i - 1) \div Size, (i - 1) % Size>>])

Used(masks, p) == masks.row[p[1]] \union masks.col[p[2]] \union masks.cell[Box(p[1], p[2])]

\* The first cell, row by row, with the fewest digits left.
Earlier(p, q) == p[1] < q[1] \/ (p[1] = q[1] /\ p[2] <= q[2])
Best(g, masks) ==
    LET free == {p \in Cells : g[p] = 0}
        NumUsed(p) == Cardinality(Used(masks, p))
        most == {p \in free : \A q \in free : NumUsed(q) <= NumUsed(p)}
    IN CHOOSE p \in most : \A q \in most : Earlier(p, q)

\* The grid that is found, or <<>>.  A digit that leads nowhere is taken back with its masks.
RECURSIVE solve_(_, _), TryDigits(_, _, _, _)

TryDigits(g, masks, p, d) ==
    LET solved == solve_([g EXCEPT ![p] = d], setDigit(masks, p[1], p[2], d)) IN
    IF d > Size THEN <<>>
    ELSE IF d \in Used(masks, p) \/ solved = <<>> THEN TryDigits(g, masks, p, d + 1)
    ELSE solved

solve_(g, masks) ==
    IF \A p \in Cells : g[p] # 0 THEN <<g>> ELSE TryDigits(g, masks, Best(g, masks), 1)

solve(g) == solve_(g, init(g))

-----------------------------------------------------------------------------
Init == board = [col \in 0 .. Columns - 1 |-> <<>>] /\ grid = [p \in Cells |-> 0]

\* A digit that is given, in a puzzle where no digit is twice in a line or box.
Give(p, d) ==
    /\ grid[p] = 0 /\ \A q \in Givens : grid[q] # 0 => Earlier(q, p)
    /\ Cardinality({q \in Cells : grid[q] # 0}) < MaxGivens /\ d \notin Used(init(grid), p)
    /\ grid' = [grid EXCEPT ![p] = d]
    /\ UNCHANGED board

Next ==
    \/ (\A p \in Cells : grid[p] = 0) /\ \E col \in 0 .. Columns - 1 : Play(col)
    \/ Pieces(board, 0) = 0 /\ \E p \in Givens, d \in 1 .. Size : Give(p, d)

Spec == Init /\ [][Next]_vars

-----------------------------------------------------------------------------
\* Four pieces in a row without a gap.
FourInARow(b, color) ==
    \E d \in {<<1, 0>>, <<0, 1>>, <<1, 1>>, <<1, -1>>}, col \in DOMAIN b, row \in 0 .. Rows - 1 :
        \A i \in 0 .. 3 : PieceAt(b, col + i * d[1], row + i * d[2]) = color

\* "Count the number of pieces of the given color in a row": a move that wins makes four in
\* a row, on the board of the program.
WinsAreFours ==
    \A col \in Winning(board, ToMove) : FourInARow(setColor(board, col, ToMove), ToMove)

\* Who wins when color may choose among results.
BestFor(color, results) ==
    IF color \in results THEN color ELSE IF EMPTY \in results THEN EMPTY ELSE Other(color)

\* A search gives the value of its position in the game that ends with a winning move: its
\* own value follows from those that the searches of the next positions give, whatever
\* the memo has kept meanwhile.  No four in a row is missed among the winning moves.
GameIsSolved ==
    LET Result(b, color) == treeSearch(b, NoMemo, color).res
        After(col) == setColor(board, col, ToMove)
        winning == Winning(board, ToMove)
    IN /\ \A col \in Open(board) : FourInARow(After(col), ToMove) => col \in winning
       /\ Result(board, ToMove) =
            IF Open(board) = {} THEN EMPTY
            ELSE IF winning # {} THEN ToMove
            ELSE BestFor(ToMove, {Result(After(col), Other(ToMove)) : col \in Open(board)})

Meet(p, q) == p # q /\ (p[1] = q[1] \/ p[2] = q[2] \/ Box(p[1], p[2]) = Box(q[1], q[2]))
Proper(g) == \A p \in Cells : \A q \in Cells : Meet(p, q) => g[p] # g[q]

\* A completion exists: the free cells can be filled one by one.
RECURSIVE Completes(_)
Completes(g) ==
    LET free == {p \in Cells : g[p] = 0}
        first == CHOOSE p \in free : \A q \in free : Earlier(p, q)
        Seen == {g[q] : q \in {r \in Cells : Meet(first, r)}}
    IN free = {} \/ \E d \in (1 .. Size) \ Seen : Completes([g EXCEPT ![first] = d])

\* The solver of puzzles finds a proper grid that has the given digits whenever there is one.
PuzzleIsSolved ==
    LET found == solve(grid) IN
    /\ found # <<>> <=> Completes(grid)
    /\ found # <<>> => Proper(found[1]) /\ \A p \in Cells : grid[p] \in {0, found[1][p]}

SearchesAgree ==
    /\ (\A p \in Cells : grid[p] = 0) => GameIsSolved
    /\ Pieces(board, 0) = 0 => PuzzleIsSolved
=============================================================================
