----------------------------- MODULE BoardVault -----------------------------
(***************************************************************************)
(* BoardVault.cpp: a solved grid is filled at random, and its cells are    *)
(* then cleared one after the other, in random order, each only when the   *)
(* puzzle still has one solution.                                          *)
(*                                                                         *)
(* A grid is a function from the index of a cell, row by row, to the digit *)
(* it holds, 0 when it is empty.                                           *)
(***************************************************************************)
EXTENDS Integers, SequencesExt

CONSTANTS
    BOX_SIZE,
    CluesToKeep,
    Shuffles    \* bound: the orders of the positions that are tried

BOARD_SIZE == BOX_SIZE * BOX_SIZE
CellCount == BOARD_SIZE * BOARD_SIZE
Indices == 0 .. CellCount - 1
Values == 1 .. BOARD_SIZE
Row(i) == i \div BOARD_SIZE
Col(i) == i % BOARD_SIZE
Box(i) == <<Row(i) \div BOX_SIZE, Col(i) \div BOX_SIZE>>
Grids == [Indices -> 0 .. BOARD_SIZE]
Blank == [i \in Indices |-> 0]

ASSUME SizesAssumption ==
    /\ BOX_SIZE \in Nat \ {0}
    /\ CluesToKeep \in 0 .. CellCount
    /\ \A order \in Shuffles :
        /\ order \in [1 .. CellCount -> Indices]
        /\ ToSet(order) = Indices /\ IsInjective(order)

VARIABLES
    solution, puzzle,   \* the PuzzleData under construction
    positions,          \* the cells that are still to be looked at, in order
    removed

vars == <<solution, puzzle, positions, removed>>

-----------------------------------------------------------------------------
(* The search                                                               *)

IsSafe(grid, i, value) ==
    \A j \in Indices :
        grid[j] = value => Row(j) # Row(i) /\ Col(j) # Col(i) /\ Box(j) # Box(i)

\* The grids after cell i has been filled.
FillCell(grid, i) == {[grid EXCEPT ![i] = value] : value \in {v \in Values : IsSafe(grid, i, v)}}

\* The grids that filling the cells in their order can end with.  The shuffles of
\* the digits choose among them; a branch that fails leaves no trace.
SolvedGrids ==
    LET filled[i \in 0 .. CellCount] ==
            IF i = 0 THEN {Blank} ELSE UNION {FillCell(grid, i - 1) : grid \in filled[i - 1]}
    IN  filled[CellCount]

Empties(grid) == {i \in Indices : grid[i] = 0}

FindEmptyCell(grid) == CHOOSE i \in Empties(grid) : \A j \in Empties(grid) : i <= j

\* The loop over the digits for the first empty cell, with what `count' finds then.
CountDigits(grid, limit, count) ==
    LET cell == FindEmptyCell(grid)
        total[value \in 0 .. BOARD_SIZE] ==
            IF value = 0 THEN 0
            ELSE LET before == total[value - 1] IN
                 IF before >= limit \/ ~IsSafe(grid, cell, value) THEN before
                 ELSE before + count[[grid EXCEPT ![cell] = value]]
    IN  total[BOARD_SIZE]

\* The number of solutions, not counted further once there are `limit'.
CountSolutions(grid, limit) ==
    LET count[g \in Grids] == IF Empties(g) = {} THEN 1 ELSE CountDigits(g, limit, count)
    IN  count[grid]

-----------------------------------------------------------------------------
(* GenerateRandomPuzzle                                                     *)

CellsToRemove == CellCount - CluesToKeep

Done == positions = <<>> \/ removed >= CellsToRemove

Init == solution = Blank /\ puzzle = Blank /\ positions = <<>> /\ removed = 0

\* CreateNextPuzzle, of the constructor or of LiveMatch::StartNextRound.
CreateNextPuzzle ==
    /\ Done
    /\ solution' \in SolvedGrids
    /\ puzzle' = solution'
    /\ positions' \in Shuffles
    /\ removed' = 0

\* Mutant: the copy that is tested was taken before the cell was cleared.
RemoveCellTestedBefore ==
    /\ ~Done
    /\ positions' = Tail(positions)
    /\ IF CountSolutions(puzzle, 2) = 1
       THEN puzzle' = [puzzle EXCEPT ![Head(positions)] = 0] /\ removed' = removed + 1
       ELSE UNCHANGED <<puzzle, removed>>
    /\ UNCHANGED solution

\* Mutant: the first cell that has to stay ends the search.
RemoveCellUntilRefused ==
    LET cleared == [puzzle EXCEPT ![Head(positions)] = 0] IN
    /\ ~Done
    /\ IF CountSolutions(cleared, 2) = 1
       THEN puzzle' = cleared /\ removed' = removed + 1 /\ positions' = Tail(positions)
       ELSE positions' = <<>> /\ UNCHANGED <<puzzle, removed>>
    /\ UNCHANGED solution

RemoveCell ==
    LET cleared == [puzzle EXCEPT ![Head(positions)] = 0] IN
    /\ ~Done
    /\ positions' = Tail(positions)
    /\ IF CountSolutions(cleared, 2) = 1
       THEN puzzle' = cleared /\ removed' = removed + 1
       ELSE UNCHANGED <<puzzle, removed>>
    /\ UNCHANGED solution

Next == CreateNextPuzzle \/ RemoveCell

Spec == Init /\ [][Next]_vars

-----------------------------------------------------------------------------
(* Properties                                                               *)

\* The grids that obey the rules of the game, by their rows.
Lines == {line \in [1 .. BOARD_SIZE -> Values] : \A a, b \in DOMAIN line : a # b => line[a] # line[b]}

ProperGrids ==
    LET Grid(rows) == [i \in Indices |-> rows[Row(i) + 1][Col(i) + 1]]
        Proper(grid) == \A i, j \in Indices :
            i < j /\ (Col(i) = Col(j) \/ Box(i) = Box(j)) => grid[i] # grid[j]
    IN  {grid \in {Grid(rows) : rows \in [1 .. BOARD_SIZE -> Lines]} : Proper(grid)}

Solutions(grid) == {full \in ProperGrids : \A i \in Indices : grid[i] \in {0, full[i]}}

\* A puzzle that is handed out can be solved in one way, by the solution that
\* comes with it: the server compares every move with that solution, and a
\* second one would cost a player points for a digit that is not wrong.
OneSolution == solution # Blank => Solutions(puzzle) = {solution}

\* The search gives up too many clues for no reason but that none can go: it
\* clears the number of cells it is to clear, or each clue left is needed.
\* (A cell that had to stay is not tried again when others have gone.)
NoClueToSpare ==
    Done /\ solution # Blank =>
        /\ Cardinality(Empties(puzzle)) <= CellsToRemove
        /\ \/ Cardinality(Empties(puzzle)) = CellsToRemove
           \/ \A i \in Indices \ Empties(puzzle) :
                \E other \in Solutions([puzzle EXCEPT ![i] = 0]) : other # solution

=============================================================================
