-------------------------- MODULE BoardVaultProofs --------------------------
(***************************************************************************)
(* Theorems about the puzzles of BoardVault, for every size of board, every *)
(* number of clues to keep and every order of the cells: what the search    *)
(* counts is what the rules allow, so a puzzle has the solution it comes    *)
(* with and no other.                                                       *)
(***************************************************************************)
EXTENDS BoardVault, FiniteSetTheorems, WellFoundedInduction, TLAPS

-----------------------------------------------------------------------------
(* Induction along the cells and the digits                                 *)

\* A set of natural numbers has a least one.
LEMMA LeastNumber ==
    ASSUME NEW T \in SUBSET Nat, T # {}
    PROVE  \E m \in T : \A n \in T : m <= n
<1>1. PICK m \in T : \A n \in T : ~(<<n, m>> \in OpToRel(<, Nat))
  BY WFMin, NatLessThanWellFounded
<1>2. ASSUME NEW n \in T, n < m PROVE FALSE
  <2>1. <<n, m>> \in Nat \X Nat /\ <<n, m>>[1] < <<n, m>>[2]
    BY <1>2
  <2>2. <<n, m>> \in OpToRel(<, Nat)
    BY <2>1, Zenon DEF OpToRel
  <2> QED BY <1>1, <2>2
<1> QED
  BY <1>2

\* What holds of 0 and of the next number after each that it holds of, holds up to n.
LEMMA Climb ==
    ASSUME NEW n \in Nat, NEW Good, 0 \in Good,
           \A i \in 1..n : i - 1 \in Good => i \in Good
    PROVE  \A i \in 0..n : i \in Good
<1> DEFINE Bad == {i \in 0..n : i \notin Good}
<1> SUFFICES ASSUME Bad # {} PROVE FALSE
  OBVIOUS
<1>1. Bad \in SUBSET Nat
  OBVIOUS
<1>2. PICK m \in Bad : \A i \in Bad : m <= i
  <2> HIDE DEF Bad
  <2> QED BY <1>1, LeastNumber
<1>3. m \in 1..n /\ m - 1 \notin Bad /\ m - 1 \in 0..n
  BY <1>2
<1> QED
  BY <1>2, <1>3

-----------------------------------------------------------------------------
(* Rows and columns                                                         *)

LEMMA Sizes ==
    /\ BOX_SIZE \in Nat \ {0} /\ BOARD_SIZE \in Nat \ {0}
    /\ CellCount \in Nat \ {0} /\ CellCount = BOARD_SIZE * BOARD_SIZE
<1>1. BOX_SIZE \in Nat \ {0}
  BY SizesAssumption
<1>2. ASSUME NEW n \in Nat \ {0} PROVE n * n \in Nat \ {0}
  OBVIOUS
<1>3. BOARD_SIZE \in Nat \ {0}
  BY <1>1, <1>2 DEF BOARD_SIZE
<1> QED
  BY <1>1, <1>2, <1>3 DEF CellCount

LEMMA Division ==
    ASSUME NEW b \in Nat \ {0}, NEW c \in Nat, NEW x \in Nat, x < c * b
    PROVE  /\ x \div b \in 0..(c - 1) /\ x % b \in 0..(b - 1)
           /\ x = ((x \div b) * b) + (x % b)
<1> DEFINE q == x \div b
<1>1. q \in Nat /\ x % b \in 0..(b - 1) /\ x = (q * b) + (x % b)
  OBVIOUS
<1> HIDE DEF q
<1>2. ASSUME q >= c PROVE FALSE
  <2>1. q * b >= c * b
    BY <1>1, <1>2
  <2>2. q * b \in Nat /\ c * b \in Nat
    BY <1>1
  <2> QED BY <1>1, <2>1, <2>2
<1> QED
  BY <1>1, <1>2 DEF q

LEMMA RowAndColumn ==
    ASSUME NEW i \in Indices
    PROVE  /\ Row(i) \in 0..(BOARD_SIZE - 1) /\ Col(i) \in 0..(BOARD_SIZE - 1)
           /\ i = (Row(i) * BOARD_SIZE) + Col(i)
<1>1. i \in Nat /\ i < BOARD_SIZE * BOARD_SIZE
  BY Sizes DEF Indices
<1> QED
  BY <1>1, Sizes, Division DEF Row, Col

LEMMA CellAt ==
    ASSUME NEW r \in 0..(BOARD_SIZE - 1), NEW c \in 0..(BOARD_SIZE - 1)
    PROVE  /\ (r * BOARD_SIZE) + c \in Indices
           /\ Row((r * BOARD_SIZE) + c) = r /\ Col((r * BOARD_SIZE) + c) = c
<1> DEFINE b == BOARD_SIZE
           x == (r * b) + c
<1>1. b \in Nat \ {0} /\ r \in 0..(b - 1) /\ c \in 0..(b - 1) /\ r \in Nat /\ c \in Nat
  BY Sizes
<1>2. r * b <= (b - 1) * b /\ (b - 1) * b = (b * b) - b /\ r * b \in Nat
  <2> HIDE DEF b
  <2>1. r * b \in Nat /\ r <= b - 1
    BY <1>1
  <2>2. r * b <= (b - 1) * b
    BY <1>1, <2>1
  <2>3. (b - 1) * b = (b * b) - b
    BY <1>1
  <2> QED BY <2>1, <2>2, <2>3
<1>3. x \in Nat /\ x < b * b
  <2>1. b * b \in Nat
    BY Sizes
  <2> HIDE DEF b
  <2> QED BY <1>1, <1>2, <2>1
<1>4. x \in Indices
  BY <1>3, Sizes DEF Indices
<1>5. /\ x \div b \in 0..(b - 1) /\ x % b \in 0..(b - 1)
      /\ x = ((x \div b) * b) + (x % b)
  BY <1>1, <1>3, Division
<1>6. ASSUME NEW q \in Nat, NEW m \in 0..(b - 1), x = (q * b) + m
      PROVE  q = r /\ m = c
  <2> HIDE DEF b
  <2>0. q * b \in Nat /\ r * b \in Nat
    BY <1>1
  <2>1. CASE q > r
    <3>1. q * b >= (r + 1) * b /\ (r + 1) * b = (r * b) + b
      BY <1>1, <2>1
    <3> QED BY <1>1, <1>6, <2>0, <3>1
  <2>2. CASE q < r
    <3>1. r * b >= (q + 1) * b /\ (q + 1) * b = (q * b) + b
      BY <1>1, <2>2
    <3> QED BY <1>1, <1>6, <2>0, <3>1
  <2>3. CASE q = r
    BY <1>1, <1>6, <2>0, <2>3
  <2> QED BY <1>1, <2>1, <2>2, <2>3
<1>7. x \div b = r /\ x % b = c
  <2> DEFINE q == x \div b
             m == x % b
  <2>1. q \in Nat /\ m \in 0..(b - 1) /\ x = (q * b) + m
    BY <1>1, <1>5
  <2> HIDE DEF q, m, x, b
  <2>2. q = r /\ m = c
    BY <1>6, <2>1
  <2> QED BY <2>2 DEF q, m
<1> QED
  BY <1>4, <1>7 DEF Row, Col

\* Two cells of a row are in different columns.
LEMMA SameRow ==
    ASSUME NEW i \in Indices, NEW j \in Indices, i # j, Row(i) = Row(j)
    PROVE  Col(i) # Col(j)
  BY RowAndColumn

-----------------------------------------------------------------------------
(* The rules of the game                                                    *)

\* The cells that must not hold the same digit.
Peers(i, j) == Row(i) = Row(j) \/ Col(i) = Col(j) \/ Box(i) = Box(j)

Consistent(grid) ==
    /\ grid \in Grids
    /\ \A i, j \in Indices : i # j /\ Peers(i, j) /\ grid[i] # 0 => grid[i] # grid[j]

Filled(grid, i, value) == [grid EXCEPT ![i] = value]

LEMMA DigitsAre == Values \subseteq Nat \ {0} /\ Values \subseteq 0..BOARD_SIZE /\ 0 \in 0..BOARD_SIZE
                   /\ \A d \in 0..BOARD_SIZE : d # 0 => d \in Values
  BY Sizes DEF Values

\* The grids of the rules are those that are consistent and full.
LEMMA ProperGrid ==
    ASSUME NEW grid
    PROVE  grid \in ProperGrids <=> Consistent(grid) /\ Empties(grid) = {}
<1> DEFINE Grid(rows) == [i \in Indices |-> rows[Row(i) + 1][Col(i) + 1]]
           Proper(g) == \A i, j \in Indices :
                i < j /\ (Col(i) = Col(j) \/ Box(i) = Box(j)) => g[i] # g[j]
           Tables == [1 .. BOARD_SIZE -> Lines]
<1>1. ProperGrids = {g \in {Grid(rows) : rows \in Tables} : Proper(g)}
  BY DEF ProperGrids
<1>2. ASSUME NEW rows \in Tables, grid = Grid(rows), Proper(grid)
      PROVE  Consistent(grid) /\ Empties(grid) = {}
  <2>1. ASSUME NEW i \in Indices
        PROVE  /\ Row(i) + 1 \in 1 .. BOARD_SIZE /\ Col(i) + 1 \in 1 .. BOARD_SIZE
               /\ rows[Row(i) + 1] \in Lines
               /\ grid[i] = rows[Row(i) + 1][Col(i) + 1] /\ grid[i] \in Values
    <3>1. Row(i) + 1 \in 1 .. BOARD_SIZE /\ Col(i) + 1 \in 1 .. BOARD_SIZE
      BY RowAndColumn, Sizes
    <3>2. rows[Row(i) + 1] \in Lines
      BY <3>1
    <3>3. grid[i] = rows[Row(i) + 1][Col(i) + 1]
      BY <1>2
    <3> QED BY <3>1, <3>2, <3>3 DEF Lines
  <2>2. grid \in Grids
    BY <1>2, <2>1, DigitsAre DEF Grids
  <2>3. Empties(grid) = {}
    BY <2>1, DigitsAre DEF Empties
  <2>4. ASSUME NEW i \in Indices, NEW j \in Indices, i # j, Peers(i, j) PROVE grid[i] # grid[j]
    <3>1. CASE Row(i) = Row(j)
      <4>1. Col(i) # Col(j) /\ Col(i) \in Int /\ Col(j) \in Int
        BY <2>4, <3>1, SameRow, RowAndColumn
      <4> DEFINE line == rows[Row(i) + 1]
      <4>2. /\ line \in Lines /\ grid[i] = line[Col(i) + 1] /\ grid[j] = line[Col(j) + 1]
            /\ Col(i) + 1 \in 1 .. BOARD_SIZE /\ Col(j) + 1 \in 1 .. BOARD_SIZE
        BY <2>1, <3>1
      <4> HIDE DEF line
      <4>3. line[Col(i) + 1] # line[Col(j) + 1]
        BY <4>1, <4>2 DEF Lines
      <4> QED BY <4>2, <4>3
    <3>2. CASE Row(i) # Row(j)
      <4>1. Col(i) = Col(j) \/ Box(i) = Box(j)
        BY <2>4, <3>2 DEF Peers
      <4>2. i < j \/ j < i
        BY <2>4 DEF Indices
      <4> QED BY <1>2, <4>1, <4>2
    <3> QED BY <3>1, <3>2
  <2> QED BY <2>2, <2>3, <2>4 DEF Consistent
<1>3. ASSUME Consistent(grid), Empties(grid) = {}
      PROVE  \E rows \in Tables : grid = Grid(rows) /\ Proper(grid)
  <2> DEFINE At(r, c) == grid[((r - 1) * BOARD_SIZE) + (c - 1)]
             rows == [r \in 1 .. BOARD_SIZE |-> [c \in 1 .. BOARD_SIZE |-> At(r, c)]]
  <2>1. \A i \in Indices : grid[i] \in Values
    BY <1>3, DigitsAre DEF Consistent, Empties, Grids
  <2>2. ASSUME NEW r \in 1 .. BOARD_SIZE, NEW c \in 1 .. BOARD_SIZE
        PROVE  /\ ((r - 1) * BOARD_SIZE) + (c - 1) \in Indices
               /\ Row(((r - 1) * BOARD_SIZE) + (c - 1)) = r - 1
               /\ Col(((r - 1) * BOARD_SIZE) + (c - 1)) = c - 1
    <3>1. r - 1 \in 0 .. (BOARD_SIZE - 1) /\ c - 1 \in 0 .. (BOARD_SIZE - 1)
      BY Sizes
    <3> QED BY <3>1, CellAt
  <2>3. \A r, c \in 1 .. BOARD_SIZE : At(r, c) \in Values
    BY <2>1, <2>2
  <2>4. \A r \in 1 .. BOARD_SIZE : \A c, d \in 1 .. BOARD_SIZE : c # d => At(r, c) # At(r, d)
    <3> SUFFICES ASSUME NEW r \in 1 .. BOARD_SIZE, NEW c \in 1 .. BOARD_SIZE,
                        NEW d \in 1 .. BOARD_SIZE, c # d
                 PROVE  At(r, c) # At(r, d)
      OBVIOUS
    <3> DEFINE i == ((r - 1) * BOARD_SIZE) + (c - 1)
               j == ((r - 1) * BOARD_SIZE) + (d - 1)
    <3>1. i \in Indices /\ Row(i) = r - 1 /\ Col(i) = c - 1
      BY <2>2
    <3>2. j \in Indices /\ Row(j) = r - 1 /\ Col(j) = d - 1
      BY <2>2
    <3> HIDE DEF i, j
    <3>3. i # j
      <4>1. c - 1 # d - 1
        OBVIOUS
      <4> QED BY <3>1, <3>2, <4>1
    <3>4. grid[i] # grid[j]
      <4>1. grid[i] # 0
        BY <2>1, <3>1, DigitsAre
      <4> QED BY <1>3, <3>1, <3>2, <3>3, <4>1 DEF Consistent, Peers
    <3> QED BY <3>4 DEF i, j
  <2> HIDE DEF At
  <2>5. ASSUME NEW r \in 1 .. BOARD_SIZE PROVE rows[r] \in Lines
    <3>1. rows[r] = [c \in 1 .. BOARD_SIZE |-> At(r, c)]
      OBVIOUS
    <3>2. rows[r] \in [1 .. BOARD_SIZE -> Values]
      BY <2>3, <3>1
    <3>3. \A c, d \in 1 .. BOARD_SIZE : c # d => rows[r][c] # rows[r][d]
      BY <2>4, <3>1
    <3>4. DOMAIN rows[r] = 1 .. BOARD_SIZE
      BY <3>1
    <3> HIDE DEF rows
    <3> QED BY <3>2, <3>3, <3>4 DEF Lines
  <2>6. rows \in Tables
    <3>1. rows = [r \in 1 .. BOARD_SIZE |-> rows[r]]
      OBVIOUS
    <3> HIDE DEF rows
    <3> QED BY <2>5, <3>1
  <2>7. ASSUME NEW i \in Indices PROVE rows[Row(i) + 1][Col(i) + 1] = grid[i]
    <3>1. Row(i) + 1 \in 1 .. BOARD_SIZE /\ Col(i) + 1 \in 1 .. BOARD_SIZE
      BY RowAndColumn, Sizes
    <3>2. rows[Row(i) + 1][Col(i) + 1] = At(Row(i) + 1, Col(i) + 1)
      BY <3>1
    <3>3. (Row(i) + 1) - 1 = Row(i) /\ (Col(i) + 1) - 1 = Col(i)
      BY RowAndColumn
    <3>4. (((Row(i) + 1) - 1) * BOARD_SIZE) + ((Col(i) + 1) - 1) = i
      BY <3>3, RowAndColumn
    <3> QED BY <3>2, <3>4 DEF At
  <2> HIDE DEF rows
  <2>8. grid = Grid(rows)
    <3>1. grid \in [Indices -> 0..BOARD_SIZE]
      BY <1>3 DEF Consistent, Grids
    <3> QED BY <2>7, <3>1
  <2>9. Proper(grid)
    <3>1. \A i, j \in Indices : i < j => i # j
      BY DEF Indices
    <3>2. \A i \in Indices : grid[i] # 0
      BY <2>1, DigitsAre
    <3> QED BY <1>3, <3>1, <3>2 DEF Consistent, Peers
  <2> QED BY <2>6, <2>8, <2>9
<1>4. grid \in ProperGrids => Consistent(grid) /\ Empties(grid) = {}
  <2> HIDE DEF Grid, Proper, Tables
  <2> QED BY <1>1, <1>2
<1>5. Consistent(grid) /\ Empties(grid) = {} => grid \in ProperGrids
  <2> HIDE DEF Grid, Proper, Tables
  <2> QED BY <1>1, <1>3
<1> QED
  BY <1>4, <1>5

\* What IsSafe tests is that the digit leaves the grid consistent.
LEMMA SafeDigit ==
    ASSUME NEW grid, Consistent(grid), NEW i \in Empties(grid), NEW value \in Values
    PROVE  /\ Filled(grid, i, value) \in Grids
           /\ IsSafe(grid, i, value) <=> Consistent(Filled(grid, i, value))
<1> DEFINE new == Filled(grid, i, value)
<1>1. grid \in [Indices -> 0..BOARD_SIZE] /\ i \in Indices /\ grid[i] = 0
      /\ value # 0 /\ value \in 0..BOARD_SIZE
  BY DigitsAre DEF Consistent, Grids, Empties
<1>2. new \in Grids /\ new[i] = value /\ \A j \in Indices \ {i} : new[j] = grid[j]
  BY <1>1 DEF Grids, Filled
<1> HIDE DEF new
<1>3. ASSUME IsSafe(grid, i, value) PROVE Consistent(new)
  <2>1. \A j \in Indices : grid[j] = value => ~Peers(i, j) /\ ~Peers(j, i)
    BY <1>3 DEF IsSafe, Peers
  <2> QED BY <1>1, <1>2, <2>1 DEF Consistent
<1>4. ASSUME Consistent(new) PROVE IsSafe(grid, i, value)
  <2>1. ASSUME NEW j \in Indices, grid[j] = value PROVE ~Peers(i, j)
    BY <1>1, <1>2, <1>4, <2>1 DEF Consistent
  <2> QED BY <2>1 DEF IsSafe, Peers
<1> QED
  BY <1>2, <1>3, <1>4 DEF new

-----------------------------------------------------------------------------
(* How many solutions there are                                             *)

\* n is the size of S, as far as one and more than one are concerned.
Amount(n, S) ==
    /\ n \in Nat
    /\ n = 0 <=> S = {}
    /\ n = 1 <=> \E s : S = {s}

LEMMA AmountsAdd ==
    ASSUME NEW S, NEW T, S \cap T = {}, NEW m, NEW n, Amount(m, S), Amount(n, T)
    PROVE  Amount(m + n, S \cup T)
<1>1. m \in Nat /\ n \in Nat /\ m + n \in Nat
  BY DEF Amount
<1>2. m + n = 0 <=> S \cup T = {}
  BY <1>1 DEF Amount
<1>3. ASSUME m + n = 1 PROVE \E s : S \cup T = {s}
  <2>1. (m = 1 /\ n = 0) \/ (m = 0 /\ n = 1)
    BY <1>1, <1>3
  <2> QED BY <2>1 DEF Amount
<1>4. ASSUME NEW s, S \cup T = {s} PROVE m + n = 1
  <2>1. S \subseteq {s} /\ T \subseteq {s} /\ (s \in S \/ s \in T) /\ ~(s \in S /\ s \in T)
    BY <1>4
  <2>2. (S = {s} /\ T = {}) \/ (S = {} /\ T = {s})
    <3>1. CASE s \in S
      BY <2>1, <3>1
    <3>2. CASE s \notin S
      BY <2>1, <3>2
    <3> QED BY <3>1, <3>2
  <2>3. (m = 1 /\ n = 0) \/ (m = 0 /\ n = 1)
    BY <2>2 DEF Amount
  <2> QED BY <2>3
<1> QED
  BY <1>1, <1>2, <1>3, <1>4 DEF Amount

\* More solutions do not make two fewer.
LEMMA AmountEnough ==
    ASSUME NEW S, NEW T, S \subseteq T, NEW n \in Nat, n >= 2, Amount(n, S)
    PROVE  Amount(n, T)
<1>1. S # {} /\ ~\E s : S = {s}
  BY DEF Amount
<1>2. PICK s \in S : TRUE
  BY <1>1
<1>3. PICK r \in S : r # s
  BY <1>1
<1> QED
  BY <1>2, <1>3 DEF Amount

\* The solutions of a grid that are filled up to a digit.
Below(grid, i, value) == {full \in Solutions(grid) : full[i] <= value}

LEMMA SolutionsAre ==
    ASSUME NEW grid, NEW full
    PROVE  full \in Solutions(grid) <=>
                /\ Consistent(full) /\ \A i \in Indices : full[i] \in Values
                /\ \A i \in Indices : grid[i] \in {0, full[i]}
<1>1. Consistent(full) => (Empties(full) = {} <=> \A i \in Indices : full[i] \in Values)
  BY DigitsAre DEF Consistent, Grids, Empties
<1> QED
  BY <1>1, ProperGrid DEF Solutions

LEMMA SolutionIsGrid ==
    ASSUME NEW grid, NEW full \in Solutions(grid)
    PROVE  full \in [Indices -> 0..BOARD_SIZE]
  BY SolutionsAre DEF Consistent, Grids

\* A grid that is full is its own solution.
LEMMA FullGrid ==
    ASSUME NEW grid, Consistent(grid), Empties(grid) = {}
    PROVE  Solutions(grid) = {grid}
<1>1. grid \in [Indices -> 0..BOARD_SIZE] /\ \A i \in Indices : grid[i] \in Values
  BY DigitsAre DEF Consistent, Grids, Empties
<1>2. grid \in Solutions(grid)
  BY <1>1, SolutionsAre
<1>3. ASSUME NEW full \in Solutions(grid) PROVE full = grid
  <2>1. full \in [Indices -> 0..BOARD_SIZE]
    BY SolutionIsGrid
  <2>2. \A i \in Indices : full[i] = grid[i]
    BY <1>1, SolutionsAre, DigitsAre
  <2> QED BY <1>1, <2>1, <2>2
<1> QED
  BY <1>2, <1>3

\* What a digit in an empty cell makes of the solutions.
LEMMA SolutionsFilled ==
    ASSUME NEW grid \in Grids, NEW i \in Empties(grid), NEW value \in Values
    PROVE  Solutions(Filled(grid, i, value)) = {full \in Solutions(grid) : full[i] = value}
<1> DEFINE new == Filled(grid, i, value)
<1>1. i \in Indices /\ grid[i] = 0 /\ new[i] = value /\ \A j \in Indices \ {i} : new[j] = grid[j]
  BY DEF Grids, Empties, Filled
<1> HIDE DEF new
<1>2. value # 0
  BY DigitsAre
<1>3. ASSUME NEW full
      PROVE  full \in Solutions(new) <=> full \in Solutions(grid) /\ full[i] = value
  <2>1. (\A j \in Indices : new[j] \in {0, full[j]})
            <=> (\A j \in Indices : grid[j] \in {0, full[j]}) /\ full[i] = value
    <3>1. new[i] \in {0, full[i]} <=> full[i] = value
      BY <1>1, <1>2
    <3>2. grid[i] \in {0, full[i]}
      BY <1>1
    <3> QED BY <1>1, <3>1, <3>2
  <2> QED BY <2>1, SolutionsAre
<1>4. Solutions(new) = {full \in Solutions(grid) : full[i] = value}
  BY <1>3
<1> QED
  BY <1>4 DEF new

\* A digit that is not safe leads to no solution.
LEMMA UnsafeDigit ==
    ASSUME NEW grid, Consistent(grid), NEW i \in Empties(grid), NEW value \in Values,
           ~IsSafe(grid, i, value)
    PROVE  Solutions(Filled(grid, i, value)) = {}
<1> DEFINE new == Filled(grid, i, value)
<1>1. new \in Grids /\ ~Consistent(new)
  BY SafeDigit
<1> HIDE DEF new
<1>2. PICK j \in Indices, k \in Indices : j # k /\ Peers(j, k) /\ new[j] # 0 /\ new[j] = new[k]
  BY <1>1 DEF Consistent
<1>3. ASSUME NEW full \in Solutions(new) PROVE FALSE
  <2>1. Consistent(full) /\ full[j] \in Values /\ full[k] \in Values
        /\ new[j] \in {0, full[j]} /\ new[k] \in {0, full[k]}
    BY SolutionsAre
  <2>2. full[j] = full[k] /\ full[j] # 0
    BY <1>2, <2>1
  <2> QED BY <1>2, <2>1, <2>2 DEF Consistent
<1>4. Solutions(new) = {}
  BY <1>3
<1> QED
  BY <1>4 DEF new

LEMMA BelowNext ==
    ASSUME NEW grid \in Grids, NEW i \in Empties(grid), NEW value \in Values
    PROVE  /\ Below(grid, i, value - 1) \cap Solutions(Filled(grid, i, value)) = {}
           /\ Below(grid, i, value)
                = Below(grid, i, value - 1) \cup Solutions(Filled(grid, i, value))
<1>1. \A full \in Solutions(grid) : full[i] \in Nat
  <2>1. i \in Indices
    BY DEF Empties
  <2> QED BY <2>1, SolutionsAre, DigitsAre
<1>2. value \in Nat
  BY DigitsAre
<1>3. Solutions(Filled(grid, i, value)) = {full \in Solutions(grid) : full[i] = value}
  BY SolutionsFilled
<1>4. \A d \in Nat : (d <= value <=> d <= value - 1 \/ d = value) /\ ~(value <= value - 1)
  BY <1>2
<1> QED
  BY <1>1, <1>3, <1>4 DEF Below

LEMMA BelowEnds ==
    ASSUME NEW grid \in Grids, NEW i \in Empties(grid)
    PROVE  Below(grid, i, 0) = {} /\ Below(grid, i, BOARD_SIZE) = Solutions(grid)
<1>1. \A full \in Solutions(grid) : full[i] \in 1..BOARD_SIZE
  <2>1. i \in Indices
    BY DEF Empties
  <2> QED BY <2>1, SolutionsAre DEF Values
<1>2. \A d \in 1..BOARD_SIZE : ~(d <= 0) /\ d <= BOARD_SIZE
  BY Sizes
<1> QED
  BY <1>1, <1>2 DEF Below

-----------------------------------------------------------------------------
(* Filling                                                                  *)

LEMMA EmptiesFinite ==
    ASSUME NEW grid
    PROVE  /\ IsFiniteSet(Empties(grid)) /\ Cardinality(Empties(grid)) \in Nat
           /\ Cardinality(Empties(grid)) <= CellCount
           /\ Cardinality(Empties(grid)) = 0 <=> Empties(grid) = {}
<1>1. IsFiniteSet(Indices) /\ Cardinality(Indices) = CellCount
  <2>1. CellCount - 1 \in Int /\ 0 \in Int /\ CellCount - 1 >= 0 /\ (CellCount - 1) - 0 + 1 = CellCount
    BY Sizes
  <2> QED BY <2>1, FS_Interval DEF Indices
<1>2. Empties(grid) \subseteq Indices
  BY DEF Empties
<1>3. IsFiniteSet(Empties(grid)) /\ Cardinality(Empties(grid)) <= CellCount
  BY <1>1, <1>2, FS_Subset
<1>4. Cardinality(Empties(grid)) \in Nat
  BY <1>3, FS_CardinalityType
<1>5. Cardinality(Empties(grid)) = 0 <=> Empties(grid) = {}
  BY <1>3, FS_EmptySet
<1> QED
  BY <1>3, <1>4, <1>5

\* Clearing or filling a cell moves it in or out of the empty ones.
LEMMA EmptiesFilled ==
    ASSUME NEW grid \in Grids, NEW i \in Empties(grid), NEW value \in Values
    PROVE  /\ Empties(Filled(grid, i, value)) = Empties(grid) \ {i}
           /\ Cardinality(Empties(Filled(grid, i, value))) = Cardinality(Empties(grid)) - 1
<1>1. Empties(Filled(grid, i, value)) = Empties(grid) \ {i}
  BY DigitsAre DEF Empties, Filled, Grids
<1> QED
  BY <1>1, EmptiesFinite, FS_RemoveElement

LEMMA FirstEmptyCell ==
    ASSUME NEW grid, Empties(grid) # {}
    PROVE  FindEmptyCell(grid) \in Empties(grid)
<1>1. Empties(grid) \in SUBSET Nat
  BY DEF Empties, Indices
<1>2. \E i \in Empties(grid) : \A j \in Empties(grid) : i <= j
  BY <1>1, LeastNumber
<1> QED
  BY <1>2 DEF FindEmptyCell

\* A grid filled up to cell n.
FilledTo(grid, n) == Consistent(grid) /\ \A j \in Indices : grid[j] = 0 <=> j >= n

LEMMA BlankGrid == Blank \in Grids /\ Consistent(Blank) /\ Empties(Blank) = Indices /\ FilledTo(Blank, 0)
<1>1. Blank \in Grids /\ \A j \in Indices : Blank[j] = 0 /\ j >= 0
  BY DigitsAre DEF Blank, Grids, Indices
<1> QED
  BY <1>1 DEF Consistent, Empties, FilledTo

LEMMA FillNext ==
    ASSUME NEW n \in 1..CellCount, NEW grid
    PROVE  FilledTo(grid, n) <=> \E before : FilledTo(before, n - 1) /\ grid \in FillCell(before, n - 1)
<1> DEFINE i == n - 1
<1>1. i \in Indices /\ \A j \in Indices : j \in Int /\ (j >= i <=> j = i \/ j >= n) /\ ~(i >= n)
  BY Sizes DEF Indices
<1> HIDE DEF i
<1>2. ASSUME FilledTo(grid, n)
      PROVE  \E before : FilledTo(before, i) /\ grid \in FillCell(before, i)
  <2> DEFINE before == Filled(grid, i, 0)
             value == grid[i]
  <2>1. Consistent(grid) /\ grid \in [Indices -> 0..BOARD_SIZE] /\ value \in Values
    BY <1>1, <1>2, DigitsAre DEF FilledTo, Consistent, Grids
  <2>2. /\ before \in [Indices -> 0..BOARD_SIZE] /\ before[i] = 0
        /\ \A j \in Indices \ {i} : before[j] = grid[j]
    BY <1>1, <2>1, DigitsAre DEF Filled
  <2>3. grid = Filled(before, i, value)
    BY <2>1, <2>2 DEF Filled
  <2> HIDE DEF before, value
  <2>4. Consistent(before)
    BY <2>1, <2>2 DEF Consistent, Grids
  <2>5. i \in Empties(before)
    BY <1>1, <2>2 DEF Empties
  <2>6. IsSafe(before, i, value)
    BY <2>1, <2>3, <2>4, <2>5, SafeDigit
  <2>7. FilledTo(before, i)
    BY <1>1, <1>2, <2>2, <2>4 DEF FilledTo
  <2> QED BY <2>1, <2>3, <2>6, <2>7 DEF FillCell, Filled
<1>3. ASSUME NEW before, FilledTo(before, i), grid \in FillCell(before, i)
      PROVE  FilledTo(grid, n)
  <2>1. PICK value \in Values : IsSafe(before, i, value) /\ grid = Filled(before, i, value)
    BY <1>3 DEF FillCell, Filled
  <2>2. Consistent(before) /\ i \in Empties(before)
    BY <1>1, <1>3 DEF FilledTo, Empties
  <2>3. Consistent(grid)
    BY <2>1, <2>2, SafeDigit
  <2>4. grid[i] = value /\ value # 0 /\ \A j \in Indices \ {i} : grid[j] = before[j]
    BY <1>1, <2>1, <2>2, DigitsAre DEF Filled, Consistent, Grids
  <2> QED BY <1>1, <1>3, <2>3, <2>4 DEF FilledTo
<1> QED
  BY <1>2, <1>3 DEF i

\* The cells filled one after the other.
Fills(f, n) ==
    /\ f[0] = {Blank}
    /\ \A i \in 1..n : f[i] = UNION {FillCell(grid, i - 1) : grid \in f[i - 1]}

LEMMA FilledGrids ==
    ASSUME NEW n \in 0..CellCount, NEW f, Fills(f, n), NEW grid
    PROVE  grid \in f[n] <=> FilledTo(grid, n)
<1> DEFINE Good == {i \in 0..n : \A g : g \in f[i] <=> FilledTo(g, i)}
<1>1. 0 \in Good
  <2>1. ASSUME NEW g, FilledTo(g, 0) PROVE g = Blank
    BY <2>1 DEF FilledTo, Consistent, Grids, Blank, Indices
  <2>2. \A g : g \in f[0] <=> g = Blank
    BY DEF Fills
  <2>3. 0 \in 0..n
    BY Sizes
  <2> QED BY <2>1, <2>2, <2>3, BlankGrid
<1>2. ASSUME NEW i \in 1..n, i - 1 \in Good PROVE i \in Good
  <2>1. \A g : g \in f[i - 1] <=> FilledTo(g, i - 1)
    BY <1>2
  <2>2. i \in 1..CellCount /\ i \in 0..n
    BY Sizes
  <2>3. f[i] = UNION {FillCell(before, i - 1) : before \in f[i - 1]}
    BY DEF Fills
  <2>4. ASSUME NEW g PROVE g \in f[i] <=> FilledTo(g, i)
    <3>1. FilledTo(g, i) <=> \E before : FilledTo(before, i - 1) /\ g \in FillCell(before, i - 1)
      BY <2>2, FillNext
    <3>2. g \in f[i] <=> \E before \in f[i - 1] : g \in FillCell(before, i - 1)
      BY <2>3
    <3> QED BY <2>1, <3>1, <3>2
  <2> QED BY <2>2, <2>4
<1>3. \A i \in 0..n : i \in Good
  <2>1. n \in Nat
    BY Sizes
  <2> HIDE DEF Good
  <2> QED BY <1>1, <1>2, <2>1, Climb
<1>4. n \in 0..n
  BY Sizes
<1> QED
  BY <1>3, <1>4

-----------------------------------------------------------------------------
(* Recursive functions                                                      *)

\* From start, one step after the other.
Steps(f, n, start, step) == f[0] = start /\ \A i \in 1..n : f[i] = step[i][f[i - 1]]

LEMMA StepsExist ==
    ASSUME NEW n \in Nat, NEW D, NEW start \in D, NEW step \in [1..n -> [D -> D]]
    PROVE  \E f \in [0..n -> D] : Steps(f, n, start, step)
<1> DEFINE Good == {k \in 0..n : \E f \in [0..n -> D] : Steps(f, k, start, step)}
<1>1. 0 \in Good
  <2> DEFINE f == [i \in 0..n |-> start]
  <2>1. f \in [0..n -> D] /\ Steps(f, 0, start, step)
    BY DEF Steps
  <2> HIDE DEF f
  <2> QED BY <2>1
<1>2. ASSUME NEW k \in 1..n, k - 1 \in Good PROVE k \in Good
  <2>1. PICK f \in [0..n -> D] : Steps(f, k - 1, start, step)
    BY <1>2
  <2> DEFINE new == step[k][f[k - 1]]
             g == [f EXCEPT ![k] = new]
  <2>2. new \in D /\ k \in 0..n
    <3>1. k - 1 \in 0..n
      OBVIOUS
    <3>2. f[k - 1] \in D /\ step[k] \in [D -> D]
      BY <3>1
    <3> QED BY <3>2
  <2> HIDE DEF new
  <2>3. g \in [0..n -> D] /\ g[k] = new /\ \A i \in 0..(k - 1) : g[i] = f[i]
    BY <2>2
  <2> HIDE DEF g
  <2>4. g[0] = start
    <3>1. 0 \in 0..(k - 1)
      OBVIOUS
    <3> QED BY <2>1, <2>3, <3>1 DEF Steps
  <2>5. ASSUME NEW i \in 1..k PROVE g[i] = step[i][g[i - 1]]
    <3>1. i - 1 \in 0..(k - 1) /\ (i = k \/ i \in 1..(k - 1)) /\ (i # k => i \in 0..(k - 1))
      OBVIOUS
    <3>2. CASE i = k
      BY <2>3, <3>1, <3>2 DEF new
    <3>3. CASE i # k
      BY <2>1, <2>3, <3>1, <3>3 DEF Steps
    <3> QED BY <3>2, <3>3
  <2>6. Steps(g, k, start, step)
    BY <2>4, <2>5 DEF Steps
  <2> QED BY <2>2, <2>3, <2>6
<1>3. n \in Good
  <2> HIDE DEF Good
  <2>1. \A k \in 0..n : k \in Good
    BY <1>1, <1>2, Climb
  <2> QED BY <2>1
<1> QED
  BY <1>3

\* What a recursive definition chooses.
LEMMA FillsExist == \E f : Fills(f, CellCount) /\ SolvedGrids = f[CellCount]
<1> DEFINE n == CellCount
           D == SUBSET Grids
           After(i, grids) == UNION {FillCell(grid, i - 1) : grid \in grids}
           step == [i \in 1..n |-> [grids \in D |-> After(i, grids)]]
           start == {Blank}
           Step(f, i) == IF i = 0 THEN start ELSE After(i, f[i - 1])
           Runs(f) == f = [i \in 0..n |-> Step(f, i)]
           h == CHOOSE f : Runs(f)
<1>1. n \in Nat
  BY Sizes
<1>2. start \in D
  BY BlankGrid
<1>3. ASSUME NEW i \in 1..n, NEW grids \in D PROVE After(i, grids) \in D
  <2>1. ASSUME NEW grid \in Grids, NEW new \in FillCell(grid, i - 1) PROVE new \in Grids
    BY DigitsAre DEF FillCell, Grids
  <2> QED BY <2>1
<1> HIDE DEF n, start
<1>4. step \in [1..n -> [D -> D]]
  <2>1. ASSUME NEW i \in 1..n PROVE [grids \in D |-> After(i, grids)] \in [D -> D]
    <3> HIDE DEF After, D
    <3> QED BY <1>3
  <2> HIDE DEF After, D
  <2> QED BY <2>1
<1>5. PICK f \in [0..n -> D] : Steps(f, n, start, step)
  <2> HIDE DEF step, D
  <2> QED BY <1>1, <1>2, <1>4, StepsExist
<1>6. Runs(f)
  <2>1. \A i \in 1..n : i - 1 \in 0..n /\ i \in 0..n /\ i # 0
    BY <1>1
  <2>2. ASSUME NEW i \in 1..n PROVE f[i] = After(i, f[i - 1])
    <3>1. f[i - 1] \in D
      BY <2>1
    <3>2. step[i] = [grids \in D |-> After(i, grids)]
      OBVIOUS
    <3>3. f[i] = step[i][f[i - 1]]
      BY <1>5 DEF Steps
    <3> HIDE DEF step, D, After
    <3> QED BY <3>1, <3>2, <3>3
  <2>3. f[0] = start
    BY <1>5 DEF Steps
  <2> HIDE DEF step, After, D
  <2>4. \A i \in 0..n : f[i] = Step(f, i)
    <3>1. \A i \in 0..n : i = 0 \/ i \in 1..n
      BY <1>1
    <3> QED BY <2>1, <2>2, <2>3, <3>1
  <2> HIDE DEF Step
  <2> QED BY <2>4
<1>7. Runs(h)
  <2> HIDE DEF Runs
  <2> QED BY <1>6
<1>8. SolvedGrids = h[n]
  BY Zenon DEF SolvedGrids, n, start
<1> HIDE DEF h
<1>9. \A i \in 0..n : h[i] = Step(h, i)
  <2> HIDE DEF Step
  <2> QED BY <1>7
<1>10. Fills(h, n)
  <2>1. 0 \in 0..n /\ \A i \in 1..n : i \in 0..n /\ i # 0
    BY <1>1
  <2>2. h[0] = start /\ \A i \in 1..n : h[i] = After(i, h[i - 1])
    <3> HIDE DEF After
    <3> QED BY <1>9, <2>1
  <2> QED BY <2>2 DEF Fills, start
<1> QED
  BY <1>8, <1>10 DEF n

\* The grids that the random filling can end with are those that the rules allow:
\* all of them, whatever the shuffles, and no other.
THEOREM EveryProperGridCanComeUp == SolvedGrids = ProperGrids
<1>1. PICK f : Fills(f, CellCount) /\ SolvedGrids = f[CellCount]
  BY FillsExist
<1>2. ASSUME NEW grid PROVE grid \in SolvedGrids <=> grid \in ProperGrids
  <2>1. CellCount \in 0..CellCount /\ \A j \in Indices : ~(j >= CellCount)
    BY Sizes DEF Indices
  <2>2. grid \in SolvedGrids <=> FilledTo(grid, CellCount)
    BY <1>1, <2>1, FilledGrids
  <2>3. FilledTo(grid, CellCount) <=> Consistent(grid) /\ Empties(grid) = {}
    BY <2>1 DEF FilledTo, Empties
  <2> QED BY <2>2, <2>3, ProperGrid
<1> QED
  BY <1>2

-----------------------------------------------------------------------------
(* Counting                                                                 *)

\* The total after a digit.
DigitCounted(grid, limit, count, value, before) ==
    IF before >= limit \/ ~IsSafe(grid, FindEmptyCell(grid), value) THEN before
    ELSE before + count[Filled(grid, FindEmptyCell(grid), value)]

\* The loop over the digits.
Loop(f, grid, limit, count) ==
    /\ f[0] = 0
    /\ \A v \in 1..BOARD_SIZE :
            f[v - 1] \in Nat /\ f[v] = DigitCounted(grid, limit, count, v, f[v - 1])
    /\ f[BOARD_SIZE] \in Nat
    /\ CountDigits(grid, limit, count) = f[BOARD_SIZE]

\* What is found for the digits that are tried is a number.
Countable(grid, count) ==
    \A v \in Values : IsSafe(grid, FindEmptyCell(grid), v)
                        => count[Filled(grid, FindEmptyCell(grid), v)] \in Nat

LEMMA LoopExists ==
    ASSUME NEW grid, NEW limit \in Nat, NEW count, Countable(grid, count)
    PROVE  \E f : Loop(f, grid, limit, count)
<1> DEFINE n == BOARD_SIZE
           cell == FindEmptyCell(grid)
           After(v, before) == DigitCounted(grid, limit, count, v, before)
           step == [v \in 1..n |-> [before \in Nat |-> After(v, before)]]
           Step(f, v) == IF v = 0 THEN 0
                         ELSE LET before == f[v - 1] IN
                              IF before >= limit \/ ~IsSafe(grid, cell, v) THEN before
                              ELSE before + count[[grid EXCEPT ![cell] = v]]
           Runs(f) == f = [v \in 0..n |-> Step(f, v)]
           h == CHOOSE f : Runs(f)
<1>1. n \in Nat /\ Values = 1..n
  BY Sizes DEF Values
<1>2. ASSUME NEW v \in 1..n, NEW before \in Nat PROVE After(v, before) \in Nat
  <2>1. CASE before >= limit \/ ~IsSafe(grid, cell, v)
    BY <2>1 DEF DigitCounted
  <2>2. CASE ~(before >= limit \/ ~IsSafe(grid, cell, v))
    <3>1. count[Filled(grid, cell, v)] \in Nat
      BY <1>1, <2>2 DEF Countable
    <3> QED BY <2>2, <3>1 DEF DigitCounted
  <2> QED BY <2>1, <2>2
<1>3. \A f, v : Step(f, v) = IF v = 0 THEN 0 ELSE After(v, f[v - 1])
  BY DEF DigitCounted, Filled
<1>4. step \in [1..n -> [Nat -> Nat]]
  <2>1. ASSUME NEW v \in 1..n PROVE [before \in Nat |-> After(v, before)] \in [Nat -> Nat]
    <3> HIDE DEF After
    <3> QED BY <1>2
  <2> HIDE DEF After
  <2> QED BY <2>1
<1>5. CountDigits(grid, limit, count) = h[n]
  BY Zenon DEF CountDigits
<1> HIDE DEF n, Step
<1>6. PICK f \in [0..n -> Nat] : Steps(f, n, 0, step)
  <2> HIDE DEF step
  <2> QED BY <1>1, <1>4, StepsExist
<1>7. \A v \in 1..n : v - 1 \in 0..n /\ v \in 0..n /\ v # 0
  BY <1>1
<1>8. 0 \in 0..n /\ n \in 0..n
  BY <1>1
<1>9. Runs(f)
  <2>1. ASSUME NEW v \in 1..n PROVE f[v] = After(v, f[v - 1])
    <3>1. f[v - 1] \in Nat
      BY <1>7
    <3>2. step[v] = [before \in Nat |-> After(v, before)]
      OBVIOUS
    <3>3. f[v] = step[v][f[v - 1]]
      BY <1>6 DEF Steps
    <3> HIDE DEF step, After
    <3> QED BY <3>1, <3>2, <3>3
  <2>2. f[0] = 0
    BY <1>6 DEF Steps
  <2> HIDE DEF step, After
  <2>3. \A v \in 0..n : f[v] = Step(f, v)
    <3>1. \A v \in 0..n : v = 0 \/ v \in 1..n
      BY <1>1
    <3> QED BY <1>3, <1>7, <2>1, <2>2, <3>1
  <2> QED BY <2>3
<1>10. Runs(h)
  <2> HIDE DEF Runs
  <2> QED BY <1>9
<1> HIDE DEF h
<1>11. \A v \in 0..n : h[v] = Step(h, v)
  BY <1>10
<1> HIDE DEF After
<1>12. h[0] = 0 /\ \A v \in 1..n : h[v] = After(v, h[v - 1])
  BY <1>3, <1>7, <1>8, <1>11
<1> DEFINE Good == {v \in 0..n : h[v] \in Nat}
<1>13. 0 \in Good
  BY <1>8, <1>12
<1>14. ASSUME NEW v \in 1..n, v - 1 \in Good PROVE v \in Good
  <2>1. h[v - 1] \in Nat
    BY <1>14
  <2>2. h[v] \in Nat
    BY <1>2, <1>12, <2>1
  <2> QED BY <1>7, <2>2
<1>15. \A v \in 0..n : v \in Good
  <2> HIDE DEF Good
  <2> QED BY <1>1, <1>13, <1>14, Climb
<1>16. Loop(h, grid, limit, count)
  BY <1>5, <1>7, <1>8, <1>12, <1>15 DEF Loop, After, n
<1> QED
  BY <1>16

\* The digits are counted for the grids they lead to only.
LEMMA LoopReads ==
    ASSUME NEW grid, NEW limit \in Nat, NEW c, NEW d, Countable(grid, c), Countable(grid, d),
           \A v \in Values : IsSafe(grid, FindEmptyCell(grid), v) =>
                c[Filled(grid, FindEmptyCell(grid), v)] = d[Filled(grid, FindEmptyCell(grid), v)]
    PROVE  CountDigits(grid, limit, c) = CountDigits(grid, limit, d)
<1>1. PICK f : Loop(f, grid, limit, c)
  BY LoopExists
<1>2. PICK g : Loop(g, grid, limit, d)
  BY LoopExists
<1> DEFINE n == BOARD_SIZE
           Good == {v \in 0..n : f[v] = g[v]}
<1>3. n \in Nat /\ Values = 1..n
  BY Sizes DEF Values
<1>4. 0 \in Good
  BY <1>1, <1>2, <1>3 DEF Loop
<1>5. ASSUME NEW v \in 1..n, v - 1 \in Good PROVE v \in Good
  <2>1. v \in 0..n /\ v \in Values
    BY <1>3
  <2>2. f[v] = DigitCounted(grid, limit, c, v, f[v - 1])
        /\ g[v] = DigitCounted(grid, limit, d, v, g[v - 1])
    BY <1>1, <1>2 DEF Loop
  <2>3. f[v - 1] = g[v - 1]
    BY <1>5
  <2> QED BY <2>1, <2>2, <2>3 DEF DigitCounted
<1>6. \A v \in 0..n : v \in Good
  <2> HIDE DEF Good
  <2> QED BY <1>3, <1>4, <1>5, Climb
<1>7. f[n] = g[n]
  BY <1>3, <1>6
<1> QED
  BY <1>1, <1>2, <1>7 DEF Loop

\* The loop finds one solution when there is one, and more when there are more.
LEMMA LoopCounts ==
    ASSUME NEW grid, Consistent(grid), Empties(grid) # {}, NEW limit \in Nat, limit >= 2,
           NEW count,
           \A v \in Values : IsSafe(grid, FindEmptyCell(grid), v) =>
                Amount(count[Filled(grid, FindEmptyCell(grid), v)],
                       Solutions(Filled(grid, FindEmptyCell(grid), v)))
    PROVE  Amount(CountDigits(grid, limit, count), Solutions(grid))
<1> DEFINE cell == FindEmptyCell(grid)
           n == BOARD_SIZE
<1>1. cell \in Empties(grid) /\ grid \in Grids
  BY FirstEmptyCell DEF Consistent
<1>2. Countable(grid, count)
  BY DEF Countable, Amount
<1>3. PICK f : Loop(f, grid, limit, count)
  BY <1>2, LoopExists
<1>4. n \in Nat /\ Values = 1..n
  BY Sizes DEF Values
<1>5. /\ \A v \in Values : IsSafe(grid, cell, v) =>
                Amount(count[Filled(grid, cell, v)], Solutions(Filled(grid, cell, v)))
      /\ f[0] = 0 /\ CountDigits(grid, limit, count) = f[n]
      /\ \A v \in 1..n : /\ f[v - 1] \in Nat
                         /\ f[v] = IF f[v - 1] >= limit \/ ~IsSafe(grid, cell, v) THEN f[v - 1]
                                   ELSE f[v - 1] + count[Filled(grid, cell, v)]
  BY <1>3 DEF Loop, DigitCounted
<1> HIDE DEF cell, n
<1> DEFINE Good == {v \in 0..n : Amount(f[v], Below(grid, cell, v))}
<1>6. 0 \in Good
  <2>1. Below(grid, cell, 0) = {} /\ 0 \in 0..n
    BY <1>1, <1>4, BelowEnds
  <2>2. ~\E s : {} = {s}
    OBVIOUS
  <2>3. Amount(0, {})
    BY <2>2 DEF Amount
  <2> QED BY <1>5, <2>1, <2>3
<1>7. ASSUME NEW v \in 1..n, v - 1 \in Good PROVE v \in Good
  <2> DEFINE new == Solutions(Filled(grid, cell, v))
             old == Below(grid, cell, v - 1)
  <2>1. v \in 0..n /\ v \in Values /\ f[v - 1] \in Nat /\ Amount(f[v - 1], old)
    <3>1. Amount(f[v - 1], old)
      BY <1>7, Zenon
    <3>2. v \in 0..n /\ v \in Values
      BY <1>4
    <3>3. f[v - 1] \in Nat
      BY <1>5, Zenon
    <3> QED BY <3>1, <3>2, <3>3
  <2>2. old \cap new = {} /\ Below(grid, cell, v) = old \cup new
    BY <1>1, <2>1, BelowNext
  <2> HIDE DEF old
  <2>3. CASE f[v - 1] >= limit
    <3>1. f[v] = f[v - 1] /\ f[v - 1] >= 2
      BY <1>5, <2>1, <2>3
    <3>2. Amount(f[v - 1], old \cup new)
      <4> HIDE DEF new
      <4> QED BY <2>1, <3>1, AmountEnough
    <3> QED BY <2>1, <2>2, <3>1, <3>2
  <2>4. CASE ~IsSafe(grid, cell, v)
    <3>1. f[v] = f[v - 1]
      BY <1>5, <2>4
    <3>2. new = {}
      BY <1>1, <2>1, <2>4, UnsafeDigit
    <3> HIDE DEF new
    <3>3. old \cup new = old
      BY <3>2
    <3> QED BY <2>1, <2>2, <3>1, <3>3
  <2>5. CASE ~(f[v - 1] >= limit) /\ IsSafe(grid, cell, v)
    <3>1. f[v] = f[v - 1] + count[Filled(grid, cell, v)]
      BY <1>5, <2>5
    <3>2. Amount(count[Filled(grid, cell, v)], new)
      BY <1>5, <2>1, <2>5
    <3> HIDE DEF new
    <3>3. Amount(f[v - 1] + count[Filled(grid, cell, v)], old \cup new)
      BY <2>1, <2>2, <3>2, AmountsAdd
    <3> QED BY <2>1, <2>2, <3>1, <3>3
  <2> QED BY <2>3, <2>4, <2>5
<1>8. \A v \in 0..n : v \in Good
  <2> HIDE DEF Good
  <2> QED BY <1>4, <1>6, <1>7, Climb
<1>9. Amount(f[n], Below(grid, cell, n))
  BY <1>4, <1>8
<1>10. Below(grid, cell, n) = Solutions(grid)
  BY <1>1, BelowEnds DEF n
<1> QED
  BY <1>5, <1>9, <1>10

\* What CountSolutions finds for a grid, by what it finds for others.
Body(count, grid, limit) == IF Empties(grid) = {} THEN 1 ELSE CountDigits(grid, limit, count)

\* After a safe digit there is one empty cell less.
LEMMA AfterDigit ==
    ASSUME NEW grid \in Grids, Empties(grid) # {}, NEW v \in Values
    PROVE  /\ Filled(grid, FindEmptyCell(grid), v) \in Grids
           /\ Cardinality(Empties(Filled(grid, FindEmptyCell(grid), v)))
                = Cardinality(Empties(grid)) - 1
<1>1. FindEmptyCell(grid) \in Empties(grid)
  BY FirstEmptyCell
<1>2. Filled(grid, FindEmptyCell(grid), v) \in Grids
  BY <1>1, DigitsAre DEF Filled, Grids, Empties
<1> QED
  BY <1>1, <1>2, EmptiesFilled

LEMMA BodyIsNumber ==
    ASSUME NEW count \in [Grids -> Nat], NEW grid \in Grids, NEW limit \in Nat
    PROVE  /\ Body(count, grid, limit) \in Nat
           /\ Empties(grid) # {} => Countable(grid, count)
<1>1. CASE Empties(grid) = {}
  BY <1>1 DEF Body
<1>2. CASE Empties(grid) # {}
  <2>1. Countable(grid, count)
    BY <1>2, AfterDigit DEF Countable
  <2>2. PICK f : Loop(f, grid, limit, count)
    BY <2>1, LoopExists
  <2>3. CountDigits(grid, limit, count) \in Nat
    BY <2>2 DEF Loop
  <2> QED BY <1>2, <2>1, <2>3 DEF Body
<1> QED
  BY <1>1, <1>2

\* The recursion ends: with each digit a cell less is empty.
LEMMA CountExists ==
    ASSUME NEW limit \in Nat
    PROVE  \E count : count = [g \in Grids |-> Body(count, g, limit)]
<1> DEFINE Fits(c, k) ==
                /\ c \in [Grids -> Nat]
                /\ \A g \in Grids : Cardinality(Empties(g)) < k => c[g] = Body(c, g, limit)
           n == CellCount + 1
           Good == {k \in 0..n : \E c : Fits(c, k)}
<1>1. n \in Nat
  BY Sizes
<1>2. 0 \in Good
  <2> DEFINE c == [g \in Grids |-> 1]
  <2>1. \A g \in Grids : ~(Cardinality(Empties(g)) < 0)
    BY EmptiesFinite
  <2>2. Fits(c, 0)
    BY <2>1
  <2> HIDE DEF Fits
  <2> QED BY <1>1, <2>2
<1>3. ASSUME NEW k \in 1..n, k - 1 \in Good PROVE k \in Good
  <2>1. PICK c : Fits(c, k - 1)
    BY <1>3
  <2> DEFINE d == [g \in Grids |-> Body(c, g, limit)]
  <2>2. d \in [Grids -> Nat]
    BY <2>1, BodyIsNumber
  <2>3. \A g \in Grids : d[g] = Body(c, g, limit)
    OBVIOUS
  <2> HIDE DEF d
  <2>4. ASSUME NEW g \in Grids, Cardinality(Empties(g)) < k PROVE d[g] = Body(d, g, limit)
    <3>1. CASE Empties(g) = {}
      BY <2>3, <3>1 DEF Body
    <3>2. CASE Empties(g) # {}
      <4>1. ASSUME NEW v \in Values
            PROVE  c[Filled(g, FindEmptyCell(g), v)] = d[Filled(g, FindEmptyCell(g), v)]
        <5> DEFINE new == Filled(g, FindEmptyCell(g), v)
        <5>1. new \in Grids /\ Cardinality(Empties(new)) = Cardinality(Empties(g)) - 1
          BY <3>2, AfterDigit
        <5>2. Cardinality(Empties(g)) \in Nat
          BY EmptiesFinite
        <5> HIDE DEF new
        <5>3. Cardinality(Empties(new)) < k - 1
          BY <2>4, <5>1, <5>2
        <5>4. c[new] = d[new]
          BY <2>1, <2>3, <5>1, <5>3
        <5> QED BY <5>4 DEF new
      <4>2. Countable(g, c) /\ Countable(g, d)
        BY <2>1, <2>2, <3>2, BodyIsNumber
      <4>3. CountDigits(g, limit, c) = CountDigits(g, limit, d)
        BY <4>1, <4>2, LoopReads
      <4> QED BY <2>3, <3>2, <4>3 DEF Body
    <3> QED BY <3>1, <3>2
  <2>5. Fits(d, k) /\ k \in 0..n
    BY <2>2, <2>4
  <2> HIDE DEF Fits
  <2> QED BY <2>5
<1>4. PICK c : Fits(c, n)
  <2>1. \A k \in 0..n : k \in Good
    <3> HIDE DEF Good, n
    <3> QED BY <1>1, <1>2, <1>3, Climb
  <2> QED BY <1>1, <2>1
<1>5. \A g \in Grids : Cardinality(Empties(g)) < n
  BY EmptiesFinite, Sizes
<1>6. \A g \in Grids : c[g] = Body(c, g, limit)
  BY <1>4, <1>5
<1>7. c = [g \in Grids |-> Body(c, g, limit)]
  BY <1>4, <1>6
<1> QED
  BY <1>7

\* The search is right: it counts no solution exactly when there is none, and one
\* exactly when there is one and no other.
THEOREM SearchCountsSolutions ==
    ASSUME NEW grid, Consistent(grid), NEW limit \in Nat, limit >= 2
    PROVE  Amount(CountSolutions(grid, limit), Solutions(grid))
<1> DEFINE Step(c, g) == IF Empties(g) = {} THEN 1 ELSE CountDigits(g, limit, c)
           Runs(c) == c = [g \in Grids |-> Step(c, g)]
           h == CHOOSE c : Runs(c)
<1>1. \E c : Runs(c)
  BY CountExists DEF Body
<1>2. Runs(h)
  <2> HIDE DEF Runs
  <2> QED BY <1>1
<1>3. CountSolutions(grid, limit) = h[grid]
  BY Zenon DEF CountSolutions
<1> HIDE DEF h
<1>4. \A g \in Grids : h[g] = Step(h, g)
  <2> HIDE DEF Step
  <2> QED BY <1>2
<1> DEFINE n == CellCount
           Right(g) == Amount(h[g], Solutions(g))
           Good == {k \in 0..n : \A g : Consistent(g) /\ Cardinality(Empties(g)) <= k => Right(g)}
<1>5. n \in Nat
  BY Sizes
<1>6. ASSUME NEW g, Consistent(g), Empties(g) = {} PROVE Right(g)
  <2>1. g \in Grids
    BY <1>6 DEF Consistent
  <2>2. h[g] = 1 /\ Solutions(g) = {g}
    BY <1>4, <1>6, <2>1, FullGrid
  <2>3. Amount(1, {g})
    BY DEF Amount
  <2> QED BY <2>2, <2>3
<1>7. 0 \in Good
  <2>1. ASSUME NEW g, Consistent(g), Cardinality(Empties(g)) <= 0 PROVE Right(g)
    <3>1. Empties(g) = {}
      BY <2>1, EmptiesFinite
    <3> QED BY <1>6, <2>1, <3>1
  <2> HIDE DEF Right
  <2> QED BY <1>5, <2>1
<1>8. ASSUME NEW k \in 1..n, k - 1 \in Good PROVE k \in Good
  <2>1. ASSUME NEW g, Consistent(g), Cardinality(Empties(g)) <= k PROVE Right(g)
    <3>1. CASE Empties(g) = {}
      BY <1>6, <2>1, <3>1
    <3>2. CASE Empties(g) # {}
      <4>1. g \in Grids /\ FindEmptyCell(g) \in Empties(g)
        BY <2>1, <3>2, FirstEmptyCell DEF Consistent
      <4>2. ASSUME NEW v \in Values, IsSafe(g, FindEmptyCell(g), v)
            PROVE  Right(Filled(g, FindEmptyCell(g), v))
        <5> DEFINE new == Filled(g, FindEmptyCell(g), v)
        <5>1. Consistent(new)
          BY <2>1, <4>1, <4>2, SafeDigit
        <5>2. Cardinality(Empties(new)) = Cardinality(Empties(g)) - 1
              /\ Cardinality(Empties(g)) \in Nat
          BY <3>2, <4>1, AfterDigit, EmptiesFinite
        <5> HIDE DEF new
        <5>3. Cardinality(Empties(new)) <= k - 1
          BY <2>1, <5>2
        <5>4. Right(new)
          <6> HIDE DEF Right
          <6> QED BY <1>8, <5>1, <5>3
        <5> QED BY <5>4 DEF new
      <4>3. Amount(CountDigits(g, limit, h), Solutions(g))
        BY <2>1, <3>2, <4>2, LoopCounts
      <4>4. h[g] = CountDigits(g, limit, h)
        BY <1>4, <3>2, <4>1
      <4> QED BY <4>3, <4>4
    <3> QED BY <3>1, <3>2
  <2>2. k \in 0..n
    BY <1>5
  <2> HIDE DEF Right
  <2> QED BY <2>1, <2>2
<1>9. \A k \in 0..n : k \in Good
  <2> HIDE DEF Good, n
  <2> QED BY <1>5, <1>7, <1>8, Climb
<1>10. Cardinality(Empties(grid)) <= n /\ n \in Good
  BY <1>5, <1>9, EmptiesFinite
<1>11. Right(grid)
  <2> HIDE DEF Right, n
  <2> QED BY <1>10
<1> QED
  BY <1>3, <1>11

-----------------------------------------------------------------------------
(* Clearing                                                                 *)

Cleared(grid, i) == [grid EXCEPT ![i] = 0]

\* Some other grid solves the puzzle without the clue.
Needed(i) == \E other \in Solutions(Cleared(puzzle, i)) : other # solution

\* While cells are cleared: the puzzle has the solution it came from, the cells that
\* are still to be looked at are clues, and every clue that has been looked at is
\* needed.  A clue that is needed stays so, as clearing others takes no solution away.
VaultInv ==
    \/ solution = Blank /\ puzzle = Blank /\ positions = <<>> /\ removed = 0
    \/ /\ solution \in ProperGrids /\ puzzle \in Grids
       /\ Solutions(puzzle) = {solution}
       /\ removed = Cardinality(Empties(puzzle)) /\ removed <= CellsToRemove
       /\ positions \in Seq(Indices)
       /\ \A k, l \in 1..Len(positions) : positions[k] = positions[l] => k = l
       /\ \A k \in 1..Len(positions) : positions[k] \notin Empties(puzzle)
       /\ \A i \in Indices :
            \/ i \in Empties(puzzle) \/ Needed(i)
            \/ \E k \in 1..Len(positions) : positions[k] = i

LEMMA ClearedGrid ==
    ASSUME NEW grid \in Grids, NEW i \in Indices
    PROVE  /\ Cleared(grid, i) \in Grids
           /\ Empties(Cleared(grid, i)) = Empties(grid) \cup {i}
           /\ Solutions(grid) \subseteq Solutions(Cleared(grid, i))
<1> DEFINE new == Cleared(grid, i)
<1>1. new \in Grids /\ new[i] = 0 /\ \A j \in Indices \ {i} : new[j] = grid[j]
  BY DigitsAre DEF Cleared, Grids
<1> HIDE DEF new
<1>2. Empties(new) = Empties(grid) \cup {i}
  BY <1>1 DEF Empties
<1>3. ASSUME NEW full \in Solutions(grid) PROVE full \in Solutions(new)
  <2>1. \A j \in Indices : new[j] \in {0, full[j]}
    BY <1>1, SolutionsAre
  <2> QED BY <2>1, SolutionsAre
<1> QED
  BY <1>1, <1>2, <1>3 DEF new

\* A clue that is needed is needed when another one has gone.
LEMMA StillNeeded ==
    ASSUME NEW grid \in Grids, NEW i \in Indices, NEW j \in Indices
    PROVE  Solutions(Cleared(grid, j)) \subseteq Solutions(Cleared(Cleared(grid, i), j))
<1>1. Cleared(grid, j) \in Grids
  BY ClearedGrid
<1>2. Solutions(Cleared(grid, j)) \subseteq Solutions(Cleared(Cleared(grid, j), i))
  BY <1>1, ClearedGrid
<1>3. Cleared(Cleared(grid, j), i) = Cleared(Cleared(grid, i), j)
  BY DEF Cleared, Grids
<1> QED
  BY <1>2, <1>3

\* What has a solution is consistent.
LEMMA PartOfSolution ==
    ASSUME NEW grid \in Grids, NEW full \in Solutions(grid)
    PROVE  Consistent(grid)
<1>1. Consistent(full) /\ \A i \in Indices : full[i] \in Values /\ grid[i] \in {0, full[i]}
  BY SolutionsAre
<1>2. ASSUME NEW i \in Indices, NEW j \in Indices, i # j, Peers(i, j), grid[i] # 0
      PROVE  grid[i] # grid[j]
  <2>1. full[i] # full[j] /\ full[i] # 0
    BY <1>1, <1>2, DigitsAre DEF Consistent
  <2> QED BY <1>1, <1>2, <2>1
<1> QED
  BY <1>2 DEF Consistent

LEMMA VaultInit == Init => VaultInv
  BY DEF Init, VaultInv

LEMMA NewPuzzle == CreateNextPuzzle => VaultInv'
<1> SUFFICES ASSUME CreateNextPuzzle PROVE VaultInv'
  OBVIOUS
<1>1. solution' \in ProperGrids /\ puzzle' = solution' /\ removed' = 0 /\ positions' \in Shuffles
  BY EveryProperGridCanComeUp DEF CreateNextPuzzle
<1>2. Consistent(solution') /\ Empties(solution') = {} /\ solution' \in Grids
  BY <1>1, ProperGrid DEF Consistent
<1>3. Solutions(puzzle') = {solution'}
  BY <1>1, <1>2, FullGrid
<1>4. Cardinality(Empties(puzzle')) = 0 /\ 0 <= CellsToRemove
  <2>1. CluesToKeep \in 0..CellCount
    BY SizesAssumption
  <2> QED BY <1>1, <1>2, <2>1, Sizes, EmptiesFinite DEF CellsToRemove
<1>5. /\ positions' \in [1..CellCount -> Indices] /\ ToSet(positions') = Indices
      /\ IsInjective(positions')
  BY <1>1, SizesAssumption
<1>6. positions' \in Seq(Indices) /\ Len(positions') = CellCount /\ DOMAIN positions' = 1..CellCount
  BY <1>5, Sizes
<1>7. \A k, l \in 1..Len(positions') : positions'[k] = positions'[l] => k = l
  BY <1>5, <1>6 DEF IsInjective
<1>8. \A i \in Indices : \E k \in 1..Len(positions') : positions'[k] = i
  BY <1>5, <1>6 DEF ToSet
<1> QED
  BY <1>1, <1>2, <1>3, <1>4, <1>6, <1>7, <1>8 DEF VaultInv

\* The rest of the positions.
LEMMA Rest ==
    ASSUME NEW s \in Seq(Indices), s # <<>>
    PROVE  /\ Head(s) \in Indices /\ Tail(s) \in Seq(Indices) /\ Len(s) \in Nat
           /\ Head(s) = s[1] /\ Len(Tail(s)) = Len(s) - 1 /\ 1 \in 1..Len(s)
           /\ \A k \in 1..Len(Tail(s)) : k + 1 \in 1..Len(s) /\ Tail(s)[k] = s[k + 1]
  OBVIOUS

LEMMA KeepsRemoveCell == VaultInv /\ RemoveCell => VaultInv'
<1> SUFFICES ASSUME VaultInv, RemoveCell PROVE VaultInv'
  OBVIOUS
<1> DEFINE i == Head(positions)
           rest == Tail(positions)
           cleared == Cleared(puzzle, i)
<1>1. /\ positions # <<>> /\ ~(removed >= CellsToRemove)
      /\ positions' = rest /\ solution' = solution
      /\ \/ CountSolutions(cleared, 2) = 1 /\ puzzle' = cleared /\ removed' = removed + 1
         \/ CountSolutions(cleared, 2) # 1 /\ puzzle' = puzzle /\ removed' = removed
  BY DEF RemoveCell, Done, Cleared
<1>2. /\ solution \in ProperGrids /\ puzzle \in Grids
      /\ Solutions(puzzle) = {solution}
      /\ removed = Cardinality(Empties(puzzle)) /\ removed <= CellsToRemove
      /\ positions \in Seq(Indices)
  BY <1>1 DEF VaultInv
<1>3. /\ \A k, l \in 1..Len(positions) : positions[k] = positions[l] => k = l
      /\ \A k \in 1..Len(positions) : positions[k] \notin Empties(puzzle)
  BY <1>1 DEF VaultInv
<1>4. \A j \in Indices : \/ j \in Empties(puzzle) \/ Needed(j)
                         \/ \E k \in 1..Len(positions) : positions[k] = j
  BY <1>1 DEF VaultInv
<1>5. /\ i \in Indices /\ rest \in Seq(Indices) /\ Len(positions) \in Nat
      /\ i = positions[1] /\ Len(rest) = Len(positions) - 1 /\ 1 \in 1..Len(positions)
      /\ \A k \in 1..Len(rest) : k + 1 \in 1..Len(positions) /\ rest[k] = positions[k + 1]
  BY <1>1, <1>2, Rest
<1>6. i \notin Empties(puzzle)
  BY <1>3, <1>5
<1> HIDE DEF i, rest
<1>7. \A k, l \in 1..Len(rest) : rest[k] = rest[l] => k = l
  <2> SUFFICES ASSUME NEW k \in 1..Len(rest), NEW l \in 1..Len(rest), rest[k] = rest[l]
               PROVE  k = l
    OBVIOUS
  <2>1. k + 1 \in 1..Len(positions) /\ l + 1 \in 1..Len(positions)
        /\ positions[k + 1] = positions[l + 1]
    BY <1>5
  <2>2. k + 1 = l + 1
    BY <1>3, <2>1
  <2> QED BY <2>2
<1>8. \A k \in 1..Len(rest) : rest[k] # i /\ rest[k] \notin Empties(puzzle)
  <2> SUFFICES ASSUME NEW k \in 1..Len(rest) PROVE rest[k] # i /\ rest[k] \notin Empties(puzzle)
    OBVIOUS
  <2>1. k + 1 \in 1..Len(positions) /\ rest[k] = positions[k + 1] /\ k + 1 # 1
    BY <1>5
  <2> QED BY <1>3, <1>5, <2>1
<1>9. \A j \in Indices \ {i} : (\E k \in 1..Len(positions) : positions[k] = j)
                                    => \E k \in 1..Len(rest) : rest[k] = j
  <2> SUFFICES ASSUME NEW j \in Indices \ {i}, NEW k \in 1..Len(positions), positions[k] = j
               PROVE  \E l \in 1..Len(rest) : rest[l] = j
    OBVIOUS
  <2>1. k # 1 /\ k - 1 \in 1..Len(rest) /\ (k - 1) + 1 = k
    BY <1>5
  <2> QED BY <1>5, <2>1
<1>10. /\ cleared \in Grids /\ Empties(cleared) = Empties(puzzle) \cup {i}
       /\ solution \in Solutions(cleared)
  BY <1>2, <1>5, ClearedGrid
<1>11. Consistent(cleared)
  BY <1>10, PartOfSolution
<1>12. Amount(CountSolutions(cleared, 2), Solutions(cleared))
  BY <1>11, SearchCountsSolutions
<1>13. CASE CountSolutions(cleared, 2) = 1 /\ puzzle' = cleared /\ removed' = removed + 1
  <2>1. Solutions(cleared) = {solution}
    BY <1>10, <1>12, <1>13 DEF Amount
  <2>2. Cardinality(Empties(cleared)) = Cardinality(Empties(puzzle)) + 1
    BY <1>6, <1>10, EmptiesFinite, FS_AddElement
  <2>3. removed + 1 <= CellsToRemove
    <3>1. CellsToRemove \in Int
      <4>1. CluesToKeep \in 0..CellCount
        BY SizesAssumption
      <4> QED BY <4>1, Sizes DEF CellsToRemove
    <3>2. removed \in Nat
      BY <1>2, EmptiesFinite
    <3> QED BY <1>1, <3>1, <3>2
  <2>4. ASSUME NEW j \in Indices, Needed(j) PROVE Needed(j)'
    <3>1. Solutions(Cleared(puzzle, j)) \subseteq Solutions(Cleared(cleared, j))
      BY <1>2, <1>5, StillNeeded
    <3> HIDE DEF cleared
    <3> QED BY <1>1, <1>13, <2>4, <3>1 DEF Needed
  <2> HIDE DEF cleared
  <2>5. \A j \in Indices : \/ j \in Empties(cleared) \/ Needed(j)'
                           \/ \E k \in 1..Len(rest) : rest[k] = j
    BY <1>4, <1>9, <1>10, <2>4
  <2>6. \A k \in 1..Len(rest) : rest[k] \notin Empties(cleared)
    BY <1>8, <1>10
  <2> QED BY <1>1, <1>2, <1>5, <1>7, <1>10, <1>13, <2>1, <2>2, <2>3, <2>5, <2>6 DEF VaultInv
<1>14. CASE CountSolutions(cleared, 2) # 1 /\ puzzle' = puzzle /\ removed' = removed
  <2>1. Solutions(cleared) # {solution}
    BY <1>12, <1>14 DEF Amount
  <2>2. Needed(i)
    <3>1. \E other \in Solutions(cleared) : other # solution
      <4> HIDE DEF cleared
      <4> QED BY <1>10, <2>1
    <3> QED BY <3>1 DEF Needed
  <2>3. \A j \in Indices : Needed(j)' <=> Needed(j)
    BY <1>1, <1>14 DEF Needed
  <2> HIDE DEF cleared
  <2>4. \A j \in Indices : \/ j \in Empties(puzzle) \/ Needed(j)'
                           \/ \E k \in 1..Len(rest) : rest[k] = j
    BY <1>4, <1>9, <2>2, <2>3
  <2> QED BY <1>1, <1>2, <1>5, <1>7, <1>8, <1>14, <2>4 DEF VaultInv
<1> QED
  BY <1>1, <1>13, <1>14

LEMMA VaultStep == VaultInv /\ [Next]_vars => VaultInv'
<1> SUFFICES ASSUME VaultInv, [Next]_vars PROVE VaultInv'
  OBVIOUS
<1>1. CASE CreateNextPuzzle
  BY <1>1, NewPuzzle
<1>2. CASE RemoveCell
  BY <1>2, KeepsRemoveCell
<1>3. CASE UNCHANGED vars
  BY <1>3 DEF VaultInv, Needed, vars
<1> QED
  BY <1>1, <1>2, <1>3 DEF Next

LEMMA VaultInvariant == Spec => []VaultInv
<1> QED
  BY VaultInit, VaultStep, PTL DEF Spec

\* For every size of board and every order in which cells are cleared, a puzzle has
\* the solution that comes with it, which moves are compared with, and no other.
THEOREM PuzzlesHaveOneSolution == Spec => []OneSolution
<1>1. VaultInv => OneSolution
  BY DEF VaultInv, OneSolution
<1> QED
  BY <1>1, VaultInvariant, PTL

\* A finished puzzle has as few clues as were asked for, or every clue that is left
\* is needed, although the search looks at each cell once only.
THEOREM NoClueIsToSpare == Spec => []NoClueToSpare
<1>1. VaultInv => NoClueToSpare
  <2> SUFFICES ASSUME VaultInv, Done, solution # Blank
               PROVE  /\ Cardinality(Empties(puzzle)) <= CellsToRemove
                      /\ \/ Cardinality(Empties(puzzle)) = CellsToRemove
                         \/ \A i \in Indices \ Empties(puzzle) : Needed(i)
    BY DEF NoClueToSpare, Needed, Cleared
  <2>1. /\ removed = Cardinality(Empties(puzzle)) /\ removed <= CellsToRemove
        /\ \A i \in Indices : \/ i \in Empties(puzzle) \/ Needed(i)
                              \/ \E k \in 1..Len(positions) : positions[k] = i
    BY DEF VaultInv
  <2>2. CASE positions = <<>>
    <3>1. 1..Len(positions) = {}
      BY <2>2
    <3> QED BY <2>1, <3>1
  <2>3. CASE removed >= CellsToRemove
    <3>1. CellsToRemove \in Int
      <4>1. CluesToKeep \in 0..CellCount
        BY SizesAssumption
      <4> QED BY <4>1, Sizes DEF CellsToRemove
    <3>2. removed \in Nat
      BY <2>1, EmptiesFinite
    <3> QED BY <2>1, <2>3, <3>1, <3>2
  <2> QED BY <2>2, <2>3 DEF Done
<1> QED
  BY <1>1, VaultInvariant, PTL

=============================================================================
