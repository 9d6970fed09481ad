----------------------- MODULE SudokuAuthorityProofs -----------------------
(***************************************************************************)
(* Theorems about one round, for every board, every set of players and     *)
(* every value of the rule constants.                                      *)
(***************************************************************************)
EXTENDS SudokuAuthority, FiniteSetTheorems, WellFoundedInduction, TLAPS

-----------------------------------------------------------------------------
(* Sums: what SumFunction returns for a function from a finite set to the   *)
(* integers.  The recursion behind it is well-founded, the sum is an        *)
(* integer, and it moves with each of its terms.                            *)

\* A set of natural numbers has a least one.
LEMMA LeastNatural ==
    ASSUME NEW T \in SUBSET Nat, T # {}
    PROVE  \E m \in T : \A n \in T : m <= n
<1>1. PICK m \in T : \A n \in T : ~(<<n, m>> \in OpToRel(<, Nat))
  BY WFMin, NatLessThanWellFounded
<1>2. ASSUME NEW n \in T, n < m PROVE FALSE
  <2>1. <<n, m>> \in Nat \X Nat /\ <<n, m>>[1] < <<n, m>>[2]
    BY <1>2
  <2>2. <<n, m>> \in OpToRel(<, Nat)
    BY <2>1, Zenon DEF OpToRel
  <2> QED BY <1>1, <2>2
<1> QED
  BY <1>2

PickOf(s) == CHOOSE x \in s : TRUE

\* Induction along the order in which SumFunction takes the elements away.
LEMMA PickInduction ==
    ASSUME NEW S, IsFiniteSet(S), NEW Good \in SUBSET SUBSET S, {} \in Good,
           \A s \in SUBSET S : s # {} /\ s \ {PickOf(s)} \in Good => s \in Good
    PROVE  Good = SUBSET S
<1> SUFFICES ASSUME NEW bad \in SUBSET S, bad \notin Good PROVE FALSE
  OBVIOUS
<1> DEFINE Sizes == {Cardinality(s) : s \in (SUBSET S) \ Good}
<1>1. \A s \in SUBSET S : IsFiniteSet(s) /\ Cardinality(s) \in Nat
  BY FS_Subset, FS_CardinalityType
<1>2. Sizes \in SUBSET Nat /\ Sizes # {}
  BY <1>1
<1>3. PICK s \in (SUBSET S) \ Good :
        \A t \in (SUBSET S) \ Good : Cardinality(s) <= Cardinality(t)
  <2>1. PICK m \in Sizes : \A n \in Sizes : m <= n
    BY <1>2, LeastNatural
  <2> QED BY <2>1
<1> DEFINE rest == s \ {PickOf(s)}
<1>4. s # {} /\ PickOf(s) \in s
  BY DEF PickOf
<1>5. Cardinality(rest) = Cardinality(s) - 1 /\ rest \in SUBSET S
  BY <1>1, <1>3, <1>4, FS_RemoveElement
<1>6. rest \notin Good
  BY <1>3, <1>4
<1> HIDE DEF rest
<1> QED
  BY <1>1, <1>3, <1>5, <1>6

SumBody(w, f, s) == IF s = {} THEN 0 ELSE w[PickOf(s)] + f[s \ {PickOf(s)}]

\* The recursion has a solution: one for the subsets of up to n elements
\* extends to those of n + 1.
LEMMA SumExists ==
    ASSUME NEW S, IsFiniteSet(S), NEW w \in [S -> Int]
    PROVE  \E f \in [SUBSET S -> Int] : \A s \in SUBSET S : f[s] = SumBody(w, f, s)
<1> DEFINE Small(n) == {s \in SUBSET S : Cardinality(s) <= n}
           Solved(n) == \E f \in [Small(n) -> Int] : \A s \in Small(n) : f[s] = SumBody(w, f, s)
           Unsolved == {n \in Nat : ~Solved(n)}
<1>1. \A s \in SUBSET S : IsFiniteSet(s) /\ Cardinality(s) \in Nat
  BY FS_Subset, FS_CardinalityType
<1>2. Solved(0)
  <2> DEFINE f == [s \in Small(0) |-> 0]
  <2>1. \A s \in Small(0) : s = {}
    BY <1>1, FS_EmptySet
  <2>2. f \in [Small(0) -> Int] /\ \A s \in Small(0) : f[s] = SumBody(w, f, s)
    BY <2>1 DEF SumBody
  <2> HIDE DEF f
  <2> QED BY <2>2
<1>3. ASSUME NEW n \in Nat, Solved(n) PROVE Solved(n + 1)
  <2> DEFINE D == Small(n)
             E == Small(n + 1)
  <2>1. PICK g \in [D -> Int] : \A s \in D : g[s] = SumBody(w, g, s)
    BY <1>3
  <2>2. \A s \in E : s # {} => PickOf(s) \in S /\ s \ {PickOf(s)} \in D
    <3> SUFFICES ASSUME NEW s \in E, s # {}
                 PROVE  PickOf(s) \in S /\ s \ {PickOf(s)} \in D
      OBVIOUS
    <3>1. PickOf(s) \in s
      BY DEF PickOf
    <3>2. Cardinality(s \ {PickOf(s)}) = Cardinality(s) - 1
      BY <1>1, <3>1, FS_RemoveElement
    <3>3. Cardinality(s \ {PickOf(s)}) <= n
      BY <1>1, <3>2
    <3> QED BY <3>1, <3>3
  <2>3. \A s \in D : s \in E
    BY <1>1
  <2> DEFINE f == [s \in E |-> SumBody(w, g, s)]
  <2>4. \A s \in E : SumBody(w, g, s) \in Int
    <3> HIDE DEF D, E
    <3> QED BY <2>1, <2>2 DEF SumBody
  <2>5. \A s \in D : f[s] = g[s]
    <3> HIDE DEF D, E
    <3> QED BY <2>1, <2>3
  <2>6. \A s \in E : SumBody(w, f, s) = SumBody(w, g, s)
    <3> HIDE DEF D, E, f
    <3> QED BY <2>2, <2>5 DEF SumBody
  <2>7. f \in [E -> Int] /\ \A s \in E : f[s] = SumBody(w, f, s)
    <3> HIDE DEF D, E
    <3> QED BY <2>4, <2>6
  <2> HIDE DEF f
  <2> QED BY <2>7
<1>4. Unsolved = {}
  <2> SUFFICES ASSUME Unsolved # {} PROVE FALSE
    OBVIOUS
  <2>1. PICK m \in Unsolved : \A n \in Unsolved : m <= n
    <3>1. Unsolved \in SUBSET Nat
      OBVIOUS
    <3> HIDE DEF Unsolved
    <3> QED BY <3>1, LeastNatural
  <2> HIDE DEF Solved
  <2>2. m # 0
    BY <1>2
  <2>3. m - 1 \in Nat /\ m - 1 \notin Unsolved
    BY <2>1, <2>2
  <2>4. Solved((m - 1) + 1)
    BY <1>3, <2>3
  <2> QED BY <2>1, <2>4
<1>5. Cardinality(S) \in Nat /\ Small(Cardinality(S)) = SUBSET S
  <2>1. \A s \in SUBSET S : Cardinality(s) <= Cardinality(S)
    BY FS_Subset
  <2> QED BY <2>1, FS_CardinalityType
<1>6. Solved(Cardinality(S))
  <2> HIDE DEF Solved
  <2> QED BY <1>4, <1>5
<1> QED
  BY <1>5, <1>6

SumIter(w, S) == CHOOSE f : f = [s \in SUBSET S |-> SumBody(w, f, s)]

LEMMA SumIterFacts ==
    ASSUME NEW S, IsFiniteSet(S), NEW w \in [S -> Int]
    PROVE  /\ SumFunction(w) = SumIter(w, S)[S]
           /\ \A s \in SUBSET S : SumIter(w, S)[s] = SumBody(w, SumIter(w, S), s)
<1>1. SumIter(w, S) = [s \in SUBSET S |-> SumBody(w, SumIter(w, S), s)]
  <2> DEFINE P(f) == f = [s \in SUBSET S |-> SumBody(w, f, s)]
  <2>1. PICK f \in [SUBSET S -> Int] : \A s \in SUBSET S : f[s] = SumBody(w, f, s)
    BY SumExists
  <2>2. P(f)
    BY <2>1
  <2>3. P(CHOOSE g : P(g))
    <3> HIDE DEF P
    <3> QED BY <2>2
  <2> QED BY <2>3, Zenon DEF SumIter
<1>2. \A s \in SUBSET S : SumIter(w, S)[s] = SumBody(w, SumIter(w, S), s)
  BY <1>1, Zenon
<1>3. SumFunctionOnSet(w, S) = SumIter(w, S)[S]
  BY DEF SumFunctionOnSet, FoldFunctionOnSet, MapThenFoldSet, SumIter, SumBody, PickOf
<1>4. DOMAIN w = S
  OBVIOUS
<1> QED
  BY <1>2, <1>3, <1>4 DEF SumFunction

\* The sum of integers is an integer.
LEMMA SumIsInteger ==
    ASSUME NEW S, IsFiniteSet(S), NEW w \in [S -> Int]
    PROVE  SumFunction(w) \in Int
<1> DEFINE sum == SumIter(w, S)
           Good == {s \in SUBSET S : sum[s] \in Int}
<1>1. SumFunction(w) = sum[S] /\ \A s \in SUBSET S : sum[s] = SumBody(w, sum, s)
  BY SumIterFacts
<1> HIDE DEF sum
<1>2. {} \in Good
  BY <1>1 DEF SumBody
<1>3. ASSUME NEW s \in SUBSET S, s # {}, s \ {PickOf(s)} \in Good PROVE s \in Good
  <2>1. w[PickOf(s)] \in Int
    BY <1>3 DEF PickOf
  <2>2. sum[s] = w[PickOf(s)] + sum[s \ {PickOf(s)}]
    BY <1>1, <1>3 DEF SumBody
  <2>3. sum[s \ {PickOf(s)}] \in Int
    BY <1>3
  <2>4. sum[s] \in Int
    BY <2>1, <2>2, <2>3
  <2> QED BY <2>4
<1>4. Good = SUBSET S
  <2>1. \A s \in SUBSET S : s # {} /\ s \ {PickOf(s)} \in Good => s \in Good
    BY <1>3
  <2>2. Good \in SUBSET SUBSET S
    OBVIOUS
  <2> HIDE DEF Good
  <2> QED BY <1>2, <2>1, <2>2, PickInduction
<1> QED
  BY <1>1, <1>4

\* A sum without terms, or of zeros, is zero.
LEMMA SumOfZeros ==
    ASSUME NEW S, IsFiniteSet(S), NEW w \in [S -> Int], \A x \in S : w[x] = 0
    PROVE  SumFunction(w) = 0
<1> DEFINE sum == SumIter(w, S)
           Good == {s \in SUBSET S : sum[s] = 0}
<1>1. SumFunction(w) = sum[S] /\ \A s \in SUBSET S : sum[s] = SumBody(w, sum, s)
  BY SumIterFacts
<1> HIDE DEF sum
<1>2. {} \in Good
  BY <1>1 DEF SumBody
<1>3. ASSUME NEW s \in SUBSET S, s # {}, s \ {PickOf(s)} \in Good PROVE s \in Good
  <2>1. PickOf(s) \in S
    BY <1>3 DEF PickOf
  <2> QED BY <1>1, <1>3, <2>1 DEF SumBody
<1>4. Good = SUBSET S
  <2>1. \A s \in SUBSET S : s # {} /\ s \ {PickOf(s)} \in Good => s \in Good
    BY <1>3
  <2>2. Good \in SUBSET SUBSET S
    OBVIOUS
  <2> HIDE DEF Good
  <2> QED BY <1>2, <2>1, <2>2, PickInduction
<1> QED
  BY <1>1, <1>4

\* One term that moves by k moves the sum by k.
LEMMA SumOfOneChange ==
    ASSUME NEW S, IsFiniteSet(S), NEW w \in [S -> Int], NEW v \in [S -> Int],
           NEW c \in S, NEW k \in Int, v[c] = w[c] + k,
           \A x \in S : x # c => v[x] = w[x]
    PROVE  SumFunction(v) = SumFunction(w) + k
<1> DEFINE old == SumIter(w, S)
           new == SumIter(v, S)
           Moved(s) == IF c \in s THEN k ELSE 0
           Good == {s \in SUBSET S : old[s] \in Int /\ new[s] = old[s] + Moved(s)}
<1>1. /\ SumFunction(w) = old[S] /\ \A s \in SUBSET S : old[s] = SumBody(w, old, s)
      /\ SumFunction(v) = new[S] /\ \A s \in SUBSET S : new[s] = SumBody(v, new, s)
  BY SumIterFacts
<1> HIDE DEF old, new
<1>2. {} \in Good
  <2>1. old[{}] = 0 /\ new[{}] = 0
    BY <1>1 DEF SumBody
  <2> QED BY <2>1
<1>3. ASSUME NEW s \in SUBSET S, s # {}, s \ {PickOf(s)} \in Good PROVE s \in Good
  <2> DEFINE x == PickOf(s)
             rest == s \ {x}
  <2>1. x \in s /\ x \in S
    BY <1>3 DEF PickOf
  <2>2. old[s] = w[x] + old[rest] /\ new[s] = v[x] + new[rest]
    BY <1>1, <1>3 DEF SumBody
  <2>3. old[rest] \in Int /\ new[rest] = old[rest] + Moved(rest)
    BY <1>3
  <2>4. w[x] \in Int /\ v[x] = w[x] + (IF x = c THEN k ELSE 0)
    BY <2>1
  <2>5. Moved(s) = (IF x = c THEN k ELSE 0) + Moved(rest)
    BY <2>1
  <2>6. Moved(rest) \in Int /\ (IF x = c THEN k ELSE 0) \in Int
    OBVIOUS
  <2> HIDE DEF x, rest, Moved
  <2> QED BY <2>2, <2>3, <2>4, <2>5, <2>6
<1>4. Good = SUBSET S
  <2>1. \A s \in SUBSET S : s # {} /\ s \ {PickOf(s)} \in Good => s \in Good
    BY <1>3
  <2>2. Good \in SUBSET SUBSET S
    OBVIOUS
  <2> HIDE DEF Good
  <2> QED BY <1>2, <2>1, <2>2, PickInduction
<1> QED
  BY <1>1, <1>4

-----------------------------------------------------------------------------
(* What the operators on one player's record return                         *)

\* TryUnlockHint touches the four hint fields only, keeps the record's type
\* and leaves a balanced hint account balanced.
LEMMA TryUnlockHintFacts ==
    ASSUME NEW pl \in PlayerState
    PROVE  LET new == TryUnlockHint(pl) IN
           /\ new \in PlayerState
           /\ new.solved = pl.solved /\ new.finished = pl.finished
           /\ new.hintsUsed = pl.hintsUsed
           /\ new.score = pl.score /\ new.displayColor = pl.displayColor
           /\ new.wrongAttempts = pl.wrongAttempts
           /\ pl.streakHintsGranted <= MaxStreakHints
              /\ pl.availableCount + pl.hintsUsed =
                    pl.streakHintsGranted + (IF pl.scoreHintGranted THEN 1 ELSE 0)
              => HintsBalanced(new)
<1>1. StreakMilestones(pl.correctStreak) \in Int
      /\ StreakMilestones(pl.correctStreak) <= MaxStreakHints
  BY RulesAssumption DEF StreakMilestones, PlayerState
<1>2. /\ NewStreakHints(pl) \in Nat
      /\ pl.streakHintsGranted <= MaxStreakHints
         => pl.streakHintsGranted + NewStreakHints(pl) <= MaxStreakHints
  BY <1>1, RulesAssumption DEF NewStreakHints, PlayerState
<1> DEFINE earns == EarnsScoreHint(pl)
           new == TryUnlockHint(pl)
           granted == pl.streakHintsGranted + NewStreakHints(pl)
           available == pl.availableCount + NewStreakHints(pl) + (IF earns THEN 1 ELSE 0)
           unlocked == available > 0
           scored == pl.scoreHintGranted \/ earns
<1>3. earns \in BOOLEAN /\ scored \in BOOLEAN
  BY Zenon DEF EarnsScoreHint, PlayerState
<1>4. granted \in Nat /\ available \in Nat /\ unlocked \in BOOLEAN
  BY <1>2, <1>3 DEF PlayerState
<1>5. new = [pl EXCEPT !.scoreHintGranted = scored, !.streakHintsGranted = granted,
                       !.availableCount = available, !.unlocked = unlocked]
  BY Zenon DEF TryUnlockHint
<1> HIDE DEF new
<1>6. /\ new \in PlayerState
      /\ new.solved = pl.solved /\ new.finished = pl.finished
      /\ new.hintsUsed = pl.hintsUsed
      /\ new.score = pl.score /\ new.displayColor = pl.displayColor
      /\ new.wrongAttempts = pl.wrongAttempts
      /\ new.scoreHintGranted = scored /\ new.streakHintsGranted = granted
      /\ new.availableCount = available /\ new.unlocked = unlocked
  <2> HIDE DEF scored, granted, available, unlocked
  <2> QED BY <1>3, <1>4, <1>5, Zenon DEF PlayerState
<1>7. ASSUME pl.streakHintsGranted <= MaxStreakHints,
             pl.availableCount + pl.hintsUsed =
                pl.streakHintsGranted + (IF pl.scoreHintGranted THEN 1 ELSE 0)
      PROVE  HintsBalanced(new)
  <2>1. (IF scored THEN 1 ELSE 0) =
          (IF pl.scoreHintGranted THEN 1 ELSE 0) + (IF earns THEN 1 ELSE 0)
    <3>1. CASE pl.scoreHintGranted
      <4>1. scored /\ ~earns  BY <3>1 DEF EarnsScoreHint
      <4> QED BY <3>1, <4>1
    <3>2. CASE ~pl.scoreHintGranted
      <4>1. scored <=> earns  BY <3>2
      <4> QED BY <3>2, <4>1
    <3> QED BY <3>1, <3>2
  <2>2. available + pl.hintsUsed = granted + (IF scored THEN 1 ELSE 0)
    BY <1>2, <1>7, <2>1 DEF PlayerState
  <2>3. granted <= MaxStreakHints
    BY <1>2, <1>7
  <2>4. unlocked <=> available > 0
    OBVIOUS
  <2> HIDE DEF scored, granted, available, unlocked
  <2> QED BY <1>6, <2>2, <2>3, <2>4 DEF HintsBalanced
<1> QED
  BY <1>6, <1>7, Zenon DEF new

\* A wrong value keeps the record's type (the score stays a natural number),
\* the cells, the finished mark and the hint account.
LEMMA AfterWrongFacts ==
    ASSUME NEW pl \in PlayerState
    PROVE  LET new == AfterWrong(pl) IN
           /\ new \in PlayerState
           /\ new.solved = pl.solved /\ new.finished = pl.finished
           /\ new.hintsUsed = pl.hintsUsed
           /\ new.displayColor = pl.displayColor
           /\ new.wrongAttempts = pl.wrongAttempts + 1
           /\ new.score = IF pl.score < WrongGuessPenalty THEN 0
                          ELSE pl.score - WrongGuessPenalty
           /\ HintsBalanced(pl) => HintsBalanced(new)
<1> DEFINE new == AfterWrong(pl)
<1>1. /\ new.solved = pl.solved /\ new.finished = pl.finished
      /\ new.hintsUsed = pl.hintsUsed /\ new.availableCount = pl.availableCount
      /\ new.unlocked = pl.unlocked /\ new.scoreHintGranted = pl.scoreHintGranted
      /\ new.streakHintsGranted = pl.streakHintsGranted
      /\ new.displayColor = pl.displayColor
      /\ new.wrongAttempts = pl.wrongAttempts + 1
      /\ new.score = IF pl.score < WrongGuessPenalty THEN 0
                     ELSE pl.score - WrongGuessPenalty
  BY DEF AfterWrong, PlayerState
<1>2. new \in PlayerState
  <2> DEFINE score == IF pl.score < WrongGuessPenalty THEN 0 ELSE pl.score - WrongGuessPenalty
             moves == pl.moveCount + 1
             wrong == pl.wrongAttempts + 1
  <2>1. WrongGuessPenalty \in Nat /\ pl.score \in Nat
    BY RulesAssumption DEF PlayerState
  <2>2. score \in Nat /\ moves \in Nat /\ wrong \in Nat
    BY <2>1 DEF PlayerState
  <2>3. new = [pl EXCEPT !.moveCount = moves, !.wrongAttempts = wrong,
                         !.correctStreak = 0, !.score = score]
    BY Zenon DEF AfterWrong
  <2> HIDE DEF score, moves, wrong, new
  <2> QED BY <2>2, <2>3, Zenon DEF PlayerState
<1>3. HintsBalanced(pl) => HintsBalanced(new)
  <2> HIDE DEF new
  <2> QED BY <1>1 DEF HintsBalanced
<1> QED
  BY <1>1, <1>2, <1>3

\* A first solve adds the cell, and finishes the player exactly when the board
\* is full.
LEMMA AfterSolveFacts ==
    ASSUME NEW pl \in PlayerState, NEW c \in Cells, NEW points \in Nat
    PROVE  LET new == AfterSolve(pl, c, points) IN
           /\ new \in PlayerState
           /\ new.solved = pl.solved \cup {c}
           /\ new.finished <=> pl.finished \/ mPuzzle \subseteq new.solved
           /\ new.hintsUsed = pl.hintsUsed
           /\ new.score = pl.score + points /\ new.displayColor = pl.displayColor
           /\ new.wrongAttempts = pl.wrongAttempts
           /\ HintsBalanced(pl) => HintsBalanced(new)
<1> DEFINE solved == pl.solved \cup {c}
           moves == pl.moveCount + 1
           streak == pl.correctStreak + 1
           score == pl.score + points
           mid == [pl EXCEPT !.moveCount = moves, !.solved = solved,
                             !.correctStreak = streak, !.score = score]
           unlocked == TryUnlockHint(mid)
           full == pl.finished \/ mPuzzle \subseteq solved
<1>1. moves \in Nat /\ streak \in Nat /\ score \in Nat /\ solved \in SUBSET Cells
  BY DEF PlayerState
<1>2. /\ mid \in PlayerState
      /\ mid.solved = solved /\ mid.finished = pl.finished
      /\ mid.hintsUsed = pl.hintsUsed /\ mid.availableCount = pl.availableCount
      /\ mid.streakHintsGranted = pl.streakHintsGranted
      /\ mid.scoreHintGranted = pl.scoreHintGranted
      /\ mid.score = score /\ mid.displayColor = pl.displayColor
      /\ mid.wrongAttempts = pl.wrongAttempts
  <2> HIDE DEF moves, streak, score, solved
  <2> QED BY <1>1, Zenon DEF PlayerState
<1>3. AfterSolve(pl, c, points) = [unlocked EXCEPT !.finished = unlocked.finished
                                                      \/ mPuzzle \subseteq solved]
  BY Zenon DEF AfterSolve, CheckPlayerCompletedBoard
<1> HIDE DEF mid
<1>4. /\ unlocked \in PlayerState
      /\ unlocked.solved = solved /\ unlocked.finished = pl.finished
      /\ unlocked.hintsUsed = pl.hintsUsed
      /\ unlocked.score = score /\ unlocked.displayColor = pl.displayColor
      /\ unlocked.wrongAttempts = pl.wrongAttempts
      /\ HintsBalanced(pl) => HintsBalanced(unlocked)
  BY <1>2, TryUnlockHintFacts DEF HintsBalanced
<1>5. full \in BOOLEAN /\ AfterSolve(pl, c, points) = [unlocked EXCEPT !.finished = full]
  BY <1>3, <1>4, Zenon DEF PlayerState
<1> HIDE DEF unlocked
<1> DEFINE new == [unlocked EXCEPT !.finished = full]
<1>6. /\ new \in PlayerState /\ new.finished = full
      /\ new.solved = unlocked.solved /\ new.hintsUsed = unlocked.hintsUsed
      /\ new.score = unlocked.score /\ new.displayColor = unlocked.displayColor
      /\ new.wrongAttempts = unlocked.wrongAttempts
      /\ new.availableCount = unlocked.availableCount
      /\ new.unlocked = unlocked.unlocked
      /\ new.streakHintsGranted = unlocked.streakHintsGranted
      /\ new.scoreHintGranted = unlocked.scoreHintGranted
  <2> HIDE DEF full
  <2> QED BY <1>4, <1>5, Zenon DEF PlayerState
<1> HIDE DEF new
<1>7. HintsBalanced(unlocked) => HintsBalanced(new)
  BY <1>6 DEF HintsBalanced
<1>8. new = AfterSolve(pl, c, points)
  BY <1>5 DEF new
<1>9. new.finished <=> pl.finished \/ mPuzzle \subseteq new.solved
  BY <1>4, <1>6, Zenon
<1> QED
  BY <1>4, <1>6, <1>7, <1>8, <1>9, Zenon

\* A hint moves one unit of the account from available to used.
LEMMA AfterHintFacts ==
    ASSUME NEW pl \in PlayerState, NEW c \in Cells, pl.availableCount > 0
    PROVE  LET new == AfterHint(pl, c) IN
           /\ new \in PlayerState
           /\ new.solved = pl.solved \cup {c}
           /\ new.finished <=> pl.finished \/ mPuzzle \subseteq new.solved
           /\ new.hintsUsed = pl.hintsUsed + 1
           /\ new.score = pl.score /\ new.displayColor = pl.displayColor
           /\ new.wrongAttempts = pl.wrongAttempts
           /\ HintsBalanced(pl) => HintsBalanced(new)
<1> DEFINE solved == pl.solved \cup {c}
           left == pl.availableCount - 1
           used == pl.hintsUsed + 1
           unlocked == pl.availableCount > 1
           full == pl.finished \/ mPuzzle \subseteq solved
           new == AfterHint(pl, c)
<1>1. left \in Nat /\ used \in Nat /\ solved \in SUBSET Cells
  BY DEF PlayerState
<1>2. unlocked \in BOOLEAN /\ full \in BOOLEAN
  BY DEF PlayerState
<1>3. new = [pl EXCEPT !.availableCount = left, !.unlocked = unlocked,
                       !.hintsUsed = used, !.solved = solved,
                       !.correctStreak = 0, !.finished = full]
  BY Zenon DEF AfterHint, CheckPlayerCompletedBoard
<1> HIDE DEF new
<1>4. /\ new \in PlayerState
      /\ new.solved = solved /\ new.finished = full /\ new.hintsUsed = used
      /\ new.score = pl.score /\ new.displayColor = pl.displayColor
      /\ new.wrongAttempts = pl.wrongAttempts
      /\ new.availableCount = left /\ new.unlocked = unlocked
      /\ new.streakHintsGranted = pl.streakHintsGranted
      /\ new.scoreHintGranted = pl.scoreHintGranted
  <2> HIDE DEF solved, left, used, unlocked, full
  <2> QED BY <1>1, <1>2, <1>3, Zenon DEF PlayerState
<1>5. left + used = pl.availableCount + pl.hintsUsed /\ (unlocked <=> left > 0)
  BY DEF PlayerState
<1>6. HintsBalanced(pl) => HintsBalanced(new)
  <2> HIDE DEF left, used, unlocked
  <2> QED BY <1>4, <1>5 DEF HintsBalanced
<1>7. new.finished <=> pl.finished \/ mPuzzle \subseteq new.solved
  BY <1>4, Zenon
<1> QED
  BY <1>4, <1>6, <1>7, Zenon DEF new

LEMMA NewPlayerFacts ==
    ASSUME NEW i \in Nat
    PROVE  LET new == NewPlayer(i) IN
           /\ new \in PlayerState
           /\ new.solved = {} /\ ~new.finished /\ new.hintsUsed = 0
           /\ new.moveCount = 0 /\ new.displayColor = i
           /\ new.score = 0 /\ new.wrongAttempts = 0
           /\ HintsBalanced(new)
<1> DEFINE new == NewPlayer(i)
<1>1. new \in PlayerState
  BY DEF NewPlayer, PlayerState
<1>2. /\ new.solved = {} /\ ~new.finished /\ new.hintsUsed = 0
      /\ new.moveCount = 0 /\ new.displayColor = i
      /\ new.score = 0 /\ new.wrongAttempts = 0
      /\ new.availableCount = 0 /\ ~new.unlocked
      /\ new.streakHintsGranted = 0 /\ ~new.scoreHintGranted
  BY DEF NewPlayer
<1>3. HintsBalanced(new)
  <2> HIDE DEF new
  <2> QED BY <1>2, RulesAssumption DEF HintsBalanced
<1> QED
  BY <1>1, <1>2, <1>3

-----------------------------------------------------------------------------
(* The leaderboard, and the room left in a solve order                      *)

\* Sorting gives each player a place of its own among 1..n, better scores
\* first and ties by id, for any number of players and any scores.
LEMMA RebuildLeaderboardSorts ==
    ASSUME NEW players, IsFiniteSet(DOMAIN players), DOMAIN players \subseteq Nat,
           \A p \in DOMAIN players : players[p].score \in Nat
    PROVE  LET rank == RebuildLeaderboard(players) IN
           /\ rank \in [DOMAIN players -> Nat]
           /\ Range(rank) = 1..Cardinality(DOMAIN players)
           /\ \A p, q \in DOMAIN players : rank[p] < rank[q] => Ahead(players, p, q)
<1> DEFINE D == DOMAIN players
           Better(p) == {q \in D : Ahead(players, q, p)}
           rank == RebuildLeaderboard(players)
<1>1. \A p \in D : /\ IsFiniteSet(Better(p)) /\ Cardinality(Better(p)) \in Nat
                   /\ Cardinality(Better(p)) < Cardinality(D)
  <2> SUFFICES ASSUME NEW p \in D
               PROVE  /\ IsFiniteSet(Better(p)) /\ Cardinality(Better(p)) \in Nat
                      /\ Cardinality(Better(p)) < Cardinality(D)
    OBVIOUS
  <2>1. p \notin Better(p)
    BY DEF Ahead
  <2>2. Better(p) \in SUBSET D /\ Better(p) # D
    BY <2>1
  <2>3. /\ IsFiniteSet(Better(p)) /\ Cardinality(Better(p)) <= Cardinality(D)
        /\ Cardinality(D) = Cardinality(Better(p)) => D = Better(p)
    BY <2>2, FS_Subset
  <2> QED BY <2>2, <2>3, FS_CardinalityType
<1>2. Cardinality(D) \in Nat
  BY FS_CardinalityType
<1>3. rank = [p \in D |-> 1 + Cardinality(Better(p))]
  BY DEF RebuildLeaderboard
<1>4. \A p \in D : rank[p] = 1 + Cardinality(Better(p))
  BY <1>3
<1>5. rank \in [D -> 1..Cardinality(D)]
  <2>1. \A p \in D : 1 + Cardinality(Better(p)) \in 1..Cardinality(D)
    <3> HIDE DEF Better, D
    <3> QED BY <1>1, <1>2
  <2> HIDE DEF Better, D, rank
  <2> QED BY <1>3, <2>1
<1>6. \A p, q \in D : Ahead(players, p, q) => rank[p] < rank[q]
  <2> SUFFICES ASSUME NEW p \in D, NEW q \in D, Ahead(players, p, q)
               PROVE  rank[p] < rank[q]
    OBVIOUS
  <2>1. Better(p) \in SUBSET Better(q)
    BY DEF Ahead
  <2>2. p \in Better(q) /\ p \notin Better(p)
    BY DEF Ahead
  <2>3. /\ Cardinality(Better(p)) <= Cardinality(Better(q))
        /\ Cardinality(Better(q)) = Cardinality(Better(p)) => Better(q) = Better(p)
    <3>1. IsFiniteSet(Better(q))
      BY <1>1
    <3> HIDE DEF Better
    <3> QED BY <2>1, <3>1, FS_Subset
  <2>4. Better(p) # Better(q)
    BY <2>2
  <2> HIDE DEF Better, D, rank
  <2> QED BY <1>1, <1>4, <2>3, <2>4
<1>7. \A p, q \in D : p = q \/ Ahead(players, p, q) \/ Ahead(players, q, p)
  BY DEF Ahead
<1>8. \A p, q \in D : rank[p] < rank[q] => Ahead(players, p, q)
  BY <1>5, <1>6, <1>7
<1>9. rank \in Injection(D, 1..Cardinality(D))
  BY <1>5, <1>6, <1>7 DEF Injection, IsInjective
<1>10. IsFiniteSet(1..Cardinality(D)) /\ Cardinality(1..Cardinality(D)) = Cardinality(D)
  BY <1>2, FS_Interval
<1>11. rank \in Surjection(D, 1..Cardinality(D))
  <2> HIDE DEF rank, D
  <2> QED BY <1>9, <1>10, FS_Injection
<1>12. Range(rank) = 1..Cardinality(D)
  <2> HIDE DEF rank
  <2> QED BY <1>5, <1>11 DEF Surjection, Range
<1> QED
  BY <1>5, <1>8, <1>12

LEMMA RangeOfAppend ==
    ASSUME NEW S, NEW seq \in Seq(S), NEW e \in S
    PROVE  Range(Append(seq, e)) = Range(seq) \cup {e}
<1> DEFINE app == Append(seq, e)
<1>1. /\ DOMAIN app = 1..Len(seq) + 1 /\ DOMAIN seq = 1..Len(seq) /\ Len(seq) \in Nat
      /\ app[Len(seq) + 1] = e
      /\ \A i \in 1..Len(seq) : app[i] = seq[i]
  OBVIOUS
<1> HIDE DEF app
<1>2. \A i \in DOMAIN app : i \in DOMAIN seq \/ i = Len(seq) + 1
  BY <1>1
<1>3. Range(app) \subseteq Range(seq) \cup {e}
  BY <1>1, <1>2 DEF Range
<1>4. Range(seq) \cup {e} \subseteq Range(app)
  BY <1>1 DEF Range
<1> QED BY <1>3, <1>4 DEF app

\* An order that names each of its players once and not p still has room for p:
\* the test "solveRank <= MAX_PLAYERS" of SubmitCell never drops a solve.
LEMMA RoomInOrder ==
    ASSUME NEW D, IsFiniteSet(D), Cardinality(D) <= MaxPlayers,
           NEW seq \in Seq(D), IsInjective(seq), NEW p \in D, p \notin Range(seq)
    PROVE  Len(seq) < MaxPlayers
<1> DEFINE rest == D \ {p}
<1>1. /\ IsFiniteSet(rest) /\ Cardinality(rest) = Cardinality(D) - 1
      /\ Cardinality(D) \in Nat
  BY FS_RemoveElement, FS_CardinalityType
<1>2. Len(seq) \in Nat /\ seq \in [1..Len(seq) -> D]
  OBVIOUS
<1>3. seq \in Injection(1..Len(seq), rest)
  BY <1>2 DEF Range, Injection, IsInjective
<1>4. Cardinality(1..Len(seq)) = Len(seq)
  BY <1>2, FS_Interval
<1>5. Cardinality(1..Len(seq)) <= Cardinality(rest)
  <2> HIDE DEF rest
  <2> QED BY <1>1, <1>3, FS_Injection
<1> QED
  BY <1>1, <1>2, <1>4, <1>5, RulesAssumption

-----------------------------------------------------------------------------
(* The inductive invariant                                                  *)

\* The invariants of the runs together: HintsAccounted needs SolveOrderSound
\* (an unsolved cell has no place for the player in its order) and the bound on
\* the round's size (every first solve finds room in the order).
RoundInv ==
    /\ TypeOK
    /\ SolveOrderSound
    /\ HintsAccounted
    /\ HintBudget
    /\ RoundOverWhenFilled
    /\ LeaderboardSorted

LEMMA InitRoundInv == Init => RoundInv
<1> SUFFICES ASSUME Init PROVE RoundInv
  OBVIOUS
<1>1. InRound = {} /\ DOMAIN mRank = {} /\ mRank \in [{} -> Nat]
      /\ mPlayers \in [{} -> PlayerState]
  BY DEF Init, InRound
<1>2. IsFiniteSet({}) /\ Cardinality({}) = 0
  BY FS_EmptySet
<1>3. \A c \in Cells : mCellSolveOrder[c] = <<>> /\ Range(mCellSolveOrder[c]) = {}
  BY DEF Init, Range
<1>4. TypeOK
  <2>1. mCellSolveOrder \in [Cells -> Seq({})]
    BY DEF Init
  <2>2. InRound \subseteq Players /\ IsFiniteSet(InRound) /\ Cardinality(InRound) <= MaxPlayers
    BY <1>1, <1>2, RulesAssumption
  <2>3. /\ mPlayers \in [InRound -> PlayerState]
        /\ mRank \in [InRound -> Nat]
        /\ mCellSolveOrder \in [Cells -> Seq(InRound)]
    BY <1>1, <2>1
  <2>4. mPuzzle \subseteq Cells /\ mRoundFinished \in BOOLEAN
    BY DEF Init
  <2> QED BY <2>2, <2>3, <2>4 DEF TypeOK
<1>5. SolveOrderSound
  BY <1>3 DEF SolveOrderSound, IsInjective
<1>6. HintsAccounted /\ HintBudget
  BY <1>1 DEF HintsAccounted, HintBudget
<1>7. RoundOverWhenFilled
  BY <1>1 DEF RoundOverWhenFilled, Init
<1>8. LeaderboardSorted
  <2>1. Range(mRank) = {}
    BY <1>1 DEF Range
  <2>2. 1..0 = {}
    OBVIOUS
  <2> QED BY <1>1, <1>2, <2>1, <2>2 DEF LeaderboardSorted
<1> QED
  BY <1>4, <1>5, <1>6, <1>7, <1>8 DEF RoundInv

\* What a step that replaces one record and sorts again keeps.
LEMMA OneRecordReplaced ==
    ASSUME TypeOK, NEW p \in InRound, NEW r \in PlayerState,
           mPlayers' = [mPlayers EXCEPT ![p] = r],
           mRank' = RebuildLeaderboard(mPlayers')
    PROVE  /\ InRound' = InRound
           /\ mPlayers' \in [InRound -> PlayerState]
           /\ mPlayers'[p] = r
           /\ \A q \in InRound : q # p => mPlayers'[q] = mPlayers[q]
           /\ mRank' \in [InRound -> Nat]
           /\ LeaderboardSorted'
<1>1. InRound' = InRound /\ mPlayers' \in [InRound -> PlayerState]
  BY DEF TypeOK, InRound
<1>2. /\ mPlayers'[p] = r
      /\ \A q \in InRound : q # p => mPlayers'[q] = mPlayers[q]
  BY DEF TypeOK, InRound
<1>3. IsFiniteSet(DOMAIN mPlayers') /\ DOMAIN mPlayers' \subseteq Nat
  BY <1>1, PlayersAssumption DEF TypeOK, InRound
<1>4. \A q \in DOMAIN mPlayers' : mPlayers'[q].score \in Nat
  BY <1>1 DEF PlayerState
<1>5. mRank' \in [InRound -> Nat] /\ LeaderboardSorted'
  BY <1>1, <1>3, <1>4, RebuildLeaderboardSorts DEF LeaderboardSorted, InRound
<1> QED
  BY <1>1, <1>2, <1>5

\* A step that leaves every player's cells, finished mark and used hints alone
\* leaves the solve orders sound and the round as over as it was.
LEMMA SameCellsSameRound ==
    ASSUME RoundInv, TypeOK', LeaderboardSorted', InRound' = InRound,
           UNCHANGED <<mPuzzle, mCellSolveOrder, mRoundFinished>>,
           \A q \in InRound : /\ mPlayers'[q].solved = mPlayers[q].solved
                              /\ mPlayers'[q].finished = mPlayers[q].finished
                              /\ mPlayers'[q].hintsUsed = mPlayers[q].hintsUsed
                              /\ HintsBalanced(mPlayers'[q])
    PROVE  RoundInv'
<1>1. SolveOrderSound'
  <2>1. \A c \in Cells : Range(mCellSolveOrder[c]) \subseteq InRound
    BY DEF RoundInv, TypeOK, Range
  <2> QED BY <2>1 DEF RoundInv, SolveOrderSound
<1>2. HintsAccounted'
  <2>1. \A q \in InRound : HintedCells(q)' = HintedCells(q)
    BY DEF HintedCells
  <2> QED BY <2>1 DEF RoundInv, HintsAccounted
<1>3. HintBudget'
  BY DEF HintBudget
<1>4. RoundOverWhenFilled'
  BY DEF RoundInv, RoundOverWhenFilled
<1> QED
  BY <1>1, <1>2, <1>3, <1>4 DEF RoundInv

LEMMA WrongPreserves ==
    ASSUME RoundInv, NEW p, NEW c, SubmitWrong(p, c)
    PROVE  RoundInv'
<1> DEFINE r == AfterWrong(mPlayers[p])
<1>1. p \in InRound /\ ~mRoundFinished /\ mPlayers[p] \in PlayerState
  BY DEF SubmitWrong, Accepted, RoundInv, TypeOK
<1>2. /\ r \in PlayerState
      /\ r.solved = mPlayers[p].solved /\ r.finished = mPlayers[p].finished
      /\ r.hintsUsed = mPlayers[p].hintsUsed
      /\ HintsBalanced(r)
  BY <1>1, AfterWrongFacts DEF RoundInv, HintBudget
<1>3. /\ mPlayers' = [mPlayers EXCEPT ![p] = r] /\ mRank' = RebuildLeaderboard(mPlayers')
      /\ UNCHANGED <<mPuzzle, mCellSolveOrder, mRoundFinished>>
  BY DEF SubmitWrong
<1> HIDE DEF r
<1>4. /\ InRound' = InRound
      /\ mPlayers' \in [InRound -> PlayerState]
      /\ mPlayers'[p] = r
      /\ \A q \in InRound : q # p => mPlayers'[q] = mPlayers[q]
      /\ mRank' \in [InRound -> Nat]
      /\ LeaderboardSorted'
  BY <1>1, <1>2, <1>3, OneRecordReplaced DEF RoundInv
<1>5. \A q \in InRound : /\ mPlayers'[q].solved = mPlayers[q].solved
                         /\ mPlayers'[q].finished = mPlayers[q].finished
                         /\ mPlayers'[q].hintsUsed = mPlayers[q].hintsUsed
                         /\ HintsBalanced(mPlayers'[q])
  BY <1>2, <1>4 DEF RoundInv, HintBudget
<1>6. TypeOK'
  BY <1>3, <1>4 DEF RoundInv, TypeOK
<1> QED
  BY <1>3, <1>4, <1>5, <1>6, SameCellsSameRound

LEMMA RepeatPreserves ==
    ASSUME RoundInv, NEW p, NEW c, SubmitRepeat(p, c)
    PROVE  RoundInv'
<1> DEFINE moves == mPlayers[p].moveCount + 1
           r == [mPlayers[p] EXCEPT !.moveCount = moves]
<1>1. p \in InRound /\ mPlayers[p] \in PlayerState
  BY DEF SubmitRepeat, Accepted, RoundInv, TypeOK
<1>2. moves \in Nat
  BY <1>1 DEF PlayerState
<1>3. /\ mPlayers' = [mPlayers EXCEPT ![p] = r] /\ mRank' = RebuildLeaderboard(mPlayers')
      /\ UNCHANGED <<mPuzzle, mCellSolveOrder, mRoundFinished>>
  BY DEF SubmitRepeat
<1>4. /\ r \in PlayerState
      /\ r.solved = mPlayers[p].solved /\ r.finished = mPlayers[p].finished
      /\ r.hintsUsed = mPlayers[p].hintsUsed
      /\ r.availableCount = mPlayers[p].availableCount
      /\ r.unlocked = mPlayers[p].unlocked
      /\ r.streakHintsGranted = mPlayers[p].streakHintsGranted
      /\ r.scoreHintGranted = mPlayers[p].scoreHintGranted
  <2> HIDE DEF moves
  <2> QED BY <1>1, <1>2, Zenon DEF PlayerState
<1> HIDE DEF r
<1>5. HintsBalanced(r)
  BY <1>1, <1>4 DEF RoundInv, HintBudget, HintsBalanced
<1>6. /\ InRound' = InRound
      /\ mPlayers' \in [InRound -> PlayerState]
      /\ mPlayers'[p] = r
      /\ \A q \in InRound : q # p => mPlayers'[q] = mPlayers[q]
      /\ mRank' \in [InRound -> Nat]
      /\ LeaderboardSorted'
  BY <1>1, <1>3, <1>4, OneRecordReplaced DEF RoundInv
<1>7. \A q \in InRound : /\ mPlayers'[q].solved = mPlayers[q].solved
                         /\ mPlayers'[q].finished = mPlayers[q].finished
                         /\ mPlayers'[q].hintsUsed = mPlayers[q].hintsUsed
                         /\ HintsBalanced(mPlayers'[q])
  BY <1>4, <1>5, <1>6 DEF RoundInv, HintBudget
<1>8. TypeOK'
  BY <1>3, <1>6 DEF RoundInv, TypeOK
<1> QED
  BY <1>3, <1>6, <1>7, <1>8, SameCellsSameRound

\* When p's record gains the open cell c and the round ends exactly if that
\* fills p's board, only p can have finished.
LEMMA FilledByOne ==
    ASSUME RoundInv, ~mRoundFinished, NEW p \in InRound, NEW c, c \in mPuzzle,
           InRound' = InRound, mPuzzle' = mPuzzle,
           mPlayers'[p].solved = mPlayers[p].solved \cup {c},
           mPlayers'[p].finished <=> mPlayers[p].finished \/ mPuzzle \subseteq mPlayers'[p].solved,
           \A q \in InRound : q # p => mPlayers'[q] = mPlayers[q],
           mRoundFinished' <=> mPuzzle \subseteq mPlayers'[p].solved
    PROVE  RoundOverWhenFilled'
<1>1. \A q \in InRound : ~mPlayers[q].finished /\ ~(mPuzzle \subseteq mPlayers[q].solved)
  BY DEF RoundInv, RoundOverWhenFilled
<1>2. \A q \in InRound : q # p => ~mPlayers'[q].finished
                                  /\ ~(mPuzzle \subseteq mPlayers'[q].solved)
  BY <1>1
<1>3. mPlayers'[p].finished <=> mPuzzle \subseteq mPlayers'[p].solved
  BY <1>1
<1> QED
  BY <1>2, <1>3 DEF RoundOverWhenFilled

LEMMA HintPreserves ==
    ASSUME RoundInv, NEW p, NEW c, HintApplied(p, c)
    PROVE  RoundInv'
<1> DEFINE r == AfterHint(mPlayers[p], c)
<1>1. /\ p \in InRound /\ ~mRoundFinished /\ mPlayers[p] \in PlayerState
      /\ mPlayers[p].availableCount > 0
      /\ c \in mPuzzle /\ c \in Cells /\ c \notin mPlayers[p].solved
  BY DEF HintApplied, HintAllowed, AlreadySolved, RoundInv, TypeOK
<1>2. /\ r \in PlayerState
      /\ r.solved = mPlayers[p].solved \cup {c}
      /\ r.finished <=> mPlayers[p].finished \/ mPuzzle \subseteq r.solved
      /\ r.hintsUsed = mPlayers[p].hintsUsed + 1
      /\ HintsBalanced(r)
  BY <1>1, AfterHintFacts DEF RoundInv, HintBudget
<1>3. /\ mPlayers' = [mPlayers EXCEPT ![p] = r] /\ mRank' = RebuildLeaderboard(mPlayers')
      /\ UNCHANGED <<mPuzzle, mCellSolveOrder>>
      /\ mRoundFinished' = CheckPlayerCompletedBoard(mPlayers'[p].solved)
  BY DEF HintApplied
<1> HIDE DEF r
<1>4. /\ InRound' = InRound
      /\ mPlayers' \in [InRound -> PlayerState]
      /\ mPlayers'[p] = r
      /\ \A q \in InRound : q # p => mPlayers'[q] = mPlayers[q]
      /\ mRank' \in [InRound -> Nat]
      /\ LeaderboardSorted'
  BY <1>1, <1>2, <1>3, OneRecordReplaced DEF RoundInv
<1>5. mRoundFinished' \in BOOLEAN /\ (mRoundFinished' <=> mPuzzle \subseteq mPlayers'[p].solved)
  BY <1>3 DEF CheckPlayerCompletedBoard
<1>6. TypeOK'
  BY <1>3, <1>4, <1>5 DEF RoundInv, TypeOK
<1>7. SolveOrderSound'
  <2>1. \A d \in Cells : Range(mCellSolveOrder[d]) \subseteq InRound
    BY DEF RoundInv, TypeOK, Range
  <2>2. \A q \in InRound : mPlayers[q].solved \subseteq mPlayers'[q].solved
    BY <1>2, <1>4
  <2> QED BY <1>3, <2>1, <2>2 DEF RoundInv, SolveOrderSound
<1>8. HintsAccounted'
  <2>1. p \notin Range(mCellSolveOrder[c])
    BY <1>1 DEF RoundInv, SolveOrderSound
  <2>2. HintedCells(p)' = HintedCells(p) \cup {c} /\ c \notin HintedCells(p)
    BY <1>1, <1>2, <1>3, <1>4, <2>1 DEF HintedCells
  <2>3. IsFiniteSet(HintedCells(p))
    <3>1. HintedCells(p) \in SUBSET Cells
      BY <1>1 DEF HintedCells, PlayerState
    <3> QED BY <3>1, PuzzlesAssumption, FS_Subset
  <2>4. Cardinality(HintedCells(p)') = Cardinality(HintedCells(p)) + 1
    BY <2>2, <2>3, FS_AddElement
  <2>5. \A q \in InRound : q # p => HintedCells(q)' = HintedCells(q)
    BY <1>3, <1>4 DEF HintedCells
  <2>6. \A q \in InRound : mPlayers'[q].hintsUsed = Cardinality(HintedCells(q)')
    <3> SUFFICES ASSUME NEW q \in InRound
                 PROVE  mPlayers'[q].hintsUsed = Cardinality(HintedCells(q)')
      OBVIOUS
    <3>1. CASE q = p
      BY <1>1, <1>2, <1>4, <2>4, <3>1 DEF RoundInv, HintsAccounted
    <3>2. CASE q # p
      BY <1>4, <2>5, <3>2 DEF RoundInv, HintsAccounted
    <3> QED BY <3>1, <3>2
  <2> QED BY <1>4, <2>6 DEF HintsAccounted
<1>9. HintBudget'
  BY <1>2, <1>4 DEF RoundInv, HintBudget
<1>10. RoundOverWhenFilled'
  BY <1>1, <1>2, <1>3, <1>4, <1>5, FilledByOne
<1> QED
  BY <1>4, <1>6, <1>7, <1>8, <1>9, <1>10 DEF RoundInv

LEMMA FirstSolvePreserves ==
    ASSUME RoundInv, NEW p, NEW c, SubmitFirstSolve(p, c)
    PROVE  RoundInv'
<1> DEFINE points == PointsForSolveRank(SolveRank(c))
           r == AfterSolve(mPlayers[p], c, points)
           order == mCellSolveOrder[c]
<1>1. /\ p \in InRound /\ ~mRoundFinished /\ mPlayers[p] \in PlayerState
      /\ c \in mPuzzle /\ c \in Cells /\ c \notin mPlayers[p].solved
      /\ order \in Seq(InRound) /\ IsInjective(order) /\ p \notin Range(order)
  BY DEF SubmitFirstSolve, Accepted, AlreadySolved, RoundInv, TypeOK, SolveOrderSound
<1>2. points \in Nat
  <2>1. {FirstSolvePoints, SecondSolvePoints, ThirdSolvePoints, 0} \subseteq Nat
    BY RulesAssumption
  <2> QED BY <2>1 DEF PointsForSolveRank
<1>3. /\ r \in PlayerState
      /\ r.solved = mPlayers[p].solved \cup {c}
      /\ r.finished <=> mPlayers[p].finished \/ mPuzzle \subseteq r.solved
      /\ r.hintsUsed = mPlayers[p].hintsUsed
      /\ HintsBalanced(r)
  <2> HIDE DEF points
  <2> QED BY <1>1, <1>2, AfterSolveFacts DEF RoundInv, HintBudget
<1>4. /\ mPlayers' = [mPlayers EXCEPT ![p] = r] /\ mRank' = RebuildLeaderboard(mPlayers')
      /\ mCellSolveOrder' = [mCellSolveOrder EXCEPT ![c] = Recorded(order, p)]
      /\ UNCHANGED mPuzzle
      /\ mRoundFinished' = CheckPlayerCompletedBoard(mPlayers'[p].solved)
  BY DEF SubmitFirstSolve
<1> HIDE DEF r, points
<1>5. Recorded(order, p) = Append(order, p)
  <2>1. Len(order) < MaxPlayers
    BY <1>1, RoomInOrder DEF RoundInv, TypeOK
  <2> QED BY <2>1 DEF Recorded
<1>6. /\ Append(order, p) \in Seq(InRound)
      /\ Range(Append(order, p)) = Range(order) \cup {p}
  BY <1>1, RangeOfAppend
<1>7. IsInjective(Append(order, p))
  <2>1. /\ DOMAIN Append(order, p) = 1..Len(order) + 1 /\ DOMAIN order = 1..Len(order)
        /\ Len(order) \in Nat /\ Append(order, p)[Len(order) + 1] = p
        /\ \A i \in 1..Len(order) : Append(order, p)[i] = order[i]
    BY <1>1
  <2>2. \A i \in DOMAIN order : order[i] # p
    BY <1>1 DEF Range
  <2>3. \A i \in DOMAIN Append(order, p) : i \in DOMAIN order \/ i = Len(order) + 1
    BY <2>1
  <2> HIDE DEF order
  <2> QED BY <1>1, <2>1, <2>2, <2>3 DEF IsInjective
<1>8. /\ mCellSolveOrder' \in [Cells -> Seq(InRound)]
      /\ mCellSolveOrder'[c] = Append(order, p)
      /\ \A d \in Cells : d # c => mCellSolveOrder'[d] = mCellSolveOrder[d]
  BY <1>1, <1>4, <1>5, <1>6 DEF RoundInv, TypeOK
<1>9. /\ InRound' = InRound
      /\ mPlayers' \in [InRound -> PlayerState]
      /\ mPlayers'[p] = r
      /\ \A q \in InRound : q # p => mPlayers'[q] = mPlayers[q]
      /\ mRank' \in [InRound -> Nat]
      /\ LeaderboardSorted'
  BY <1>1, <1>3, <1>4, OneRecordReplaced DEF RoundInv
<1>10. mRoundFinished' \in BOOLEAN /\ (mRoundFinished' <=> mPuzzle \subseteq mPlayers'[p].solved)
  BY <1>4 DEF CheckPlayerCompletedBoard
<1>11. TypeOK'
  BY <1>4, <1>8, <1>9, <1>10 DEF RoundInv, TypeOK
<1> DEFINE newRange == Range(mCellSolveOrder'[c])
<1>12. newRange = Range(order) \cup {p}
  BY <1>6, <1>8
<1>13. SolveOrderSound'
  <2>1. \A d \in Cells : Range(mCellSolveOrder[d]) \subseteq InRound
    BY DEF RoundInv, TypeOK, Range
  <2>2. \A q \in InRound : mPlayers[q].solved \subseteq mPlayers'[q].solved
    BY <1>3, <1>9
  <2>3. \A d \in Cells : IsInjective(mCellSolveOrder'[d])
    BY <1>7, <1>8 DEF RoundInv, SolveOrderSound
  <2>4. \A q \in newRange : c \in mPlayers'[q].solved
    BY <1>1, <1>3, <1>9, <1>12, <2>1, <2>2 DEF RoundInv, SolveOrderSound
  <2>5. \A d \in Cells : d # c => \A q \in Range(mCellSolveOrder'[d]) : d \in mPlayers'[q].solved
    BY <1>8, <2>1, <2>2 DEF RoundInv, SolveOrderSound
  <2> QED BY <2>3, <2>4, <2>5 DEF SolveOrderSound
<1>14. HintsAccounted'
  <2>1. HintedCells(p)' = HintedCells(p)
    <3>1. \A d : d \in HintedCells(p)' <=> d \in HintedCells(p)
      <4> TAKE d
      <4>1. CASE d = c
        BY <1>1, <1>12, <4>1 DEF HintedCells
      <4>2. CASE d # c
        BY <1>1, <1>3, <1>8, <1>9, <4>2 DEF HintedCells, PlayerState
      <4> QED BY <4>1, <4>2
    <3> QED BY <3>1 DEF HintedCells
  <2>2. \A q \in InRound : q # p => HintedCells(q)' = HintedCells(q)
    <3> SUFFICES ASSUME NEW q \in InRound, q # p
                 PROVE  HintedCells(q)' = HintedCells(q)
      OBVIOUS
    <3>1. mPlayers[q].solved \subseteq Cells /\ mPlayers'[q] = mPlayers[q]
      BY <1>9 DEF RoundInv, TypeOK, PlayerState
    <3>2. \A d \in Cells : q \in Range(mCellSolveOrder'[d]) <=> q \in Range(mCellSolveOrder[d])
      BY <1>8, <1>12
    <3> QED BY <3>1, <3>2 DEF HintedCells
  <2>3. \A q \in InRound : mPlayers'[q].hintsUsed = mPlayers[q].hintsUsed
    BY <1>3, <1>9
  <2> QED BY <1>9, <2>1, <2>2, <2>3 DEF RoundInv, HintsAccounted
<1>15. HintBudget'
  BY <1>3, <1>9 DEF RoundInv, HintBudget
<1>16. RoundOverWhenFilled'
  BY <1>1, <1>3, <1>4, <1>9, <1>10, FilledByOne
<1> QED
  BY <1>9, <1>11, <1>13, <1>14, <1>15, <1>16 DEF RoundInv

\* What a new round gives the players of a lineup.
LEMMA StartFacts ==
    ASSUME NEW puzzle \in Puzzles, NEW ids \in Lineups, StartNewMatch(puzzle, ids)
    PROVE  /\ InRound' = Range(ids)
           /\ \A p \in Range(ids) : \E i \in Nat \ {0} : mPlayers'[p] = NewPlayer(i)
           /\ mPlayers' \in [Range(ids) -> PlayerState]
           /\ Range(ids) \subseteq Players
           /\ IsFiniteSet(Range(ids)) /\ Cardinality(Range(ids)) <= MaxPlayers
<1>1. /\ ids \in Seq(Players) /\ Len(ids) <= MaxPlayers /\ Len(ids) \in Nat
      /\ DOMAIN ids = 1..Len(ids)
  BY LineupsAssumption
<1> DEFINE place(p) == CHOOSE i \in DOMAIN ids : ids[i] = p
<1>2. \A p \in Range(ids) : place(p) \in Nat \ {0}
  BY <1>1 DEF Range
<1>3. mPlayers' = [p \in Range(ids) |-> NewPlayer(place(p))]
  BY DEF StartNewMatch
<1> HIDE DEF place
<1>4. InRound' = Range(ids)
  BY <1>3 DEF InRound
<1>5. \A p \in Range(ids) : \E i \in Nat \ {0} : mPlayers'[p] = NewPlayer(i)
  BY <1>2, <1>3
<1>6. mPlayers' \in [Range(ids) -> PlayerState]
  BY <1>2, <1>3, NewPlayerFacts
<1>7. Range(ids) \subseteq Players
  BY <1>1 DEF Range
<1>8. IsFiniteSet(1..Len(ids)) /\ Cardinality(1..Len(ids)) = Len(ids)
  BY <1>1, FS_Interval
<1>9. ids \in Surjection(1..Len(ids), Range(ids))
  BY <1>1 DEF Surjection, Range
<1>10. IsFiniteSet(Range(ids)) /\ Cardinality(Range(ids)) <= Len(ids)
  BY <1>8, <1>9, FS_Surjection
<1>11. Cardinality(Range(ids)) <= MaxPlayers
  BY <1>1, <1>10, RulesAssumption, FS_CardinalityType
<1> QED
  BY <1>4, <1>5, <1>6, <1>7, <1>10, <1>11

LEMMA StartPreserves ==
    ASSUME NEW puzzle \in Puzzles, NEW ids \in Lineups, StartNewMatch(puzzle, ids)
    PROVE  RoundInv'
<1>1. /\ InRound' = Range(ids)
      /\ mPlayers' \in [Range(ids) -> PlayerState]
      /\ Range(ids) \subseteq Players
      /\ IsFiniteSet(Range(ids)) /\ Cardinality(Range(ids)) <= MaxPlayers
  BY StartFacts
<1>2. \A p \in Range(ids) : /\ mPlayers'[p].solved = {} /\ ~mPlayers'[p].finished
                            /\ mPlayers'[p].hintsUsed = 0
                            /\ HintsBalanced(mPlayers'[p])
  BY StartFacts, NewPlayerFacts
<1>3. /\ mPuzzle' \subseteq Cells /\ mPuzzle' # {} /\ mRoundFinished' = FALSE
      /\ mRank' = RebuildLeaderboard(mPlayers')
      /\ mCellSolveOrder' = [c \in Cells |-> <<>>]
  BY PuzzlesAssumption DEF StartNewMatch
<1>4. /\ mRank' \in [Range(ids) -> Nat] /\ LeaderboardSorted'
  <2>1. DOMAIN mPlayers' = Range(ids) /\ DOMAIN mPlayers' \subseteq Nat
    BY <1>1, PlayersAssumption
  <2>2. \A q \in DOMAIN mPlayers' : mPlayers'[q].score \in Nat
    BY <1>1 DEF PlayerState
  <2> QED BY <1>1, <1>3, <2>1, <2>2, RebuildLeaderboardSorts DEF LeaderboardSorted, InRound
<1>5. \A c \in Cells : mCellSolveOrder'[c] = <<>> /\ Range(mCellSolveOrder'[c]) = {}
  BY <1>3 DEF Range
<1>6. TypeOK'
  <2>1. mCellSolveOrder' \in [Cells -> Seq(Range(ids))]
    BY <1>3
  <2>2. mRoundFinished' \in BOOLEAN
    BY <1>3
  <2> QED BY <1>1, <1>3, <1>4, <2>1, <2>2 DEF TypeOK
<1>7. SolveOrderSound'
  BY <1>5 DEF SolveOrderSound, IsInjective
<1>8. HintsAccounted'
  <2>1. \A p \in Range(ids) : HintedCells(p)' = {}
    BY <1>2 DEF HintedCells
  <2> QED BY <1>1, <1>2, <2>1, FS_EmptySet DEF HintsAccounted
<1>9. HintBudget'
  BY <1>1, <1>2 DEF HintBudget
<1>10. RoundOverWhenFilled'
  BY <1>1, <1>2, <1>3 DEF RoundOverWhenFilled
<1> QED
  BY <1>4, <1>6, <1>7, <1>8, <1>9, <1>10 DEF RoundInv

LEMMA StutterPreserves == RoundInv /\ UNCHANGED authVars => RoundInv'
<1> SUFFICES ASSUME RoundInv, UNCHANGED authVars PROVE RoundInv'
  OBVIOUS
<1>1. UNCHANGED <<mPuzzle, mPlayers, mRank, mCellSolveOrder, mRoundFinished>>
  BY DEF authVars
<1>2. InRound' = InRound /\ \A p : HintedCells(p)' = HintedCells(p)
  BY <1>1 DEF InRound, HintedCells
<1> QED
  BY <1>1, <1>2 DEF RoundInv, TypeOK, SolveOrderSound, HintsAccounted, HintBudget,
                    RoundOverWhenFilled, LeaderboardSorted

LEMMA NextRoundInv == RoundInv /\ [Next]_authVars => RoundInv'
<1> SUFFICES ASSUME RoundInv, [Next]_authVars PROVE RoundInv'
  OBVIOUS
<1>1. ASSUME NEW puzzle \in Puzzles, NEW ids \in Lineups, StartNewMatch(puzzle, ids)
      PROVE  RoundInv'
  BY <1>1, StartPreserves
<1>2. ASSUME NEW p \in Players, NEW c \in Positions, NEW value \in Values,
             SubmitCell(p, c, value)
      PROVE  RoundInv'
  <2>1. CASE SubmitRejected(p, c, value)
    BY <2>1, StutterPreserves DEF SubmitRejected
  <2>2. CASE SubmitWrong(p, c)
    BY <2>2, WrongPreserves
  <2>3. CASE SubmitFirstSolve(p, c)
    BY <2>3, FirstSolvePreserves
  <2>4. CASE SubmitRepeat(p, c)
    BY <2>4, RepeatPreserves
  <2> QED BY <1>2, <2>1, <2>2, <2>3, <2>4 DEF SubmitCell
<1>3. ASSUME NEW p \in Players, NEW c \in Positions, UseHint(p, c)
      PROVE  RoundInv'
  <2>1. CASE HintRejected(p, c)
    BY <2>1, StutterPreserves DEF HintRejected
  <2>2. CASE HintApplied(p, c)
    BY <2>2, HintPreserves
  <2> QED BY <1>3, <2>1, <2>2 DEF UseHint
<1>4. CASE UNCHANGED authVars
  BY <1>4, StutterPreserves
<1> QED
  BY <1>1, <1>2, <1>3, <1>4 DEF Next

\* The inductive invariant holds throughout every game: for any number of
\* players, any board and any values of the rules.
THEOREM RoundInvariant == Spec => []RoundInv
<1> QED BY InitRoundInv, NextRoundInv, PTL DEF Spec

\* Type correctness of the round, scores never below zero and no more players
\* than the solve orders have places.
THEOREM RoundTyped == Spec => []TypeOK
<1>1. RoundInv => TypeOK  BY DEF RoundInv
<1> QED BY <1>1, RoundInvariant, PTL

\* Every place, and so every award, of every cell goes to one player who has
\* solved it.
THEOREM SolveOrderAlwaysSound == Spec => []SolveOrderSound
<1>1. RoundInv => SolveOrderSound  BY DEF RoundInv
<1> QED BY <1>1, RoundInvariant, PTL

\* The cells solved without a place in the order are the hints used.
THEOREM HintsAlwaysAccounted == Spec => []HintsAccounted
<1>1. RoundInv => HintsAccounted  BY DEF RoundInv
<1> QED BY <1>1, RoundInvariant, PTL

\* What a player holds and has used of hints is what was granted, and no more is
\* ever granted than the rules allow.
THEOREM HintsAlwaysBalanced == Spec => []HintBudget
<1>1. RoundInv => HintBudget  BY DEF RoundInv
<1> QED BY <1>1, RoundInvariant, PTL

\* The round is over exactly when one player, and only one, has filled the board.
THEOREM RoundEndsWithOneFinisher == Spec => []RoundOverWhenFilled
<1>1. RoundInv => RoundOverWhenFilled  BY DEF RoundInv
<1> QED BY <1>1, RoundInvariant, PTL

\* The ranks always are the places 1..n in the order of the scores.
THEOREM LeaderboardAlwaysSorted == Spec => []LeaderboardSorted
<1>1. RoundInv => LeaderboardSorted  BY DEF RoundInv
<1> QED BY <1>1, RoundInvariant, PTL

-----------------------------------------------------------------------------
(* The ledger: scores and solve orders                                      *)

LEMMA PointsAreNatural == \A rank : PointsForSolveRank(rank) \in Nat
<1>1. {FirstSolvePoints, SecondSolvePoints, ThirdSolvePoints, 0} \subseteq Nat
  BY RulesAssumption
<1> QED
  BY <1>1 DEF PointsForSolveRank

\* A first solve finds room in the cell's order and goes to its end.
LEMMA FirstSolveOrder ==
    ASSUME RoundInv, NEW p, NEW c, SubmitFirstSolve(p, c)
    PROVE  /\ p \in InRound /\ c \in Cells
           /\ mCellSolveOrder[c] \in Seq(InRound) /\ IsInjective(mCellSolveOrder[c])
           /\ p \notin Range(mCellSolveOrder[c])
           /\ mCellSolveOrder'[c] = Append(mCellSolveOrder[c], p)
           /\ \A d \in Cells : d # c => mCellSolveOrder'[d] = mCellSolveOrder[d]
<1> DEFINE order == mCellSolveOrder[c]
<1>1. /\ p \in InRound /\ c \in Cells /\ c \notin mPlayers[p].solved
      /\ order \in Seq(InRound) /\ IsInjective(order) /\ p \notin Range(order)
      /\ mCellSolveOrder' = [mCellSolveOrder EXCEPT ![c] = Recorded(order, p)]
  BY DEF SubmitFirstSolve, Accepted, AlreadySolved, RoundInv, TypeOK, SolveOrderSound
<1>2. Len(order) < MaxPlayers
  BY <1>1, RoomInOrder DEF RoundInv, TypeOK
<1>3. mCellSolveOrder \in [Cells -> Seq(InRound)]
  BY DEF RoundInv, TypeOK
<1> QED
  BY <1>1, <1>2, <1>3 DEF Recorded

\* A player who joins the end of an order has the next place; the others keep
\* theirs.
LEMMA PlacesAfterAppend ==
    ASSUME NEW S, NEW seq \in Seq(S), IsInjective(seq), NEW e \in S, e \notin Range(seq)
    PROVE  LET app == Append(seq, e) IN
           /\ (CHOOSE i \in DOMAIN app : app[i] = e) = Len(seq) + 1
           /\ \A x \in Range(seq) : (CHOOSE i \in DOMAIN app : app[i] = x)
                                       = (CHOOSE i \in DOMAIN seq : seq[i] = x)
<1> DEFINE app == Append(seq, e)
<1>1. /\ DOMAIN app = 1..Len(seq) + 1 /\ DOMAIN seq = 1..Len(seq) /\ Len(seq) \in Nat
      /\ app[Len(seq) + 1] = e
      /\ \A i \in 1..Len(seq) : app[i] = seq[i]
  OBVIOUS
<1>2. \A i \in DOMAIN seq : seq[i] # e
  BY DEF Range
<1> HIDE DEF app
<1>3. \A i \in DOMAIN app : i \in DOMAIN seq \/ i = Len(seq) + 1
  BY <1>1
<1>4. \A i \in DOMAIN app : app[i] = e <=> i = Len(seq) + 1
  BY <1>1, <1>2, <1>3
<1>5. Len(seq) + 1 \in DOMAIN app
  BY <1>1
<1>6. (CHOOSE i \in DOMAIN app : app[i] = e) = Len(seq) + 1
  BY <1>4, <1>5
<1>7. ASSUME NEW x \in Range(seq)
      PROVE  (CHOOSE i \in DOMAIN app : app[i] = x) = (CHOOSE i \in DOMAIN seq : seq[i] = x)
  <2>1. PICK i \in DOMAIN seq : seq[i] = x
    BY <1>7 DEF Range
  <2>2. \A j \in DOMAIN seq : seq[j] = x <=> j = i
    BY <2>1 DEF IsInjective
  <2>3. i \in DOMAIN app /\ \A j \in DOMAIN app : app[j] = x <=> j = i
    BY <1>1, <1>2, <1>3, <2>1, <2>2
  <2>4. (CHOOSE j \in DOMAIN app : app[j] = x) = i
    BY <2>3
  <2>5. (CHOOSE j \in DOMAIN seq : seq[j] = x) = i
    BY <2>1, <2>2
  <2> QED BY <2>4, <2>5
<1> QED
  BY <1>6, <1>7 DEF app

LEMMA PaymentsTyped ==
    \A p : /\ Payments(p) \in [Cells -> Int] /\ Payments(p)' \in [Cells -> Int]
           /\ Earned(p) \in Int /\ Earned(p)' \in Int
<1> SUFFICES ASSUME NEW p
             PROVE  /\ Payments(p) \in [Cells -> Int] /\ Payments(p)' \in [Cells -> Int]
                    /\ Earned(p) \in Int /\ Earned(p)' \in Int
  OBVIOUS
<1>1. \A c : PaidFor(p, c) \in Int /\ PaidFor(p, c)' \in Int
  BY PointsAreNatural DEF PaidFor
<1>2. Payments(p) \in [Cells -> Int] /\ Payments(p)' \in [Cells -> Int]
  BY <1>1 DEF Payments
<1> QED
  BY <1>2, SumIsInteger, PuzzlesAssumption DEF Earned

\* A first solve pays its player the points of its place, and takes nothing
\* from what the others have been paid for the cell.
LEMMA FirstSolvePays ==
    ASSUME RoundInv, NEW p, NEW c, SubmitFirstSolve(p, c)
    PROVE  /\ Earned(p)' = Earned(p) + PointsForSolveRank(SolveRank(c))
           /\ \A q \in InRound : q # p => Earned(q)' = Earned(q)
<1> DEFINE order == mCellSolveOrder[c]
<1>1. /\ p \in InRound /\ c \in Cells
      /\ order \in Seq(InRound) /\ IsInjective(order)
      /\ p \notin Range(order)
      /\ mCellSolveOrder'[c] = Append(order, p)
      /\ \A d \in Cells : d # c => mCellSolveOrder'[d] = mCellSolveOrder[d]
  BY FirstSolveOrder
<1>2. Range(Append(order, p)) = Range(order) \cup {p}
  BY <1>1, RangeOfAppend
<1>3. ASSUME NEW q, NEW d \in Cells, d # c PROVE PaidFor(q, d)' = PaidFor(q, d)
  <2>1. mCellSolveOrder'[d] = mCellSolveOrder[d]
    BY <1>1, <1>3
  <2>2. PlaceIn(q, d)' = PlaceIn(q, d)
    BY <2>1, Zenon DEF PlaceIn
  <2> QED BY <2>1, <2>2 DEF PaidFor
<1>4. PaidFor(p, c) = 0 /\ PaidFor(p, c)' = PointsForSolveRank(SolveRank(c))
  <2>1. PlaceIn(p, c)' = SolveRank(c)
    BY <1>1, PlacesAfterAppend DEF PlaceIn, SolveRank
  <2> QED BY <1>1, <1>2, <2>1 DEF PaidFor
<1>5. ASSUME NEW q, q # p PROVE PaidFor(q, c)' = PaidFor(q, c)
  <2>1. q \in Range(order) => PlaceIn(q, c)' = PlaceIn(q, c)
    <3> SUFFICES ASSUME q \in Range(order) PROVE PlaceIn(q, c)' = PlaceIn(q, c)
      OBVIOUS
    <3> DEFINE app == Append(order, p)
    <3>1. (CHOOSE i \in DOMAIN app : app[i] = q) = (CHOOSE i \in DOMAIN order : order[i] = q)
      <4>1. /\ order \in Seq(InRound) /\ IsInjective(order) /\ p \in InRound
            /\ p \notin Range(order) /\ q \in Range(order)
        BY <1>1
      <4> HIDE DEF order
      <4> QED BY <4>1, PlacesAfterAppend
    <3> QED BY <1>1, <3>1, Zenon DEF PlaceIn
  <2> QED BY <1>1, <1>2, <1>5, <2>1 DEF PaidFor
<1>6. ASSUME NEW q, q # p PROVE Earned(q)' = Earned(q)
  <2>1. Payments(q)' = Payments(q)
    BY <1>3, <1>5, <1>6 DEF Payments
  <2> QED BY <2>1 DEF Earned
<1>7. Earned(p)' = Earned(p) + PointsForSolveRank(SolveRank(c))
  <2>1. /\ Payments(p)'[c] = Payments(p)[c] + PointsForSolveRank(SolveRank(c))
        /\ \A d \in Cells : d # c => Payments(p)'[d] = Payments(p)[d]
    BY <1>1, <1>3, <1>4, PointsAreNatural DEF Payments
  <2>2. SumFunction(Payments(p)') =
          SumFunction(Payments(p)) + PointsForSolveRank(SolveRank(c))
    <3>1. PICK old, new : old = Payments(p) /\ new = Payments(p)'
      OBVIOUS
    <3>2. PICK k \in Int : k = PointsForSolveRank(SolveRank(c))
      BY PointsAreNatural
    <3>3. /\ old \in [Cells -> Int] /\ new \in [Cells -> Int]
          /\ new[c] = old[c] + k /\ \A d \in Cells : d # c => new[d] = old[d]
      BY <2>1, <3>1, <3>2, PaymentsTyped
    <3>4. SumFunction(new) = SumFunction(old) + k
      <4>1. IsFiniteSet(Cells)
        BY PuzzlesAssumption
      <4>2. c \in Cells
        BY <1>1
      <4> QED BY <3>3, <4>1, <4>2, SumOfOneChange
    <3> QED BY <3>1, <3>2, <3>4
  <2> QED BY <2>2 DEF Earned
<1> QED
  BY <1>6, <1>7

LEMMA OrdersKeptPay ==
    ASSUME UNCHANGED mCellSolveOrder
    PROVE  \A q : Earned(q)' = Earned(q)
<1>1. \A q : Payments(q)' = Payments(q)
  BY DEF Payments, PaidFor, PlaceIn
<1> QED
  BY <1>1 DEF Earned

\* One player's account: what it scored against what it was paid.
InLedger(pl, earned) ==
    /\ pl.score <= earned
    /\ pl.score >= earned - WrongGuessPenalty * pl.wrongAttempts

LEMMA WrongKeepsLedger ==
    ASSUME NEW pl \in PlayerState, NEW earned \in Int, InLedger(pl, earned), earned >= 0
    PROVE  InLedger(AfterWrong(pl), earned)
<1> DEFINE new == AfterWrong(pl)
<1>1. /\ pl.score \in Nat /\ pl.wrongAttempts \in Nat /\ WrongGuessPenalty \in Nat
  BY RulesAssumption DEF PlayerState
<1>2. /\ new.wrongAttempts = pl.wrongAttempts + 1
      /\ new.score = IF pl.score < WrongGuessPenalty THEN 0 ELSE pl.score - WrongGuessPenalty
  BY AfterWrongFacts
<1> HIDE DEF new
<1>3. WrongGuessPenalty * new.wrongAttempts =
        WrongGuessPenalty * pl.wrongAttempts + WrongGuessPenalty
  BY <1>1, <1>2
<1>4. WrongGuessPenalty * pl.wrongAttempts \in Nat
  BY <1>1
<1>5. InLedger(new, earned)
  <2> DEFINE lost == WrongGuessPenalty * pl.wrongAttempts
  <2>1. pl.score <= earned /\ pl.score >= earned - lost /\ lost \in Nat
    BY <1>4 DEF InLedger
  <2>2. WrongGuessPenalty * new.wrongAttempts = lost + WrongGuessPenalty
    BY <1>3
  <2> HIDE DEF lost
  <2>3. new.score <= earned /\ new.score >= earned - (lost + WrongGuessPenalty)
    BY <1>1, <1>2, <2>1
  <2> QED BY <2>2, <2>3 DEF InLedger
<1> QED
  BY <1>5 DEF new

LedgerInv == RoundInv /\ ScoreLedger

LEMMA InitLedger == Init => LedgerInv
  BY InitRoundInv DEF LedgerInv, ScoreLedger, Init, InRound

LEMMA NextLedger == LedgerInv /\ [Next]_authVars => LedgerInv'
<1> SUFFICES ASSUME LedgerInv, [Next]_authVars PROVE ScoreLedger'
  BY NextRoundInv DEF LedgerInv
<1>1. RoundInv /\ \A q \in InRound : mPlayers[q] \in PlayerState /\ InLedger(mPlayers[q], Earned(q))
  BY DEF LedgerInv, RoundInv, TypeOK, ScoreLedger, InLedger
<1>2. ASSUME InRound' = InRound,
             \A q \in InRound : InLedger(mPlayers'[q], Earned(q)')
      PROVE  ScoreLedger'
  BY <1>2 DEF ScoreLedger, InLedger
<1>3. ASSUME NEW p \in InRound, NEW r \in PlayerState, InLedger(r, Earned(p)'),
             mPlayers' = [mPlayers EXCEPT ![p] = r], mRank' = RebuildLeaderboard(mPlayers'),
             \A q \in InRound : q # p => Earned(q)' = Earned(q)
      PROVE  ScoreLedger'
  <2>1. /\ InRound' = InRound /\ mPlayers'[p] = r
        /\ \A q \in InRound : q # p => mPlayers'[q] = mPlayers[q]
    BY <1>1, <1>3, OneRecordReplaced DEF RoundInv
  <2>2. \A q \in InRound : InLedger(mPlayers'[q], Earned(q)')
    BY <1>1, <1>3, <2>1
  <2> QED BY <1>2, <2>1, <2>2
<1>4. ASSUME NEW puzzle \in Puzzles, NEW ids \in Lineups, StartNewMatch(puzzle, ids)
      PROVE  ScoreLedger'
  <2>1. \A q \in InRound' : mPlayers'[q].score = 0 /\ mPlayers'[q].wrongAttempts = 0
    BY <1>4, StartFacts, NewPlayerFacts
  <2>2. ASSUME NEW q PROVE Earned(q)' = 0
    <3>1. \A c \in Cells : mCellSolveOrder'[c] = <<>> /\ Range(mCellSolveOrder'[c]) = {}
      BY <1>4 DEF StartNewMatch, Range
    <3>2. \A c \in Cells : Payments(q)'[c] = 0
      BY <3>1 DEF Payments, PaidFor
    <3> QED BY <3>2, PaymentsTyped, SumOfZeros, PuzzlesAssumption DEF Earned
  <2>3. WrongGuessPenalty * 0 = 0
    BY RulesAssumption
  <2> QED BY <2>1, <2>2, <2>3 DEF ScoreLedger
<1>5. ASSUME NEW p, NEW c, SubmitWrong(p, c) PROVE ScoreLedger'
  <2>1. /\ p \in InRound /\ mRank' = RebuildLeaderboard(mPlayers')
        /\ mPlayers' = [mPlayers EXCEPT ![p] = AfterWrong(mPlayers[p])]
        /\ UNCHANGED mCellSolveOrder
    BY <1>5 DEF SubmitWrong, Accepted
  <2>2. \A q : Earned(q)' = Earned(q)
    BY <2>1, OrdersKeptPay
  <2>3. Earned(p) >= 0
    BY <1>1, <2>1, PaymentsTyped DEF InLedger, PlayerState
  <2>4. InLedger(AfterWrong(mPlayers[p]), Earned(p)')
    BY <1>1, <2>1, <2>2, <2>3, PaymentsTyped, WrongKeepsLedger
  <2> QED BY <1>1, <1>3, <2>1, <2>2, <2>4, AfterWrongFacts
<1>6. ASSUME NEW p, NEW c, SubmitFirstSolve(p, c) PROVE ScoreLedger'
  <2> DEFINE points == PointsForSolveRank(SolveRank(c))
             r == AfterSolve(mPlayers[p], c, points)
  <2>1. /\ p \in InRound /\ c \in Cells /\ mRank' = RebuildLeaderboard(mPlayers')
        /\ mPlayers' = [mPlayers EXCEPT ![p] = r] /\ points \in Nat
    BY <1>1, <1>6, FirstSolveOrder, PointsAreNatural DEF SubmitFirstSolve
  <2>2. /\ Earned(p)' = Earned(p) + points
        /\ \A q \in InRound : q # p => Earned(q)' = Earned(q)
    BY <1>1, <1>6, FirstSolvePays
  <2>3. /\ r \in PlayerState /\ r.score = mPlayers[p].score + points
        /\ r.wrongAttempts = mPlayers[p].wrongAttempts
    <3> HIDE DEF points
    <3> QED BY <1>1, <2>1, AfterSolveFacts
  <2> HIDE DEF r, points
  <2>4. InLedger(r, Earned(p)')
    <3> DEFINE lost == WrongGuessPenalty * mPlayers[p].wrongAttempts
    <3>1. /\ mPlayers[p].score <= Earned(p) /\ mPlayers[p].score >= Earned(p) - lost
          /\ lost \in Int /\ WrongGuessPenalty * r.wrongAttempts = lost
          /\ mPlayers[p].score \in Nat
      BY <1>1, <2>1, <2>3, RulesAssumption DEF InLedger, PlayerState
    <3> HIDE DEF lost
    <3> QED BY <2>1, <2>2, <2>3, <3>1, PaymentsTyped DEF InLedger
  <2> QED BY <1>3, <2>1, <2>2, <2>3, <2>4
<1>7. ASSUME NEW p, NEW c, SubmitRepeat(p, c) PROVE ScoreLedger'
  <2>1. /\ p \in InRound /\ UNCHANGED mCellSolveOrder
        /\ mPlayers' = [mPlayers EXCEPT ![p].moveCount = mPlayers[p].moveCount + 1]
    BY <1>7 DEF SubmitRepeat, Accepted
  <2>2. /\ InRound' = InRound
        /\ \A q \in InRound : /\ mPlayers'[q].score = mPlayers[q].score
                              /\ mPlayers'[q].wrongAttempts = mPlayers[q].wrongAttempts
    BY <1>1, <2>1 DEF InRound, PlayerState
  <2> QED BY <1>1, <1>2, <2>1, <2>2, OrdersKeptPay DEF InLedger
<1>8. ASSUME NEW p, NEW c, HintApplied(p, c) PROVE ScoreLedger'
  <2> DEFINE r == AfterHint(mPlayers[p], c)
  <2>1. /\ p \in InRound /\ c \in Cells /\ mPlayers[p].availableCount > 0
        /\ mRank' = RebuildLeaderboard(mPlayers')
        /\ mPlayers' = [mPlayers EXCEPT ![p] = r] /\ UNCHANGED mCellSolveOrder
    BY <1>1, <1>8 DEF HintApplied, HintAllowed, RoundInv, TypeOK
  <2>2. /\ r \in PlayerState /\ r.score = mPlayers[p].score
        /\ r.wrongAttempts = mPlayers[p].wrongAttempts
    BY <1>1, <2>1, AfterHintFacts
  <2> HIDE DEF r
  <2>3. \A q : Earned(q)' = Earned(q)
    BY <2>1, OrdersKeptPay
  <2>4. InLedger(r, Earned(p)')
    BY <1>1, <2>1, <2>2, <2>3 DEF InLedger
  <2> QED BY <1>3, <2>1, <2>2, <2>3, <2>4
<1>9. ASSUME UNCHANGED authVars PROVE ScoreLedger'
  <2>1. InRound' = InRound /\ UNCHANGED <<mPlayers, mCellSolveOrder>>
    BY <1>9 DEF authVars, InRound
  <2> QED BY <1>1, <1>2, <2>1, OrdersKeptPay
<1> QED
  BY <1>4, <1>5, <1>6, <1>7, <1>8, <1>9
     DEF Next, SubmitCell, SubmitRejected, UseHint, HintRejected

\* Every score is what the solve orders paid, less at most one penalty for each
\* wrong attempt: no interleaving of submissions, repeats and hints pays a point
\* that no place in an order stands for, or loses one without a wrong attempt.
THEOREM ScoresAlwaysAddUp == Spec => []ScoreLedger
<1>1. LedgerInv => ScoreLedger  BY DEF LedgerInv
<1> QED BY <1>1, InitLedger, NextLedger, PTL DEF Spec

-----------------------------------------------------------------------------
(* Action properties                                                        *)

\* Once finished, a round is never touched again: the only step that changes
\* anything starts the next one with every player at zero.
THEOREM FinishedRoundFrozen == Spec => FinishedFrozen
<1> DEFINE Fresh(players) ==
        \A p \in DOMAIN players :
           /\ players[p].score = 0 /\ players[p].moveCount = 0
           /\ players[p].solved = {} /\ ~players[p].unlocked
<1>1. ASSUME mRoundFinished, [Next]_authVars
      PROVE  (~mRoundFinished' /\ Fresh(mPlayers')) \/ UNCHANGED authVars
  <2>1. ASSUME NEW puzzle \in Puzzles, NEW ids \in Lineups, StartNewMatch(puzzle, ids)
        PROVE  ~mRoundFinished' /\ Fresh(mPlayers')
    <3>1. \A p \in DOMAIN mPlayers' : \E i \in Nat : mPlayers'[p] = NewPlayer(i)
      BY <2>1, StartFacts DEF InRound
    <3>2. \A i \in Nat : /\ NewPlayer(i).score = 0 /\ NewPlayer(i).moveCount = 0
                         /\ NewPlayer(i).solved = {} /\ ~NewPlayer(i).unlocked
      BY DEF NewPlayer
    <3>3. ~mRoundFinished'
      BY <2>1 DEF StartNewMatch
    <3> QED BY <3>1, <3>2, <3>3
  <2>2. ASSUME NEW p, NEW c, NEW value, SubmitCell(p, c, value)
        PROVE  UNCHANGED authVars
    BY <1>1, <2>2 DEF SubmitCell, SubmitRejected, SubmitWrong, SubmitFirstSolve,
                      SubmitRepeat, Accepted
  <2>3. ASSUME NEW p, NEW c, UseHint(p, c)
        PROVE  UNCHANGED authVars
    BY <1>1, <2>3 DEF UseHint, HintRejected, HintApplied, HintAllowed
  <2> QED BY <1>1, <2>1, <2>2, <2>3 DEF Next
<1>2. [Next]_authVars =>
        [mRoundFinished => ~mRoundFinished' /\ Fresh(mPlayers')]_authVars
  BY <1>1
<1> QED
  BY <1>2, PTL DEF Spec, FinishedFrozen

\* A cell's first solver, announced to every client, never changes within a
\* round: the solve orders only grow at their ends.
THEOREM ClaimsNeverChange == Spec => ClaimsStable
<1> DEFINE Kept == \A c \in Cells : IsExtension(mCellSolveOrder[c], mCellSolveOrder'[c])
           Reset == \A c \in Cells : mCellSolveOrder'[c] = <<>> /\ ~mRoundFinished'
                      /\ \A p \in DOMAIN mPlayers' : mPlayers'[p].solved = {}
<1>1. ASSUME NEW S, NEW seq \in Seq(S) PROVE IsExtension(seq, seq)
  BY DEF IsExtension
<1>2. ASSUME NEW S, NEW seq \in Seq(S), NEW e \in S
      PROVE  IsExtension(seq, Append(seq, e))
  BY DEF IsExtension
<1>3. ASSUME RoundInv, [Next]_authVars PROVE Kept \/ Reset \/ UNCHANGED authVars
  <2>1. \A c \in Cells : mCellSolveOrder[c] \in Seq(InRound)
    BY <1>3 DEF RoundInv, TypeOK
  <2>2. UNCHANGED mCellSolveOrder => Kept
    BY <1>1, <2>1
  <2>3. ASSUME NEW puzzle \in Puzzles, NEW ids \in Lineups, StartNewMatch(puzzle, ids)
        PROVE  Reset
    <3>1. \A p \in DOMAIN mPlayers' : \E i \in Nat : mPlayers'[p] = NewPlayer(i)
      BY <2>3, StartFacts DEF InRound
    <3>2. \A i \in Nat : NewPlayer(i).solved = {}
      BY DEF NewPlayer
    <3> QED BY <2>3, <3>1, <3>2 DEF StartNewMatch
  <2>4. ASSUME NEW p, NEW c, SubmitFirstSolve(p, c) PROVE Kept
    <3>1. p \in InRound
      BY <2>4 DEF SubmitFirstSolve, Accepted
    <3>2. mCellSolveOrder' = [mCellSolveOrder EXCEPT ![c] = Recorded(mCellSolveOrder[c], p)]
      BY <2>4 DEF SubmitFirstSolve
    <3>3. \A d \in Cells : \/ mCellSolveOrder'[d] = mCellSolveOrder[d]
                           \/ mCellSolveOrder'[d] = Append(mCellSolveOrder[d], p)
      BY <1>3, <3>2 DEF Recorded, RoundInv, TypeOK
    <3> QED BY <1>1, <1>2, <2>1, <3>1, <3>3
  <2>5. ASSUME NEW p, NEW c, NEW value, SubmitCell(p, c, value) PROVE Kept
    BY <2>2, <2>4, <2>5 DEF SubmitCell, SubmitRejected, SubmitWrong, SubmitRepeat, authVars
  <2>6. ASSUME NEW p, NEW c, UseHint(p, c) PROVE Kept
    BY <2>2, <2>6 DEF UseHint, HintRejected, HintApplied, authVars
  <2> QED BY <1>3, <2>3, <2>5, <2>6 DEF Next
<1>4. RoundInv /\ [Next]_authVars => [Kept \/ Reset]_authVars
  BY <1>3
<1> QED
  BY <1>4, RoundInvariant, PTL DEF Spec, ClaimsStable

=============================================================================
