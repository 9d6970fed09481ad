-------------------------- MODULE SudokuAuthority --------------------------
(***************************************************************************)
(* One round of the game as the server keeps it: GameServer/               *)
(* SudokuAuthority.cpp.  Every player of the round fills a private copy of *)
(* one puzzle; the authority checks each value, pays points by the order   *)
(* in which the players solve a cell, grants and spends hints, keeps the   *)
(* leaderboard and ends the round when somebody has filled the board.      *)
(*                                                                         *)
(* A puzzle is the set of its open cells (puzzle[r][c] == 0).  A submitted *)
(* value is "right" (equal to the solution's), "wrong", or "invalid" (not  *)
(* in 1..9); OffBoard stands for every position outside the 9 x 9 grid.    *)
(* The vector mPlayers, which the code keeps sorted, is a function from    *)
(* player ids to records with the sorted position beside it (mRank).       *)
(***************************************************************************)
EXTENDS Integers, Sequences, FiniteSets, Functions

CONSTANTS
    Players,             \* player ids; ordered, because ties are broken by id
    Cells,               \* positions of the grid
    OffBoard,            \* any row/col outside the grid
    Puzzles,             \* the sets of open cells BoardVault may deal
    Lineups,             \* the playerIds vectors a round may start with
    MaxPlayers,          \* RuleBook::MAX_PLAYERS
    FirstSolvePoints,    \* RuleBook::FIRST_SOLVE_POINTS
    SecondSolvePoints,   \* RuleBook::SECOND_SOLVE_POINTS
    ThirdSolvePoints,    \* RuleBook::THIRD_SOLVE_POINTS
    WrongGuessPenalty,   \* RuleBook::WRONG_GUESS_PENALTY
    HintUnlockScore,     \* RuleBook::HINT_UNLOCK_SCORE_LOW
    StreakStep,          \* the 10 of "correctStreak / 10"
    MaxStreakHints,      \* the 3 of "max 3 streak hints total per round"
    MaxMoves             \* model bound: moves counted per player and round

\* Player ids come from mNextPlayerId, which starts at 1 and only grows.
ASSUME PlayersAssumption == Players \subseteq Nat \ {0}

\* BoardVault never deals a full board: it opens at least one cell.
ASSUME PuzzlesAssumption ==
    /\ IsFiniteSet(Cells)
    /\ OffBoard \notin Cells
    /\ Puzzles \subseteq (SUBSET Cells) \ {{}}

\* A round starts with the distinct ids of one room; a replay voted for before
\* any match has been started starts one with no player at all.
ASSUME LineupsAssumption ==
    \A ids \in Lineups :
        /\ ids \in Seq(Players)
        /\ Len(ids) <= MaxPlayers
        /\ IsInjective(ids)

ASSUME RulesAssumption ==
    /\ {FirstSolvePoints, SecondSolvePoints, ThirdSolvePoints} \subseteq Nat
    /\ {MaxPlayers, WrongGuessPenalty, HintUnlockScore} \subseteq Nat
    /\ {MaxStreakHints, MaxMoves} \subseteq Nat
    /\ StreakStep \in Nat \ {0}

VARIABLES
    mPuzzle,          \* the open cells of mPuzzleData; {} before the first round
    mPlayers,         \* player id -> PlayerState, for the players of the round
    mRank,            \* player id -> position in the sorted vector mPlayers
    mCellSolveOrder,  \* cell -> the ids that solved it by submission, in order
    mRoundFinished

authVars == <<mPuzzle, mPlayers, mRank, mCellSolveOrder, mRoundFinished>>

Values == {"right", "wrong", "invalid"}
Positions == Cells \cup {OffBoard}
InRound == DOMAIN mPlayers

-----------------------------------------------------------------------------
(* Player records                                                           *)

\* ServerPlayerState; info.hintUnlocked and info.currentStreak mirror
\* hint.unlocked and correctStreak and are not kept twice.
PlayerState ==
    [score : Nat, finished : BOOLEAN, displayColor : Nat,
     unlocked : BOOLEAN, availableCount : Nat, hintsUsed : Nat,
     solved : SUBSET Cells, correctStreak : Nat,
     scoreHintGranted : BOOLEAN, streakHintsGranted : Nat,
     wrongAttempts : Nat, moveCount : Nat]

\* What StartNewMatch gives the i-th id of the vector; the colour Player<i> is i.
NewPlayer(i) ==
    [score |-> 0, finished |-> FALSE, displayColor |-> i,
     unlocked |-> FALSE, availableCount |-> 0, hintsUsed |-> 0,
     solved |-> {}, correctStreak |-> 0,
     scoreHintGranted |-> FALSE, streakHintsGranted |-> 0,
     wrongAttempts |-> 0, moveCount |-> 0]

PointsForSolveRank(rank) ==
    CASE rank = 1 -> FirstSolvePoints
      [] rank = 2 -> SecondSolvePoints
      [] rank = 3 -> ThirdSolvePoints
      [] OTHER    -> 0

StreakMilestones(streak) ==
    IF streak \div StreakStep > MaxStreakHints
    THEN MaxStreakHints
    ELSE streak \div StreakStep

EarnsScoreHint(pl) == ~pl.scoreHintGranted /\ pl.score >= HintUnlockScore

\* Mutant: a hint at every multiple of the step, whatever was granted before.
HintAtEveryStep(pl) == IF pl.correctStreak % StreakStep = 0 THEN 1 ELSE 0

NewStreakHints(pl) ==
    LET reached == StreakMilestones(pl.correctStreak) IN
    IF reached > pl.streakHintsGranted THEN reached - pl.streakHintsGranted ELSE 0

TryUnlockHint(pl) ==
    LET available == pl.availableCount + NewStreakHints(pl)
                         + (IF EarnsScoreHint(pl) THEN 1 ELSE 0)
    IN  [pl EXCEPT !.scoreHintGranted   = @ \/ EarnsScoreHint(pl),
                   !.streakHintsGranted = @ + NewStreakHints(pl),
                   !.availableCount     = available,
                   !.unlocked           = available > 0]

CheckPlayerCompletedBoard(solved) == mPuzzle \subseteq solved

\* Mutant: the comparison has no tie-break.
AheadByScoreOnly(players, p, q) == players[p].score > players[q].score

\* The sort predicate of RebuildLeaderboard: higher score, then lower id.
Ahead(players, p, q) ==
    \/ players[p].score > players[q].score
    \/ players[p].score = players[q].score /\ p < q

RebuildLeaderboard(players) ==
    [p \in DOMAIN players |->
        1 + Cardinality({q \in DOMAIN players : Ahead(players, q, p)})]

\* Mutant: the latest solver is named.
LatestSolver(order, c) ==
    IF order[c] = <<>> THEN 0 ELSE mPlayers[order[c][Len(order[c])]].displayColor

\* The solver of a cell that the clients are told about (CellOwner; 0 is None).
FirstSolver(order, c) ==
    IF order[c] = <<>> THEN 0 ELSE mPlayers[Head(order[c])].displayColor

-----------------------------------------------------------------------------
(* Operations                                                               *)

Init ==
    /\ mPuzzle = {}
    /\ mPlayers = <<>>
    /\ mRank = <<>>
    /\ mCellSolveOrder = [c \in Cells |-> <<>>]
    /\ mRoundFinished = FALSE

StartNewMatch(puzzle, ids) ==
    /\ mPuzzle' = puzzle
    /\ mPlayers' = [p \in Range(ids) |-> NewPlayer(CHOOSE i \in DOMAIN ids : ids[i] = p)]
    /\ mRank' = RebuildLeaderboard(mPlayers')
    /\ mCellSolveOrder' = [c \in Cells |-> <<>>]
    /\ mRoundFinished' = FALSE

\* Mutant: the early return for a finished round is missing.
AcceptedAfterFinish(p, c, value) ==
    /\ c # OffBoard /\ value # "invalid"
    /\ p \in InRound
    /\ c \in mPuzzle

\* The early returns of SubmitCell, in one condition.
Accepted(p, c, value) ==
    /\ ~mRoundFinished
    /\ c # OffBoard /\ value # "invalid"
    /\ p \in InRound
    /\ c \in mPuzzle

SubmitRejected(p, c, value) ==
    /\ ~Accepted(p, c, value)
    /\ UNCHANGED authVars

\* Mutant: the score has no floor at zero.
AfterWrongUnbounded(pl) ==
    [pl EXCEPT !.moveCount = @ + 1, !.wrongAttempts = @ + 1, !.correctStreak = 0,
               !.score = @ - WrongGuessPenalty]

\* A wrong value: penalty down to zero, the streak is lost.
AfterWrong(pl) ==
    [pl EXCEPT !.moveCount     = @ + 1,
               !.wrongAttempts = @ + 1,
               !.correctStreak = 0,
               !.score = IF @ < WrongGuessPenalty THEN 0 ELSE @ - WrongGuessPenalty]

SubmitWrong(p, c) ==
    /\ Accepted(p, c, "wrong")
    /\ mPlayers' = [mPlayers EXCEPT ![p] = AfterWrong(@)]
    /\ mRank' = RebuildLeaderboard(mPlayers')
    /\ UNCHANGED <<mPuzzle, mCellSolveOrder, mRoundFinished>>

\* A first correct value: the cell, the streak, the points, then the hints.
AfterSolve(pl, c, points) ==
    LET solved == pl.solved \cup {c} IN
    [TryUnlockHint([pl EXCEPT !.moveCount     = @ + 1,
                              !.solved        = solved,
                              !.correctStreak = @ + 1,
                              !.score         = @ + points])
        EXCEPT !.finished = @ \/ CheckPlayerCompletedBoard(solved)]

\* Mutant: the rank is read after the player has been pushed.
SolveRankAfterPush(c) == Len(mCellSolveOrder[c]) + 2

SolveRank(c) == Len(mCellSolveOrder[c]) + 1

\* Mutant: the latest solver goes to the front.
RecordedInFront(order, p) == <<p>> \o order

Recorded(order, p) == IF Len(order) < MaxPlayers THEN Append(order, p) ELSE order

\* Mutants: the check of solvedCells is missing; it asks the solve order instead.
NeverSolvedBefore(p, c) == FALSE
SolvedInOrder(p, c) == p \in Range(mCellSolveOrder[c])

AlreadySolved(p, c) == c \in mPlayers[p].solved

SubmitFirstSolve(p, c) ==
    /\ Accepted(p, c, "right")
    /\ ~AlreadySolved(p, c)
    /\ mCellSolveOrder' = [mCellSolveOrder EXCEPT ![c] = Recorded(@, p)]
    /\ mPlayers' = [mPlayers EXCEPT ![p] = AfterSolve(@, c, PointsForSolveRank(SolveRank(c)))]
    /\ mRoundFinished' = CheckPlayerCompletedBoard(mPlayers'[p].solved)
    /\ mRank' = RebuildLeaderboard(mPlayers')
    /\ UNCHANGED mPuzzle

\* The right value in a cell this player had solved: a move, no points.
SubmitRepeat(p, c) ==
    /\ Accepted(p, c, "right")
    /\ AlreadySolved(p, c)
    /\ mPlayers' = [mPlayers EXCEPT ![p].moveCount = @ + 1]
    /\ mRank' = RebuildLeaderboard(mPlayers')
    /\ UNCHANGED <<mPuzzle, mCellSolveOrder, mRoundFinished>>

SubmitCell(p, c, value) ==
    \/ SubmitRejected(p, c, value)
    \/ value = "wrong" /\ SubmitWrong(p, c)
    \/ value = "right" /\ SubmitFirstSolve(p, c)
    \/ value = "right" /\ SubmitRepeat(p, c)

HintAllowed(p, c) ==
    /\ ~mRoundFinished
    /\ c # OffBoard
    /\ p \in InRound
    /\ mPlayers[p].unlocked /\ mPlayers[p].availableCount > 0
    /\ c \in mPuzzle
    /\ ~AlreadySolved(p, c)

HintRejected(p, c) ==
    /\ ~HintAllowed(p, c)
    /\ UNCHANGED authVars

\* Mutant: a board filled by a hint does not finish its player.
AfterHintUnfinished(pl, c) ==
    [pl EXCEPT !.availableCount = @ - 1, !.unlocked = pl.availableCount > 1,
               !.hintsUsed = @ + 1, !.solved = @ \cup {c}, !.correctStreak = 0]

\* A hint fills the cell for this player alone: no points, no place in the
\* solve order, and the streak starts again.
AfterHint(pl, c) ==
    LET solved == pl.solved \cup {c} IN
    [pl EXCEPT !.availableCount = @ - 1,
               !.unlocked       = pl.availableCount > 1,
               !.hintsUsed      = @ + 1,
               !.solved         = solved,
               !.correctStreak  = 0,
               !.finished       = @ \/ CheckPlayerCompletedBoard(solved)]

HintApplied(p, c) ==
    /\ HintAllowed(p, c)
    /\ mPlayers' = [mPlayers EXCEPT ![p] = AfterHint(@, c)]
    /\ mRoundFinished' = CheckPlayerCompletedBoard(mPlayers'[p].solved)
    /\ mRank' = RebuildLeaderboard(mPlayers')
    /\ UNCHANGED <<mPuzzle, mCellSolveOrder>>

UseHint(p, c) == HintRejected(p, c) \/ HintApplied(p, c)

\* The model bound on counted moves.
MayMove(p) == p \in InRound => mPlayers[p].moveCount < MaxMoves

Next ==
    \/ \E puzzle \in Puzzles, ids \in Lineups : StartNewMatch(puzzle, ids)
    \/ \E p \in Players, c \in Positions :
        \/ \E value \in Values : MayMove(p) /\ SubmitCell(p, c, value)
        \/ UseHint(p, c)

Spec == Init /\ [][Next]_authVars

-----------------------------------------------------------------------------
(* Properties                                                               *)

TypeOK ==
    /\ mPuzzle \subseteq Cells
    /\ InRound \subseteq Players
    /\ IsFiniteSet(InRound) /\ Cardinality(InRound) <= MaxPlayers
    /\ mPlayers \in [InRound -> PlayerState]
    /\ mRank \in [InRound -> Nat]
    /\ mCellSolveOrder \in [Cells -> Seq(InRound)]
    /\ mRoundFinished \in BOOLEAN

\* Each place of a cell's solve order, and so each of its 10, 6 and 3 points,
\* goes to one player who has that cell: nobody is paid twice for a cell,
\* however submissions, repeats and hints of several players interleave.
SolveOrderSound ==
    \A c \in Cells :
        /\ IsInjective(mCellSolveOrder[c])
        /\ \A p \in Range(mCellSolveOrder[c]) : c \in mPlayers[p].solved

\* The cells a player has solved without a place in the solve order are
\* exactly those bought with a hint: mPlayers and mCellSolveOrder, which
\* different branches update, never lose a solve nor count a hint as one.
HintedCells(p) == {c \in mPlayers[p].solved : p \notin Range(mCellSolveOrder[c])}

HintsAccounted ==
    \A p \in InRound : mPlayers[p].hintsUsed = Cardinality(HintedCells(p))

\* Hints are conserved: what a player holds and has used is what the score and
\* streak rules granted, at most MaxStreakHints + 1 in a round, whatever the
\* order of streaks broken, milestones reached again and hints spent
\* (the comments of TryUnlockHint and ServerPlayerState).
HintsBalanced(pl) ==
    /\ pl.availableCount + pl.hintsUsed =
           pl.streakHintsGranted + (IF pl.scoreHintGranted THEN 1 ELSE 0)
    /\ pl.streakHintsGranted <= MaxStreakHints
    /\ pl.unlocked <=> pl.availableCount > 0

HintBudget == \A p \in InRound : HintsBalanced(mPlayers[p])

\* The points a player's places in the solve orders are worth.
PlaceIn(p, c) == CHOOSE i \in DOMAIN mCellSolveOrder[c] : mCellSolveOrder[c][i] = p

PaidFor(p, c) ==
    IF p \in Range(mCellSolveOrder[c]) THEN PointsForSolveRank(PlaceIn(p, c)) ELSE 0

Payments(p) == [c \in Cells |-> PaidFor(p, c)]

Earned(p) == SumFunction(Payments(p))

\* A score is the points of the solve orders less a penalty per wrong attempt,
\* lost at most once each (the floor at zero forgives the rest): the ledger the
\* leaderboard shows agrees with the order the claims were broadcast in.
ScoreLedger ==
    \A p \in InRound :
        /\ mPlayers[p].score <= Earned(p)
        /\ mPlayers[p].score >= Earned(p) - WrongGuessPenalty * mPlayers[p].wrongAttempts

\* The round is over exactly when some player has every open cell, only one
\* player ever gets there, and that player alone is marked finished.
RoundOverWhenFilled ==
    /\ \A p \in InRound : mPlayers[p].finished <=> mPuzzle \subseteq mPlayers[p].solved
    /\ mRoundFinished <=> \E p \in InRound : mPlayers[p].finished
    /\ \A p, q \in InRound : mPlayers[p].finished /\ mPlayers[q].finished => p = q

\* The ranks are those of the present scores, a place per player: no branch
\* that moves a score forgets to sort.
LeaderboardSorted ==
    /\ Range(mRank) = 1..Cardinality(InRound)
    /\ \A p, q \in InRound :
          mRank[p] < mRank[q] => Ahead(mPlayers, p, q)

\* Within a round a cell's solve order only grows at its end, so the owner that
\* CellClaimUpdate announced for a cell stays its owner until the next round.
IsExtension(old, new) == Len(old) <= Len(new) /\ SubSeq(new, 1, Len(old)) = old

ClaimsStable ==
    [][\/ \A c \in Cells : IsExtension(mCellSolveOrder[c], mCellSolveOrder'[c])
       \/ \A c \in Cells : mCellSolveOrder'[c] = <<>> /\ ~mRoundFinished'
            /\ \A p \in DOMAIN mPlayers' : mPlayers'[p].solved = {}]_authVars

\* Once the round is finished nothing of it changes, neither score nor hint nor
\* statistic, until a new round starts with every player at zero.
FinishedFrozen ==
    [][mRoundFinished =>
         /\ ~mRoundFinished'
         /\ \A p \in DOMAIN mPlayers' :
               /\ mPlayers'[p].score = 0 /\ mPlayers'[p].moveCount = 0
               /\ mPlayers'[p].solved = {} /\ ~mPlayers'[p].unlocked]_authVars

=============================================================================
