CONSTANTS
    Players <- MCPlayers
    Cells <- MCCells
    OffBoard = OffBoard
    Puzzles <- MCPuzzles
    Lineups <- MCLineups
    MaxPlayers = 3
    FirstSolvePoints = 10
    SecondSolvePoints = 6
    ThirdSolvePoints = 3
    WrongGuessPenalty = 10
    HintUnlockScore = 16
    StreakStep = 1
    MaxStreakHints = 1
    MaxMoves = 4
SPECIFICATION Spec
INVARIANTS
    TypeOK
    SolveOrderSound
    HintsAccounted
    HintBudget
    ScoreLedger
    RoundOverWhenFilled
    LeaderboardSorted
PROPERTIES
    ClaimsStable
    FinishedFrozen
