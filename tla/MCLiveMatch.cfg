CONSTANTS
    Players <- MCPlayers
    Cells <- MCCells
    OffBoard = OffBoard
    TopLeft = "a"
    NoPlayer = 0
    MinPlayers = 2
    Puzzles <- MCPuzzles
    Lineups <- MCLineups
    MaxPlayers = 3
    FirstSolvePoints = 10
    SecondSolvePoints = 6
    ThirdSolvePoints = 3
    WrongGuessPenalty = 10
    HintUnlockScore = 10
    StreakStep = 2
    MaxStreakHints = 3
    MaxMoves = 2
SPECIFICATION MatchSpec
INVARIANTS
    FlagsAgree
    RepliesNameFirstSolver
PROPERTIES
    RepliesMatchScores
    ImplementsMatchRound
