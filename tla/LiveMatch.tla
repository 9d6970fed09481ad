----------------------------- MODULE LiveMatch ------------------------------
(***************************************************************************)
(* A room's match, GameServer/LiveMatch.cpp: it owns the authority, keeps  *)
(* the ids the rounds are played with and whether a round is running, and  *)
(* turns away submissions and hints while none is.  `result' is the        *)
(* CellResult the last such call returned, which the server sends to the   *)
(* player and turns into a claim for the room.                             *)
(***************************************************************************)
EXTENDS SudokuAuthority

CONSTANTS
    TopLeft,       \* the cell at row 0, column 0
    NoPlayer,      \* 0, the playerId of a CellResult{}
    MinPlayers     \* RuleBook::MIN_PLAYERS

ASSUME TopLeftAssumption == TopLeft \in Cells
ASSUME NoPlayerAssumption == NoPlayer \notin Players

\* mPlayerIds is empty until the first match of the room is started.
ASSUME EmptyLineupAssumption == <<>> \in Lineups

VARIABLES
    mPlayerIds,
    mRoundRunning,
    result

matchVars == <<mPlayerIds, mRoundRunning>>
vars == <<authVars, matchVars, result>>

\* CellResult{}: it names the top left cell, although no cell was meant.
DefaultResult ==
    [playerId |-> NoPlayer, cell |-> TopLeft, correct |-> FALSE, awarded |-> FALSE,
     pointsAwarded |-> 0, firstSolver |-> 0]

CellResults ==
    [playerId : Players \cup {NoPlayer}, cell : Positions, correct : BOOLEAN,
     awarded : BOOLEAN, pointsAwarded : Int, firstSolver : Nat]

\* The one branch of SubmitCell that pays.
SolvesFirst(p, c, value) ==
    value = "right" /\ Accepted(p, c, value) /\ ~AlreadySolved(p, c)

\* Mutant: the points are looked up after the solve has been recorded.
PointsReportedLate(p, c, value) ==
    CASE SolvesFirst(p, c, value)                  -> PointsForSolveRank(SolveRank(c) + 1)
      [] value = "wrong" /\ Accepted(p, c, value) -> -WrongGuessPenalty
      [] OTHER                                    -> 0

PointsReported(p, c, value) ==
    CASE SolvesFirst(p, c, value)                  -> PointsForSolveRank(SolveRank(c))
      [] value = "wrong" /\ Accepted(p, c, value) -> -WrongGuessPenalty
      [] OTHER                                    -> 0

\* What SubmitCell returns, read beside the step that it takes.
SubmitResult(p, c, value) ==
    [playerId      |-> p,
     cell          |-> c,
     correct       |-> Accepted(p, c, value) /\ value = "right",
     awarded       |-> SolvesFirst(p, c, value),
     pointsAwarded |-> PointsReported(p, c, value),
     firstSolver   |-> IF Accepted(p, c, value) THEN FirstSolver(mCellSolveOrder', c) ELSE 0]

HintResult(p, c) ==
    [DefaultResult EXCEPT !.playerId = p, !.cell = c, !.correct = HintAllowed(p, c)]

-----------------------------------------------------------------------------

MatchInit ==
    /\ Init
    /\ mPlayerIds = <<>>
    /\ mRoundRunning = FALSE
    /\ result = DefaultResult

\* SetPlayers, then StartNextRound: RoomDirectory::StartRoomMatch.
StartWithPlayers(puzzle, ids) ==
    /\ Len(ids) >= MinPlayers
    /\ mPlayerIds' = ids
    /\ StartNewMatch(puzzle, ids)
    /\ mRoundRunning' = TRUE
    /\ result' = DefaultResult

\* StartNextRound alone, with the ids of the round before: a replay.
StartNextRound(puzzle) ==
    /\ StartNewMatch(puzzle, mPlayerIds)
    /\ mRoundRunning' = TRUE
    /\ result' = DefaultResult
    /\ UNCHANGED mPlayerIds

NotRunning ==
    /\ ~mRoundRunning
    /\ result' = DefaultResult
    /\ UNCHANGED <<authVars, matchVars>>

\* Mutant: nobody looks whether the call has finished the round.
RunningStill == UNCHANGED mRoundRunning

RunningUntilFinished == mRoundRunning' = (mRoundRunning /\ ~mRoundFinished')

HandleCellSubmission(p, c, value) ==
    \/ NotRunning
    \/ /\ mRoundRunning
       /\ SubmitCell(p, c, value)
       /\ result' = SubmitResult(p, c, value)
       /\ RunningUntilFinished
       /\ UNCHANGED mPlayerIds

HandleHint(p, c) ==
    \/ NotRunning
    \/ /\ mRoundRunning
       /\ UseHint(p, c)
       /\ result' = HintResult(p, c)
       /\ RunningUntilFinished
       /\ UNCHANGED mPlayerIds

MatchNext ==
    \/ \E puzzle \in Puzzles :
        \/ \E ids \in Lineups : StartWithPlayers(puzzle, ids)
        \/ StartNextRound(puzzle)
    \/ \E p \in Players, c \in Positions :
        \/ \E value \in Values : MayMove(p) /\ HandleCellSubmission(p, c, value)
        \/ HandleHint(p, c)

MatchSpec == MatchInit /\ [][MatchNext]_vars

-----------------------------------------------------------------------------
(* Properties                                                               *)

\* The state of the match and every reply it gives are well formed.
MatchTypeOK ==
    /\ TypeOK
    /\ mPlayerIds \in Lineups
    /\ mRoundRunning \in BOOLEAN
    /\ result \in CellResults

\* The two flags that say the round is over, the match's and the authority's,
\* agree once a round has been started, and the round's players are the ids the
\* match would start the next one with.
Started == mPuzzle # {}

FlagsAgree ==
    /\ mRoundRunning <=> Started /\ ~mRoundFinished
    /\ Started => InRound = Range(mPlayerIds)

PointsOf(st, p) == IF p \in DOMAIN st THEN st[p].score ELSE 0
Scored(score, points) == IF score + points < 0 THEN 0 ELSE score + points

\* The reply a player gets agrees with the leaderboard everybody gets: points
\* announced are points added, a penalty is taken as far as the score goes, and
\* a call that is turned away, comes late or repeats a solve changes no score.
RepliesMatchScores ==
    [][\/ mRoundRunning' /\ \A c \in Cells : mCellSolveOrder'[c] = <<>>
            /\ \A p \in DOMAIN mPlayers' : mPlayers'[p].moveCount = 0
       \/ \A p \in Players :
            PointsOf(mPlayers', p) =
              Scored(PointsOf(mPlayers, p),
                     IF p = result'.playerId THEN result'.pointsAwarded ELSE 0)]_vars

\* The owner a reply announces is the player at the head of the cell's solve
\* order, and a submission that was paid for always has one: whoever was paid for
\* the cell is in the order.
RepliesNameFirstSolver ==
    /\ result.firstSolver # 0 =>
        /\ mCellSolveOrder[result.cell] # <<>>
        /\ mPlayers[Head(mCellSolveOrder[result.cell])].displayColor = result.firstSolver
    /\ result.awarded => result.firstSolver # 0
    /\ result.awarded => result.playerId \in Range(mCellSolveOrder[result.cell])

-----------------------------------------------------------------------------
(* The match implements MatchRound                                          *)

AbstractPhase ==
    IF mRoundRunning THEN "running" ELSE IF Started THEN "finished" ELSE "idle"

Finisher ==
    IF \E p \in InRound : mPlayers[p].finished
    THEN CHOOSE p \in InRound : mPlayers[p].finished
    ELSE NoPlayer

Abstract == INSTANCE MatchRound WITH
    Boards   <- Puzzles,
    Rosters  <- {Range(ids) : ids \in Lineups},
    phase    <- AbstractPhase,
    board    <- mPuzzle,
    filled   <- [p \in InRound |-> mPlayers[p].solved],
    finisher <- Finisher

\* Every call of the match is a step of the race MatchRound describes, or none:
\* no late, repeated, wrong or turned away call moves it.
ImplementsMatchRound == Abstract!Spec

=============================================================================
