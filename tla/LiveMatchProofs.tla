-------------------------- MODULE LiveMatchProofs ---------------------------
(***************************************************************************)
(* A room's match, as LiveMatch keeps it, plays the rounds of              *)
(* SudokuAuthority and implements MatchRound, for every board, roster and  *)
(* value of the rules.                                                     *)
(***************************************************************************)
EXTENDS LiveMatch, SudokuAuthorityProofs

MatchInv ==
    /\ RoundInv
    /\ mPlayerIds \in Lineups
    /\ FlagsAgree

LEMMA InitMatchInv == MatchInit => MatchInv
<1> SUFFICES ASSUME MatchInit PROVE MatchInv
  OBVIOUS
<1>1. RoundInv
  BY InitRoundInv DEF MatchInit
<1>2. mPlayerIds \in Lineups
  BY EmptyLineupAssumption DEF MatchInit
<1>3. FlagsAgree
  BY DEF MatchInit, Init, FlagsAgree, Started
<1> QED
  BY <1>1, <1>2, <1>3 DEF MatchInv

\* The three ways a step of the match can go.
LEMMA MatchSteps ==
    ASSUME MatchInv, [MatchNext]_vars
    PROVE  \/ \E puzzle \in Puzzles, ids \in Lineups :
                 /\ StartNewMatch(puzzle, ids)
                 /\ mPlayerIds' = ids /\ mRoundRunning' = TRUE
           \/ \E p \in Players, c \in Positions :
                 /\ mRoundRunning
                 /\ (\E value \in Values : MayMove(p) /\ SubmitCell(p, c, value)) \/ UseHint(p, c)
                 /\ mRoundRunning' = (mRoundRunning /\ ~mRoundFinished')
                 /\ UNCHANGED mPlayerIds
           \/ UNCHANGED <<authVars, matchVars>>
<1>1. ASSUME NEW puzzle \in Puzzles, NEW ids \in Lineups, StartWithPlayers(puzzle, ids)
      PROVE  StartNewMatch(puzzle, ids) /\ mPlayerIds' = ids /\ mRoundRunning' = TRUE
  BY <1>1 DEF StartWithPlayers
<1>2. ASSUME NEW puzzle \in Puzzles, StartNextRound(puzzle)
      PROVE  /\ StartNewMatch(puzzle, mPlayerIds) /\ mPlayerIds \in Lineups
             /\ mPlayerIds' = mPlayerIds /\ mRoundRunning' = TRUE
  BY <1>2 DEF StartNextRound, MatchInv
<1>3. ASSUME NEW p \in Players, NEW c \in Positions, NEW value \in Values,
             MayMove(p), HandleCellSubmission(p, c, value)
      PROVE  \/ /\ mRoundRunning /\ MayMove(p) /\ SubmitCell(p, c, value)
                /\ mRoundRunning' = (mRoundRunning /\ ~mRoundFinished')
                /\ UNCHANGED mPlayerIds
             \/ UNCHANGED <<authVars, matchVars>>
  BY <1>3 DEF HandleCellSubmission, NotRunning, RunningUntilFinished
<1>4. ASSUME NEW p \in Players, NEW c \in Positions, HandleHint(p, c)
      PROVE  \/ /\ mRoundRunning /\ UseHint(p, c)
                /\ mRoundRunning' = (mRoundRunning /\ ~mRoundFinished')
                /\ UNCHANGED mPlayerIds
             \/ UNCHANGED <<authVars, matchVars>>
  BY <1>4 DEF HandleHint, NotRunning, RunningUntilFinished
<1>5. CASE UNCHANGED vars
  BY <1>5 DEF vars
<1>6. CASE MatchNext
  BY <1>1, <1>2, <1>3, <1>4, <1>6, Zenon DEF MatchNext
<1> QED
  BY <1>5, <1>6

\* Whatever the match does to the round, the authority does.
LEMMA MatchStepIsRoundStep ==
    ASSUME MatchInv, [MatchNext]_vars
    PROVE  [Next]_authVars
  BY MatchSteps, Zenon DEF Next

LEMMA NextMatchInv == MatchInv /\ [MatchNext]_vars => MatchInv'
<1> SUFFICES ASSUME MatchInv, [MatchNext]_vars PROVE MatchInv'
  OBVIOUS
<1>1. RoundInv'
  BY MatchStepIsRoundStep, NextRoundInv DEF MatchInv
<1>2. mPlayerIds' \in Lineups /\ FlagsAgree'
  <2>1. ASSUME NEW puzzle \in Puzzles, NEW ids \in Lineups, StartNewMatch(puzzle, ids),
               mPlayerIds' = ids, mRoundRunning' = TRUE
        PROVE  mPlayerIds' \in Lineups /\ FlagsAgree'
    <3>1. mPuzzle' # {} /\ mRoundFinished' = FALSE
      BY <2>1, PuzzlesAssumption DEF StartNewMatch
    <3>2. InRound' = Range(ids)
      BY <2>1, StartFacts
    <3> QED BY <2>1, <3>1, <3>2 DEF FlagsAgree, Started
  <2>2. ASSUME NEW p, NEW c, mRoundRunning,
               (\E value \in Values : SubmitCell(p, c, value)) \/ UseHint(p, c),
               mRoundRunning' = (mRoundRunning /\ ~mRoundFinished'),
               UNCHANGED mPlayerIds
        PROVE  mPlayerIds' \in Lineups /\ FlagsAgree'
    <3>1. UNCHANGED mPuzzle
      BY <2>2 DEF SubmitCell, SubmitRejected, SubmitWrong, SubmitFirstSolve, SubmitRepeat,
                  UseHint, HintRejected, HintApplied, authVars
    <3>2. InRound' = InRound
      <4>1. ASSUME NEW r, mPlayers' = [mPlayers EXCEPT ![p] = r]
            PROVE  InRound' = InRound
        BY <4>1 DEF InRound, MatchInv, RoundInv, TypeOK
      <4>2. CASE mPlayers' = mPlayers
        BY <4>2 DEF InRound
      <4> QED
        BY <2>2, <4>1, <4>2 DEF SubmitCell, SubmitRejected, SubmitWrong, SubmitFirstSolve,
                  SubmitRepeat, UseHint, HintRejected, HintApplied, authVars
    <3> QED BY <2>2, <3>1, <3>2 DEF MatchInv, FlagsAgree, Started
  <2>3. CASE UNCHANGED <<authVars, matchVars>>
    BY <2>3 DEF authVars, matchVars, MatchInv, FlagsAgree, Started, InRound
  <2> QED BY <2>1, <2>2, <2>3, MatchSteps
<1> QED
  BY <1>1, <1>2 DEF MatchInv

\* The inductive invariant of the match: the round's invariant, and its flag and
\* its ids agree with the round.
THEOREM MatchInvariant == MatchSpec => []MatchInv
<1> QED BY InitMatchInv, NextMatchInv, PTL DEF MatchSpec

\* LiveMatch's flag and SudokuAuthority's say the same of the round in every
\* state, so that whether a call is turned away does not depend on which is asked.
THEOREM FlagsAlwaysAgree == MatchSpec => []FlagsAgree
<1>1. MatchInv => FlagsAgree  BY DEF MatchInv
<1> QED BY <1>1, MatchInvariant, PTL

\* A match plays rounds of the authority: all that is proved of
\* SudokuAuthority's Spec holds of it.
THEOREM MatchPlaysRounds == MatchSpec => Spec
<1>1. MatchInit => Init  BY DEF MatchInit
<1>2. MatchInv /\ [MatchNext]_vars => [Next]_authVars
  BY MatchStepIsRoundStep
<1> QED BY <1>1, <1>2, MatchInvariant, PTL DEF MatchSpec, Spec

-----------------------------------------------------------------------------
(* Replies                                                                  *)

\* The four ways a step of the match can go, with what is replied.
LEMMA ReplySteps ==
    ASSUME MatchInv, MatchNext
    PROVE  \/ \E puzzle \in Puzzles, ids \in Lineups :
                 /\ StartNewMatch(puzzle, ids)
                 /\ mRoundRunning' = TRUE /\ result' = DefaultResult
           \/ \E p \in Players, c \in Positions, value \in Values :
                 SubmitCell(p, c, value) /\ result' = SubmitResult(p, c, value)
           \/ \E p \in Players, c \in Positions :
                 UseHint(p, c) /\ result' = HintResult(p, c)
           \/ UNCHANGED authVars /\ result' = DefaultResult
<1>1. ASSUME NEW puzzle \in Puzzles, StartNextRound(puzzle)
      PROVE  /\ StartNewMatch(puzzle, mPlayerIds) /\ mPlayerIds \in Lineups
             /\ mRoundRunning' = TRUE /\ result' = DefaultResult
  BY <1>1 DEF StartNextRound, MatchInv
<1>2. ASSUME NEW puzzle \in Puzzles, NEW ids \in Lineups, StartWithPlayers(puzzle, ids)
      PROVE  StartNewMatch(puzzle, ids) /\ mRoundRunning' = TRUE /\ result' = DefaultResult
  BY <1>2 DEF StartWithPlayers
<1>3. ASSUME NEW p, NEW c, NEW value, HandleCellSubmission(p, c, value)
      PROVE  \/ SubmitCell(p, c, value) /\ result' = SubmitResult(p, c, value)
             \/ UNCHANGED authVars /\ result' = DefaultResult
  BY <1>3 DEF HandleCellSubmission, NotRunning
<1>4. ASSUME NEW p, NEW c, HandleHint(p, c)
      PROVE  \/ UseHint(p, c) /\ result' = HintResult(p, c)
             \/ UNCHANGED authVars /\ result' = DefaultResult
  BY <1>4 DEF HandleHint, NotRunning
<1> QED
  BY <1>1, <1>2, <1>3, <1>4, Zenon DEF MatchNext

\* The reply to a call that finds no round, or a new one, gives nobody points.
LEMMA DefaultResultFacts ==
    /\ DefaultResult \in CellResults
    /\ DefaultResult.firstSolver = 0 /\ ~DefaultResult.awarded
    /\ DefaultResult.pointsAwarded = 0
  BY TopLeftAssumption DEF DefaultResult, CellResults, Positions

\* A hint is answered without points and without a solver.
LEMMA HintResultFacts ==
    ASSUME NEW p \in Players, NEW c \in Positions
    PROVE  /\ HintResult(p, c) \in CellResults
           /\ HintResult(p, c).firstSolver = 0 /\ ~HintResult(p, c).awarded
           /\ HintResult(p, c).pointsAwarded = 0
<1> DEFINE allowed == HintAllowed(p, c)
           reply == HintResult(p, c)
<1>1. allowed \in BOOLEAN
  BY DEF HintAllowed
<1>2. reply = [DefaultResult EXCEPT !.playerId = p, !.cell = c, !.correct = allowed]
  BY Zenon DEF HintResult
<1> HIDE DEF allowed, reply
<1>3. /\ reply \in CellResults /\ reply.firstSolver = DefaultResult.firstSolver
      /\ reply.awarded = DefaultResult.awarded
      /\ reply.pointsAwarded = DefaultResult.pointsAwarded
  BY <1>1, <1>2, DefaultResultFacts, Zenon DEF CellResults
<1> QED
  BY <1>3, DefaultResultFacts DEF reply

\* A submission moves one score, by the points it reports and down to zero at
\* the most; it changes no colour, and a first solve is on the order afterwards.
LEMMA SubmitEffect ==
    ASSUME RoundInv, NEW p \in Players, NEW c \in Positions, NEW value \in Values,
           SubmitCell(p, c, value)
    PROVE  /\ InRound' = InRound
           /\ \A q \in InRound : q # p => mPlayers'[q] = mPlayers[q]
           /\ PointsReported(p, c, value) \in Int
           /\ p \notin InRound => PointsReported(p, c, value) = 0
           /\ p \in InRound =>
                /\ mPlayers'[p].displayColor = mPlayers[p].displayColor
                /\ mPlayers'[p].score = Scored(mPlayers[p].score, PointsReported(p, c, value))
           /\ SolvesFirst(p, c, value) => c \in Cells /\ p \in Range(mCellSolveOrder'[c])
<1> DEFINE points == PointsReported(p, c, value)
<1>1. \A q \in InRound : mPlayers[q] \in PlayerState /\ mPlayers[q].score \in Nat
  BY DEF RoundInv, TypeOK, PlayerState
<1>2. \A score \in Nat : Scored(score, 0) = score
  BY DEF Scored
<1>3. CASE SubmitRejected(p, c, value)
  <2>1. ~Accepted(p, c, value) /\ mPlayers' = mPlayers /\ InRound' = InRound
    BY <1>3 DEF SubmitRejected, authVars, InRound
  <2>2. points = 0 /\ ~SolvesFirst(p, c, value)
    BY <2>1 DEF PointsReported, SolvesFirst
  <2> QED BY <1>1, <1>2, <2>1, <2>2
<1>4. CASE value = "wrong" /\ SubmitWrong(p, c)
  <2>1. /\ Accepted(p, c, value) /\ p \in InRound
        /\ mPlayers' = [mPlayers EXCEPT ![p] = AfterWrong(mPlayers[p])]
        /\ mRank' = RebuildLeaderboard(mPlayers')
    BY <1>4 DEF SubmitWrong, Accepted
  <2>2. /\ points = -WrongGuessPenalty /\ WrongGuessPenalty \in Nat
        /\ ~SolvesFirst(p, c, value)
    BY <1>4, <2>1, RulesAssumption DEF PointsReported, SolvesFirst
  <2> DEFINE r == AfterWrong(mPlayers[p])
  <2>3. /\ r \in PlayerState /\ r.displayColor = mPlayers[p].displayColor
        /\ r.score = IF mPlayers[p].score < WrongGuessPenalty THEN 0
                     ELSE mPlayers[p].score - WrongGuessPenalty
    BY <1>1, <2>1, AfterWrongFacts
  <2>4. r.score = Scored(mPlayers[p].score, points)
    <3> HIDE DEF r, points
    <3> QED BY <1>1, <2>1, <2>2, <2>3 DEF Scored
  <2> HIDE DEF r
  <2>5. /\ InRound' = InRound /\ mPlayers'[p] = r
        /\ \A q \in InRound : q # p => mPlayers'[q] = mPlayers[q]
    BY <2>1, <2>3, OneRecordReplaced DEF RoundInv, r
  <2> QED BY <1>4, <2>1, <2>2, <2>3, <2>4, <2>5
<1>5. CASE value = "right" /\ SubmitFirstSolve(p, c)
  <2> DEFINE r == AfterSolve(mPlayers[p], c, PointsForSolveRank(SolveRank(c)))
             order == mCellSolveOrder[c]
  <2>1. /\ Accepted(p, c, value) /\ p \in InRound /\ c \in mPuzzle /\ c \in Cells
        /\ c \notin mPlayers[p].solved /\ ~AlreadySolved(p, c)
        /\ mPlayers' = [mPlayers EXCEPT ![p] = r]
        /\ mRank' = RebuildLeaderboard(mPlayers')
        /\ mCellSolveOrder' = [mCellSolveOrder EXCEPT ![c] = Recorded(order, p)]
    BY <1>5 DEF SubmitFirstSolve, Accepted, AlreadySolved, RoundInv, TypeOK
  <2>2. points = PointsForSolveRank(SolveRank(c)) /\ PointsForSolveRank(SolveRank(c)) \in Nat
    BY <1>5, <2>1, PointsAreNatural DEF PointsReported, SolvesFirst
  <2>3. /\ r \in PlayerState /\ r.displayColor = mPlayers[p].displayColor
        /\ r.score = mPlayers[p].score + PointsForSolveRank(SolveRank(c))
    BY <1>1, <2>1, <2>2, AfterSolveFacts
  <2>4. r.score = Scored(mPlayers[p].score, points)
    <3> HIDE DEF r, points
    <3> QED BY <1>1, <2>1, <2>2, <2>3 DEF Scored
  <2> HIDE DEF r
  <2>5. /\ InRound' = InRound /\ mPlayers'[p] = r
        /\ \A q \in InRound : q # p => mPlayers'[q] = mPlayers[q]
    BY <2>1, <2>3, OneRecordReplaced DEF RoundInv
  <2>6. p \in Range(mCellSolveOrder'[c])
    <3>1. mCellSolveOrder'[c] = Append(order, p) /\ order \in Seq(InRound)
      BY <1>5, FirstSolveOrder
    <3>2. Range(Append(order, p)) = Range(order) \cup {p}
      BY <2>1, <3>1, RangeOfAppend
    <3> QED BY <3>1, <3>2
  <2> QED BY <2>1, <2>2, <2>3, <2>4, <2>5, <2>6
<1>6. CASE value = "right" /\ SubmitRepeat(p, c)
  <2>1. /\ Accepted(p, c, value) /\ p \in InRound /\ AlreadySolved(p, c)
        /\ mPlayers' = [mPlayers EXCEPT ![p].moveCount = mPlayers[p].moveCount + 1]
    BY <1>6 DEF SubmitRepeat, Accepted
  <2>2. points = 0 /\ ~SolvesFirst(p, c, value)
    BY <1>6, <2>1 DEF PointsReported, SolvesFirst
  <2>3. /\ InRound' = InRound /\ mPlayers'[p].score = mPlayers[p].score
        /\ mPlayers'[p].displayColor = mPlayers[p].displayColor
        /\ \A q \in InRound : q # p => mPlayers'[q] = mPlayers[q]
    BY <1>1, <2>1 DEF InRound, PlayerState
  <2> QED BY <1>1, <1>2, <2>1, <2>2, <2>3
<1> QED
  BY <1>3, <1>4, <1>5, <1>6, Zenon DEF SubmitCell

\* A hint changes no score and no colour.
LEMMA HintEffect ==
    ASSUME RoundInv, NEW p \in Players, NEW c \in Positions, UseHint(p, c)
    PROVE  /\ InRound' = InRound
           /\ \A q \in InRound : /\ mPlayers'[q].displayColor = mPlayers[q].displayColor
                                 /\ mPlayers'[q].score = mPlayers[q].score
<1>1. CASE HintRejected(p, c)
  BY <1>1 DEF HintRejected, authVars, InRound
<1>2. CASE HintApplied(p, c)
  <2> DEFINE r == AfterHint(mPlayers[p], c)
  <2>1. /\ p \in InRound /\ mPlayers[p] \in PlayerState /\ c \in Cells
        /\ mPlayers[p].availableCount > 0
        /\ mPlayers' = [mPlayers EXCEPT ![p] = r]
        /\ mRank' = RebuildLeaderboard(mPlayers')
    BY <1>2 DEF HintApplied, HintAllowed, RoundInv, TypeOK
  <2>2. /\ r \in PlayerState /\ r.displayColor = mPlayers[p].displayColor
        /\ r.score = mPlayers[p].score
    BY <2>1, AfterHintFacts
  <2> HIDE DEF r
  <2>3. /\ InRound' = InRound /\ mPlayers'[p] = r
        /\ \A q \in InRound : q # p => mPlayers'[q] = mPlayers[q]
    BY <2>1, <2>2, OneRecordReplaced DEF RoundInv
  <2> QED BY <2>2, <2>3
<1> QED
  BY <1>1, <1>2 DEF UseHint

\* What is kept for the replies: every player of the round is shown in a colour
\* of its own room's, never None, and the last reply is typed and tells the owner.
ColoursShown == \A q \in InRound : mPlayers[q].displayColor # 0

ReplyInv ==
    /\ MatchInv
    /\ mRoundRunning \in BOOLEAN
    /\ ColoursShown
    /\ result \in CellResults
    /\ RepliesNameFirstSolver

LEMMA InitReplyInv == MatchInit => ReplyInv
<1> SUFFICES ASSUME MatchInit PROVE ReplyInv
  OBVIOUS
<1>1. result = DefaultResult /\ mRoundRunning = FALSE /\ InRound = {}
  BY DEF MatchInit, Init, InRound
<1>2. RepliesNameFirstSolver
  BY <1>1, DefaultResultFacts DEF RepliesNameFirstSolver
<1> QED
  BY <1>1, <1>2, InitMatchInv, DefaultResultFacts DEF ReplyInv, ColoursShown

LEMMA NextReplyInv == ReplyInv /\ [MatchNext]_vars => ReplyInv'
<1> SUFFICES ASSUME ReplyInv, [MatchNext]_vars PROVE ReplyInv'
  OBVIOUS
<1>1. MatchInv' /\ RoundInv
  BY NextMatchInv DEF ReplyInv, MatchInv
<1>2. mRoundRunning' \in BOOLEAN
  BY MatchSteps, <1>1 DEF ReplyInv, matchVars
<1> DEFINE Told == ColoursShown' /\ result' \in CellResults /\ RepliesNameFirstSolver'
<1>3. ASSUME result'.firstSolver = 0, ~result'.awarded
      PROVE  RepliesNameFirstSolver'
  BY <1>3 DEF RepliesNameFirstSolver
<1>4. ASSUME NEW puzzle \in Puzzles, NEW ids \in Lineups, StartNewMatch(puzzle, ids),
             result' = DefaultResult
      PROVE  Told
  <2>1. \A q \in InRound' : \E i \in Nat \ {0} : mPlayers'[q] = NewPlayer(i)
    BY <1>4, StartFacts
  <2>2. ColoursShown'
    BY <2>1, NewPlayerFacts DEF ColoursShown
  <2> QED BY <1>3, <1>4, <2>2, DefaultResultFacts
<1>5. ASSUME NEW p \in Players, NEW c \in Positions, NEW value \in Values,
             SubmitCell(p, c, value), result' = SubmitResult(p, c, value)
      PROVE  Told
  <2> DEFINE first == FirstSolver(mCellSolveOrder', c)
             accepted == Accepted(p, c, value)
             correct == accepted /\ value = "right"
             awarded == SolvesFirst(p, c, value)
             points == PointsReported(p, c, value)
             named == IF accepted THEN first ELSE 0
  <2>1. /\ InRound' = InRound /\ points \in Int
        /\ awarded => p \in Range(mCellSolveOrder'[c])
        /\ \A q \in InRound : mPlayers'[q].displayColor = mPlayers[q].displayColor
    BY <1>1, <1>5, SubmitEffect
  <2>2. ColoursShown'
    BY <2>1 DEF ReplyInv, ColoursShown
  <2>3. ASSUME accepted
        PROVE  /\ mCellSolveOrder'[c] \in Seq(InRound)
               /\ c \in Cells
    <3>1. c \in Cells
      BY <2>3, <1>1 DEF Accepted, RoundInv, TypeOK
    <3> QED BY <1>1, <2>1, <3>1 DEF MatchInv, RoundInv, TypeOK
  <2>4. ASSUME accepted
        PROVE  /\ first \in Nat
               /\ mCellSolveOrder'[c] = <<>> => first = 0
               /\ mCellSolveOrder'[c] # <<>>
                  => first # 0 /\ mPlayers'[Head(mCellSolveOrder'[c])].displayColor = first
    <3>1. CASE mCellSolveOrder'[c] = <<>>
      BY <3>1 DEF FirstSolver
    <3>2. CASE mCellSolveOrder'[c] # <<>>
      <4>1. Head(mCellSolveOrder'[c]) \in InRound
        BY <2>3, <2>4, <3>2
      <4>2. first = mPlayers[Head(mCellSolveOrder'[c])].displayColor
        BY <3>2 DEF FirstSolver
      <4> QED BY <1>1, <2>1, <3>2, <4>1, <4>2 DEF ReplyInv, ColoursShown, RoundInv, TypeOK,
                                                  PlayerState
    <3> QED BY <3>1, <3>2
  <2>5. /\ accepted \in BOOLEAN /\ correct \in BOOLEAN /\ awarded \in BOOLEAN
        /\ awarded => accepted
    BY DEF Accepted, SolvesFirst
  <2>6. result' = [playerId |-> p, cell |-> c, correct |-> correct, awarded |-> awarded,
                   pointsAwarded |-> points, firstSolver |-> named]
    BY <1>5, Zenon DEF SubmitResult
  <2>7. named \in Nat
    BY <2>4
  <2>8. awarded => accepted /\ mCellSolveOrder'[c] # <<>>
    BY <2>1, <2>5 DEF Range
  <2> HIDE DEF first, points, accepted, correct, awarded
  <2>9. result' \in CellResults
    <3> HIDE DEF named
    <3> QED BY <2>1, <2>5, <2>6, <2>7 DEF CellResults
  <2>10. /\ result'.playerId = p /\ result'.cell = c /\ result'.firstSolver = named
         /\ result'.awarded = awarded
    <3> HIDE DEF named
    <3> QED BY <2>6
  <2>11. RepliesNameFirstSolver'
    BY <2>1, <2>4, <2>8, <2>10 DEF RepliesNameFirstSolver
  <2> QED BY <2>2, <2>9, <2>11
<1>6. ASSUME NEW p \in Players, NEW c \in Positions, UseHint(p, c),
             result' = HintResult(p, c)
      PROVE  Told
  <2>1. ColoursShown'
    BY <1>1, <1>6, HintEffect DEF ReplyInv, ColoursShown
  <2> QED BY <1>3, <1>6, <2>1, HintResultFacts
<1>7. ASSUME UNCHANGED authVars, result' = DefaultResult PROVE Told
  <2>1. ColoursShown'
    BY <1>7 DEF ReplyInv, ColoursShown, authVars, InRound
  <2> QED BY <1>3, <1>7, <2>1, DefaultResultFacts
<1>8. ASSUME UNCHANGED vars PROVE Told
  BY <1>8 DEF vars, authVars, ReplyInv, ColoursShown, InRound, RepliesNameFirstSolver
<1>9. Told
  <2>1. MatchInv
    BY DEF ReplyInv
  <2>2. CASE MatchNext
    BY <1>4, <1>5, <1>6, <1>7, <2>1, <2>2, ReplySteps, Zenon
  <2> QED BY <1>8, <2>2
<1> QED
  BY <1>1, <1>2, <1>9 DEF ReplyInv

\* The invariant that carries the replies is inductive.
THEOREM ReplyInvariant == MatchSpec => []ReplyInv
<1> QED BY InitReplyInv, NextReplyInv, PTL DEF MatchSpec

\* Type correctness of the match and of every CellResult it returns.
THEOREM MatchTyped == MatchSpec => []MatchTypeOK
<1>1. ReplyInv => MatchTypeOK  BY DEF ReplyInv, MatchInv, RoundInv, MatchTypeOK
<1> QED BY <1>1, ReplyInvariant, PTL

\* A reply names the player at the head of the cell's solve order, and a reply
\* that awards points always names one: the claim broadcast to the room is the
\* one the scores were paid for.
THEOREM RepliesAlwaysNameFirstSolver == MatchSpec => []RepliesNameFirstSolver
<1>1. ReplyInv => RepliesNameFirstSolver  BY DEF ReplyInv
<1> QED BY <1>1, ReplyInvariant, PTL

\* The points a reply announces are the points that the leaderboard moves by,
\* and no other player's score moves with them.
THEOREM RepliesAlwaysMatchScores == MatchSpec => RepliesMatchScores
<1> DEFINE Fresh == mRoundRunning' /\ \A c \in Cells : mCellSolveOrder'[c] = <<>>
                      /\ \A p \in DOMAIN mPlayers' : mPlayers'[p].moveCount = 0
           Paid == \A p \in Players :
                      PointsOf(mPlayers', p) =
                        Scored(PointsOf(mPlayers, p),
                               IF p = result'.playerId THEN result'.pointsAwarded ELSE 0)
<1>1. ASSUME RoundInv
      PROVE  \A q : PointsOf(mPlayers, q) \in Nat
  BY <1>1 DEF PointsOf, RoundInv, TypeOK, PlayerState
<1>2. ASSUME RoundInv, result'.pointsAwarded = 0, InRound' = InRound,
             \A q \in InRound : mPlayers'[q].score = mPlayers[q].score
      PROVE  Paid
  <2>1. \A q : PointsOf(mPlayers', q) = PointsOf(mPlayers, q)
    BY <1>2 DEF PointsOf, InRound
  <2> QED BY <1>1, <1>2, <2>1 DEF Scored
<1>3. ASSUME NEW puzzle \in Puzzles, NEW ids \in Lineups, StartNewMatch(puzzle, ids),
             mRoundRunning' = TRUE
      PROVE  Fresh
  <2>1. \A q \in DOMAIN mPlayers' : \E i \in Nat \ {0} : mPlayers'[q] = NewPlayer(i)
    BY <1>3, StartFacts DEF InRound
  <2> QED BY <1>3, <2>1, NewPlayerFacts DEF StartNewMatch
<1>4. ASSUME RoundInv, NEW p \in Players, NEW c \in Positions, NEW value \in Values,
             SubmitCell(p, c, value), result' = SubmitResult(p, c, value)
      PROVE  Paid
  <2> DEFINE points == PointsReported(p, c, value)
  <2>1. result'.playerId = p /\ result'.pointsAwarded = points
    BY <1>4, Zenon DEF SubmitResult
  <2> HIDE DEF points
  <2>2. /\ InRound' = InRound /\ points \in Int
        /\ \A q \in InRound : q # p => mPlayers'[q] = mPlayers[q]
        /\ p \notin InRound => points = 0
        /\ p \in InRound => mPlayers'[p].score = Scored(mPlayers[p].score, points)
    BY <1>4, SubmitEffect DEF points
  <2>3. \A q : q # p => PointsOf(mPlayers', q) = PointsOf(mPlayers, q)
    BY <2>2 DEF PointsOf, InRound
  <2>4. PointsOf(mPlayers', p) = Scored(PointsOf(mPlayers, p), points)
    BY <2>2 DEF PointsOf, InRound, Scored
  <2> QED BY <1>1, <1>4, <2>1, <2>2, <2>3, <2>4 DEF Scored
<1>5. ASSUME RoundInv, NEW p \in Players, NEW c \in Positions, UseHint(p, c),
             result' = HintResult(p, c)
      PROVE  Paid
  BY <1>2, <1>5, HintEffect, HintResultFacts
<1>6. ASSUME RoundInv, UNCHANGED authVars, result' = DefaultResult
      PROVE  Paid
  BY <1>2, <1>6, DefaultResultFacts DEF authVars, InRound
<1> DEFINE Body ==
       \/ mRoundRunning' /\ \A c \in Cells : mCellSolveOrder'[c] = <<>>
            /\ \A p \in DOMAIN mPlayers' : mPlayers'[p].moveCount = 0
       \/ \A p \in Players :
            PointsOf(mPlayers', p) =
              Scored(PointsOf(mPlayers, p),
                     IF p = result'.playerId THEN result'.pointsAwarded ELSE 0)
<1>7. ASSUME MatchInv, MatchNext PROVE Body
  <2>1. RoundInv
    BY <1>7 DEF MatchInv
  <2>2. Fresh \/ Paid
    <3> HIDE DEF Fresh, Paid
    <3> QED BY <1>3, <1>4, <1>5, <1>6, <1>7, <2>1, ReplySteps, Zenon
  <2> QED BY <2>2
<1> HIDE DEF Body
<1>8. MatchInv /\ [MatchNext]_vars => [Body]_vars
  BY <1>7
<1>9. MatchSpec => [][Body]_vars
  BY <1>8, MatchInvariant, PTL DEF MatchSpec
<1> QED
  BY <1>9 DEF Body, RepliesMatchScores

-----------------------------------------------------------------------------
(* Refinement                                                               *)

LEMMA AbstractInit == MatchInit => Abstract!Init
<1> SUFFICES ASSUME MatchInit PROVE Abstract!Init
  OBVIOUS
<1>1. /\ mPuzzle = {} /\ InRound = {} /\ mRoundRunning = FALSE
  BY DEF MatchInit, Init, InRound
<1>2. AbstractPhase = "idle"
  BY <1>1 DEF AbstractPhase, Started
<1>3. Finisher = NoPlayer
  BY <1>1 DEF Finisher
<1>4. [p \in InRound |-> mPlayers[p].solved] = <<>>
  BY <1>1
<1> QED
  BY <1>1, <1>2, <1>3, <1>4 DEF Abstract!Init

\* A step that leaves cells and finished marks alone is a stutter of the race.
LEMMA AbstractStutter ==
    ASSUME MatchInv, InRound' = InRound, UNCHANGED <<mPuzzle, mRoundRunning>>,
           \A q \in InRound : /\ mPlayers'[q].solved = mPlayers[q].solved
                              /\ mPlayers'[q].finished = mPlayers[q].finished
    PROVE  UNCHANGED Abstract!vars
<1>1. AbstractPhase' = AbstractPhase
  BY DEF AbstractPhase, Started
<1>2. Finisher' = Finisher
  BY DEF Finisher
<1>3. [p \in InRound |-> mPlayers[p].solved]' = [p \in InRound |-> mPlayers[p].solved]
  OBVIOUS
<1> QED
  BY <1>1, <1>2, <1>3 DEF Abstract!vars

\* A solve or a hint fills one cell; it ends the race exactly when it is the
\* last of its player's board.
LEMMA AbstractFill ==
    ASSUME MatchInv, RoundInv', mRoundRunning, NEW p \in InRound, NEW c \in mPuzzle,
           c \notin mPlayers[p].solved,
           InRound' = InRound, UNCHANGED mPuzzle,
           mPlayers'[p].solved = mPlayers[p].solved \cup {c},
           \A q \in InRound : q # p => mPlayers'[q] = mPlayers[q],
           mRoundRunning' = (mRoundRunning /\ ~mRoundFinished')
    PROVE  Abstract!Fill(p, c)
<1> DEFINE Filled == [q \in InRound |-> mPlayers[q].solved]
<1>1. AbstractPhase = "running"
  BY DEF AbstractPhase
<1>2. ~mRoundFinished /\ Started /\ \A q \in InRound : ~mPlayers[q].finished
  BY DEF MatchInv, FlagsAgree, RoundInv, RoundOverWhenFilled
<1>3. Finisher = NoPlayer
  BY <1>2 DEF Finisher
<1>4. Filled' = [Filled EXCEPT ![p] = Filled[p] \cup {c}] /\ Filled'[p] = mPlayers'[p].solved
  OBVIOUS
<1>5. \A q \in InRound : q # p => ~mPlayers'[q].finished
  BY <1>2
<1>6. mPlayers'[p].finished <=> mPuzzle \subseteq mPlayers'[p].solved
  BY DEF RoundInv, RoundOverWhenFilled
<1>7. mRoundFinished' <=> mPlayers'[p].finished
  BY <1>5 DEF RoundInv, RoundOverWhenFilled
<1>8. CASE mPuzzle \subseteq Filled'[p]
  <2>1. AbstractPhase' = "finished"
    BY <1>2, <1>4, <1>6, <1>7, <1>8 DEF AbstractPhase, Started
  <2>2. Finisher' = p
    BY <1>4, <1>5, <1>6, <1>8 DEF Finisher
  <2> HIDE DEF Filled
  <2> QED BY <1>1, <1>4, <1>8, <2>1, <2>2 DEF Abstract!Fill, Filled
<1>9. CASE ~(mPuzzle \subseteq Filled'[p])
  <2>1. AbstractPhase' = "running"
    BY <1>4, <1>6, <1>7, <1>9 DEF AbstractPhase
  <2>2. Finisher' = NoPlayer
    BY <1>4, <1>5, <1>6, <1>9 DEF Finisher
  <2> QED BY <1>1, <1>3, <1>4, <1>9, <2>1, <2>2 DEF Abstract!Fill
<1> QED
  BY <1>8, <1>9

LEMMA AbstractStart ==
    ASSUME NEW puzzle \in Puzzles, NEW ids \in Lineups, StartNewMatch(puzzle, ids),
           mRoundRunning' = TRUE
    PROVE  Abstract!Start(puzzle, Range(ids))
<1>1. InRound' = Range(ids) /\ \A q \in Range(ids) : \E i \in Nat : mPlayers'[q] = NewPlayer(i)
  BY StartFacts
<1>2. \A q \in Range(ids) : mPlayers'[q].solved = {} /\ ~mPlayers'[q].finished
  <2>1. \A i : NewPlayer(i).solved = {} /\ ~NewPlayer(i).finished
    BY DEF NewPlayer
  <2> QED BY <1>1, <2>1
<1>3. AbstractPhase' = "running"
  BY DEF AbstractPhase
<1>4. Finisher' = NoPlayer
  BY <1>1, <1>2 DEF Finisher
<1>5. [q \in InRound |-> mPlayers[q].solved]' = [q \in Range(ids) |-> {}]
  BY <1>1, <1>2
<1>6. mPuzzle' = puzzle
  BY DEF StartNewMatch
<1> QED
  BY <1>3, <1>4, <1>5, <1>6 DEF Abstract!Start

LEMMA AbstractStep ==
    ASSUME MatchInv, [MatchNext]_vars
    PROVE  [Abstract!Next]_(Abstract!vars)
<1>1. RoundInv'
  BY NextMatchInv DEF MatchInv
<1>2. ASSUME NEW puzzle \in Puzzles, NEW ids \in Lineups, StartNewMatch(puzzle, ids),
             mRoundRunning' = TRUE
      PROVE  Abstract!Next
  BY <1>2, AbstractStart DEF Abstract!Next
<1>3. ASSUME NEW p \in Players, NEW c \in Positions, NEW value \in Values, mRoundRunning,
             SubmitCell(p, c, value), mRoundRunning' = (mRoundRunning /\ ~mRoundFinished')
      PROVE  [Abstract!Next]_(Abstract!vars)
  <2>1. CASE SubmitRejected(p, c, value)
    <3>1. UNCHANGED <<mPuzzle, mPlayers, mRoundFinished>>
      BY <2>1 DEF SubmitRejected, authVars
    <3>2. InRound' = InRound /\ UNCHANGED mRoundRunning
      BY <1>3, <3>1 DEF InRound, MatchInv, FlagsAgree
    <3> QED BY <3>1, <3>2, AbstractStutter
  <2>2. CASE SubmitWrong(p, c)
    <3>1. p \in InRound /\ mPlayers[p] \in PlayerState
      BY <2>2 DEF SubmitWrong, Accepted, MatchInv, RoundInv, TypeOK
    <3>2. /\ UNCHANGED <<mPuzzle, mRoundFinished>>
          /\ mPlayers' = [mPlayers EXCEPT ![p] = AfterWrong(mPlayers[p])]
          /\ mRank' = RebuildLeaderboard(mPlayers')
      BY <2>2 DEF SubmitWrong
    <3>3. \A q \in InRound : /\ mPlayers'[q].solved = mPlayers[q].solved
                             /\ mPlayers'[q].finished = mPlayers[q].finished
      BY <3>1, <3>2, AfterWrongFacts, OneRecordReplaced DEF MatchInv, RoundInv
    <3>4. InRound' = InRound /\ UNCHANGED mRoundRunning
      BY <1>3, <3>1, <3>2, AfterWrongFacts, OneRecordReplaced
         DEF MatchInv, RoundInv, FlagsAgree
    <3> QED BY <3>2, <3>3, <3>4, AbstractStutter
  <2>3. CASE SubmitFirstSolve(p, c)
    <3> DEFINE r == AfterSolve(mPlayers[p], c, PointsForSolveRank(SolveRank(c)))
    <3>1. /\ p \in InRound /\ mPlayers[p] \in PlayerState /\ c \in mPuzzle /\ c \in Cells
          /\ c \notin mPlayers[p].solved
      BY <2>3 DEF SubmitFirstSolve, Accepted, AlreadySolved, MatchInv, RoundInv, TypeOK
    <3>2. UNCHANGED mPuzzle /\ mPlayers' = [mPlayers EXCEPT ![p] = r]
          /\ mRank' = RebuildLeaderboard(mPlayers')
      BY <2>3 DEF SubmitFirstSolve
    <3>3. PointsForSolveRank(SolveRank(c)) \in Nat
      <4>1. {FirstSolvePoints, SecondSolvePoints, ThirdSolvePoints, 0} \subseteq Nat
        BY RulesAssumption
      <4> QED BY <4>1 DEF PointsForSolveRank
    <3>4. r \in PlayerState /\ r.solved = mPlayers[p].solved \cup {c}
      BY <3>1, <3>3, AfterSolveFacts
    <3> HIDE DEF r
    <3>5. /\ InRound' = InRound /\ mPlayers'[p].solved = mPlayers[p].solved \cup {c}
          /\ \A q \in InRound : q # p => mPlayers'[q] = mPlayers[q]
      BY <3>1, <3>2, <3>4, OneRecordReplaced DEF MatchInv, RoundInv
    <3>6. Abstract!Fill(p, c)
      BY <1>1, <1>3, <3>1, <3>2, <3>5, AbstractFill
    <3> QED BY <3>1, <3>6 DEF Abstract!Next
  <2>4. CASE SubmitRepeat(p, c)
    <3>1. p \in InRound
      BY <2>4 DEF SubmitRepeat, Accepted
    <3>2. /\ UNCHANGED <<mPuzzle, mRoundFinished>>
          /\ mPlayers' = [mPlayers EXCEPT ![p].moveCount = mPlayers[p].moveCount + 1]
      BY <2>4 DEF SubmitRepeat
    <3>3. \A q \in InRound : mPlayers[q] \in PlayerState
      BY DEF MatchInv, RoundInv, TypeOK
    <3>4. InRound' = InRound
          /\ \A q \in InRound : /\ mPlayers'[q].solved = mPlayers[q].solved
                                /\ mPlayers'[q].finished = mPlayers[q].finished
      BY <3>1, <3>2, <3>3 DEF InRound, PlayerState
    <3>5. UNCHANGED mRoundRunning
      BY <1>3, <3>2 DEF MatchInv, FlagsAgree
    <3> QED BY <3>2, <3>4, <3>5, AbstractStutter
  <2> QED BY <1>3, <2>1, <2>2, <2>3, <2>4 DEF SubmitCell
<1>4. ASSUME NEW p \in Players, NEW c \in Positions, mRoundRunning, UseHint(p, c),
             mRoundRunning' = (mRoundRunning /\ ~mRoundFinished')
      PROVE  [Abstract!Next]_(Abstract!vars)
  <2>1. CASE HintRejected(p, c)
    <3>1. UNCHANGED <<mPuzzle, mPlayers, mRoundFinished>>
      BY <2>1 DEF HintRejected, authVars
    <3>2. InRound' = InRound /\ UNCHANGED mRoundRunning
      BY <1>4, <3>1 DEF InRound, MatchInv, FlagsAgree
    <3> QED BY <3>1, <3>2, AbstractStutter
  <2>2. CASE HintApplied(p, c)
    <3> DEFINE r == AfterHint(mPlayers[p], c)
    <3>1. /\ p \in InRound /\ mPlayers[p] \in PlayerState /\ c \in mPuzzle /\ c \in Cells
          /\ c \notin mPlayers[p].solved /\ mPlayers[p].availableCount > 0
      BY <2>2 DEF HintApplied, HintAllowed, AlreadySolved, MatchInv, RoundInv, TypeOK
    <3>2. UNCHANGED mPuzzle /\ mPlayers' = [mPlayers EXCEPT ![p] = r]
          /\ mRank' = RebuildLeaderboard(mPlayers')
      BY <2>2 DEF HintApplied
    <3>3. r \in PlayerState /\ r.solved = mPlayers[p].solved \cup {c}
      BY <3>1, AfterHintFacts
    <3> HIDE DEF r
    <3>4. /\ InRound' = InRound /\ mPlayers'[p].solved = mPlayers[p].solved \cup {c}
          /\ \A q \in InRound : q # p => mPlayers'[q] = mPlayers[q]
      BY <3>1, <3>2, <3>3, OneRecordReplaced DEF MatchInv, RoundInv
    <3>5. Abstract!Fill(p, c)
      BY <1>1, <1>4, <3>1, <3>2, <3>4, AbstractFill
    <3> QED BY <3>1, <3>5 DEF Abstract!Next
  <2> QED BY <1>4, <2>1, <2>2 DEF UseHint
<1>5. CASE UNCHANGED <<authVars, matchVars>>
  <2>1. UNCHANGED <<mPuzzle, mPlayers, mRoundRunning>> /\ InRound' = InRound
    BY <1>5 DEF authVars, matchVars, InRound
  <2> QED BY <2>1, AbstractStutter
<1> QED
  BY <1>2, <1>3, <1>4, <1>5, MatchSteps

\* A match is the race of MatchRound: it starts with a roster, every change is
\* one player filling one cell, the first full board ends it, and nothing else
\* (late, wrong, repeated or refused calls) shows.
THEOREM MatchImplementsMatchRound == MatchSpec => ImplementsMatchRound
<1> QED
  BY AbstractInit, AbstractStep, MatchInvariant, PTL
     DEF MatchSpec, ImplementsMatchRound, Abstract!Spec

=============================================================================
