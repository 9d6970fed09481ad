----------------------------- MODULE MatchRound -----------------------------
(***************************************************************************)
(* What a match promises its room, without scores, hints or statistics: a  *)
(* roster races to fill private copies of one board, cell by cell; the     *)
(* first to fill it ends the round and is its finisher; then nothing moves *)
(* until the next round.  LiveMatch implements this.                       *)
(***************************************************************************)
CONSTANTS
    Players,
    Boards,       \* the sets of open cells a round may be played on
    Rosters,      \* the sets of players a round may be played by
    NoPlayer

VARIABLES
    phase,        \* "idle", "running" or "finished"
    board,        \* the open cells of the round
    filled,       \* player of the roster -> the cells of the board it has filled
    finisher      \* who ended the round, NoPlayer before

vars == <<phase, board, filled, finisher>>

Init ==
    /\ phase = "idle"
    /\ board = {}
    /\ filled = <<>>
    /\ finisher = NoPlayer

Start(cells, roster) ==
    /\ phase' = "running"
    /\ board' = cells
    /\ filled' = [p \in roster |-> {}]
    /\ finisher' = NoPlayer

Fill(p, c) ==
    /\ phase = "running"
    /\ p \in DOMAIN filled
    /\ c \in board \ filled[p]
    /\ filled' = [filled EXCEPT ![p] = @ \cup {c}]
    /\ \/ board \subseteq filled'[p] /\ phase' = "finished" /\ finisher' = p
       \/ ~(board \subseteq filled'[p]) /\ UNCHANGED <<phase, finisher>>
    /\ UNCHANGED board

Next ==
    \/ \E cells \in Boards, roster \in Rosters : Start(cells, roster)
    \/ \E p \in Players : \E c \in board : Fill(p, c)

Spec == Init /\ [][Next]_vars

=============================================================================
