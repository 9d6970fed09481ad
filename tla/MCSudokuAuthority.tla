------------------------- MODULE MCSudokuAuthority -------------------------
(***************************************************************************)
(* SudokuAuthority on instances small enough for TLC.  The thresholds are  *)
(* scaled down with the board so that every rule fires: a streak milestone *)
(* every solve (capped at one hint) and the score hint after two first     *)
(* solves.  Players 1 and 2 sit in the vector in either order, so the      *)
(* display colour and the tie-break by id disagree in one lineup.          *)
(***************************************************************************)
EXTENDS SudokuAuthority

MCPlayers == {1, 2}
MCCells == {"a", "b", "c"}
MCPuzzles == {{"a", "b"}, {"a", "b", "c"}}
MCLineups == {<<2, 1>>}

=============================================================================
