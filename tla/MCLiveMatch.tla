---------------------------- MODULE MCLiveMatch -----------------------------
(***************************************************************************)
(* LiveMatch with the full table of three players, so that a cell has a    *)
(* first, a second and a third solver, on a board of two open cells.       *)
(***************************************************************************)
EXTENDS LiveMatch

MCPlayers == {1, 2, 3}
MCCells == {"a", "b"}
MCPuzzles == {{"a", "b"}}
MCLineups == {<<>>, <<3, 1, 2>>}

=============================================================================
