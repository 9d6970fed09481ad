--------------------------- MODULE MCGameSession ----------------------------
(* Two clients, one open cell beside the corner of the board.               *)
EXTENDS GameSession

CONSTANTS c1, c2

=============================================================================
