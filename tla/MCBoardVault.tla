---------------------------- MODULE MCBoardVault ----------------------------
(* Boards of 4 by 4; the positions in arithmetic progressions.              *)
EXTENDS BoardVault

CONSTANT Strides

MCShuffles == {[k \in 1 .. 16 |-> (a * k + b) % 16] : a \in Strides, b \in {0, 6}}

=============================================================================
