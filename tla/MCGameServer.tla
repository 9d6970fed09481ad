---------------------------- MODULE MCGameServer ----------------------------
(* Three connections of two people in rooms of two.                         *)
EXTENDS GameServer

CONSTANTS ann, bob, c1

=============================================================================
