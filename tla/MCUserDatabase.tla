--------------------------- MODULE MCUserDatabase ---------------------------
(* Three users at two clients: requests cross, two people ask the same      *)
(* third, and a client is used by one after the other.                      *)
EXTENDS UserDatabase, TLC

ClientSymmetry == Permutations(Clients)

=============================================================================
