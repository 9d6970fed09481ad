---------------------------- MODULE MCHostEngine ----------------------------
(***************************************************************************)
(* HostEngine with three profiles: a room for all of them, a room of two   *)
(* with a third player who comes into the round of two others, or two      *)
(* rooms.                                                                  *)
(***************************************************************************)
EXTENDS HostEngine

MCCells == {"a"}

\* The sizes allowed, one less and one more.
TableSizes == 1..4

=============================================================================
