-------------------------- MODULE MCBlockingSends ---------------------------
(* Two clients, buffers of two packets.                                     *)
EXTENDS BlockingSends

CONSTANTS a, b

=============================================================================
