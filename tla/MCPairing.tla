------------------------------ MODULE MCPairing ------------------------------
(* Pairing with a few attempts, for TLC. *)
EXTENDS Pairing
=============================================================================
