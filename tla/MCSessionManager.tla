-------------------------- MODULE MCSessionManager --------------------------
(* SessionManager on a few handlers, for TLC. *)
EXTENDS SessionManager
=============================================================================
