-------------------------- MODULE MCControlSocket ---------------------------
(* Two connections: the UI's, and the one it replaced. *)
EXTENDS ControlSocket
=============================================================================
