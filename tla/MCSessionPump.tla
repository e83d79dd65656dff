--------------------------- MODULE MCSessionPump ---------------------------
(* SessionPump with one HTTP and one RTSP client, for TLC. *)
EXTENDS SessionPump, TLC

=============================================================================
