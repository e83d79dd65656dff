---------------------------- MODULE HostSession ----------------------------
(***************************************************************************)
(* What the tasks session_pump runs for a session see of it: whether its   *)
(* streams still hold the other ends of their channels.                    *)
(***************************************************************************)
VARIABLE session
=============================================================================
