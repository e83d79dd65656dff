----------------------------- MODULE MCConsole ------------------------------
(* A client that waits and two that are paired, in a list of two rows and   *)
(* the service row: the last row is one the list may or may not show.       *)
EXTENDS Console
Buttons == {{}, {"a"}, {"b"}, {"down"}, {"up", "a"}}
Arrows == {{}, {"a"}, {"b"}, {"down"}}
=============================================================================
