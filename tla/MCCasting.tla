----------------------------- MODULE MCCasting ------------------------------
(* Two processes that run rgsp-host, so two casters at most and, with their *)
(* pids, every pid a stale file can name.                                   *)
EXTENDS Casting

\* Everything the daemon, its starter or the hooks make good again.
AnyFault == {"kill", "reboot", "disk_full", "startup_fails"}

\* A window of which the code says that there is none.
EarlyTerm == {"early_term"}
=============================================================================
