---------------------------- MODULE MCStreamTasks ----------------------------
(* StreamTasks with short queues, for TLC. *)
EXTENDS StreamTasks, TLC

=============================================================================
