--------------------------- MODULE SessionStreams ---------------------------
(***************************************************************************)
(* What the streams of one started session are to the rest of the daemon:  *)
(* something that delays the completion of the session's stop token, holds *)
(* ports, and receives what the two hardware loops send, once it is past   *)
(* its start gate.  StreamTasks.tla implements this; SessionManager.tla    *)
(* and SessionPump.tla rely on no more.                                    *)
(***************************************************************************)

VARIABLES
    triggered,  \* the stop token has been triggered
    delayed,    \* the shutdown of the token is not complete
    bound,      \* some task owns a socket
    receiver    \* the receivers of video frames and of PCM

streamVars == <<triggered, delayed, bound, receiver>>

Medium == {"video", "audio"}

StreamsInit ==
    /\ triggered = FALSE /\ delayed = TRUE /\ bound = TRUE
    /\ receiver = [m \in Medium |-> "gated"]

\* Somebody ends the session: a handler, the watchdog, or a stream task.
Trigger ==
    /\ triggered' = TRUE
    /\ UNCHANGED <<delayed, bound, receiver>>

\* The receiver gets past its start gate, before or after the trigger.
Open(m) ==
    /\ receiver[m] = "gated"
    /\ receiver' = [receiver EXCEPT ![m] = "open"]
    /\ UNCHANGED <<triggered, delayed, bound>>

\* A receiver is dropped: its task has left, which ends the session too.
Drop(m) ==
    /\ receiver[m] = "open"
    /\ receiver' = [receiver EXCEPT ![m] = "dropped"]
    /\ triggered' = TRUE
    /\ UNCHANGED <<delayed, bound>>

Complete ==
    /\ triggered /\ delayed
    /\ delayed' = FALSE
    /\ UNCHANGED <<triggered, bound, receiver>>

Close ==
    /\ triggered /\ bound
    /\ bound' = FALSE
    /\ UNCHANGED <<triggered, delayed, receiver>>

StreamsNext ==
    \/ Trigger \/ Complete \/ Close
    \/ \E m \in Medium : Open(m) \/ Drop(m)

StreamsSpec == StreamsInit /\ [][StreamsNext]_streamVars

=============================================================================
