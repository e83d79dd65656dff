--------------------------- MODULE SessionDevices ---------------------------
(***************************************************************************)
(* The two devices of a session besides the encoder: the remote pad and    *)
(* the loopback capture.  The pump of main.rs starts both tasks with a     *)
(* session.  Before it starts another session it waits for the audio       *)
(* thread (and the video thread), and not for the input task, which it     *)
(* only aborts; all that they share is the end of the session.             *)
(***************************************************************************)
EXTENDS RemoteInput, LoopbackAudio

ASSUME DevicesAssumption ==
    /\ QueueLen \in Nat \ {0}
    /\ PeriodFrames \in Nat \ {0}
    /\ BufferFrames \in Nat /\ BufferFrames >= PeriodFrames

padVars == <<kind, holds, queue, behind, at, state, last, seen>>
inputVars == <<padVars, former>>
audioVars == <<audio, ready, overrun, handed, filled, buf>>
vars == <<session, inputVars, audioVars>>

Init == session = FALSE /\ InputInit /\ AudioInit

Starts ==
    /\ ~session
    /\ session' = TRUE
    /\ InputStarts /\ AudioStarts

\* The client leaves, a stream fails, or one of the tasks has ended.
Stops ==
    /\ session
    /\ session' = FALSE
    /\ UNCHANGED <<inputVars, audioVars>>

InputSteps == (InputClient \/ InputTask) /\ UNCHANGED <<former, audioVars>>
FormerSteps == FormerEnds /\ UNCHANGED <<session, padVars, audioVars>>
AudioSteps == (Cable \/ AudioTask) /\ UNCHANGED inputVars

Next == Starts \/ Stops \/ InputSteps \/ FormerSteps \/ AudioSteps

Spec == Init /\ [][Next]_vars

\* The tasks and the cable go on; clients and sessions may stop.  A read that
\* has frames returns some of them, or fails.
FairSpec ==
    /\ Spec
    /\ WF_vars(InputTask /\ UNCHANGED <<former, audioVars>>)
    /\ WF_vars(FormerSteps)
    /\ WF_vars(Cable /\ UNCHANGED inputVars)
    /\ SF_vars(read /\ ~overrun /\ UNCHANGED inputVars)
    /\ WF_vars(AudioTask /\ UNCHANGED inputVars)

-----------------------------------------------------------------------------
(* Properties *)

\* main.rs:598: in each period that is sent, the frames read since the one
\* before are all there, once and in order, however short the reads were.
PeriodsWhole == [][Sends => \A i \in 1 .. PeriodFrames : buf[i] = i]_vars

\* main.rs:470, 488: a session that is over lets go of its devices, whatever
\* the client or the cable did meanwhile; the pump waits for the audio thread,
\* and the pad goes before the next session or, aborted, during it.
DevicesLetGo ==
    /\ ~session ~> audio = "off"
    /\ ~session ~> session \/ at = "off"
    /\ former.at = "open" ~> former.at = "off"
=============================================================================
