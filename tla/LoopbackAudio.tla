--------------------------- MODULE LoopbackAudio ----------------------------
(***************************************************************************)
(* run_audio of main.rs and the loopback capture of audio.rs: periods are  *)
(* filled from reads that may be short, a capture that was overrun is      *)
(* restarted, and whole periods go to the session.  The frames the cable   *)
(* hands out are numbered from the last one sent.                          *)
(***************************************************************************)
EXTENDS HostSession, Integers

CONSTANTS PeriodFrames,  \* PERIOD_FRAMES
          BufferFrames   \* what the capture side of the cable holds

VARIABLES audio,    \* run_audio
          ready,    \* frames to be read
          overrun,  \* there was no room for one more
          handed,   \* frames read since the last period that was sent
          filled,
          buf

Silence == [i \in 1 .. PeriodFrames |-> 0]

AudioInit ==
    /\ audio = "off" /\ ready = 0 /\ overrun = FALSE
    /\ handed = 0 /\ filled = 0 /\ buf = Silence

AudioStarts ==
    /\ audio = "off"
    /\ audio' = "opening"
    /\ UNCHANGED <<ready, overrun, handed, filled, buf>>

Off == /\ audio' = "off" /\ ready' = 0 /\ overrun' = FALSE
       /\ handed' = 0 /\ filled' = 0 /\ buf' = Silence

\* Anything the cable does not grant is fatal; it is started explicitly.
open_capture ==
    /\ audio = "opening"
    /\ \/ audio' = "filling" /\ UNCHANGED <<ready, overrun, handed, filled, buf>>
       \/ Off
    /\ UNCHANGED session

\* The cable, which runs once it is started, whether or not anybody plays.
Cable ==
    /\ audio = "filling" /\ ~overrun
    /\ IF ready < BufferFrames
       THEN ready' = ready + 1 /\ UNCHANGED overrun
       ELSE overrun' = TRUE /\ UNCHANGED ready
    /\ UNCHANGED <<session, audio, handed, filled, buf>>

\* Mutant of Read: a read starts at the front of the buffer.
ReadFront(k) ==
    [i \in 1 .. PeriodFrames |-> IF i <= k THEN handed + i ELSE buf[i]]

\* k frames, behind those that are there.
Read(k) ==
    [i \in 1 .. PeriodFrames |->
       IF i \in filled + 1 .. filled + k THEN handed + i - filled ELSE buf[i]]

\* readi: it waits for a frame, may return fewer than asked for, and fails;
\* after an overrun the capture is prepared and started, and read again.
read ==
    /\ audio = "filling" /\ filled < PeriodFrames
    /\ \/ /\ overrun
          /\ overrun' = FALSE /\ ready' = 0
          /\ UNCHANGED <<audio, handed, filled, buf>>
       \/ /\ ~overrun /\ ready > 0
          /\ \E k \in 1 .. PeriodFrames - filled :
               /\ k <= ready
               /\ ready' = ready - k
               /\ handed' = handed + k
               /\ filled' = filled + k
               /\ buf' = Read(k)
          /\ UNCHANGED <<audio, overrun>>
       \/ Off
    /\ UNCHANGED session

\* Mutant of Sends: a session that is gone is not noticed.
SendsOn ==
    /\ audio = "filling" /\ filled = PeriodFrames
    /\ filled' = 0 /\ handed' = handed - PeriodFrames /\ buf' = Silence
    /\ UNCHANGED <<session, audio, ready, overrun>>

\* A whole period is sent, which fails once the session's streams are gone.
Sends ==
    /\ audio = "filling" /\ filled = PeriodFrames
    /\ \/ /\ session
          /\ filled' = 0 /\ handed' = handed - PeriodFrames /\ buf' = Silence
          /\ UNCHANGED <<audio, ready, overrun>>
       \/ ~session /\ Off
    /\ UNCHANGED session

AudioTask == open_capture \/ read \/ Sends
=============================================================================
