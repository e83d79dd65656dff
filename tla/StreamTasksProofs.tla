------------------------- MODULE StreamTasksProofs -------------------------
(***************************************************************************)
(* For queues of any length: the six tasks of a session implement what     *)
(* SessionStreams promises of them.                                        *)
(***************************************************************************)
EXTENDS StreamTasks, TLAPS

\* A task that has left its loop has triggered the stop token.
LeftIsTold == \A t \in Task : task[t] \in {"closing", "gone"} => stopped

\* The control loop closes its socket before it drops its tokens, and waits
\* at no gate.
ControlClosesFirst == task["control"] \in {"spawned", "running", "gone"}

CompleteIsTold == complete => stopped

Inductive == TypeOK /\ LeftIsTold /\ ControlClosesFirst /\ CompleteIsTold

-----------------------------------------------------------------------------
LEMMA TasksAre ==
    /\ Task = {"control", "packetize", "video_packets", "bridge", "encoder",
               "audio_packets"}
    /\ Video \subseteq Task /\ Audio \subseteq Task
  BY DEF Task, Video, Audio

LEMMA InitiallyInductive == Init => Inductive
<1> SUFFICES ASSUME Init PROVE Inductive
  OBVIOUS
<1>1. 0 \in 0..PcmFrames /\ 0 \in 0..OpusPackets
  BY BoundsAssumption
<1>2. task \in [Task -> TaskState] /\ fed \in [Medium -> BOOLEAN]
  BY DEF Init, TaskState
<1>3. \A t \in Task : task[t] = "spawned"
  BY DEF Init
<1> QED
  BY <1>1, <1>2, <1>3, TasksAre
  DEF Init, Inductive, TypeOK, LeftIsTold, ControlClosesFirst, CompleteIsTold

\* What a step of one task must respect.
LEMMA TaskSteps ==
    ASSUME Inductive, NEW t \in Task, NEW to \in TaskState, Goto(t, to),
           stopped => stopped', to \in {"closing", "gone"} => stopped',
           t = "control" => to \in {"spawned", "running", "gone"},
           permit' \in BOOLEAN, gate' \in BOOLEAN, stopped' \in BOOLEAN,
           pcm' \in 0..PcmFrames, opus' \in 0..OpusPackets,
           UNCHANGED <<complete, fed>>
    PROVE  Inductive'
  BY DEF Goto, Inductive, TypeOK, LeftIsTold, ControlClosesFirst, CompleteIsTold

LEMMA LeavesInductive ==
    ASSUME Inductive, NEW t \in Task, Leave(t)
    PROVE  Inductive'
  BY TaskSteps DEF Leave, Inductive, TypeOK, TaskState

LEMMA StepKeepsInductive == Inductive /\ [Next]_vars => Inductive'
<1> SUFFICES ASSUME Inductive, [Next]_vars PROVE Inductive'
  OBVIOUS
<1> USE TasksAre, BoundsAssumption
<1>1. CASE StartB
  BY <1>1 DEF StartB, Inductive, TypeOK, TaskState, Video, LeftIsTold,
     ControlClosesFirst, CompleteIsTold
<1>2. CASE ControlStarts
  BY <1>2, TaskSteps DEF ControlStarts, Inductive, TypeOK, TaskState
<1>3. ASSUME NEW t \in Task, VideoTaskWaits(t) PROVE Inductive'
  BY <1>3, TaskSteps DEF VideoTaskWaits, Video, Inductive, TypeOK, TaskState
<1>4. ASSUME NEW t \in Task, AudioTaskPasses(t) PROVE Inductive'
  BY <1>4, TaskSteps DEF AudioTaskPasses, Audio, Inductive, TypeOK, TaskState
<1>5. CASE EncoderWaits
  BY <1>5, TaskSteps DEF EncoderWaits, Inductive, TypeOK, TaskState
<1>6. CASE EncoderPasses \/ EncoderSkips
  BY <1>6, TaskSteps DEF EncoderPasses, EncoderSkips, EncoderLooksAtToken, Inductive,
     TypeOK, TaskState
<1>7. ASSUME NEW t \in Task, LoopLeaves(t) \/ LoopFails(t) PROVE Inductive'
  BY <1>7, LeavesInductive DEF LoopLeaves, LoopFails
<1>8. ASSUME NEW t \in Task, SocketCloses(t) PROVE Inductive'
  BY <1>8, TaskSteps DEF SocketCloses, Inductive, TypeOK, TaskState, LeftIsTold,
     ControlClosesFirst
<1>9. CASE EncoderCancelled \/ EncoderLeaves \/ EncoderSendFails
  BY <1>9, LeavesInductive DEF EncoderCancelled, EncoderLeaves, EncoderSendFails
<1>10. CASE EncoderTakes
  <2>1. pcm' \in 0..PcmFrames
    BY <1>10 DEF EncoderTakes, Inductive, TypeOK
  <2> QED BY <1>10, <2>1, TaskSteps DEF EncoderTakes, Inductive, TypeOK, TaskState
<1>11. CASE EncoderSends
  <2>1. opus' \in 0..OpusPackets
    BY <1>11 DEF EncoderSends, Inductive, TypeOK
  <2> QED
    BY <1>11, <2>1, TaskSteps DEF EncoderSends, EncoderLooksAtToken, Inductive, TypeOK,
       TaskState
<1>12. CASE BridgeForwards \/ PacketSent
  BY <1>12 DEF BridgeForwards, PacketSent, Inductive, TypeOK, LeftIsTold,
     ControlClosesFirst, CompleteIsTold
<1>13. CASE StopTriggered \/ ShutdownCompletes
  BY <1>13 DEF StopTriggered, ShutdownCompletes, Inductive, TypeOK, LeftIsTold,
     ControlClosesFirst, CompleteIsTold
<1>14. ASSUME NEW m \in Medium, SendersDropped(m) PROVE Inductive'
  BY <1>14 DEF SendersDropped, Inductive, TypeOK, LeftIsTold, ControlClosesFirst,
     CompleteIsTold
<1>15. CASE UNCHANGED vars
  BY <1>15 DEF vars, Inductive, TypeOK, LeftIsTold, ControlClosesFirst, CompleteIsTold
<1> QED
  BY <1>1, <1>2, <1>3, <1>4, <1>5, <1>6, <1>7, <1>8, <1>9, <1>10, <1>11, <1>12,
     <1>13, <1>14, <1>15
  DEF Next, Environment, Encoding, Loop

\* Every task is in a state of its own kind, and no queue outgrows its bound.
THEOREM TasksTypeCorrect == Spec => []TypeOK
<1>1. Inductive => TypeOK
  BY DEF Inductive
<1> QED BY <1>1, InitiallyInductive, StepKeepsInductive, PTL DEF Spec

\* control/mod.rs:624: when the shutdown of a session completes, its control
\* port is free, or was never put to use.
THEOREM ControlPortAlwaysFreed == Spec => ControlPortFreed
<1>1. Inductive /\ [Next]_vars =>
        (~complete /\ complete' => task["control"] \in {"spawned", "gone"})
  <2> SUFFICES ASSUME Inductive, [Next]_vars, ~complete, complete'
               PROVE  task["control"] \in {"spawned", "gone"}
    OBVIOUS
  <2>1. ShutdownCompletes
    BY DEF Next, vars, Environment, Encoding, Loop, StartB, StopTriggered, SendersDropped,
       EncoderWaits, EncoderPasses, EncoderCancelled, EncoderLeaves, EncoderTakes,
       EncoderSends, EncoderSendFails, EncoderSkips, ControlStarts, BridgeForwards,
       PacketSent, VideoTaskWaits, AudioTaskPasses, LoopLeaves, LoopFails, SocketCloses,
       Leave
  <2> QED
    BY <2>1, TasksAre DEF ShutdownCompletes, Delays, Inductive, ControlClosesFirst
<1> QED
  BY <1>1, InitiallyInductive, StepKeepsInductive, PTL DEF Spec, ControlPortFreed

-----------------------------------------------------------------------------
(* The refinement *)

Bound == \E t \in {"control", "video_packets", "audio_packets"} : task[t] # "gone"
Ends == [m \in Medium |-> Receiver(IF m = "video" THEN "packetize" ELSE "bridge")]

\* A step that moves no receiver and closes nothing is a stutter or the trigger.
LEMMA QuietStep ==
    ASSUME TypeOK, TypeOK', stopped => stopped',
           Receiver("packetize")' = Receiver("packetize"),
           Receiver("bridge")' = Receiver("bridge"),
           Bound' = Bound, complete' = complete
    PROVE  [Streams!StreamsNext]_(Streams!streamVars)
<1>1. Ends' = Ends
  BY DEF Ends
<1>2. CASE stopped' = stopped
  BY <1>1, <1>2 DEF Streams!streamVars, Bound, Ends
<1>3. CASE stopped' # stopped
  <2>1. stopped' = TRUE
    BY <1>3 DEF TypeOK
  <2> QED BY <1>1, <2>1 DEF Streams!StreamsNext, Streams!Trigger, Bound, Ends
<1> QED BY <1>2, <1>3

\* A task whose state no one outside sees but for its socket.
LEMMA HiddenStep ==
    ASSUME Inductive, Inductive', NEW t \in Task \ {"packetize", "bridge"},
           \A u \in Task \ {t} : task'[u] = task[u],
           stopped => stopped', complete' = complete,
           task[t] = "gone" => task'[t] = "gone"
    PROVE  [Streams!StreamsNext]_(Streams!streamVars)
<1> USE TasksAre
<1>1. Receiver("packetize")' = Receiver("packetize") /\ Receiver("bridge")' = Receiver("bridge")
  BY DEF Receiver
<1>2. CASE Bound' = Bound
  BY <1>1, <1>2, QuietStep DEF Inductive
<1>3. CASE Bound' # Bound
  <2>1. Bound /\ ~Bound'
    BY <1>3 DEF Bound
  <2>2. \E u \in {"control", "video_packets", "audio_packets"} \ {t} : task[u] = "gone"
    BY <2>1 DEF Bound
  <2>3. stopped /\ stopped'
    BY <2>2 DEF Inductive, LeftIsTold
  <2>4. Ends' = Ends
    BY <1>1 DEF Ends
  <2> QED
    BY <2>1, <2>3, <2>4 DEF Streams!StreamsNext, Streams!Close, Inductive, TypeOK, Bound, Ends
<1> QED BY <1>2, <1>3

\* The two receiving tasks: through the gate, out of the loop, or neither.
LEMMA SeenStep ==
    ASSUME Inductive, Inductive', NEW t \in {"packetize", "bridge"},
           \A u \in Task \ {t} : task'[u] = task[u],
           complete' = complete,
           \/ UNCHANGED stopped /\ Receiver(t)' = Receiver(t)
           \/ UNCHANGED stopped /\ Receiver(t) = "gated" /\ Receiver(t)' = "open"
           \/ stopped' /\ Receiver(t) = "open" /\ Receiver(t)' = "dropped"
    PROVE  [Streams!StreamsNext]_(Streams!streamVars)
<1> USE TasksAre
<1> DEFINE m == IF t = "packetize" THEN "video" ELSE "audio"
           u == IF t = "packetize" THEN "bridge" ELSE "packetize"
<1>1. Bound' = Bound
  BY DEF Bound
<1>2. u \in Task \ {t} /\ Receiver(u)' = Receiver(u)
  BY DEF Receiver
<1>3. CASE UNCHANGED stopped /\ Receiver(t)' = Receiver(t)
  BY <1>1, <1>2, <1>3, QuietStep DEF Inductive
<1>4. m \in Streams!Medium /\ Ends[m] = Receiver(t)
  BY DEF Streams!Medium, Ends, Medium
<1>5. Ends' = [Ends EXCEPT ![m] = Receiver(t)']
  BY <1>2 DEF Ends, Medium
<1>6. CASE UNCHANGED stopped /\ Receiver(t) = "gated" /\ Receiver(t)' = "open"
  <2>1. Streams!Open(m)
    BY <1>1, <1>4, <1>5, <1>6 DEF Streams!Open, Bound, Ends
  <2> QED BY <1>4, <2>1 DEF Streams!StreamsNext
<1>7. CASE stopped' /\ Receiver(t) = "open" /\ Receiver(t)' = "dropped"
  <2>1. Streams!Drop(m)
    BY <1>1, <1>4, <1>5, <1>7 DEF Streams!Drop, Bound, Ends, Inductive, TypeOK
  <2> QED BY <1>4, <2>1 DEF Streams!StreamsNext
<1> QED BY <1>3, <1>6, <1>7

LEMMA InitRefines == Init => Streams!StreamsInit
  BY TasksAre DEF Init, Streams!StreamsInit, Receiver, Medium, Streams!Medium

LEMMA StepRefines ==
    Inductive /\ Inductive' /\ [Next]_vars => [Streams!StreamsNext]_(Streams!streamVars)
<1> SUFFICES ASSUME Inductive, Inductive', [Next]_vars
             PROVE  [Streams!StreamsNext]_(Streams!streamVars)
  OBVIOUS
<1> DEFINE Refined == [Streams!StreamsNext]_(Streams!streamVars)
<1> USE TasksAre
<1>1. ASSUME UNCHANGED <<task, complete>>, stopped => stopped' PROVE Refined
  BY <1>1, QuietStep DEF Inductive, Receiver, Bound
\* StartB wakes the video tasks that have parked.
<1>2. CASE StartB
  <2>1. /\ UNCHANGED <<stopped, complete>> /\ Receiver("bridge")' = Receiver("bridge")
        /\ Bound' = Bound
    BY <1>2 DEF StartB, Receiver, Bound, Video, Inductive, TypeOK
  <2>2. CASE Receiver("packetize")' = Receiver("packetize")
    BY <2>1, <2>2, QuietStep DEF Inductive
  <2>3. CASE Receiver("packetize") = "gated" /\ Receiver("packetize")' = "open"
    <3>1. Ends' = [Ends EXCEPT !["video"] = "open"] /\ Ends["video"] = "gated"
      BY <2>1, <2>3 DEF Ends, Medium
    <3>2. Streams!Open("video")
      BY <2>1, <3>1 DEF Streams!Open, Bound, Ends
    <3> QED BY <3>2 DEF Streams!StreamsNext, Streams!Medium
  <2> QED
    BY <1>2, <2>2, <2>3 DEF StartB, Receiver, Video, Inductive, TypeOK
<1>3. CASE ControlStarts
  BY <1>3, HiddenStep DEF ControlStarts, Goto, Inductive, TypeOK
<1>4. ASSUME NEW t \in Task, VideoTaskWaits(t) PROVE Refined
  <2>1. CASE t = "packetize"
    BY <1>4, <2>1, SeenStep DEF VideoTaskWaits, Goto, Receiver, Inductive, TypeOK
  <2>2. CASE t = "video_packets"
    BY <1>4, <2>2, HiddenStep DEF VideoTaskWaits, Goto, Inductive, TypeOK
  <2> QED BY <1>4, <2>1, <2>2 DEF VideoTaskWaits, Video
<1>5. ASSUME NEW t \in Task, AudioTaskPasses(t) PROVE Refined
  <2>1. CASE t = "bridge"
    BY <1>5, <2>1, SeenStep DEF AudioTaskPasses, Goto, Receiver, Inductive, TypeOK
  <2>2. CASE t = "audio_packets"
    BY <1>5, <2>2, HiddenStep DEF AudioTaskPasses, Goto, Inductive, TypeOK
  <2> QED BY <1>5, <2>1, <2>2 DEF AudioTaskPasses, Audio
<1>6. CASE EncoderWaits \/ EncoderPasses \/ EncoderSkips \/ EncoderTakes \/ EncoderSends
  BY <1>6, HiddenStep DEF EncoderWaits, EncoderPasses, EncoderSkips, EncoderTakes,
     EncoderSends, EncoderLooksAtToken, Goto, Inductive, TypeOK
<1>7. CASE EncoderCancelled \/ EncoderLeaves \/ EncoderSendFails
  BY <1>7, HiddenStep DEF EncoderCancelled, EncoderLeaves, EncoderSendFails, Leave, Goto,
     Inductive, TypeOK
<1>8. ASSUME NEW t \in Task, LoopLeaves(t) \/ LoopFails(t) PROVE Refined
  <2>1. task[t] = "running" /\ Leave(t)
    BY <1>8 DEF LoopLeaves, LoopFails
  <2>2. CASE t \in {"packetize", "bridge"}
    BY <2>1, <2>2, SeenStep DEF Leave, Goto, Receiver, Inductive, TypeOK
  <2>3. CASE t \notin {"packetize", "bridge"}
    BY <2>1, <2>3, HiddenStep DEF Leave, Goto, Inductive, TypeOK
  <2> QED BY <2>2, <2>3
<1>9. ASSUME NEW t \in Task, SocketCloses(t) PROVE Refined
  <2>1. CASE t \in {"packetize", "bridge"}
    BY <1>9, <2>1, SeenStep DEF SocketCloses, Goto, Receiver, Inductive, TypeOK, LeftIsTold
  <2>2. CASE t \notin {"packetize", "bridge"}
    BY <1>9, <2>2, HiddenStep DEF SocketCloses, Goto, Inductive, TypeOK
  <2> QED BY <2>1, <2>2
<1>10. CASE BridgeForwards \/ PacketSent \/ StopTriggered
  BY <1>1, <1>10 DEF BridgeForwards, PacketSent, StopTriggered
<1>11. ASSUME NEW m \in Medium, SendersDropped(m) PROVE Refined
  BY <1>1, <1>11 DEF SendersDropped
<1>12. CASE ShutdownCompletes
  <2>1. UNCHANGED <<stopped, task>> /\ stopped /\ ~complete /\ complete' = TRUE
    BY <1>12 DEF ShutdownCompletes
  <2>2. Ends' = Ends /\ Bound' = Bound
    BY <2>1 DEF Ends, Bound, Receiver
  <2> QED
    BY <2>1, <2>2 DEF Streams!StreamsNext, Streams!Complete, Ends, Bound
<1>13. CASE UNCHANGED vars
  BY <1>1, <1>13 DEF vars
<1> QED
  BY <1>2, <1>3, <1>4, <1>5, <1>6, <1>7, <1>8, <1>9, <1>10, <1>11, <1>12, <1>13
  DEF Next, Environment, Encoding, Loop

\* The tasks implement what SessionStreams promises the manager and the pump:
\* no port given back, no receiver dropped, no shutdown completed but after the
\* trigger, and no receiver dropped that is still at its gate.
THEOREM TasksImplementStreams == Spec => ImplementsStreams
  BY InitiallyInductive, StepKeepsInductive, InitRefines, StepRefines, PTL
  DEF Spec, ImplementsStreams, Streams!StreamsSpec
=============================================================================
