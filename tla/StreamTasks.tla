---------------------------- MODULE StreamTasks ----------------------------
(***************************************************************************)
(* The six tasks that start_session spawns for one session: the control    *)
(* loop, the packetize loop and the packet handler of the video stream,    *)
(* the PCM bridge, the encoder thread and the packet handler of the audio  *)
(* stream.                                                                 *)
(*                                                                         *)
(* The control loop runs at once.  The other five are spawned behind a     *)
(* gate that the client's StartB opens: the video tasks share a `Notify`,  *)
(* which remembers one permit at most, the audio tasks a flag.  Only the   *)
(* encoder heeds the stop token at its gate; a task takes its delay and    *)
(* trigger tokens when it is past its gate, the encoder when it starts.    *)
(*                                                                         *)
(* Audio frames and packets are counted, for the encoder is a thread that  *)
(* blocks on both its queues and on nothing else.  The other loops leave   *)
(* any await when the stop token is triggered.  What the frames hold, and  *)
(* how many packets one makes, is left out.                                *)
(***************************************************************************)
EXTENDS Naturals, FiniteSets

CONSTANTS
    PcmFrames,    \* bound of the queue from the bridge to the encoder
    OpusPackets   \* bound of the queue from the encoder to its packet handler

ASSUME BoundsAssumption == PcmFrames \in Nat \ {0} /\ OpusPackets \in Nat \ {0}

VARIABLES
    task,       \* the state of each task
    permit,     \* start_notify holds a permit
    gate,       \* the flag of the AudioStartGate
    stopped,    \* the stop token has been triggered
    complete,   \* and no delay token was left: its shutdown is complete
    fed,        \* video frames, PCM may still come: a sender is left, or a chunk
    pcm,        \* frames between the bridge and the encoder
    opus        \* packets between the encoder and its packet handler

vars == <<task, permit, gate, stopped, complete, fed, pcm, opus>>

Video == {"packetize", "video_packets"}
Audio == {"bridge", "encoder", "audio_packets"}
Task == {"control"} \cup Video \cup Audio
Medium == {"video", "audio"}

\* "parked": awaits start_notify; "gated": the encoder awaits the audio gate;
\* "sending": the encoder is about to send; "closing": the tokens are dropped,
\* the socket is about to be.
TaskState == {"spawned", "parked", "gated", "running", "sending", "closing", "gone"}

TypeOK ==
    /\ task \in [Task -> TaskState]
    /\ permit \in BOOLEAN /\ gate \in BOOLEAN
    /\ stopped \in BOOLEAN /\ complete \in BOOLEAN
    /\ fed \in [Medium -> BOOLEAN]
    /\ pcm \in 0..PcmFrames /\ opus \in 0..OpusPackets

Init ==
    /\ task = [t \in Task |-> "spawned"]
    /\ permit = FALSE /\ gate = FALSE
    /\ stopped = FALSE /\ complete = FALSE
    /\ fed = [m \in Medium |-> TRUE]
    /\ pcm = 0 /\ opus = 0

Goto(t, to) == task' = [task EXCEPT ![t] = to]

\* A task that delays the completion of the stop token.
Delays(t) == task[t] \in {"gated", "running", "sending"}

-----------------------------------------------------------------------------
\* The client's StartB reaches the control loop.  notify_one is called twice;
\* each call wakes one parked task or leaves the permit, of which there is one.
StartB ==
    LET parked == {t \in Video : task[t] = "parked"}
    IN  /\ task["control"] = "running"
        /\ task' = [t \in Task |-> IF t \in parked THEN "running" ELSE task[t]]
        /\ permit' = (permit \/ Cardinality(parked) < 2)
        /\ gate' = TRUE
        /\ UNCHANGED <<stopped, complete, fed, pcm, opus>>

ControlStarts ==
    /\ task["control"] = "spawned"
    /\ Goto("control", "running")
    /\ UNCHANGED <<permit, gate, stopped, complete, fed, pcm, opus>>

\* The first poll of a video task: it consumes the permit or parks.
VideoTaskWaits(t) ==
    /\ t \in Video
    /\ task[t] = "spawned"
    /\ Goto(t, IF permit THEN "running" ELSE "parked")
    /\ permit' = FALSE
    /\ UNCHANGED <<gate, stopped, complete, fed, pcm, opus>>

\* Mutant of AudioTaskPasses: the gate is a Notify with its one permit.
AudioTaskTakesPermit(t) ==
    /\ t \in Audio \ {"encoder"}
    /\ task[t] = "spawned"
    /\ gate
    /\ Goto(t, "running")
    /\ gate' = FALSE
    /\ UNCHANGED <<permit, stopped, complete, fed, pcm, opus>>

\* The bridge or the audio packet handler finds the gate open.
AudioTaskPasses(t) ==
    /\ t \in Audio \ {"encoder"}
    /\ task[t] = "spawned"
    /\ gate
    /\ Goto(t, "running")
    /\ UNCHANGED <<permit, gate, stopped, complete, fed, pcm, opus>>

\* The encoder thread starts; it takes its tokens before it waits.
EncoderWaits ==
    /\ task["encoder"] = "spawned"
    /\ Goto("encoder", "gated")
    /\ UNCHANGED <<permit, gate, stopped, complete, fed, pcm, opus>>

\* Past its gate, and after every frame, it looks at the stop token.
EncoderLooksAtToken == Goto("encoder", IF stopped THEN "gone" ELSE "running")

EncoderPasses ==
    /\ task["encoder"] = "gated"
    /\ gate
    /\ EncoderLooksAtToken
    /\ UNCHANGED <<permit, gate, stopped, complete, fed, pcm, opus>>

-----------------------------------------------------------------------------
\* Mutant of Leave: the control loop keeps its host until after the tokens.
LeaveThenClose(t) ==
    /\ Goto(t, IF t \in {"video_packets", "audio_packets", "control"}
               THEN "closing" ELSE "gone")
    /\ stopped' = TRUE
    /\ UNCHANGED <<permit, gate, complete, fed, pcm, opus>>

\* Mutant of Leave: the trigger token is defused.
LeaveQuietly(t) ==
    /\ Goto(t, IF t \in {"video_packets", "audio_packets"} THEN "closing" ELSE "gone")
    /\ UNCHANGED <<stopped, permit, gate, complete, fed, pcm, opus>>

\* A task leaves its loop.  Its tokens are dropped, which triggers the stop
\* token.  A packet handler owns its socket as a captured variable, dropped
\* after them; the control loop drops its host before.
Leave(t) ==
    /\ Goto(t, IF t \in {"video_packets", "audio_packets"} THEN "closing" ELSE "gone")
    /\ stopped' = TRUE
    /\ UNCHANGED <<permit, gate, complete, fed, pcm, opus>>

\* A loop leaves because of the token, or because its channel is closed: the
\* frame or PCM senders are gone, or the task that feeds it is.
Told(t) ==
    \/ stopped
    \/ t = "packetize" /\ ~fed["video"]
    \/ t = "bridge" /\ ~fed["audio"]
    \/ t = "video_packets" /\ task["packetize"] = "gone"
    \/ t = "audio_packets" /\ task["encoder"] = "gone" /\ opus = 0

LoopLeaves(t) ==
    /\ t # "encoder"
    /\ task[t] = "running"
    /\ Told(t)
    /\ Leave(t)

\* A loop ends unprovoked: no ping for stream_timeout, a failing socket.
LoopFails(t) ==
    /\ t \in {"control", "video_packets", "audio_packets"}
    /\ task[t] = "running"
    /\ Leave(t)

SocketCloses(t) ==
    /\ task[t] = "closing"
    /\ Goto(t, "gone")
    /\ UNCHANGED <<permit, gate, stopped, complete, fed, pcm, opus>>

\* Mutant of EncoderCancelled: the encoder awaits its gate without wrap_cancel.
EncoderDeaf ==
    /\ task["encoder"] = "gated"
    /\ stopped /\ gate
    /\ Leave("encoder")

\* The encoder awaits its gate in wrap_cancel, the only task that does.
EncoderCancelled ==
    /\ task["encoder"] = "gated"
    /\ stopped
    /\ Leave("encoder")

\* Between two looks at the token the encoder waits in recv for a frame, or
\* for the bridge to be gone and the queue to be empty.
EncoderLeaves ==
    /\ task["encoder"] = "running"
    /\ pcm = 0 /\ task["bridge"] = "gone"
    /\ Leave("encoder")

\* The bridge has a chunk of PCM: it is queued, or dropped for want of room.
BridgeForwards ==
    /\ task["bridge"] = "running"
    /\ fed["audio"]
    /\ pcm < PcmFrames
    /\ task["encoder"] # "gone"
    /\ pcm' = pcm + 1
    /\ UNCHANGED <<task, permit, gate, stopped, complete, fed, opus>>

EncoderTakes ==
    /\ task["encoder"] = "running"
    /\ pcm > 0
    /\ pcm' = pcm - 1
    /\ Goto("encoder", "sending")
    /\ UNCHANGED <<permit, gate, stopped, complete, fed, opus>>

\* blocking_send waits for room.
EncoderSends ==
    /\ task["encoder"] = "sending"
    /\ task["audio_packets"] \notin {"closing", "gone"}
    /\ opus < OpusPackets
    /\ opus' = opus + 1
    /\ EncoderLooksAtToken
    /\ UNCHANGED <<permit, gate, stopped, complete, fed, pcm>>

\* Opus or the cipher refuses the frame, and it is given up.
EncoderSkips ==
    /\ task["encoder"] = "sending"
    /\ EncoderLooksAtToken
    /\ UNCHANGED <<permit, gate, stopped, complete, fed, pcm, opus>>

\* blocking_send fails: there is no receiver any more.
EncoderSendFails ==
    /\ task["encoder"] = "sending"
    /\ task["audio_packets"] \in {"closing", "gone"}
    /\ Leave("encoder")

PacketSent ==
    /\ task["audio_packets"] = "running"
    /\ opus > 0
    /\ opus' = opus - 1
    /\ UNCHANGED <<task, permit, gate, stopped, complete, fed, pcm>>

-----------------------------------------------------------------------------
\* stop_session or the watchdog triggers the token.
StopTriggered ==
    /\ ~stopped
    /\ stopped' = TRUE
    /\ UNCHANGED <<task, permit, gate, complete, fed, pcm, opus>>

\* The manager's sender and the hardware loop's are both gone.
SendersDropped(m) ==
    /\ fed[m]
    /\ fed' = [fed EXCEPT ![m] = FALSE]
    /\ UNCHANGED <<task, permit, gate, stopped, complete, pcm, opus>>

\* The shutdown completes with the last delay token.  (With the trigger, where
\* nobody delays it; being a step of its own allows more.)
ShutdownCompletes ==
    /\ stopped /\ ~complete
    /\ \A t \in Task : ~Delays(t)
    /\ complete' = TRUE
    /\ UNCHANGED <<task, permit, gate, stopped, fed, pcm, opus>>

Environment == StartB \/ StopTriggered \/ \E m \in Medium : SendersDropped(m)

Encoding ==
    \/ EncoderWaits \/ EncoderPasses \/ EncoderCancelled \/ EncoderLeaves
    \/ EncoderTakes \/ EncoderSends \/ EncoderSendFails

Loop(t) ==
    \/ VideoTaskWaits(t) \/ AudioTaskPasses(t) \/ LoopLeaves(t) \/ SocketCloses(t)

Next ==
    \/ Environment
    \/ Encoding \/ EncoderSkips
    \/ ControlStarts \/ BridgeForwards \/ PacketSent \/ ShutdownCompletes
    \/ \E t \in Task : Loop(t) \/ LoopFails(t)

Spec == Init /\ [][Next]_vars

\* Tasks and threads run when they can; clients and failures owe nothing.
Fairness ==
    /\ WF_vars(Encoding) /\ WF_vars(ControlStarts) /\ WF_vars(ShutdownCompletes)
    /\ WF_vars(PacketSent)
    /\ \A t \in Task : WF_vars(Loop(t))

FairSpec == Spec /\ Fairness

-----------------------------------------------------------------------------
\* The receivers at the host's end of the streams.
Receiver(t) ==
    CASE task[t] \in {"spawned", "parked"} -> "gated"
      [] task[t] = "gone" -> "dropped"
      [] OTHER -> "open"

\* To the rest of the daemon the tasks are what SessionStreams says: no port
\* is given back, no receiver dropped and no shutdown completed but after the
\* trigger, and a receiver is dropped only by a task past its gate.
Streams == INSTANCE SessionStreams WITH
    triggered <- stopped,
    delayed <- ~complete,
    bound <- \E t \in {"control", "video_packets", "audio_packets"} : task[t] # "gone",
    receiver <- [m \in Medium |-> Receiver(IF m = "video" THEN "packetize" ELSE "bridge")]
ImplementsStreams == Streams!StreamsSpec

\* A control loop closes its socket before it lets go of its delay token (the
\* end of run_control_loop): when the shutdown of a session completes, and the
\* stop_session that waits for it returns, its control port is free, unless the
\* loop has yet to see its first poll.
ControlPortFreed ==
    [][~complete /\ complete' => task["control"] \in {"spawned", "gone"}]_vars

\* The shutdown of a stopped session completes: no task that delays it waits
\* for another that does not leave, whether the client sent StartB or not.
\* stop_session's ten seconds are never used up by the tasks themselves.
ShutdownAlwaysCompletes == stopped ~> complete

\* audio/mod.rs:205: "neither the number of waiters nor their scheduling order
\* can matter": after StartB every audio task starts, unless it is stopped.
AudioStarts ==
    gate ~> (stopped \/ \A t \in Audio : task[t] \notin {"spawned", "gated"})

=============================================================================
