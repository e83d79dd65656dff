---------------------------- MODULE SessionPump ----------------------------
(***************************************************************************)
(* rgsp-host's session_pump, the two hardware loops it runs for a session, *)
(* and serve, on top of SessionManager.                                    *)
(*                                                                         *)
(* The pump learns of a session by polling the manager's accessors, each   *)
(* under a lock of its own, and of its end only through its loops: a loop  *)
(* ends when the stream task at the other end of its channel is gone.  For *)
(* that the two receiving tasks are seen as in SessionStreams.tla.         *)
(***************************************************************************)
EXTENDS SessionManager

CONSTANTS
    Pump,       \* session_pump, as a caller of stop_session
    Serve       \* serve, likewise

ASSUME HostAssumption == Host = {Pump, Serve} /\ Pump # Serve

VARIABLES
    receiver,   \* the receiving ends of the two channels of each session
    pump,       \* where session_pump is
    mine,       \* the session whose frame sender this round began with
    sender,     \* the senders of the pump or its loops, by their session
    loop,       \* the two hardware loops of this round
    serving     \* where serve is

pumpVars == <<pump, mine, sender, loop>>
castVars == <<vars, receiver, pumpVars, serving>>

Medium == {"video", "audio"}
Gen == 1..(MaxSessions + 1)

PumpTypeOK ==
    /\ receiver \in [Gen -> [Medium -> {"none", "gated", "open", "dropped"}]]
    /\ pump \in {"polling", "context", "audio", "control", "input", "serving",
                 "stopping", "exited"}
    /\ mine \in IF pump \in {"polling", "exited"} THEN Gen \cup {0} ELSE Gen
    /\ sender \in [Medium -> Gen \cup {0}]
    /\ loop \in [Medium -> {"none", "running", "ended"}]
    /\ serving \in {"waiting", "stopping", "exited"}

PumpInit ==
    /\ Init
    /\ receiver = [g \in Gen |-> [m \in Medium |-> "none"]]
    /\ pump = "polling" /\ mine = 0
    /\ sender = [m \in Medium |-> 0]
    /\ loop = [m \in Medium |-> "none"]
    /\ serving = "waiting"

Elsewhere == UNCHANGED <<receiver, pumpVars, serving>>

-----------------------------------------------------------------------------
\* start_session's second lock spawns the receivers behind their gates.
StartStreams(h) ==
    /\ PlayCommit(h)
    /\ receiver' = [receiver EXCEPT ![held[h].gen] = [m \in Medium |-> "gated"]]
    /\ UNCHANGED <<pumpVars, serving>>

\* StartB opens the audio gate as long as the control loop runs.  The video
\* task follows, now or later: its Notify may have no permit left for it.
ReceiverOpens(g, m) ==
    /\ receiver[g][m] = "gated"
    /\ IF m = "audio" THEN g \in streams ELSE receiver[g]["audio"] # "gated"
    /\ receiver' = [receiver EXCEPT ![g][m] = "open"]
    /\ UNCHANGED <<vars, pumpVars, serving>>

\* Every sender into the channel has been dropped.
Starved(g, m) ==
    /\ sender[m] # g
    /\ chan[IF m = "video" THEN "video_frame_tx" ELSE "audio_frame_tx"] # g

\* Mutant of ReceiverDrops: it heeds the closed channel only, not the token.
ReceiverDropsStarved(g, m) ==
    /\ receiver[g][m] = "open"
    /\ Starved(g, m)
    /\ receiver' = [receiver EXCEPT ![g][m] = "dropped"]
    /\ stopped' = stopped \cup {g}
    /\ UNCHANGED <<inner, streams, sockets, shutdown, locals, pumpVars, serving>>

\* A receiver leaves because of the token or a closed channel, and stops the
\* session.  One that waits at its gate heeds neither.
ReceiverDrops(g, m) ==
    /\ receiver[g][m] = "open"
    /\ g \in stopped \/ Starved(g, m)
    /\ receiver' = [receiver EXCEPT ![g][m] = "dropped"]
    /\ stopped' = stopped \cup {g}
    /\ UNCHANGED <<inner, streams, sockets, shutdown, locals, pumpVars, serving>>

-----------------------------------------------------------------------------
\* Mutant of PumpFindsSession: it goes on without a frame sender.
PumpFindsNothing ==
    /\ pump = "polling"
    /\ ~shutdown
    /\ mine' = chan["video_frame_tx"]
    /\ sender' = [sender EXCEPT !["video"] = chan["video_frame_tx"]]
    /\ pump' = "context"
    /\ UNCHANGED <<vars, receiver, loop, serving>>

\* session_pump polls video_frame_sender, and looks at the daemon's shutdown.
PumpFindsSession ==
    /\ pump = "polling"
    /\ ~shutdown
    /\ chan["video_frame_tx"] # 0
    /\ mine' = chan["video_frame_tx"]
    /\ sender' = [sender EXCEPT !["video"] = chan["video_frame_tx"]]
    /\ pump' = "context"
    /\ UNCHANGED <<vars, receiver, loop, serving>>

PumpSeesShutdown ==
    /\ pump = "polling"
    /\ shutdown
    /\ pump' = "exited"
    /\ UNCHANGED <<vars, receiver, mine, sender, loop, serving>>

\* active_video_context: without one the round is given up.
PumpContext ==
    /\ pump = "context"
    /\ IF chan["active_video_context"] # 0
       THEN pump' = "audio" /\ UNCHANGED <<mine, sender>>
       ELSE /\ pump' = "polling" /\ mine' = 0
            /\ sender' = [sender EXCEPT !["video"] = 0]
    /\ UNCHANGED <<vars, receiver, loop, serving>>

PumpAudio ==
    /\ pump = "audio"
    /\ sender' = [sender EXCEPT !["audio"] = chan["audio_frame_tx"]]
    /\ pump' = "control"
    /\ UNCHANGED <<vars, receiver, mine, loop, serving>>

\* The two receivers are handed out once, each under a lock of its own.
PumpTakes(c, to) ==
    /\ pump' = to
    /\ IF chan[c] # 0 THEN TakeReceiver(c) ELSE UNCHANGED vars
    /\ UNCHANGED <<receiver, mine, sender, serving>>

PumpControl ==
    /\ pump = "control"
    /\ PumpTakes("encoder_control_rx", "input")
    /\ UNCHANGED loop

\* The last accessor, and the loops are spawned.
PumpInput ==
    /\ pump = "input"
    /\ PumpTakes("input_rx", "serving")
    /\ loop' = [m \in Medium |-> "running"]

LoopEnds(m) ==
    /\ loop' = [loop EXCEPT ![m] = "ended"]
    /\ sender' = [sender EXCEPT ![m] = 0]
    /\ UNCHANGED <<vars, receiver, pump, mine, serving>>

\* blocking_send fails: the receiver is gone, or the audio loop was given no
\* sender at all.  A receiver at its gate lets the loop block instead.
LoopTold(m) ==
    /\ loop[m] = "running"
    /\ \A g \in {sender[m]} \ {0} : receiver[g][m] = "dropped"
    /\ LoopEnds(m)

\* Capturing fails.
LoopFails(m) ==
    /\ loop[m] = "running"
    /\ LoopEnds(m)

\* Whichever loop ends first, the pump calls stop_session.
PumpStops ==
    /\ pump = "serving"
    /\ \E m \in Medium : loop[m] = "ended"
    /\ CallStop(Pump)
    /\ pump' = "stopping"
    /\ UNCHANGED <<receiver, mine, sender, loop, serving>>

\* Mutant of PumpComesBack: the other loop is not joined.
PumpComesBackEarly ==
    /\ pump = "stopping"
    /\ pc[Pump] = "idle"
    /\ pump' = IF shutdown THEN "exited" ELSE "polling"
    /\ mine' = 0
    /\ UNCHANGED <<vars, receiver, sender, loop, serving>>

\* stop_session has returned and the other loop is joined: the next round.
PumpComesBack ==
    /\ pump = "stopping"
    /\ pc[Pump] = "idle"
    /\ \A m \in Medium : loop[m] = "ended"
    /\ pump' = IF shutdown THEN "exited" ELSE "polling"
    /\ mine' = 0
    /\ loop' = [m \in Medium |-> "none"]
    /\ UNCHANGED <<vars, receiver, sender, serving>>

ServeStops ==
    /\ serving = "waiting"
    /\ shutdown
    /\ CallStop(Serve)
    /\ serving' = "stopping"
    /\ UNCHANGED <<receiver, pumpVars>>

\* Mutant of ServeReturns: the pump is joined, not aborted.
ServeJoinsPump ==
    /\ serving = "stopping"
    /\ pc[Serve] = "idle"
    /\ pump = "exited"
    /\ serving' = "exited"
    /\ UNCHANGED <<vars, receiver, pumpVars>>

\* stop_session has returned; the pump is aborted wherever it awaits.  Its
\* loops are blocking tasks and go on until a send of theirs fails.
ServeReturns ==
    /\ serving = "stopping"
    /\ pc[Serve] = "idle"
    /\ pc[Pump] # "stopping"
    /\ serving' = "exited"
    /\ pump' = "exited"
    /\ IF pc[Pump] = "idle" THEN UNCHANGED vars ELSE HandlerDropped(Pump)
    /\ UNCHANGED <<receiver, mine, sender, loop>>

-----------------------------------------------------------------------------
\* SessionManager's steps; session_pump and serve enter stop_session above.
\* The audio packet handler keeps its port as long as it waits at its gate.
ManagerStep ==
    \/ \E h \in Http : Launching(h) \/ CallStop(h) \/ HandlerDropped(h)
    \/ \E h \in Http \cup Host :
         \/ StopNothing(h) \/ StopSession(h) \/ TriggerStop(h)
         \/ Drained(h) \/ DrainTimeout(h)
    \/ \E h \in Rtsp :
         \/ RtspAdmit(h) \/ Announce(h) \/ PlayTake(h) \/ PlayElsewhere(h)
         \/ PlayWithoutContexts(h) \/ PlayFailed(h)
    \/ \E g \in watchdogs \cup streams \cup sockets :
         \/ WatchdogRelays(g) \/ WatchdogFire(g) \/ StreamStops(g) \/ StreamsDrain(g)
         \/ SocketsClose(g) /\ receiver[g]["audio"] # "gated"
    \/ TriggerShutdown

PumpStep ==
    \/ PumpFindsSession \/ PumpSeesShutdown \/ PumpContext \/ PumpAudio
    \/ PumpControl \/ PumpInput \/ PumpStops \/ PumpComesBack

PumpNext ==
    \/ ManagerStep /\ Elsewhere
    \/ \E h \in Rtsp : StartStreams(h)
    \/ \E g \in Gen, m \in Medium : ReceiverOpens(g, m) \/ ReceiverDrops(g, m)
    \/ PumpStep
    \/ \E m \in Medium : LoopTold(m) \/ LoopFails(m)
    \/ ServeStops \/ ServeReturns

PumpSpec == PumpInit /\ [][PumpNext]_castVars

\* As in SessionManager; and the pump, serve and the loops run when they can,
\* a receiver past its gate is told.  Nothing is owed by clients (StartB
\* included), by failures, or by the operator.
PumpFairness ==
    /\ \A h \in Http \cup Host :
         WF_castVars((\/ StopNothing(h) \/ StopSession(h) \/ TriggerStop(h)
                      \/ Drained(h)) /\ Elsewhere)
    /\ \A g \in Gen :
         /\ WF_castVars(WatchdogRelays(g) /\ Elsewhere)
         /\ WF_castVars(WatchdogFire(g) /\ Elsewhere)
         /\ WF_castVars(StreamsDrain(g) /\ Elsewhere)
         /\ \A m \in Medium : WF_castVars(ReceiverDrops(g, m))
    /\ WF_castVars(PumpStep)
    /\ \A m \in Medium : WF_castVars(LoopTold(m))
    /\ WF_castVars(ServeStops) /\ WF_castVars(ServeReturns)

FairPumpSpec == PumpSpec /\ PumpFairness

-----------------------------------------------------------------------------
\* `Capture` and the loopback device are open in one round at a time: no loop
\* is left over from a round when the pump looks for the next session.
DevicesReleased ==
    pump \in {"polling", "context", "audio", "control", "input"} =>
        \A m \in Medium : loop[m] # "running"

\* Once its client has started the streams, a session that is stopped, by
\* whomever, lets the pump come round for the next one.
Underway(g) == \A m \in Medium : receiver[g][m] \in {"open", "dropped"}
PumpComesRoundOnceStarted ==
    \A g \in Gen :
        (/\ pump = "serving" /\ mine = g /\ sender["audio"] \in {0, g}
         /\ Underway(g) /\ g \in stopped)
        ~> (pump \in {"polling", "exited"})

\* The daemon ends when it is told to, whatever the pump waits for.
ServeExits == shutdown ~> (serving = "exited")

\* main.rs:470: "Whichever loop stops first, the session is over.  Stop the
\* session so the other loop's channel closes".  The session the pump stops is
\* the one it ran the loops for.
PumpStopsItsOwn ==
    [][StopSession(Pump) => session.gen = mine]_castVars

=============================================================================
