------------------------- MODULE SessionPumpProofs --------------------------
(***************************************************************************)
(* session_pump, its loops and serve, for any clients, any mix of hazards  *)
(* and any number of sessions.                                             *)
(*                                                                         *)
(* The first result carries all others: with the pump's own variables out  *)
(* of sight, each of its steps is one the SessionManager alone could take, *)
(* so that what SessionManagerProofs shows of the manager holds here too.  *)
(* The step that is not plain is a receiver's: it triggers a token, which  *)
(* only a stream task of that session may do, and a receiver that was ever *)
(* spawned has one, or its session has been told already (ReceiversBacked).*)
(***************************************************************************)
EXTENDS SessionPump, SessionManagerProofs

\* A session that has once had streams has them still, or has been stopped.
ReceiversBacked ==
    \A g \in Gen, m \in Medium :
        receiver[g][m] # "none" => g \in streams \cup stopped

\* The sessions there are were counted when they were initialized.
SessionsCounted ==
    /\ session.gen <= MaxSessions
    /\ \A h \in Handler : held[h].gen <= MaxSessions

\* Typed apart: what the receivers, the loops and the pump may be.
ReceiverTypeOK ==
    receiver \in [Gen -> [Medium -> {"none", "gated", "open", "dropped"}]]
LoopTypeOK == loop \in [Medium -> {"none", "running", "ended"}]
SenderTypeOK == sender \in [Medium -> Gen \cup {0}]
PlaceTypeOK ==
    /\ pump \in {"polling", "context", "audio", "control", "input", "serving",
                 "stopping", "exited"}
    /\ mine \in IF pump \in {"polling", "exited"} THEN Gen \cup {0} ELSE Gen
    /\ serving \in {"waiting", "stopping", "exited"}

PumpInductive ==
    /\ Inductive
    /\ SessionsCounted
    /\ ReceiverTypeOK /\ ReceiversBacked
    /\ LoopTypeOK /\ SenderTypeOK /\ PlaceTypeOK
    /\ DevicesReleased

-----------------------------------------------------------------------------
\* No step of the manager makes it forget that a session had streams.
LEMMA StreamsRemembered ==
  ASSUME Inductive, [Next]_vars
  PROVE  streams \cup stopped \subseteq streams' \cup stopped'
<1> USE DEF inner, tasks, locals
<1>1. ASSUME NEW h \in Http, Launching(h)
      PROVE  UNCHANGED <<streams, stopped>>
  BY <1>1 DEF Launching, InitializeSession, LaunchTake, LaunchRefused,
              LaunchPut, LaunchTimeout
<1>2. ASSUME NEW h \in Http \cup Host, Stopping(h)
      PROVE  streams' = streams /\ stopped \subseteq stopped'
  BY <1>2 DEF Stopping, CallStop, StopNothing, StopSession, TriggerStop,
              Drained, DrainTimeout, HandlerDropped
<1>3. ASSUME NEW h \in Rtsp, Negotiating(h)
      PROVE  streams \subseteq streams' /\ stopped' = stopped
  BY <1>3 DEF Negotiating, RtspAdmit, Announce, PlayTake, PlayElsewhere,
              PlayWithoutContexts, PlayCommit, PlayFailed
<1>4. ASSUME NEW g, Streaming(g)
      PROVE  streams \cup stopped \subseteq streams' \cup stopped'
  BY <1>4 DEF Streaming, WatchdogRelays, WatchdogFire, StreamStops, StreamsDrain,
     SocketsClose, tasks
<1>5. ASSUME NEW c \in OneShot, TakeReceiver(c)
      PROVE  UNCHANGED <<streams, stopped>>
  BY <1>5 DEF TakeReceiver
<1>6. CASE TriggerShutdown \/ UNCHANGED vars
  BY <1>6 DEF TriggerShutdown, vars
<1> QED
  BY <1>1, <1>2, <1>3, <1>4, <1>5, <1>6 DEF Next

\* initialize_session counts, and nothing else makes a session.
LEMMA StepCounts ==
  ASSUME Inductive, SessionsCounted, [Next]_vars
  PROVE  SessionsCounted'
<1> USE DEF inner, locals, Goto, Finish, SessionsCounted
<1>1. /\ session \in Session /\ held \in [Handler -> Session]
      /\ MaxSessions \in Nat /\ NoSession.gen = 0
  BY MaxSessionsAssumption DEF Inductive, TypeOK, NoSession
<1>2. ASSUME NEW h \in Handler, session' = session,
             held' = held \/ held' = [held EXCEPT ![h] = NoSession]
      PROVE  SessionsCounted'
  BY <1>1, <1>2
<1>3. ASSUME NEW h \in Handler, session' = NoSession,
             \/ held' = held \/ held' = [held EXCEPT ![h] = NoSession]
             \/ held' = [held EXCEPT ![h] = session]
      PROVE  SessionsCounted'
  BY <1>1, <1>3
<1>4. ASSUME NEW h \in Handler, NEW to, session' = [held[h] EXCEPT !.phase = to],
             held' = [held EXCEPT ![h] = NoSession]
      PROVE  SessionsCounted'
  <2>1. held[h] = [gen |-> held[h].gen, phase |-> held[h].phase]
    BY <1>1 DEF Session, NoSession
  <2>2. session'.gen = held[h].gen
    BY <1>4, <2>1
  <2> QED
    BY <1>1, <1>4, <2>2
<1>5. ASSUME NEW h \in Http, Launching(h)
      PROVE  SessionsCounted'
  <2>1. CASE InitializeSession(h)
    BY <2>1, <1>1 DEF InitializeSession
  <2> QED
    BY <1>2, <1>3, <1>4, <1>5, <2>1 DEF Launching, LaunchTake, LaunchRefused,
       LaunchPut, LaunchTimeout, Handler
<1>6. ASSUME NEW h \in Http \cup Host, Stopping(h)
      PROVE  SessionsCounted'
  BY <1>2, <1>3, <1>6 DEF Stopping, CallStop, StopNothing, StopSession,
     ResetSession, TriggerStop, Drained, DrainTimeout, HandlerDropped, Handler
<1>7. ASSUME NEW h \in Rtsp, Negotiating(h)
      PROVE  SessionsCounted'
  BY <1>2, <1>3, <1>4, <1>7 DEF Negotiating, RtspAdmit, Announce, PlayTake,
     PlayElsewhere, PlayWithoutContexts, PlayCommit, PlayFailed, ResetSession,
     Handler
<1>8. ASSUME NEW g, Streaming(g)
      PROVE  SessionsCounted'
  BY <1>1, <1>8 DEF Streaming, WatchdogRelays, WatchdogFire, ResetSession,
     StreamStops, StreamsDrain, SocketsClose
<1>9. ASSUME NEW c \in OneShot, TakeReceiver(c)
      PROVE  SessionsCounted'
  BY <1>9 DEF TakeReceiver
<1>10. CASE TriggerShutdown \/ UNCHANGED vars
  BY <1>10 DEF TriggerShutdown, vars
<1> QED
  BY <1>5, <1>6, <1>7, <1>8, <1>9, <1>10 DEF Next

-----------------------------------------------------------------------------
LEMMA InitiallyPumpInductive == PumpInit => PumpInductive
<1> SUFFICES ASSUME PumpInit PROVE PumpInductive
  OBVIOUS
<1>1. Inductive
  BY InitiallyInductive DEF PumpInit
<1>2. SessionsCounted
  BY MaxSessionsAssumption DEF PumpInit, Init, NoSession, SessionsCounted
<1>3. ReceiverTypeOK /\ ReceiversBacked
  BY DEF PumpInit, ReceiverTypeOK, ReceiversBacked
<1>4. LoopTypeOK /\ SenderTypeOK /\ PlaceTypeOK /\ DevicesReleased
  BY DEF PumpInit, LoopTypeOK, SenderTypeOK, PlaceTypeOK, DevicesReleased
<1> QED
  BY <1>1, <1>2, <1>3, <1>4 DEF PumpInductive

\* Whether a receiver leaves for its token or for a closed channel, it does
\* what the manager sees as one of the session's stream tasks stopping.
LEMMA DropIsAStop ==
  ASSUME PumpInductive, NEW g \in Gen, NEW m \in Medium, ReceiverDrops(g, m)
  PROVE  [Next]_vars
<1>1. g \in streams \cup stopped
  BY DEF ReceiverDrops, PumpInductive, ReceiversBacked
<1>2. stopped' = stopped \cup {g}
      /\ UNCHANGED <<inner, streams, sockets, shutdown, locals>>
  BY DEF ReceiverDrops
<1>3. CASE g \in stopped
  BY <1>2, <1>3 DEF vars, tasks
<1>4. CASE g \in streams \ stopped
  BY <1>2, <1>4 DEF Next, Streaming, StreamStops
<1> QED
  BY <1>1, <1>3, <1>4

\* Seen without the pump's variables, each step is one of the manager's.
LEMMA PumpStepIsManagers ==
  ASSUME PumpInductive, [PumpNext]_castVars
  PROVE  [Next]_vars
<1>1. CASE ManagerStep
  BY <1>1 DEF ManagerStep, Next, Launching, Stopping, Negotiating, Streaming
<1>2. ASSUME NEW h \in Rtsp, StartStreams(h)
      PROVE  [Next]_vars
  BY <1>2 DEF StartStreams, Next, Negotiating
<1>3. ASSUME NEW g \in Gen, NEW m \in Medium, ReceiverOpens(g, m) \/ ReceiverDrops(g, m)
      PROVE  [Next]_vars
  BY <1>3, DropIsAStop DEF ReceiverOpens
<1>4. CASE PumpFindsSession \/ PumpSeesShutdown \/ PumpContext \/ PumpAudio \/ PumpComesBack
  BY <1>4 DEF PumpFindsSession, PumpSeesShutdown, PumpContext, PumpAudio, PumpComesBack
<1>5. CASE PumpControl \/ PumpInput
  BY <1>5 DEF PumpControl, PumpInput, PumpTakes, OneShot, Next
<1>6. CASE PumpStops \/ ServeStops
  BY <1>6, HostAssumption DEF PumpStops, ServeStops, Next, Stopping
<1>7. ASSUME NEW m \in Medium, LoopTold(m) \/ LoopFails(m)
      PROVE  [Next]_vars
  BY <1>7 DEF LoopTold, LoopFails, LoopEnds
<1>8. CASE ServeReturns
  BY <1>8, HostAssumption DEF ServeReturns, Next, Stopping
<1>9. CASE UNCHANGED castVars
  BY <1>9 DEF castVars
<1> QED
  BY <1>1, <1>2, <1>3, <1>4, <1>5, <1>6, <1>7, <1>8, <1>9 DEF PumpNext, PumpStep

-----------------------------------------------------------------------------
\* A channel end the pump can fetch is one of a session that was counted.
LEMMA ChannelsCounted ==
  ASSUME Inductive, SessionsCounted
  PROVE  \A c \in Channel : chan[c] \in Gen \cup {0}
<1> SUFFICES ASSUME NEW c \in Channel, chan[c] # 0 PROVE chan[c] \in Gen
  OBVIOUS
<1>1. session.gen = chan[c]
  BY DEF Inductive, ChannelsBelong
<1>2. chan[c] \in Nat /\ stop \in Nat
  BY DEF Inductive, TypeOK
<1> QED
  BY <1>1, <1>2, MaxSessionsAssumption DEF SessionsCounted, Gen

\* As long as the receivers stay, their sessions stay remembered.
LEMMA StillBacked ==
  ASSUME PumpInductive, receiver' = receiver,
         streams \cup stopped \subseteq streams' \cup stopped'
  PROVE  ReceiverTypeOK' /\ ReceiversBacked'
BY DEF PumpInductive, ReceiverTypeOK, ReceiversBacked

\* Each step preserves what it touches of the pump; the manager's own part is
\* preserved because the step is one of the manager's.
LEMMA PumpStepInductive == PumpInductive /\ [PumpNext]_castVars => PumpInductive'
<1> SUFFICES ASSUME PumpInductive, [PumpNext]_castVars PROVE PumpInductive'
  OBVIOUS
<1>1. [Next]_vars
  BY PumpStepIsManagers
<1>2. Inductive' /\ SessionsCounted'
  BY <1>1, StepInductive, StepCounts DEF PumpInductive
<1>3. streams \cup stopped \subseteq streams' \cup stopped'
  BY <1>1, StreamsRemembered DEF PumpInductive
<1>4. \A c \in Channel : chan[c] \in Gen \cup {0}
  BY ChannelsCounted DEF PumpInductive
<1>5. SUFFICES /\ ReceiverTypeOK' /\ ReceiversBacked'
               /\ LoopTypeOK' /\ SenderTypeOK' /\ PlaceTypeOK'
               /\ DevicesReleased'
  BY <1>2 DEF PumpInductive
<1> DEFINE Goal == /\ ReceiverTypeOK' /\ ReceiversBacked'
                   /\ LoopTypeOK' /\ SenderTypeOK' /\ PlaceTypeOK'
                   /\ DevicesReleased'
<1>6. ASSUME UNCHANGED <<receiver, pumpVars, serving>>
      PROVE  Goal
  BY <1>3, <1>6, StillBacked DEF PumpInductive, pumpVars, LoopTypeOK,
     SenderTypeOK, PlaceTypeOK, DevicesReleased
<1>7. ASSUME NEW h \in Rtsp, StartStreams(h)
      PROVE  Goal
  <2>1. pc[h] = "starting" /\ h \in Handler /\ streams' = streams \cup {held[h].gen, token[h]}
    BY <1>7 DEF StartStreams, PlayCommit, Handler
  <2>2. held[h].gen \in streams' /\ receiver' = [receiver EXCEPT ![held[h].gen] = [m \in Medium |-> "gated"]]
    BY <1>7, <2>1 DEF StartStreams
  <2>3. ReceiverTypeOK'
    BY <2>2 DEF PumpInductive, ReceiverTypeOK
  <2>4. ReceiversBacked'
    BY <1>3, <2>2 DEF PumpInductive, ReceiverTypeOK, ReceiversBacked
  <2> QED
    BY <1>7, <2>3, <2>4 DEF StartStreams, PumpInductive, pumpVars, LoopTypeOK,
       SenderTypeOK, PlaceTypeOK, DevicesReleased
<1>8. ASSUME NEW g \in Gen, NEW m \in Medium, ReceiverOpens(g, m) \/ ReceiverDrops(g, m)
      PROVE  Goal
  <2>1. PICK to \in {"open", "dropped"} : receiver' = [receiver EXCEPT ![g][m] = to]
    BY <1>8 DEF ReceiverOpens, ReceiverDrops
  <2>2. receiver[g][m] # "none" /\ UNCHANGED <<pumpVars, serving>>
    BY <1>8 DEF ReceiverOpens, ReceiverDrops
  <2>3. ReceiverTypeOK'
    BY <2>1 DEF PumpInductive, ReceiverTypeOK
  <2>4. ReceiversBacked'
    BY <1>3, <2>1, <2>2 DEF PumpInductive, ReceiverTypeOK, ReceiversBacked
  <2> QED
    BY <2>2, <2>3, <2>4 DEF PumpInductive, pumpVars, LoopTypeOK,
       SenderTypeOK, PlaceTypeOK, DevicesReleased
<1>9. CASE PumpFindsSession
  BY <1>3, <1>4, <1>9, StillBacked DEF PumpFindsSession, PumpInductive, LoopTypeOK,
     SenderTypeOK, PlaceTypeOK, DevicesReleased, Channel, Medium
<1>10. CASE PumpSeesShutdown
  BY <1>3, <1>10, StillBacked DEF PumpSeesShutdown, PumpInductive, LoopTypeOK,
     SenderTypeOK, PlaceTypeOK, DevicesReleased
<1>11. CASE PumpContext
  BY <1>3, <1>11, StillBacked DEF PumpContext, PumpInductive, LoopTypeOK,
     SenderTypeOK, PlaceTypeOK, DevicesReleased
<1>12. CASE PumpAudio
  BY <1>3, <1>4, <1>12, StillBacked DEF PumpAudio, PumpInductive, LoopTypeOK,
     SenderTypeOK, PlaceTypeOK, DevicesReleased, Channel
<1>13. CASE PumpControl
  BY <1>3, <1>13, StillBacked DEF PumpControl, PumpTakes, PumpInductive, LoopTypeOK,
     SenderTypeOK, PlaceTypeOK, DevicesReleased
\* Only here do the loops start, and the pump is past the rounds' beginning.
<1>14. CASE PumpInput
  BY <1>3, <1>14, StillBacked DEF PumpInput, PumpTakes, PumpInductive, LoopTypeOK,
     SenderTypeOK, PlaceTypeOK, DevicesReleased
<1>15. CASE PumpStops
  BY <1>3, <1>15, StillBacked DEF PumpStops, PumpInductive, LoopTypeOK,
     SenderTypeOK, PlaceTypeOK, DevicesReleased
\* The pump comes round with both loops joined.
<1>16. CASE PumpComesBack
  BY <1>3, <1>16, StillBacked DEF PumpComesBack, PumpInductive, LoopTypeOK,
     SenderTypeOK, PlaceTypeOK, DevicesReleased
<1>17. ASSUME NEW m \in Medium, LoopTold(m) \/ LoopFails(m)
       PROVE  Goal
  <2>1. LoopEnds(m)
    BY <1>17 DEF LoopTold, LoopFails
  <2> QED
    BY <1>3, <2>1, StillBacked DEF LoopEnds, PumpInductive, LoopTypeOK,
       SenderTypeOK, PlaceTypeOK, DevicesReleased
<1>18. CASE ServeStops
  BY <1>3, <1>18, StillBacked DEF ServeStops, pumpVars, PumpInductive, LoopTypeOK,
     SenderTypeOK, PlaceTypeOK, DevicesReleased
<1>19. CASE ServeReturns
  BY <1>3, <1>19, StillBacked DEF ServeReturns, PumpInductive, LoopTypeOK,
     SenderTypeOK, PlaceTypeOK, DevicesReleased
<1> QED
  BY <1>6, <1>7, <1>8, <1>9, <1>10, <1>11, <1>12, <1>13, <1>14, <1>15, <1>16,
     <1>17, <1>18, <1>19 DEF PumpNext, PumpStep, Elsewhere, castVars

LEMMA AlwaysPumpInductive == PumpSpec => []PumpInductive
BY InitiallyPumpInductive, PumpStepInductive, PTL DEF PumpSpec

\* session_pump, its loops and serve do nothing to the manager that the manager
\* does not allow its callers: whatever holds of SessionManager holds with them.
THEOREM PumpIsACaller == PumpSpec => Spec
<1>1. PumpInit => Init
  BY DEF PumpInit
<1> QED
  BY <1>1, PumpStepIsManagers, AlwaysPumpInductive, PTL DEF PumpSpec, Spec

\* The pump's senders are never those of a session that was not initialized,
\* and it is past its polling only with the session it found.
THEOREM PumpTypeCorrect == PumpSpec => []PumpTypeOK
<1>1. PumpInductive => PumpTypeOK
  BY DEF PumpInductive, PumpTypeOK, ReceiverTypeOK, LoopTypeOK, SenderTypeOK,
         PlaceTypeOK
<1> QED
  BY <1>1, AlwaysPumpInductive, PTL

\* The pump opens the capture and the loopback device for a round only when
\* both loops of the round before have let go of them.
THEOREM DevicesAlwaysReleased == PumpSpec => []DevicesReleased
<1>1. PumpInductive => DevicesReleased
  BY DEF PumpInductive
<1> QED
  BY <1>1, AlwaysPumpInductive, PTL

\* With the pump and serve among the callers, too, the keys sender is set only
\* as long as there is a session, if no misfortune takes one from a handler.
THEOREM PumpNeverWedges ==
  ASSUME Hazards \cap Losses = {}
  PROVE  PumpSpec => []NeverWedged
BY PumpIsACaller, NeverWedgedUnlessLost

=============================================================================
