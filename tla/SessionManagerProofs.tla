------------------------ MODULE SessionManagerProofs ------------------------
(***************************************************************************)
(* The safety properties of SessionManager for any handlers, any mix of    *)
(* hazards and any number of sessions; that it implements SessionLifecycle;*)
(* and that it refuses no client for ever where no hazard makes a handler  *)
(* lose the session it borrowed.                                           *)
(*                                                                         *)
(* None of them is inductive alone: which handler may hold a session, what *)
(* the watchdog guards and whose streams may have failed all depend on one *)
(* another.  `Inductive` ties them together around one fact: outside the   *)
(* daemon's shutdown, whatever is alive carries the token in the slot.     *)
(***************************************************************************)
EXTENDS SessionManager, TLAPS

\* What a handler may carry depends on where it is.
HandsMatchPlace ==
    \A h \in Handler :
        /\ pc[h] = "launching" => held[h].phase = "initialized"
        /\ pc[h] = "starting" => held[h].phase = "launched" /\ token[h] # 0
        /\ pc[h] \notin {"launching", "starting"} => held[h] = NoSession
        /\ ctx[h] # 0 => pc[h] = "starting" /\ held[h].gen = ctx[h]
        /\ pc[h] = "stopping" => token[h] \in 1..(stop - 1)

\* The keys, the watchdog's handle and the watchdog come and go together.
KeysMatchWatchdog ==
    /\ keys \in {0, stop}
    /\ watcher = keys
    /\ watchdogs = IF keys = 0 THEN {} ELSE {keys}

\* The session with handle s is the one the manager has keys for.
IsCurrent(s) ==
    /\ s # NoSession => shutdown \/ s.gen = keys
    /\ keys # 0 => s.gen \in {0, keys}

\* Wherever the session is, it is the current one.
LiveIsCurrent ==
    /\ IsCurrent(session)
    /\ \A h \in Handler : IsCurrent(held[h])
    /\ \A h \in Handler : pc[h] = "starting" =>
          shutdown \/ token[h] = held[h].gen

\* Only the streams of an active session delay or trigger its token.
TokenInUse ==
    stop \in stopped \cup streams =>
        shutdown \/ session = [gen |-> stop, phase |-> "active"]

Inductive ==
    /\ TypeOK
    /\ HandsMatchPlace
    /\ KeysMatchWatchdog
    /\ LiveIsCurrent
    /\ TokenInUse
    /\ OneOwner
    /\ ContextsBelong
    /\ ChannelsBelong
    /\ NoRunawayStreams

-----------------------------------------------------------------------------
\* The first state: an empty slot, and nobody holds anything.
LEMMA InitiallyInductive == Init => Inductive
<1> SUFFICES ASSUME Init PROVE Inductive
  OBVIOUS
<1> USE DEF Init, NoSession, NoChannels
<1>1. TypeOK
  <2>1. session \in Session /\ held \in [Handler -> Session]
    BY DEF Session
  <2>2. chan \in [Channel -> 0..stop] /\ stop \in Nat \ {0}
    OBVIOUS
  <2>3. /\ keys \in 0..stop /\ contexts \in 0..stop /\ watcher \in 0..stop
        /\ ctx \in [Handler -> 0..stop] /\ token \in [Handler -> 0..stop]
    OBVIOUS
  <2>4. /\ watchdogs \subseteq 1..stop /\ stopped \subseteq 1..stop
        /\ streams \subseteq 1..stop /\ sockets \subseteq 1..stop
    OBVIOUS
  <2>5. pc \in [Handler -> PC] /\ shutdown \in BOOLEAN
    BY DEF PC
  <2> QED
    BY <2>1, <2>2, <2>3, <2>4, <2>5 DEF TypeOK
<1>2. HandsMatchPlace /\ KeysMatchWatchdog /\ LiveIsCurrent /\ TokenInUse
  BY DEF HandsMatchPlace, KeysMatchWatchdog, LiveIsCurrent, IsCurrent,
         TokenInUse
<1>3. OneOwner /\ ContextsBelong /\ ChannelsBelong /\ NoRunawayStreams
  BY DEF OneOwner, Borrower, ContextsBelong, ChannelsBelong,
         NoRunawayStreams, Handler
<1> QED
  BY <1>1, <1>2, <1>3 DEF Inductive

\* Every action preserves Inductive.  An action that leaves the slot and the
\* tokens alone is one leaf.  One that moves a session or resets the slot shows
\* the parts in groups: types, places, tokens, ownership, streams.
LEMMA StepInductive == Inductive /\ [Next]_vars => Inductive'
<1> SUFFICES ASSUME Inductive, [Next]_vars PROVE Inductive'
  OBVIOUS
<1> USE DEF Inductive, inner, tasks, locals, Goto, Finish
<1>1. ASSUME NEW h \in Http, InitializeSession(h)
      PROVE  Inductive'
  <2>1. TypeOK'
    <3>1. session' \in Session' /\ Session' = Session
      BY <1>1 DEF InitializeSession, TypeOK, Session, NoSession, Phase
    <3>2. watcher' \in 0..stop' /\ watchdogs' \subseteq 1..stop'
      <4>1. stop' = stop /\ stop \in 1..stop
        BY <1>1 DEF InitializeSession, TypeOK
      <4>2. watcher' \in {watcher, stop} /\ watchdogs' \subseteq watchdogs \cup {stop}
        BY <1>1 DEF InitializeSession, SpawnWatchdog
      <4> QED
        BY <4>1, <4>2 DEF TypeOK
    <3>3. pc' \in [Handler -> PC]
      BY <1>1 DEF InitializeSession, TypeOK, PC, Handler
    <3> QED
      BY <1>1, <3>1, <3>2, <3>3 DEF InitializeSession, TypeOK
  <2>2. HandsMatchPlace'
    BY <1>1 DEF InitializeSession, SpawnWatchdog, PortsFree,
       HandsMatchPlace, TypeOK, Session, NoSession, Handler, ContextsBelong
  <2>3. KeysMatchWatchdog' /\ LiveIsCurrent' /\ TokenInUse'
    BY <1>1 DEF InitializeSession, SpawnWatchdog, PortsFree,
       KeysMatchWatchdog, LiveIsCurrent, IsCurrent, TokenInUse,
       HandsMatchPlace, OneOwner, Borrower, TypeOK, Session, NoSession,
       Handler
  <2>4. OneOwner' /\ ContextsBelong' /\ ChannelsBelong'
    BY <1>1 DEF InitializeSession, SpawnWatchdog, PortsFree, OneOwner,
       Borrower, ContextsBelong, ChannelsBelong, HandsMatchPlace, TypeOK,
       Session, NoSession, Handler
  <2>5. NoRunawayStreams'
    BY <1>1 DEF InitializeSession, NoRunawayStreams, NoSession, TypeOK,
       Handler
  <2> QED
    BY <2>1, <2>2, <2>3, <2>4, <2>5
<1>2. ASSUME NEW h \in Http, LaunchTake(h)
      PROVE  Inductive'
  <2>1. TypeOK'
    BY <1>2 DEF LaunchTake, TypeOK, Session, NoSession, Phase, PC, Handler,
       HandsMatchPlace
  <2>2. HandsMatchPlace'
    BY <1>2 DEF LaunchTake, HandsMatchPlace, TypeOK, Session, NoSession,
       Handler, ContextsBelong
  <2>3. KeysMatchWatchdog' /\ LiveIsCurrent' /\ TokenInUse'
    BY <1>2 DEF LaunchTake, KeysMatchWatchdog, LiveIsCurrent, IsCurrent,
       TokenInUse, HandsMatchPlace, OneOwner, Borrower, TypeOK, Session,
       NoSession, Handler
  <2>4. OneOwner' /\ ContextsBelong' /\ ChannelsBelong'
    BY <1>2 DEF LaunchTake, OneOwner, Borrower, ContextsBelong,
       ChannelsBelong, HandsMatchPlace, TypeOK, Session, NoSession, Handler
  <2>5. NoRunawayStreams'
    BY <1>2 DEF LaunchTake, NoRunawayStreams, KeysMatchWatchdog,
       LiveIsCurrent, IsCurrent, OneOwner, Borrower, TypeOK, Session,
       NoSession, Handler, HandsMatchPlace
  <2> QED
    BY <2>1, <2>2, <2>3, <2>4, <2>5
<1>3. ASSUME NEW h \in Http, LaunchRefused(h)
      PROVE  Inductive'
  BY <1>3 DEF LaunchRefused, TypeOK, HandsMatchPlace, KeysMatchWatchdog,
     LiveIsCurrent, IsCurrent, TokenInUse, OneOwner, Borrower,
     ContextsBelong, ChannelsBelong, NoRunawayStreams, Session, NoSession,
     Phase, PC, Handler
<1>4. ASSUME NEW h \in Http, LaunchPut(h)
      PROVE  Inductive'
  <2>1. TypeOK'
    BY <1>4 DEF LaunchPut, TypeOK, Session, NoSession, Phase, PC, Handler,
       HandsMatchPlace
  <2>2. HandsMatchPlace'
    BY <1>4 DEF LaunchPut, HandsMatchPlace, TypeOK, Session, NoSession,
       Handler, ContextsBelong
  <2>3. KeysMatchWatchdog' /\ LiveIsCurrent' /\ TokenInUse'
    BY <1>4 DEF LaunchPut, KeysMatchWatchdog, LiveIsCurrent, IsCurrent,
       TokenInUse, HandsMatchPlace, OneOwner, Borrower, TypeOK, Session,
       NoSession, Handler
  <2>4. OneOwner' /\ ContextsBelong' /\ ChannelsBelong'
    BY <1>4 DEF LaunchPut, OneOwner, Borrower, ContextsBelong,
       ChannelsBelong, HandsMatchPlace, TypeOK, Session, NoSession, Handler
  <2>5. NoRunawayStreams'
    BY <1>4 DEF LaunchPut, NoRunawayStreams, KeysMatchWatchdog,
       LiveIsCurrent, IsCurrent, OneOwner, Borrower, TypeOK, Session,
       NoSession, Handler, HandsMatchPlace
  <2> QED
    BY <2>1, <2>2, <2>3, <2>4, <2>5
<1>5. ASSUME NEW h \in Http, LaunchTimeout(h)
      PROVE  Inductive'
  BY <1>5 DEF LaunchTimeout, TypeOK, HandsMatchPlace, KeysMatchWatchdog,
     LiveIsCurrent, IsCurrent, TokenInUse, OneOwner, Borrower,
     ContextsBelong, ChannelsBelong, NoRunawayStreams, Session, NoSession,
     Phase, PC, Handler
<1>6. ASSUME NEW h \in Http \cup Host, HandlerDropped(h)
      PROVE  Inductive'
  BY <1>6 DEF HandlerDropped, TypeOK, HandsMatchPlace, KeysMatchWatchdog,
     LiveIsCurrent, IsCurrent, TokenInUse, OneOwner, Borrower,
     ContextsBelong, ChannelsBelong, NoRunawayStreams, Session, NoSession,
     Phase, PC, Handler
<1>7. ASSUME NEW h \in Http \cup Host, CallStop(h)
      PROVE  Inductive'
  BY <1>7 DEF CallStop, TypeOK, HandsMatchPlace, KeysMatchWatchdog,
     LiveIsCurrent, IsCurrent, TokenInUse, OneOwner, Borrower,
     ContextsBelong, ChannelsBelong, NoRunawayStreams, Session, NoSession,
     Phase, PC, Handler
<1>8. ASSUME NEW h \in Http \cup Host, StopNothing(h)
      PROVE  Inductive'
  BY <1>8 DEF StopNothing, TypeOK, HandsMatchPlace, KeysMatchWatchdog,
     LiveIsCurrent, IsCurrent, TokenInUse, OneOwner, Borrower,
     ContextsBelong, ChannelsBelong, NoRunawayStreams, Session, NoSession,
     Phase, PC, Handler
<1>9. ASSUME NEW h \in Http \cup Host, StopSession(h)
      PROVE  Inductive'
  <2>1. TypeOK'
    BY <1>9 DEF StopSession, ResetSession, NoChannels, TypeOK, Session,
       NoSession, Phase, PC, Handler, HandsMatchPlace
  <2>2. HandsMatchPlace'
    BY <1>9 DEF StopSession, ResetSession, NoChannels, HandsMatchPlace,
       TypeOK, Session, NoSession, Handler, ContextsBelong
  <2>3. KeysMatchWatchdog' /\ LiveIsCurrent' /\ TokenInUse'
    BY <1>9 DEF StopSession, ResetSession, NoChannels, KeysMatchWatchdog,
       LiveIsCurrent, IsCurrent, TokenInUse, HandsMatchPlace, OneOwner,
       Borrower, TypeOK, Session, NoSession, Handler
  <2>4. OneOwner' /\ ContextsBelong' /\ ChannelsBelong'
    BY <1>9 DEF StopSession, ResetSession, NoChannels, OneOwner, Borrower,
       ContextsBelong, ChannelsBelong, HandsMatchPlace, TypeOK, Session,
       NoSession, Handler
  <2>5. NoRunawayStreams'
    BY <1>9 DEF StopSession, ResetSession, NoChannels, NoRunawayStreams,
       KeysMatchWatchdog, LiveIsCurrent, IsCurrent, OneOwner, Borrower,
       TypeOK, Session, NoSession, Handler, HandsMatchPlace
  <2> QED
    BY <2>1, <2>2, <2>3, <2>4, <2>5
<1>10. ASSUME NEW h \in Http \cup Host, TriggerStop(h)
      PROVE  Inductive'
  <2>1. TypeOK'
    <3>1. token[h] \in 1..stop
      BY <1>10 DEF TriggerStop, TypeOK, HandsMatchPlace, Handler
    <3>2. pc' \in [Handler -> PC]
      BY <1>10 DEF TriggerStop, TypeOK, PC, Handler
    <3> QED
      BY <1>10, <3>1, <3>2 DEF TriggerStop, TypeOK, Session
  <2>2. HandsMatchPlace'
    BY <1>10 DEF TriggerStop, HandsMatchPlace, TypeOK, Session, NoSession,
       Handler, ContextsBelong
  <2>3. KeysMatchWatchdog' /\ LiveIsCurrent' /\ TokenInUse'
    BY <1>10 DEF TriggerStop, KeysMatchWatchdog, LiveIsCurrent, IsCurrent,
       TokenInUse, HandsMatchPlace, OneOwner, Borrower, TypeOK, Session,
       NoSession, Handler
  <2>4. OneOwner' /\ ContextsBelong' /\ ChannelsBelong'
    BY <1>10 DEF TriggerStop, OneOwner, Borrower, ContextsBelong,
       ChannelsBelong, HandsMatchPlace, TypeOK, Session, NoSession, Handler
  <2>5. NoRunawayStreams'
    BY <1>10 DEF TriggerStop, NoRunawayStreams, KeysMatchWatchdog,
       LiveIsCurrent, IsCurrent, OneOwner, Borrower, TypeOK, Session,
       NoSession, Handler, HandsMatchPlace
  <2> QED
    BY <2>1, <2>2, <2>3, <2>4, <2>5
<1>11. ASSUME NEW h \in Http \cup Host, Drained(h)
      PROVE  Inductive'
  BY <1>11 DEF Drained, TypeOK, HandsMatchPlace, KeysMatchWatchdog,
     LiveIsCurrent, IsCurrent, TokenInUse, OneOwner, Borrower,
     ContextsBelong, ChannelsBelong, NoRunawayStreams, Session, NoSession,
     Phase, PC, Handler
<1>12. ASSUME NEW h \in Http \cup Host, DrainTimeout(h)
      PROVE  Inductive'
  BY <1>12 DEF DrainTimeout, TypeOK, HandsMatchPlace, KeysMatchWatchdog,
     LiveIsCurrent, IsCurrent, TokenInUse, OneOwner, Borrower,
     ContextsBelong, ChannelsBelong, NoRunawayStreams, Session, NoSession,
     Phase, PC, Handler
<1>13. ASSUME NEW h \in Rtsp, RtspAdmit(h)
      PROVE  Inductive'
  BY <1>13 DEF RtspAdmit, TypeOK, HandsMatchPlace, KeysMatchWatchdog,
     LiveIsCurrent, IsCurrent, TokenInUse, OneOwner, Borrower,
     ContextsBelong, ChannelsBelong, NoRunawayStreams, Session, NoSession,
     Phase, PC, Handler
<1>14. ASSUME NEW h \in Rtsp, Announce(h)
      PROVE  Inductive'
  <2>1. TypeOK'
    BY <1>14 DEF Announce, TypeOK, Session, NoSession, Phase, PC, Handler,
       HandsMatchPlace
  <2>2. HandsMatchPlace'
    BY <1>14 DEF Announce, HandsMatchPlace, TypeOK, Session, NoSession,
       Handler, ContextsBelong
  <2>3. KeysMatchWatchdog' /\ LiveIsCurrent' /\ TokenInUse'
    BY <1>14 DEF Announce, KeysMatchWatchdog, LiveIsCurrent, IsCurrent,
       TokenInUse, HandsMatchPlace, OneOwner, Borrower, TypeOK, Session,
       NoSession, Handler
  <2>4. OneOwner' /\ ContextsBelong' /\ ChannelsBelong'
    BY <1>14 DEF Announce, OneOwner, Borrower, ContextsBelong,
       ChannelsBelong, HandsMatchPlace, TypeOK, Session, NoSession, Handler
  <2>5. NoRunawayStreams'
    BY <1>14 DEF Announce, NoRunawayStreams, KeysMatchWatchdog,
       LiveIsCurrent, IsCurrent, OneOwner, Borrower, TypeOK, Session,
       NoSession, Handler, HandsMatchPlace
  <2> QED
    BY <2>1, <2>2, <2>3, <2>4, <2>5
<1>15. ASSUME NEW h \in Rtsp, PlayTake(h)
      PROVE  Inductive'
  <2>1. TypeOK'
    BY <1>15 DEF PlayTake, TypeOK, Session, NoSession, Phase, PC, Handler,
       HandsMatchPlace
  <2>2. HandsMatchPlace'
    BY <1>15 DEF PlayTake, HandsMatchPlace, TypeOK, Session, NoSession,
       Handler, ContextsBelong
  <2>3. KeysMatchWatchdog' /\ LiveIsCurrent' /\ TokenInUse'
    BY <1>15 DEF PlayTake, KeysMatchWatchdog, LiveIsCurrent, IsCurrent,
       TokenInUse, HandsMatchPlace, OneOwner, Borrower, TypeOK, Session,
       NoSession, Handler
  <2>4. OneOwner' /\ ContextsBelong' /\ ChannelsBelong'
    BY <1>15 DEF PlayTake, OneOwner, Borrower, ContextsBelong,
       ChannelsBelong, HandsMatchPlace, TypeOK, Session, NoSession, Handler
  <2>5. NoRunawayStreams'
    BY <1>15 DEF PlayTake, NoRunawayStreams, KeysMatchWatchdog,
       LiveIsCurrent, IsCurrent, OneOwner, Borrower, TypeOK, Session,
       NoSession, Handler, HandsMatchPlace
  <2> QED
    BY <2>1, <2>2, <2>3, <2>4, <2>5
<1>16. ASSUME NEW h \in Rtsp, PlayElsewhere(h)
      PROVE  Inductive'
  BY <1>16 DEF PlayElsewhere, TypeOK, HandsMatchPlace, KeysMatchWatchdog,
     LiveIsCurrent, IsCurrent, TokenInUse, OneOwner, Borrower,
     ContextsBelong, ChannelsBelong, NoRunawayStreams, Session, NoSession,
     Phase, PC, Handler
<1>17. ASSUME NEW h \in Rtsp, PlayWithoutContexts(h)
      PROVE  Inductive'
  BY <1>17 DEF PlayWithoutContexts, TypeOK, HandsMatchPlace,
     KeysMatchWatchdog, LiveIsCurrent, IsCurrent, TokenInUse, OneOwner,
     Borrower, ContextsBelong, ChannelsBelong, NoRunawayStreams, Session,
     NoSession, Phase, PC, Handler
<1>18. ASSUME NEW h \in Rtsp, PlayCommit(h)
      PROVE  Inductive'
  <2>1. TypeOK'
    BY <1>18 DEF PlayCommit, TypeOK, Session, NoSession, Phase, PC, Handler,
       HandsMatchPlace
  <2>2. HandsMatchPlace'
    BY <1>18 DEF PlayCommit, HandsMatchPlace, TypeOK, Session, NoSession,
       Handler, ContextsBelong
  <2>3. KeysMatchWatchdog' /\ LiveIsCurrent' /\ TokenInUse'
    BY <1>18 DEF PlayCommit, KeysMatchWatchdog, LiveIsCurrent, IsCurrent,
       TokenInUse, HandsMatchPlace, OneOwner, Borrower, TypeOK, Session,
       NoSession, Handler
  <2>4. OneOwner' /\ ContextsBelong' /\ ChannelsBelong'
    BY <1>18 DEF PlayCommit, OneOwner, Borrower, ContextsBelong,
       ChannelsBelong, HandsMatchPlace, TypeOK, Session, NoSession, Handler
  <2>5. NoRunawayStreams'
    BY <1>18 DEF PlayCommit, NoRunawayStreams, KeysMatchWatchdog,
       LiveIsCurrent, IsCurrent, OneOwner, Borrower, TypeOK, Session,
       NoSession, Handler, HandsMatchPlace
  <2> QED
    BY <2>1, <2>2, <2>3, <2>4, <2>5
<1>19. ASSUME NEW h \in Rtsp, PlayFailed(h)
      PROVE  Inductive'
  <2>1. TypeOK'
    <3>1. held[h].gen \in 1..stop
      BY <1>19 DEF PlayFailed, TypeOK, HandsMatchPlace, Session, NoSession,
         Handler
    <3>2. session' \in Session' /\ stop' \in Nat \ {0} /\ stop' = stop + 1
      BY <1>19 DEF PlayFailed, ResetSession, TypeOK, Session
    <3>3. held' \in [Handler -> Session']
      <4>1. Session \subseteq Session'
        BY <3>2 DEF Session, TypeOK
      <4> QED
        BY <1>19, <4>1 DEF PlayFailed, TypeOK, Session
    <3>4. /\ pc' \in [Handler -> PC]
          /\ ctx' \in [Handler -> 0..stop'] /\ token' \in [Handler -> 0..stop']
      <4>1. 0..stop \subseteq 0..stop' /\ 0 \in 0..stop'
        BY <3>2 DEF TypeOK
      <4> QED
        BY <1>19, <4>1 DEF PlayFailed, TypeOK, PC
    <3>5. chan' \in [Channel -> 0..stop']
      BY <1>19, <3>2 DEF PlayFailed, ResetSession, TypeOK, NoChannels
    <3>6. /\ keys' \in 0..stop' /\ contexts' \in 0..stop' /\ watcher' \in 0..stop'
          /\ shutdown' \in BOOLEAN
      BY <1>19, <3>2 DEF PlayFailed, ResetSession, TypeOK
    <3>7. /\ watchdogs' \subseteq 1..stop' /\ stopped' \subseteq 1..stop'
          /\ streams' \subseteq 1..stop' /\ sockets' \subseteq 1..stop'
      <4>1. 1..stop \subseteq 1..stop'
        BY <3>2 DEF TypeOK
      <4>2. /\ watchdogs' \subseteq watchdogs /\ stopped' = stopped
            /\ streams' = streams /\ sockets' = sockets \cup {held[h].gen}
        BY <1>19 DEF PlayFailed, ResetSession
      <4> QED
        BY <3>1, <4>1, <4>2 DEF TypeOK
    <3> QED
      BY <3>2, <3>3, <3>4, <3>5, <3>6, <3>7 DEF TypeOK
  <2>2. HandsMatchPlace'
    BY <1>19 DEF PlayFailed, ResetSession, NoChannels, HandsMatchPlace,
       TypeOK, Session, NoSession, Handler, ContextsBelong
  <2>3. KeysMatchWatchdog' /\ LiveIsCurrent' /\ TokenInUse'
    BY <1>19 DEF PlayFailed, ResetSession, NoChannels, KeysMatchWatchdog,
       LiveIsCurrent, IsCurrent, TokenInUse, HandsMatchPlace, OneOwner,
       Borrower, TypeOK, Session, NoSession, Handler
  <2>4. OneOwner' /\ ContextsBelong' /\ ChannelsBelong'
    BY <1>19 DEF PlayFailed, ResetSession, NoChannels, OneOwner, Borrower,
       ContextsBelong, ChannelsBelong, HandsMatchPlace, TypeOK, Session,
       NoSession, Handler
  <2>5. NoRunawayStreams'
    BY <1>19 DEF PlayFailed, ResetSession, NoChannels, NoRunawayStreams,
       KeysMatchWatchdog, LiveIsCurrent, IsCurrent, OneOwner, Borrower,
       TypeOK, Session, NoSession, Handler, HandsMatchPlace
  <2> QED
    BY <2>1, <2>2, <2>3, <2>4, <2>5
<1>20. ASSUME NEW g \in watchdogs \cup streams \cup sockets, WatchdogFire(g)
      PROVE  Inductive'
  <2>1. TypeOK'
    BY <1>20 DEF WatchdogFire, ResetSession, NoChannels, TypeOK, Session,
       NoSession, Phase, PC, Handler, HandsMatchPlace
  <2>2. HandsMatchPlace'
    BY <1>20 DEF WatchdogFire, ResetSession, NoChannels, HandsMatchPlace,
       TypeOK, Session, NoSession, Handler, ContextsBelong
  <2>3. KeysMatchWatchdog' /\ LiveIsCurrent' /\ TokenInUse'
    BY <1>20 DEF WatchdogFire, ResetSession, NoChannels, KeysMatchWatchdog,
       LiveIsCurrent, IsCurrent, TokenInUse, HandsMatchPlace, OneOwner,
       Borrower, TypeOK, Session, NoSession, Handler
  <2>4. OneOwner' /\ ContextsBelong' /\ ChannelsBelong'
    BY <1>20 DEF WatchdogFire, ResetSession, NoChannels, OneOwner, Borrower,
       ContextsBelong, ChannelsBelong, HandsMatchPlace, TypeOK, Session,
       NoSession, Handler
  <2>5. NoRunawayStreams'
    BY <1>20 DEF WatchdogFire, ResetSession, NoChannels, NoRunawayStreams,
       KeysMatchWatchdog, LiveIsCurrent, IsCurrent, OneOwner, Borrower,
       TypeOK, Session, NoSession, Handler, HandsMatchPlace
  <2> QED
    BY <2>1, <2>2, <2>3, <2>4, <2>5
<1>21. ASSUME NEW g \in watchdogs \cup streams \cup sockets, StreamStops(g) \/ WatchdogRelays(g)
      PROVE  Inductive'
  <2>1. g \in streams \cup watchdogs /\ stopped' = stopped \cup {g}
        /\ (g \in streams \/ shutdown)
        /\ UNCHANGED <<inner, streams, sockets, shutdown, locals>>
    BY <1>21 DEF StreamStops, WatchdogRelays
  <2>2. TypeOK'
    BY <2>1 DEF TypeOK, Session
  <2>3. TokenInUse'
    BY <2>1 DEF TokenInUse
  <2>4. KeysMatchWatchdog' /\ LiveIsCurrent' /\ HandsMatchPlace'
    BY <2>1 DEF KeysMatchWatchdog, LiveIsCurrent, IsCurrent, HandsMatchPlace
  <2>5. OneOwner' /\ ContextsBelong' /\ ChannelsBelong' /\ NoRunawayStreams'
    BY <2>1 DEF OneOwner, Borrower, ContextsBelong, ChannelsBelong, NoRunawayStreams
  <2> QED
    BY <2>2, <2>3, <2>4, <2>5
<1>22. ASSUME NEW g \in watchdogs \cup streams \cup sockets, StreamsDrain(g)
      PROVE  Inductive'
  BY <1>22 DEF StreamsDrain, TypeOK, HandsMatchPlace, KeysMatchWatchdog,
     LiveIsCurrent, IsCurrent, TokenInUse, OneOwner, Borrower,
     ContextsBelong, ChannelsBelong, NoRunawayStreams, Session, NoSession,
     Phase, PC, Handler
<1>23. ASSUME NEW g \in watchdogs \cup streams \cup sockets, SocketsClose(g)
      PROVE  Inductive'
  BY <1>23 DEF SocketsClose, TypeOK, HandsMatchPlace, KeysMatchWatchdog,
     LiveIsCurrent, IsCurrent, TokenInUse, OneOwner, Borrower,
     ContextsBelong, ChannelsBelong, NoRunawayStreams, Session, NoSession,
     Phase, PC, Handler
<1>24. ASSUME NEW c \in OneShot, TakeReceiver(c)
      PROVE  Inductive'
  BY <1>24 DEF TakeReceiver, OneShot, Channel, TypeOK, HandsMatchPlace,
     KeysMatchWatchdog, LiveIsCurrent, IsCurrent, TokenInUse, OneOwner,
     Borrower, ContextsBelong, ChannelsBelong, NoRunawayStreams, Session,
     NoSession, Phase, PC, Handler
<1>25. CASE TriggerShutdown
  BY <1>25 DEF TriggerShutdown, TypeOK, HandsMatchPlace, KeysMatchWatchdog,
     LiveIsCurrent, IsCurrent, TokenInUse, OneOwner, Borrower,
     ContextsBelong, ChannelsBelong, NoRunawayStreams, Session, NoSession,
     Phase, PC, Handler
<1>26. CASE UNCHANGED vars
  BY <1>26 DEF vars, TypeOK, HandsMatchPlace, KeysMatchWatchdog,
     LiveIsCurrent, IsCurrent, TokenInUse, OneOwner, Borrower,
     ContextsBelong, ChannelsBelong, NoRunawayStreams, Session, NoSession,
     Phase, PC, Handler
<1> QED
  BY <1>1, <1>2, <1>3, <1>4, <1>5, <1>6, <1>7, <1>8, <1>9, <1>10, <1>11,
     <1>12, <1>13, <1>14, <1>15, <1>16, <1>17, <1>18, <1>19, <1>20, <1>21,
     <1>22, <1>23, <1>24, <1>25, <1>26 DEF Next, Launching, Stopping,
     Negotiating, Streaming

\* Inductive holds in every reachable state.
LEMMA AlwaysInductive == Spec => []Inductive
BY InitiallyInductive, StepInductive, PTL DEF Spec

\* Every field stays in its type, whatever the handlers do: nothing ever refers
\* to a token the slot has not held.
THEOREM TypeCorrect == Spec => []TypeOK
<1>1. Inductive => TypeOK
  BY DEF Inductive
<1> QED
  BY <1>1, AlwaysInductive, PTL

\* launch_session and start_session never overwrite a session when they put
\* theirs back, and no two handlers ever hold one.
THEOREM OneOwnerAlways == Spec => []OneOwner
<1>1. Inductive => OneOwner
  BY DEF Inductive
<1> QED
  BY <1>1, AlwaysInductive, PTL

\* A watchdog that resets the slot resets its own session's: the handle, the
\* keys and the session always carry the token it waits on.  A session that can
\* be seen in the slot has a watchdog that will clear it.
THEOREM AlwaysWatched == Spec => []WatchedByItsOwn
<1>1. Inductive => WatchdogGuardsItsOwn
  BY DEF Inductive, WatchdogGuardsItsOwn, KeysMatchWatchdog, LiveIsCurrent,
         IsCurrent, TypeOK, Live, Borrower, NoSession
<1>2. Inductive => SessionIsWatched
  BY DEF Inductive, SessionIsWatched, KeysMatchWatchdog, LiveIsCurrent,
         IsCurrent, TypeOK, Session, NoSession
<1>3. Inductive => WatchedByItsOwn
  BY <1>1, <1>2 DEF WatchedByItsOwn
<1> QED
  BY <1>3, AlwaysInductive, PTL

\* Streams are never started with an earlier client's parameters, and the host
\* can never fetch a channel end of a session that was reset.
THEOREM NothingStale == Spec => []NothingOfOthers
<1>1. Inductive => NothingOfOthers
  BY DEF Inductive, NothingOfOthers
<1> QED
  BY <1>1, AlwaysInductive, PTL

\* Stream tasks whose session left the slot have been, or are about to be,
\* told to stop.
THEOREM StreamsNeverRunAway == Spec => []NoRunawayStreams
<1>1. Inductive => NoRunawayStreams
  BY DEF Inductive
<1> QED
  BY <1>1, AlwaysInductive, PTL

-----------------------------------------------------------------------------
(* The lifecycle.  Each step of the manager begins, launches, activates or *)
(* ends the live session, or is a stutter.  Borrowing it is a stutter:     *)
(* `Live` follows the session out of the slot, because no second session   *)
(* can be anywhere.                                                        *)

Fresh == IF keys = 0 THEN stop ELSE stop + 1

\* Where the live session is, given that it is in one place.
LEMMA LiveInSlot == session # NoSession => Live = session
BY DEF Live

LEMMA LiveOnLoan ==
  ASSUME OneOwner, NEW h \in Handler, held[h] # NoSession
  PROVE  Live = held[h]
<1>1. Borrower = {h} /\ session = NoSession
  BY DEF OneOwner, Borrower
<1> QED
  BY <1>1 DEF Live

LEMMA LiveNowhere ==
  ASSUME session = NoSession, \A h \in Handler : held[h] = NoSession
  PROVE  Live = NoSession
BY DEF Live, Borrower

\* What a step may do to the live session, the abstract actions spelled out.
Same == Live' = Live /\ Fresh' = Fresh
Ends == Live # NoSession /\ Live' = NoSession /\ Fresh' \in {Fresh, Fresh + 1}

LEMMA LifecycleActions ==
  ASSUME \/ Same
         \/ Ends
         \/ /\ Live = NoSession
            /\ Live' = [gen |-> Fresh, phase |-> "initialized"]
            /\ Fresh' = Fresh + 1
         \/ /\ Live.phase = "initialized"
            /\ Live' = [Live EXCEPT !.phase = "launched"]
            /\ Fresh' = Fresh
         \/ /\ Live.phase = "launched"
            /\ Live' = [Live EXCEPT !.phase = "active"]
            /\ Fresh' = Fresh
  PROVE  [Lifecycle!LifecycleNext]_(Lifecycle!lifecycleVars)
BY DEF Same, Ends, Fresh, NoSession, Lifecycle!LifecycleNext, Lifecycle!Begin,
       Lifecycle!Launch, Lifecycle!Activate, Lifecycle!End, Lifecycle!NoSession,
       Lifecycle!lifecycleVars

\* A step that touches neither the slot, nor the hands, nor the tokens.
LEMMA NothingMoves ==
  ASSUME session' = session, held' = held, keys' = keys, stop' = stop
  PROVE  Same
BY DEF Same, Live, Borrower, Fresh

\* A handler that loses what it has in its hands ends the session, if any.
LEMMA HandsEmptied ==
  ASSUME Inductive, NEW h \in Handler,
         held' = [held EXCEPT ![h] = NoSession],
         session' = session, keys' = keys, stop' = stop
  PROVE  Same \/ Ends
<1>1. CASE held[h] = NoSession
  <2>1. held' = held
    BY <1>1 DEF Inductive, TypeOK
  <2> QED
    BY <2>1, NothingMoves
<1>2. CASE held[h] # NoSession
  <2>1. Live = held[h] /\ session = NoSession /\ Borrower = {h}
    BY <1>2, LiveOnLoan DEF Inductive, OneOwner, Borrower
  <2>2. \A k \in Handler : held'[k] = NoSession
    BY <2>1 DEF Borrower, Inductive, TypeOK
  <2>3. Live' = NoSession
    BY <2>1, <2>2 DEF Live, Borrower
  <2> QED
    BY <1>2, <2>1, <2>3 DEF Ends, Fresh
<1> QED
  BY <1>1, <1>2

\* reset_session ends the session, unless a handler has it; then it is not even
\* noticed.
LEMMA SlotReset ==
  ASSUME Inductive, NEW ending, ResetSession(ending), held' = held,
         keys # 0 \/ session # NoSession
  PROVE  Same \/ Ends
<1>1. session' = NoSession /\ keys' = 0 /\ stop' = stop + 1
  BY DEF ResetSession
<1>2. stop \in Nat /\ stop + 1 # stop
  BY DEF Inductive, TypeOK
<1>3. Fresh' = stop + 1 /\ Fresh \in {stop, stop + 1}
  BY <1>1 DEF Fresh
<1>4. CASE session # NoSession
  <2>1. Borrower = {}
    BY <1>4 DEF Inductive, OneOwner
  <2>2. Live' = NoSession
    BY <1>1, <2>1 DEF Live, Borrower
  <2> QED
    BY <1>2, <1>3, <1>4, <2>2, LiveInSlot DEF Ends
<1>5. CASE session = NoSession
  <2>1. Live' = Live
    BY <1>1, <1>5 DEF Live, Borrower
  <2> QED
    BY <1>3, <1>5, <2>1 DEF Same, Fresh
<1> QED
  BY <1>4, <1>5

\* A handler borrows the session from the slot: a stutter.
LEMMA Borrowed ==
  ASSUME Inductive, NEW h \in Handler, session # NoSession,
         held' = [held EXCEPT ![h] = session], session' = NoSession,
         keys' = keys, stop' = stop
  PROVE  Same
<1>1. Live = session
  BY LiveInSlot
<1>2. \A k \in Handler : held[k] = NoSession
  BY DEF Inductive, OneOwner, Borrower
<1>3. held'[h] = session /\ \A k \in Handler : k # h => held'[k] = NoSession
  BY <1>2 DEF Inductive, TypeOK
<1>4. Borrower' = {h}
  BY <1>3 DEF Borrower
<1>5. Live' = session
  BY <1>3, <1>4 DEF Live
<1> QED
  BY <1>1, <1>5 DEF Same, Fresh

\* It puts the session back in another state: nobody else's is overwritten.
LEMMA PutBack ==
  ASSUME Inductive, NEW h \in Handler, held[h] # NoSession,
         NEW to, session' = [held[h] EXCEPT !.phase = to],
         to # "none", keys' = keys, stop' = stop
  PROVE  Live = held[h] /\ Live' = [Live EXCEPT !.phase = to] /\ Fresh' = Fresh
<1>1. Live = held[h]
  BY LiveOnLoan DEF Inductive
<1>2. held[h] \in [gen : 1..stop, phase : Phase \ {"none"}]
  BY DEF Inductive, TypeOK, Session
<1>3. session' # NoSession
  BY <1>2 DEF NoSession
<1> QED
  BY <1>1, <1>3 DEF Live, Fresh

\* Every step of the manager is a step of the lifecycle, or a stutter.
LEMMA StepSimulates ==
  Inductive /\ [Next]_vars =>
      [Lifecycle!LifecycleNext]_(Lifecycle!lifecycleVars)
<1> SUFFICES ASSUME Inductive, [Next]_vars
             PROVE  [Lifecycle!LifecycleNext]_(Lifecycle!lifecycleVars)
  OBVIOUS
<1> USE DEF inner, locals
<1>1. ASSUME NEW h \in Http, InitializeSession(h)
      PROVE  [Lifecycle!LifecycleNext]_(Lifecycle!lifecycleVars)
  <2>1. session = NoSession /\ \A k \in Handler : held[k] = NoSession
    BY <1>1 DEF InitializeSession, PortsFree
  <2>2. Live = NoSession
    BY <2>1, LiveNowhere
  <2>3. session' = [gen |-> stop, phase |-> "initialized"] /\ session' # NoSession
    BY <1>1 DEF InitializeSession, NoSession
  <2>4. Live' = [gen |-> Fresh, phase |-> "initialized"]
    BY <1>1, <2>3 DEF InitializeSession, Live, Fresh
  <2>5. Fresh' = Fresh + 1
    BY <1>1 DEF InitializeSession, Fresh, Inductive, TypeOK
  <2> QED
    BY <2>2, <2>4, <2>5, LifecycleActions
<1>2. ASSUME NEW h \in Http, LaunchTake(h)
      PROVE  [Lifecycle!LifecycleNext]_(Lifecycle!lifecycleVars)
  <2>1. session # NoSession /\ h \in Handler
    BY <1>2 DEF LaunchTake, NoSession, Handler
  <2> QED
    BY <1>2, <2>1, Borrowed, LifecycleActions DEF LaunchTake
<1>3. ASSUME NEW h \in Http, LaunchPut(h)
      PROVE  [Lifecycle!LifecycleNext]_(Lifecycle!lifecycleVars)
  <2>1. held[h].phase = "initialized" /\ held[h] # NoSession /\ h \in Handler
    BY <1>3 DEF LaunchPut, Inductive, HandsMatchPlace, NoSession, Handler
  <2>2. /\ Live = held[h] /\ Live' = [Live EXCEPT !.phase = "launched"]
        /\ Fresh' = Fresh
    BY <1>3, <2>1, PutBack DEF LaunchPut
  <2> QED
    BY <2>1, <2>2, LifecycleActions
<1>4. ASSUME NEW h \in Http, LaunchTimeout(h)
      PROVE  [Lifecycle!LifecycleNext]_(Lifecycle!lifecycleVars)
  BY <1>4, HandsEmptied, LifecycleActions DEF LaunchTimeout, Handler
<1>5. ASSUME NEW h \in Handler,
             \/ HandlerDropped(h) \/ StopNothing(h) \/ Drained(h)
             \/ DrainTimeout(h) \/ Announce(h) \/ PlayElsewhere(h)
             \/ PlayWithoutContexts(h)
      PROVE  [Lifecycle!LifecycleNext]_(Lifecycle!lifecycleVars)
  <2>1. /\ held' = [held EXCEPT ![h] = NoSession]
        /\ session' = session /\ keys' = keys /\ stop' = stop
    BY <1>5 DEF HandlerDropped, StopNothing, Drained, DrainTimeout, Announce,
                PlayElsewhere, PlayWithoutContexts, Finish
  <2> QED
    BY <2>1, HandsEmptied, LifecycleActions
<1>6. ASSUME NEW h \in Handler,
             \/ LaunchRefused(h) \/ CallStop(h) \/ TriggerStop(h) \/ RtspAdmit(h)
      PROVE  [Lifecycle!LifecycleNext]_(Lifecycle!lifecycleVars)
  BY <1>6, NothingMoves, LifecycleActions
     DEF LaunchRefused, CallStop, TriggerStop, RtspAdmit
<1>7. ASSUME NEW h \in Handler, StopSession(h)
      PROVE  [Lifecycle!LifecycleNext]_(Lifecycle!lifecycleVars)
  BY <1>7, SlotReset, LifecycleActions DEF StopSession
<1>8. ASSUME NEW h \in Rtsp, PlayTake(h)
       PROVE  [Lifecycle!LifecycleNext]_(Lifecycle!lifecycleVars)
  <2>1. session # NoSession /\ h \in Handler
    BY <1>8 DEF PlayTake, NoSession, Handler
  <2> QED
    BY <1>8, <2>1, Borrowed, LifecycleActions DEF PlayTake
<1>9. ASSUME NEW h \in Rtsp, PlayCommit(h)
       PROVE  [Lifecycle!LifecycleNext]_(Lifecycle!lifecycleVars)
  <2>1. held[h].phase = "launched" /\ held[h] # NoSession /\ h \in Handler
    BY <1>9 DEF PlayCommit, Inductive, HandsMatchPlace, NoSession, Handler
  <2>2. /\ Live = held[h] /\ Live' = [Live EXCEPT !.phase = "active"]
        /\ Fresh' = Fresh
    BY <1>9, <2>1, PutBack DEF PlayCommit
  <2> QED
    BY <2>1, <2>2, LifecycleActions
\* The failed start resets the slot and loses the session in the same step.
<1>10. ASSUME NEW h \in Rtsp, PlayFailed(h)
       PROVE  [Lifecycle!LifecycleNext]_(Lifecycle!lifecycleVars)
  <2>1. held[h] # NoSession /\ h \in Handler
    BY <1>10 DEF PlayFailed, Inductive, HandsMatchPlace, NoSession, Handler
  <2>2. Live = held[h] /\ Borrower = {h}
    BY <2>1, LiveOnLoan DEF Inductive, OneOwner, Borrower
  <2>3. session' = NoSession /\ keys' = 0 /\ stop' = stop + 1
        /\ held' = [held EXCEPT ![h] = NoSession]
    BY <1>10 DEF PlayFailed, ResetSession, Finish
  <2>4. \A k \in Handler : held'[k] = NoSession
    BY <2>2, <2>3 DEF Borrower, Inductive, TypeOK
  <2>5. Live' = NoSession
    BY <2>3, <2>4 DEF Live, Borrower
  <2>6. Fresh' = stop + 1 /\ Fresh \in {stop, stop + 1}
    BY <2>3 DEF Fresh
  <2> QED
    BY <2>1, <2>2, <2>5, <2>6, LifecycleActions DEF Ends
<1>11. ASSUME NEW g, WatchdogFire(g)
       PROVE  [Lifecycle!LifecycleNext]_(Lifecycle!lifecycleVars)
  <2>1. keys # 0
    BY <1>11 DEF WatchdogFire, Inductive, KeysMatchWatchdog
  <2> QED
    BY <1>11, <2>1, SlotReset, LifecycleActions DEF WatchdogFire
<1>12. ASSUME NEW g,
              WatchdogRelays(g) \/ StreamStops(g) \/ StreamsDrain(g) \/ SocketsClose(g)
       PROVE  [Lifecycle!LifecycleNext]_(Lifecycle!lifecycleVars)
  BY <1>12, NothingMoves, LifecycleActions
     DEF WatchdogRelays, StreamStops, StreamsDrain, SocketsClose
<1>13. ASSUME NEW c \in OneShot, TakeReceiver(c)
       PROVE  [Lifecycle!LifecycleNext]_(Lifecycle!lifecycleVars)
  BY <1>13, NothingMoves, LifecycleActions DEF TakeReceiver
<1>14. CASE TriggerShutdown \/ UNCHANGED vars
  BY <1>14, NothingMoves, LifecycleActions DEF TriggerShutdown, vars
<1> QED
  BY <1>1, <1>2, <1>3, <1>4, <1>5, <1>6, <1>7, <1>8, <1>9, <1>10, <1>11,
     <1>12, <1>13, <1>14
  DEF Next, Launching, Stopping, Negotiating, Streaming, Handler

\* The manager implements the lifecycle it promises its callers: one session at
\* a time, forward only, each on a stop token of its own.
THEOREM ManagerImplementsLifecycle == Spec => ImplementsLifecycle
<1>1. Init => Lifecycle!LifecycleInit
  BY DEF Init, Live, Borrower, NoSession, Lifecycle!LifecycleInit,
         Lifecycle!NoSession
<1> QED
  BY <1>1, StepSimulates, AlwaysInductive, PTL
  DEF Spec, ImplementsLifecycle, Lifecycle!LifecycleSpec

-----------------------------------------------------------------------------
\* The misfortunes that make a handler lose the session it has in its hands.
Losses == {"bare_play", "disconnect", "launch_timeout"}

\* A PLAY that is under way has contexts.
PlayHasContexts == \A h \in Rtsp : pc[h] = "starting" => ctx[h] # 0

\* Somebody has the session, or it is in the slot.
Somewhere == session # NoSession \/ \E h \in Handler : held[h] # NoSession

LEMMA LiveSomewhere ==
  ASSUME OneOwner
  PROVE  Live # NoSession <=> Somewhere
<1>1. CASE session # NoSession
  BY <1>1 DEF Live, Somewhere
<1>2. CASE session = NoSession /\ \E h \in Handler : held[h] # NoSession
  BY <1>2, LiveOnLoan DEF Somewhere
<1>3. CASE session = NoSession /\ \A h \in Handler : held[h] = NoSession
  BY <1>3, LiveNowhere DEF Somewhere
<1> QED
  BY <1>1, <1>2, <1>3

\* While no hazard takes it from a handler, the session and the keys go together.
KeysHaveSession == PlayHasContexts /\ (keys # 0 => shutdown \/ Somewhere)

LEMMA StepKeepsSession ==
  ASSUME Hazards \cap Losses = {}
  PROVE  Inductive /\ KeysHaveSession /\ [Next]_vars => KeysHaveSession'
<1> SUFFICES ASSUME Inductive, KeysHaveSession, [Next]_vars
             PROVE  KeysHaveSession'
  OBVIOUS
<1> USE DEF inner, locals, Goto, Finish, KeysHaveSession, PlayHasContexts
<1>1. /\ held \in [Handler -> Session] /\ pc \in [Handler -> PC]
      /\ ctx \in [Handler -> 0..stop]
  BY DEF Inductive, TypeOK
<1>2. "bare_play" \notin Hazards /\ "disconnect" \notin Hazards
      /\ "launch_timeout" \notin Hazards
  BY DEF Losses
\* A handler with empty hands finishes.
<1>3. ASSUME NEW h \in Handler, pc[h] \notin {"launching", "starting"}, Finish(h),
             session' = session, keys' = keys, shutdown' = shutdown
      PROVE  KeysHaveSession'
  <2>1. held[h] = NoSession
    BY <1>3 DEF Inductive, HandsMatchPlace
  <2>2. held' = held
    BY <1>1, <1>3, <2>1
  <2>3. PlayHasContexts'
    BY <1>1, <1>3 DEF Handler
  <2> QED
    BY <1>3, <2>2, <2>3 DEF Somewhere
<1>4. ASSUME NEW h \in Http, InitializeSession(h)
      PROVE  KeysHaveSession'
  <2>1. session' # NoSession
    BY <1>4 DEF InitializeSession, NoSession
  <2>2. PlayHasContexts'
    BY <1>1, <1>4 DEF InitializeSession, Handler
  <2> QED
    BY <2>1, <2>2 DEF Somewhere
<1>5. ASSUME NEW h \in Http, LaunchTake(h)
      PROVE  KeysHaveSession'
  <2>1. held'[h] # NoSession
    BY <1>1, <1>5 DEF LaunchTake, NoSession, Handler
  <2>2. PlayHasContexts'
    BY <1>1, <1>5 DEF LaunchTake, Handler
  <2> QED
    BY <2>1, <2>2 DEF Somewhere, Handler
<1>6. ASSUME NEW h \in Http, LaunchPut(h)
      PROVE  KeysHaveSession'
  <2>1. session' # NoSession
    BY <1>1, <1>6 DEF LaunchPut, NoSession, Session, Inductive,
                      HandsMatchPlace, Handler
  <2>2. PlayHasContexts'
    BY <1>1, <1>6 DEF LaunchPut, Handler
  <2> QED
    BY <2>1, <2>2 DEF Somewhere
<1>7. ASSUME NEW h \in Http, LaunchTimeout(h)
      PROVE  KeysHaveSession'
  BY <1>2, <1>7 DEF LaunchTimeout
<1>8. ASSUME NEW h \in Http \cup Host, HandlerDropped(h)
      PROVE  KeysHaveSession'
  <2>1. shutdown'
    BY <1>2, <1>8 DEF HandlerDropped
  <2>2. PlayHasContexts'
    BY <1>1, <1>8, HandlersAssumption DEF HandlerDropped, Handler
  <2> QED
    BY <2>1, <2>2
<1>9. ASSUME NEW h \in Http \cup Host,
              StopNothing(h) \/ Drained(h)
       PROVE  KeysHaveSession'
  BY <1>3, <1>9 DEF StopNothing, Drained, Handler, tasks
<1>10. ASSUME NEW h \in Http \cup Host, DrainTimeout(h)
       PROVE  KeysHaveSession'
  <2>1. shutdown'
    BY <1>10 DEF DrainTimeout
  <2>2. PlayHasContexts'
    BY <1>1, <1>10 DEF DrainTimeout, Handler
  <2> QED
    BY <2>1, <2>2
<1>11. ASSUME NEW h \in Rtsp, Announce(h) \/ PlayElsewhere(h)
       PROVE  KeysHaveSession'
  BY <1>3, <1>11 DEF Announce, PlayElsewhere, Handler
<1>12. ASSUME NEW h \in Rtsp, PlayTake(h)
       PROVE  KeysHaveSession'
  <2>1. held'[h] # NoSession /\ ctx'[h] # 0
    BY <1>1, <1>2, <1>12 DEF PlayTake, NoSession, Handler
  <2>2. PlayHasContexts'
    BY <1>1, <1>12, <2>1 DEF PlayTake, Handler
  <2> QED
    BY <2>1, <2>2 DEF Somewhere, Handler
<1>13. ASSUME NEW h \in Rtsp, PlayWithoutContexts(h)
       PROVE  KeysHaveSession'
  BY <1>13 DEF PlayWithoutContexts
<1>14. ASSUME NEW h \in Rtsp, PlayCommit(h)
       PROVE  KeysHaveSession'
  <2>1. session' # NoSession
    BY <1>1, <1>14 DEF PlayCommit, NoSession, Session, Inductive,
                       HandsMatchPlace, Handler
  <2>2. PlayHasContexts'
    BY <1>1, <1>14 DEF PlayCommit, Handler
  <2> QED
    BY <2>1, <2>2 DEF Somewhere
<1>15. ASSUME NEW h \in Handler, StopSession(h) \/ PlayFailed(h)
       PROVE  KeysHaveSession'
  <2>1. keys' = 0
    BY <1>15 DEF StopSession, PlayFailed, ResetSession
  <2>2. PlayHasContexts'
    BY <1>1, <1>15 DEF StopSession, PlayFailed, Handler
  <2> QED
    BY <2>1, <2>2
<1>16. ASSUME NEW g, WatchdogFire(g)
       PROVE  KeysHaveSession'
  BY <1>16 DEF WatchdogFire, ResetSession
<1>17. ASSUME NEW h \in Handler,
              LaunchRefused(h) \/ CallStop(h) \/ TriggerStop(h) \/ RtspAdmit(h)
       PROVE  KeysHaveSession'
  <2>1. session' = session /\ keys' = keys /\ held' = held /\ shutdown' = shutdown
    BY <1>17 DEF LaunchRefused, CallStop, TriggerStop, RtspAdmit
  <2>2. PlayHasContexts'
    BY <1>1, <1>17 DEF LaunchRefused, CallStop, TriggerStop, RtspAdmit, Handler
  <2> QED
    BY <2>1, <2>2 DEF Somewhere
<1>18. ASSUME NEW g,
              WatchdogRelays(g) \/ StreamStops(g) \/ StreamsDrain(g) \/ SocketsClose(g)
       PROVE  KeysHaveSession'
  BY <1>18 DEF WatchdogRelays, StreamStops, StreamsDrain, SocketsClose, Somewhere
<1>19. ASSUME NEW c \in OneShot, TakeReceiver(c)
       PROVE  KeysHaveSession'
  BY <1>19 DEF TakeReceiver, Somewhere
<1>20. CASE TriggerShutdown \/ UNCHANGED vars
  BY <1>20 DEF TriggerShutdown, vars, Somewhere
<1> QED
  BY <1>4, <1>5, <1>6, <1>7, <1>8, <1>9, <1>10, <1>11, <1>12, <1>13, <1>14,
     <1>15, <1>16, <1>17, <1>18, <1>19, <1>20
  DEF Next, Launching, Stopping, Negotiating, Streaming, Handler

\* Where no misfortune takes the session from a handler, the keys sender is set
\* only as long as there is a session: no client is refused for want of it.
THEOREM NeverWedgedUnlessLost ==
  ASSUME Hazards \cap Losses = {}
  PROVE  Spec => []NeverWedged
<1>1. Init => KeysHaveSession
  BY DEF Init, KeysHaveSession, PlayHasContexts, Handler
<1>2. Inductive /\ KeysHaveSession => NeverWedged
  BY LiveSomewhere DEF Inductive, KeysHaveSession, NeverWedged
<1> QED
  BY <1>1, <1>2, StepKeepsSession, AlwaysInductive, PTL DEF Spec

=============================================================================
