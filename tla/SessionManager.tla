--------------------------- MODULE SessionManager ---------------------------
(***************************************************************************)
(* moonshine-core's SessionManager: the one session slot behind a mutex,   *)
(* the handlers that fill, empty and borrow it, and the watchdog task that *)
(* clears it when the session dies by itself.                              *)
(*                                                                         *)
(* One action is one critical section of `SessionManagerInner`'s mutex, or *)
(* one step a handler takes between two of them.  launch_session and       *)
(* start_session take the session out of the slot, release the lock, and   *)
(* put it back under a second lock: between the two the slot is empty and  *)
(* the session is in the handler's own hands (`held`).                     *)
(*                                                                         *)
(* Every session is built on the stop token (`ShutdownManager`) that the   *)
(* slot holds at that moment, and reset_session puts a new token in the    *)
(* slot, so a token names a session: it is a number here, and 0 stands for *)
(* Option::None.  A datum (keys, contexts, channel ends) is represented by *)
(* the token of the session it was made for.                               *)
(*                                                                         *)
(* The stream tasks of an active session are seen from the manager only:   *)
(* that some of them still hold delay tokens (`streams`) or sockets        *)
(* (`sockets`), and that any of them stopping triggers the session's stop  *)
(* token.  StreamTasks.tla opens them up.                                  *)
(***************************************************************************)
EXTENDS Naturals

CONSTANTS
    Http,         \* webserver tasks: /launch and /cancel
    Rtsp,         \* RTSP connection tasks: ANNOUNCE and PLAY
    Host,         \* the other callers of stop_session: session_pump and serve
    Hazards,      \* which misfortunes of the environment a run admits
    MaxSessions   \* bound: initialize_session succeeds this many times at most

HazardKinds ==
    { "bare_play",      \* PLAY reaches a launched session that saw no ANNOUNCE
      "disconnect",     \* the HTTP peer goes away: hyper drops its handler
      "launch_timeout", \* APP_LAUNCH_HTTP_TIMEOUT_SECS runs out
      "stream_fails",   \* AudioEncoder::spawn fails inside start_session
      "slow_drain",     \* stream tasks outlive SESSION_SHUTDOWN_TIMEOUT_SECS
      "shutdown" }      \* the daemon is told to stop, or a server of its fails

ASSUME HazardsAssumption == Hazards \subseteq HazardKinds
ASSUME HandlersAssumption ==
    Http \cap Rtsp = {} /\ Http \cap Host = {} /\ Rtsp \cap Host = {}
ASSUME MaxSessionsAssumption == MaxSessions \in Nat

Handler == Http \cup Rtsp \cup Host

VARIABLES
    session,    \* inner.session
    keys,       \* inner.keys_tx
    contexts,   \* inner.{video,audio}_stream_context
    chan,       \* the channel ends and gates start_session leaves in inner
    watcher,    \* inner.stop_watcher: the token the watchdog was spawned for
    stop,       \* inner.stop: the token the next session will be built on
    watchdogs,  \* watchdog tasks still waiting, by the token they wait on
    stopped,    \* tokens that have been triggered
    streams,    \* tokens some stream task still delays the shutdown of
    sockets,    \* sessions whose stream tasks still hold a bound socket
    shutdown,   \* the daemon-wide shutdown has been triggered
    pc,         \* where each handler is
    held,       \* the session a handler has taken out of the slot
    ctx,        \* the contexts a PLAY handler took with it
    token       \* the stop token a handler cloned

inner == <<session, keys, contexts, chan, watcher, stop, watchdogs>>
tasks == <<stopped, streams, sockets>>
locals == <<pc, held, ctx, token>>
vars == <<inner, tasks, shutdown, locals>>

Phase == {"none", "initialized", "launched", "active"}
NoSession == [gen |-> 0, phase |-> "none"]

\* What start_session stores for the host; the last two are handed out once.
OneShot == {"encoder_control_rx", "input_rx"}
Channel == {"video_frame_tx", "audio_frame_tx", "active_video_context",
            "video_start_notify", "audio_start_notify"} \cup OneShot

NoChannels == [c \in Channel |-> 0]

PC == {"idle", "initialized", "launching", "abandoning", "cancelling",
       "stopping", "draining", "admitted", "starting"}

\* A session, or the empty slot.
Session == [gen : 1..stop, phase : Phase \ {"none"}] \cup {NoSession}

\* Every token in use is one the slot has held: none is 0, none lies ahead.
TypeOK ==
    /\ session \in Session
    /\ stop \in Nat \ {0}
    /\ keys \in 0..stop /\ contexts \in 0..stop /\ watcher \in 0..stop
    /\ chan \in [Channel -> 0..stop]
    /\ watchdogs \subseteq 1..stop /\ stopped \subseteq 1..stop
    /\ streams \subseteq 1..stop /\ sockets \subseteq 1..stop
    /\ shutdown \in BOOLEAN
    /\ pc \in [Handler -> PC]
    /\ held \in [Handler -> Session]
    /\ ctx \in [Handler -> 0..stop]
    /\ token \in [Handler -> 0..stop]

Init ==
    /\ session = NoSession
    /\ keys = 0 /\ contexts = 0 /\ watcher = 0
    /\ chan = NoChannels
    /\ stop = 1
    /\ watchdogs = {} /\ stopped = {}
    /\ streams = {} /\ sockets = {}
    /\ shutdown = FALSE
    /\ pc = [h \in Handler |-> "idle"]
    /\ held = [h \in Handler |-> NoSession]
    /\ ctx = [h \in Handler |-> 0]
    /\ token = [h \in Handler |-> 0]

-----------------------------------------------------------------------------
\* Mutants of reset_session, each forgetting one of the fields it clears.
ResetKeepsWatchdog(ending) ==   \* the handle is dropped, not aborted
    /\ session' = NoSession
    /\ keys' = 0 /\ contexts' = 0 /\ chan' = NoChannels /\ watcher' = 0
    /\ watchdogs' = watchdogs \ ending
    /\ stop' = stop + 1

ResetKeepsHandle(ending) ==     \* aborted, but still in the slot
    /\ session' = NoSession
    /\ keys' = 0 /\ contexts' = 0 /\ chan' = NoChannels
    /\ watcher' = watcher
    /\ watchdogs' = watchdogs \ ({watcher} \cup ending)
    /\ stop' = stop + 1

ResetKeepsContexts(ending) ==
    /\ session' = NoSession
    /\ contexts' = contexts
    /\ keys' = 0 /\ chan' = NoChannels /\ watcher' = 0
    /\ watchdogs' = watchdogs \ ({watcher} \cup ending)
    /\ stop' = stop + 1

ResetKeepsChannels(ending) ==
    /\ session' = NoSession
    /\ chan' = chan
    /\ keys' = 0 /\ contexts' = 0 /\ watcher' = 0
    /\ watchdogs' = watchdogs \ ({watcher} \cup ending)
    /\ stop' = stop + 1

ResetKeepsKeys(ending) ==
    /\ session' = NoSession
    /\ keys' = keys
    /\ contexts' = 0 /\ chan' = NoChannels /\ watcher' = 0
    /\ watchdogs' = watchdogs \ ({watcher} \cup ending)
    /\ stop' = stop + 1

ResetKeepsToken(ending) ==      \* the next session inherits a used token
    /\ session' = NoSession
    /\ keys' = 0 /\ contexts' = 0 /\ chan' = NoChannels /\ watcher' = 0
    /\ watchdogs' = watchdogs \ ({watcher} \cup ending)
    /\ UNCHANGED stop

\* reset_session: the slot is emptied, the watchdog it knows of is aborted,
\* and a new stop token replaces the old one.  `ending` are the watchdogs that
\* end in the same step by themselves.
ResetSession(ending) ==
    /\ session' = NoSession
    /\ keys' = 0 /\ contexts' = 0
    /\ chan' = NoChannels
    /\ watcher' = 0
    /\ watchdogs' = watchdogs \ ({watcher} \cup ending)
    /\ stop' = stop + 1

\* spawn_session_watchdog does nothing when it finds a handle in the slot.
SpawnWatchdog(g) ==
    IF watcher = 0
    THEN watcher' = g /\ watchdogs' = watchdogs \cup {g}
    ELSE UNCHANGED <<watcher, watchdogs>>

\* The audio, video and control ports can be bound: a session that has not
\* started holds them itself, afterwards its stream tasks do.
PortsFree ==
    /\ session.phase \notin {"initialized", "launched"}
    /\ \A h \in Handler : held[h] = NoSession
    /\ sockets = {}

Goto(h, to) == pc' = [pc EXCEPT ![h] = to]

\* A handler forgets its local variables and ends.
Finish(h) ==
    /\ Goto(h, "idle")
    /\ held' = [held EXCEPT ![h] = NoSession]
    /\ ctx' = [ctx EXCEPT ![h] = 0]
    /\ token' = [token EXCEPT ![h] = 0]

-----------------------------------------------------------------------------
\* initialize_session succeeds.  (Where the slot or keys_tx is taken it is
\* refused, where a port cannot be bound it fails; neither changes anything.)
InitializeSession(h) ==
    /\ pc[h] = "idle"
    /\ ~shutdown
    /\ stop <= MaxSessions
    /\ session = NoSession /\ keys = 0
    /\ PortsFree
    /\ session' = [gen |-> stop, phase |-> "initialized"]
    /\ SpawnWatchdog(stop)
    /\ keys' = stop
    /\ Goto(h, "initialized")
    /\ UNCHANGED <<contexts, chan, stop, tasks, shutdown, held, ctx, token>>

\* Mutant of LaunchTake: the session is cloned out of the slot, not taken.
LaunchTakeLeaves(h) ==
    /\ pc[h] = "initialized"
    /\ session.phase = "initialized"
    /\ held' = [held EXCEPT ![h] = session]
    /\ Goto(h, "launching")
    /\ UNCHANGED <<inner, tasks, shutdown, ctx, token>>

\* launch_session, first lock: the session is taken out of the slot.
LaunchTake(h) ==
    /\ pc[h] = "initialized"
    /\ session.phase = "initialized"
    /\ held' = [held EXCEPT ![h] = session]
    /\ session' = NoSession
    /\ Goto(h, "launching")
    /\ UNCHANGED <<keys, contexts, chan, watcher, stop, watchdogs, tasks,
                   shutdown, ctx, token>>

\* launch_session refused: nothing in the slot, or already launched.
LaunchRefused(h) ==
    /\ pc[h] = "initialized"
    /\ session.phase # "initialized"
    /\ Goto(h, "abandoning")
    /\ UNCHANGED <<inner, tasks, shutdown, held, ctx, token>>

\* launch_session, second lock: whatever is in the slot is overwritten.
LaunchPut(h) ==
    /\ pc[h] = "launching"
    /\ session' = [held[h] EXCEPT !.phase = "launched"]
    /\ Finish(h)
    /\ UNCHANGED <<keys, contexts, chan, watcher, stop, watchdogs, tasks,
                   shutdown>>

\* The timeout around launch_session drops its future, and with it a session
\* it had taken out; /launch goes on to stop_session.
LaunchTimeout(h) ==
    /\ "launch_timeout" \in Hazards
    /\ pc[h] \in {"initialized", "launching"}
    /\ held' = [held EXCEPT ![h] = NoSession]
    /\ Goto(h, "abandoning")
    /\ UNCHANGED <<inner, tasks, shutdown, ctx, token>>

\* A handler is dropped where it awaits: its HTTP connection is gone, or the
\* daemon is shutting down (wrap_cancel around every connection; serve aborts
\* session_pump).
HandlerDropped(h) ==
    /\ shutdown \/ (h \in Http /\ "disconnect" \in Hazards)
    /\ pc[h] \in {"initialized", "launching", "abandoning", "cancelling",
                  "draining"}
    /\ Finish(h)
    /\ UNCHANGED <<inner, tasks, shutdown>>

-----------------------------------------------------------------------------
\* A caller of stop_session: /cancel, session_pump after a hardware loop has
\* stopped, serve on shutdown.  /launch gets here from "abandoning".
CallStop(h) ==
    /\ h \in Http \cup Host
    /\ pc[h] = "idle"
    /\ h \in Http => ~shutdown
    /\ Goto(h, "cancelling")
    /\ UNCHANGED <<inner, tasks, shutdown, held, ctx, token>>

\* stop_session finds the slot empty and returns Ok.
StopNothing(h) ==
    /\ pc[h] \in {"cancelling", "abandoning"}
    /\ session = NoSession
    /\ Finish(h)
    /\ UNCHANGED <<inner, tasks, shutdown>>

\* Mutants of StopSession: the token is cloned after the reset, or not at all.
StopSessionNewToken(h) ==
    /\ pc[h] \in {"cancelling", "abandoning"}
    /\ session # NoSession
    /\ token' = [token EXCEPT ![h] = stop + 1]
    /\ ResetSession({})
    /\ Goto(h, "stopping")
    /\ UNCHANGED <<tasks, shutdown, held, ctx>>

StopSessionNoToken(h) ==
    /\ pc[h] \in {"cancelling", "abandoning"}
    /\ session # NoSession
    /\ ResetSession({})
    /\ Goto(h, "stopping")
    /\ UNCHANGED <<tasks, shutdown, held, ctx, token>>

\* stop_session under the lock: the token is cloned, then the slot is reset.
StopSession(h) ==
    /\ pc[h] \in {"cancelling", "abandoning"}
    /\ session # NoSession
    /\ token' = [token EXCEPT ![h] = stop]
    /\ ResetSession({})
    /\ Goto(h, "stopping")
    /\ UNCHANGED <<tasks, shutdown, held, ctx>>

\* stop_session after the lock: UserStopped.
TriggerStop(h) ==
    /\ pc[h] = "stopping"
    /\ stopped' = stopped \cup {token[h]}
    /\ Goto(h, "draining")
    /\ UNCHANGED <<inner, streams, sockets, shutdown, held, ctx, token>>

\* Mutant of Drained: the stream tasks take their delay tokens before they
\* wait for StartB, so the sockets of tasks that never start hold it up.
DrainedWithSockets(h) ==
    /\ pc[h] = "draining"
    /\ token[h] \notin streams \cup sockets
    /\ Finish(h)
    /\ UNCHANGED <<inner, tasks, shutdown>>

\* wait_for_session_shutdown: the last delay token of the session is gone.
Drained(h) ==
    /\ pc[h] = "draining"
    /\ token[h] \notin streams
    /\ Finish(h)
    /\ UNCHANGED <<inner, tasks, shutdown>>

\* wait_for_session_shutdown: out of time, so the whole daemon is shut down.
DrainTimeout(h) ==
    /\ "slow_drain" \in Hazards
    /\ pc[h] = "draining"
    /\ token[h] \in streams
    /\ shutdown' = TRUE
    /\ Finish(h)
    /\ UNCHANGED <<inner, tasks>>

-----------------------------------------------------------------------------
\* An RTSP connection passes the gate of handle_connection: there is a
\* session in the slot.  Its request is read only afterwards.
RtspAdmit(h) ==
    /\ h \in Rtsp
    /\ pc[h] = "idle"
    /\ session # NoSession
    /\ Goto(h, "admitted")
    /\ UNCHANGED <<inner, tasks, shutdown, held, ctx, token>>

\* ANNOUNCE, set_stream_context: stored for a launched session, accepted and
\* ignored for an active one (a reconnecting client), else refused.
Announce(h) ==
    /\ pc[h] = "admitted"
    /\ contexts' = IF session.phase = "launched" THEN session.gen ELSE contexts
    /\ Finish(h)
    /\ UNCHANGED <<session, keys, chan, watcher, stop, watchdogs, tasks,
                   shutdown>>

\* PLAY, start_session, first lock: session and contexts leave the slot.
PlayTake(h) ==
    /\ pc[h] = "admitted"
    /\ session.phase = "launched"
    /\ contexts = 0 => "bare_play" \in Hazards
    /\ held' = [held EXCEPT ![h] = session]
    /\ ctx' = [ctx EXCEPT ![h] = contexts]
    /\ token' = [token EXCEPT ![h] = stop]
    /\ session' = NoSession
    /\ contexts' = 0
    /\ Goto(h, "starting")
    /\ UNCHANGED <<keys, chan, watcher, stop, watchdogs, tasks, shutdown>>

\* PLAY on a slot that holds no launched session: the contexts are taken all
\* the same.  On an active session this is a resume and answered with Ok.
PlayElsewhere(h) ==
    /\ pc[h] = "admitted"
    /\ session.phase # "launched"
    /\ contexts' = 0
    /\ Finish(h)
    /\ UNCHANGED <<session, keys, chan, watcher, stop, watchdogs, tasks,
                   shutdown>>

\* start_session returns early: no contexts, and the session it took is gone.
PlayWithoutContexts(h) ==
    /\ pc[h] = "starting"
    /\ ctx[h] = 0
    /\ Finish(h)
    /\ UNCHANGED <<inner, tasks, shutdown>>

\* start_session, second lock: the streams are spawned and the session put
\* back.  The video tasks listen to the token taken under the first lock, the
\* audio and control tasks to the one the session was built on.
PlayCommit(h) ==
    /\ pc[h] = "starting"
    /\ ctx[h] # 0
    /\ session' = [held[h] EXCEPT !.phase = "active"]
    /\ chan' = [c \in Channel |-> held[h].gen]
    /\ streams' = streams \cup {held[h].gen, token[h]}
    /\ sockets' = sockets \cup {held[h].gen}
    /\ Finish(h)
    /\ UNCHANGED <<keys, contexts, watcher, stop, watchdogs, stopped, shutdown>>

\* start_session, second lock: the audio encoder cannot be created.  The slot
\* is reset, but the tasks spawned before it wait for a StartB that cannot
\* come any more and keep the video and audio sockets.
PlayFailed(h) ==
    /\ "stream_fails" \in Hazards
    /\ pc[h] = "starting"
    /\ ctx[h] # 0
    /\ ResetSession({})
    /\ sockets' = sockets \cup {held[h].gen}
    /\ Finish(h)
    /\ UNCHANGED <<stopped, streams, shutdown>>

-----------------------------------------------------------------------------
\* Mutant of WatchdogFire: it only heeds the daemon's shutdown.
WatchdogIgnoresToken(g) ==
    /\ g \in watchdogs \cap stopped
    /\ shutdown
    /\ ResetSession({g})
    /\ UNCHANGED <<tasks, shutdown, locals>>

\* The daemon's shutdown wakes the watchdog, which triggers its session's token.
WatchdogRelays(g) ==
    /\ g \in watchdogs \ stopped
    /\ shutdown
    /\ stopped' = stopped \cup {g}
    /\ UNCHANGED <<inner, streams, sockets, shutdown, locals>>

\* Woken by its token it waits for the lock, where it may still be aborted, and
\* resets.  The handle the reset takes from the slot is its own.
WatchdogFire(g) ==
    /\ g \in watchdogs \cap stopped
    /\ ResetSession({g})
    /\ UNCHANGED <<tasks, shutdown, locals>>

\* A stream task stops by itself; its trigger token stops the session.
StreamStops(g) ==
    /\ g \in streams \ stopped
    /\ stopped' = stopped \cup {g}
    /\ UNCHANGED <<inner, streams, sockets, shutdown, locals>>

\* The last stream task of a stopped session drops its delay token.
StreamsDrain(g) ==
    /\ g \in streams \cap stopped
    /\ streams' = streams \ {g}
    /\ UNCHANGED <<inner, stopped, sockets, shutdown, locals>>

\* The last stream task of a stopped session closes its socket.
SocketsClose(g) ==
    /\ g \in sockets \cap stopped
    /\ sockets' = sockets \ {g}
    /\ UNCHANGED <<inner, stopped, streams, shutdown, locals>>

\* session_pump takes one of the receivers that are handed out once.
TakeReceiver(c) ==
    /\ chan[c] # 0
    /\ chan' = [chan EXCEPT ![c] = 0]
    /\ UNCHANGED <<session, keys, contexts, watcher, stop, watchdogs, tasks,
                   shutdown, locals>>

\* SIGTERM, or one of the daemon's servers has stopped.
TriggerShutdown ==
    /\ "shutdown" \in Hazards
    /\ ~shutdown
    /\ shutdown' = TRUE
    /\ UNCHANGED <<inner, tasks, locals>>

Launching(h) ==
    \/ InitializeSession(h) \/ LaunchTake(h) \/ LaunchRefused(h) \/ LaunchPut(h)
    \/ LaunchTimeout(h)

Stopping(h) ==
    \/ CallStop(h) \/ StopNothing(h) \/ StopSession(h) \/ TriggerStop(h)
    \/ Drained(h) \/ DrainTimeout(h) \/ HandlerDropped(h)

Negotiating(h) ==
    \/ RtspAdmit(h) \/ Announce(h) \/ PlayTake(h) \/ PlayElsewhere(h)
    \/ PlayWithoutContexts(h) \/ PlayCommit(h) \/ PlayFailed(h)

Streaming(g) ==
    \/ WatchdogRelays(g) \/ WatchdogFire(g)
    \/ StreamStops(g) \/ StreamsDrain(g) \/ SocketsClose(g)

Next ==
    \/ \E h \in Http : Launching(h)
    \/ \E h \in Http \cup Host : Stopping(h)
    \/ \E h \in Rtsp : Negotiating(h)
    \/ \E g \in watchdogs \cup streams \cup sockets : Streaming(g)
    \/ \E c \in OneShot : TakeReceiver(c)
    \/ TriggerShutdown

\* Every task that can run is run by the tokio scheduler; a stopped session's
\* stream tasks wind down.  Clients, signals and misfortunes owe nothing.
Fairness ==
    /\ \A h \in Http :
         WF_vars(LaunchTake(h) \/ LaunchRefused(h) \/ LaunchPut(h))
    /\ \A h \in Http \cup Host :
         WF_vars(StopNothing(h) \/ StopSession(h) \/ TriggerStop(h) \/ Drained(h))
    /\ \A h \in Rtsp : WF_vars(PlayWithoutContexts(h) \/ PlayCommit(h))
    /\ \A g \in 1..(2 * MaxSessions + 2) :
         /\ WF_vars(WatchdogRelays(g)) /\ WF_vars(WatchdogFire(g))
         /\ WF_vars(StreamsDrain(g))

Spec == Init /\ [][Next]_vars
FairSpec == Spec /\ Fairness

-----------------------------------------------------------------------------
\* The session the manager is responsible for: in the slot or in the hands of
\* the handler that borrowed it.
Borrower == {h \in Handler : held[h] # NoSession}
Live ==
    IF session # NoSession \/ Borrower = {} THEN session
    ELSE held[CHOOSE h \in Borrower : TRUE]

\* There is one session, and it is in one place: while a handler has it the
\* slot is empty, and no two handlers have one.  launch_session and
\* start_session put their session back without looking at the slot, so
\* anything else would overwrite, and silently drop, somebody's session.
OneOwner ==
    \A h \in Borrower : session = NoSession /\ Borrower = {h}

\* A waiting watchdog is the one the slot knows of, and the session in the
\* slot, or on loan from it, is its own.  The watchdog resets the slot without
\* asking whose session is in it; this is what makes that safe.
WatchdogGuardsItsOwn ==
    \A g \in watchdogs : watcher = g /\ keys = g /\ Live.gen \in {0, g}

\* Unless the daemon is shutting down, a session in the slot is watched: when
\* its streams die a watchdog will clear it, and the next client gets in.
SessionIsWatched ==
    session # NoSession => shutdown \/ session.gen \in watchdogs

\* What an ANNOUNCE stored belongs to the launched session in the slot, and
\* what a PLAY took belongs to the session it took: streams are never started
\* with the parameters an earlier client negotiated.
ContextsBelong ==
    /\ contexts # 0 => session = [gen |-> contexts, phase |-> "launched"]
    /\ \A h \in Rtsp : ctx[h] # 0 => held[h].gen = ctx[h]

\* A channel end the host can fetch belongs to the active session in the slot:
\* a session that was reset leaves no sender for the pump to pick up.
ChannelsBelong ==
    \A c \in Channel :
        chan[c] # 0 => session = [gen |-> chan[c], phase |-> "active"]

\* A watchdog hits its own session, and no session is without one.
WatchedByItsOwn == WatchdogGuardsItsOwn /\ SessionIsWatched

\* Nothing an earlier session left in the slot is used by a later one.
NothingOfOthers == ContextsBelong /\ ChannelsBelong

\* Stream tasks never outlive their session without being told: when the slot
\* no longer holds it, its token has been triggered, or the handler that
\* emptied the slot is just about to trigger it.
NoRunawayStreams ==
    \A g \in streams :
        \/ shutdown
        \/ session = [gen |-> g, phase |-> "active"]
        \/ g \in stopped
        \/ \E h \in Handler : pc[h] = "stopping" /\ token[h] = g

\* The keys sender, which makes initialize_session refuse a second session,
\* is given up with the session: whenever it is set there is a session, or the
\* launch that lost it is still on its way out.  A set sender without a session
\* would refuse every client until the daemon is restarted.
NeverWedged == keys # 0 => shutdown \/ Live # NoSession

\* The manager implements the session lifecycle: forward only, one at a time,
\* each on a stop token of its own.
Lifecycle == INSTANCE SessionLifecycle
    WITH live <- Live, fresh <- IF keys = 0 THEN stop ELSE stop + 1
ImplementsLifecycle == Lifecycle!LifecycleSpec

\* A session whose stop token was triggered, by whatever task, is cleared from
\* the slot: by the handler that triggered it or by the watchdog.  (During the
\* daemon's shutdown a launch may still put its session back afterwards.)
StoppedSessionLeaves ==
    \A g \in 1..MaxSessions :
        (g \in stopped) ~> (Live.gen # g \/ shutdown)

\* Whoever empties the slot gets its answer, and a launch always ends with the
\* session launched or given up.
HandlersReturn ==
    \A h \in Http \cup Host :
        (pc[h] \in PC \ {"idle"}) ~> (pc[h] = "idle")

=============================================================================
