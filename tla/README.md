# A TLA+ model of rgsp-cast

rgsp-cast turns a handheld into a Moonlight host: a daemon (`rgsp-host`) built on a
vendored copy of moonshine-core captures the screen and the sound, streams them to one
Moonlight client and feeds the client's input back. An on-device program (`rgsp-ui`)
starts and stops the daemon, shows its state and pairs clients; shell hooks keep the
audio routing sane over boot, sleep and game launches.

This directory models the parts of that system in which tasks, threads, processes and
clients step on each other, checks them with TLC on small instances, and proves most of
their safety for every instance with TLAPS. Paths below are relative to `src/`;
`core/` stands for `vendor/moonshine/moonshine-core/src/`.

## Inventory

| component | state it keeps | operations | what must be right |
|---|---|---|---|
| session manager (`core/session/manager.rs`, `mod.rs`) | one session slot, key channel, stream contexts, channel ends, stop token, watchdog handle, behind one mutex | `initialize_session`, `launch_session`, `set_stream_context`, `start_session`, `stop_session`, `reset_session`, the watchdog, the accessors | one session at a time; nothing of one session reaches the next; a session that died is cleared; streams are told when their session goes |
| stream tasks (`core/session/stream/**`) | six tasks or threads per session, start gates, stop, delay and trigger tokens, two bounded audio queues, three sockets | start on `StartB`, run, leave | all start; all leave; the shutdown they delay completes |
| session pump and `serve` (`rgsp-host/src/main.rs`) | the round's frame sender, context, receivers; two blocking hardware loops | poll for a session, run the loops, stop the session, start over; shut down | devices released between rounds; the pump never stuck; the daemon ends |
| web and RTSP servers (`core/webserver/mod.rs`, `core/rtsp.rs`) | none of their own | callers of the session manager | (with the manager) |
| pairing (`core/clients.rs`, `core/webserver/pairing.rs`, `rgsp-host/src/control.rs`) | the pending set keyed by unique id, a `Notify` per entry and one for the set | four `/pair` requests, `submit_pin`, `unpair`, the expiry sweep, the list watcher | no lost wake-up; lists current; calls return |
| persistent state (`core/state.rs`) | paired certificates and client ids, in memory and in `state.toml` | add, remove, save, load | memory and file agree; a restart loses nothing acknowledged |
| audio routing, pidfile (`rgsp-host/src/routing.rs`, `daemon.rs`, `main.rs`) | `.asoundrc`, the persisted sink, the pidfile and its lock, the control socket | start, engage, bind, serve, close, release, unlink | one daemon casts; the speaker works when nobody casts; settings of others return |
| hooks (`pak/hooks`) | none; they look at the same files | boot, before sleep, after resume, before a launch | they never fight a cast that is alive |
| UI service control (`rgsp-ui/src/service.rs`) | the child it started | start, stop, probe | as above; a stopped daemon ends |
| control socket (`rgsp-host/src/control.rs`) | the `CastState` all subscribers see | setters, `subscribe` | no change missed, none undone |
| UI screens, RPC client (`rgsp-ui/src/main.rs`, `rpc.rs`, `screens/`) | the screen, its cursor, the connection, requests under way | one frame: buttons, reconnect, take a state, act, draw | acts as its hints say; answers belong to their screen; catches up |
| UI drawing (`rgsp-ui/src/ui.rs`, `sys.rs`) | what it has acquired of the display | acquire, record, give back; place and draw | the display is given back whatever fails; as many rows as fit |
| video loop (`rgsp-host/src/video.rs`, `host_source.rs`), Cedar capture (`rgsp-cedar/src/capture.rs`) | the single capture slot, stages of opening, frame deadlines, a ring of output buffers, control flags | open, init, capture, drain, close; keyframes, resets, bitrate | one owner of the encoder; no bursts; decodable keyframes; requests heard |
| Cedar helpers (`rgsp-cedar/src/{bitstream,convert,framebuffer,geometry}.rs`) | none | NAL units, pixel and surface arithmetic | indices inside, bytes are bytes |
| audio capture (`rgsp-host/src/audio.rs`) | a period being filled | open, read, recover, send | whole periods, in order |
| remote input (`rgsp-host/src/input.rs`, `input_decode.rs`) | the queue, the pad and what it has reported | decode, press, release | the pad shows the client; nothing stays held |

How they interact. The web server's `/launch` initializes and launches a session, RTSP's
ANNOUNCE and PLAY give it its parameters and start its streams; `/cancel`, the pump and
`serve` stop it, its watchdog clears it when it stops by itself. The pump finds a session
only by polling the manager's accessors and learns of its end only because a channel's
receiver is gone; for each session it starts the video thread, the audio task and the
input task. The UI talks to the daemon over a socket and sees one state, into which a
watcher copies the client lists whenever `pending_changed` fires. Daemon, UI and hooks
otherwise share files and nothing else.

Hard behaviour, all of it in `PROJECT.json` under `hazards` with its line: the session is
*out of the slot* between two locks of one call; handlers are dropped in the middle;
tokio's `Notify` remembers one permit or none; a thread blocks on bounded queues and
heeds no token meanwhile; five accessors are read under five locks; every Moonlight
client sends the same unique id; the state file is written in place; a daemon can die
between any two steps of engaging or releasing the routing; answers come after their
request was given up; an opening fails at any of six stages while the last session's
thread still closes; reads are short and queues overrun.

## Modules

| module | what it is |
|---|---|
| `SessionLifecycle` | abstract: at most one live session, forward through three states, each on a new stop token |
| `SessionManager` | the manager, its handlers, its watchdog; implements `SessionLifecycle` |
| `SessionStreams` | abstract: what a session's streams promise the rest of the daemon |
| `StreamTasks` | the six tasks; implements `SessionStreams` |
| `SessionPump` | extends `SessionManager` by `session_pump`, the hardware loops and `serve` |
| `PairedState` | `PersistentState`, its memory and its file |
| `Pairing` | handshakes, PIN, unpair, watcher, crash and restart, over an instance of `PairedState` |
| `Casting` | daemon processes from start to exit, the UI's service, the hooks, another audio manager, over the files they share |
| `LatestValue` | abstract: what a subscription promises |
| `ControlSocket` | setters, subscriptions and the list watcher; implements `LatestValue` for each subscriber |
| `Layout` | where the rows of the UI's list and the hint group are, in pixels |
| `Console` | the UI's start, its frame loop, screens, connection and requests, beside a daemon that comes and goes; extends `Layout` |
| `Bitstream` | access units as sequences of NAL unit types: Annex B, AVCC, parameter sets, the ring's drain |
| `Geometry` | padded surfaces, copied rows, colour conversion, the RTP clock |
| `VideoStream` | video threads around the capture slot, pacing, keyframes, control requests; extends `Bitstream` |
| `HostSession` | the one thing the two modules below share: whether the session is there |
| `RemoteInput` | packets, queue, decoding, pad |
| `LoopbackAudio` | the capture of the loopback, period by period |
| `SessionDevices` | both devices over one session after another |
| `...Proofs` | theorems about the module named before it; `ControlProofs` about both ends of the control socket, `ControlSocket` and `Console`; `VideoStreamProofs` covers `Bitstream` and `Geometry` too, `PairingProofs` `PairedState`, `SessionDevicesProofs` `RemoteInput` and `LoopbackAudio` |
| `MC...` | each instantiated for TLC |

### How state and actions correspond to the code

`PROJECT.json` maps each definition to its lines. The conventions:

* One action is one critical section of a lock, one poll of a task between two awaits
  (tokio runs a task without interruption up to its next await), one system call whose
  effect others can see, or one frame of the UI. A program counter (`pc`, `at`,
  `attempt`) says between which of them an actor is. In `SessionManager` the session a
  handler has taken out is `held[h]`, what it took along is `ctx[h]` and `token[h]`.
* A session is named by the stop token it was built on, a number. Keys, contexts and
  channel ends are represented by the session they were made for, so a stale datum is
  visible as a number that is not the current one. States of the control socket are
  told apart by a version, for the same reason.
* A failed `initialize_session` is not a step, since it leaves everything as it was.
  `launch_session`'s error branch (`manager.rs:425`) cannot be reached:
  `InitializedSession::launch` returns `Ok` always.
* Misfortunes are named in a constant `Hazards` (`HazardKinds`, in `Casting` `Hazard`, documents them); a run
  lists the ones it admits, so that each property says under which it holds.
* A dropped handler (`wrap_cancel` around HTTP connections, hyper on disconnect) loses its
  locals at an await, `held` included; RTSP connections are not wrapped and run on.
* `StreamTasks` counts frames in the two audio queues and nothing else of their content.
  `fed` is true while a sender is left or an undelivered chunk remains.
* In `Pairing` an entry's key, challenge and hash say *whose* they are. `notify_waiters`
  is one step with the change before it: a watcher that looks between the two is merely
  woken once more. `signal` is the enabled `Notified` of the watcher. The lock of the
  pending set is explicit (`holder`), because one request holds it over two saves.
* In `PairedState` a save is two steps, since the file is truncated and then written.
  Savers share the read lock, so while one is at work the memory does not change.
* In `Casting` a pidfile is an inode: `path` is the one the name leads to, `fd[p]` the one
  a process has open, and a lock belongs to an inode. `owed` and `blamed` are history:
  the settings a cast has to give back, and the fault that what is left over is due to.
  `CastSink` reads `.asoundrc`, truncates it, writes it and sets the sink in four steps on
  the way in and as many on the way out, and a daemon may die, or the disk be full, at each.
* In `Console` a screen is a record with what the code's struct holds, a PIN is a function
  from `Places` positions to `Radix` digits, and `Control` is what the UI has of it
  (`connected`, what has arrived, the two handles) with what it cannot see, whether the
  connection still lives (`at`). A request whose handle is dropped moves to `abandoned`:
  the daemon may still carry it out, and nobody learns of it. Two of them that ask the same
  are one element there, from which `Completes` may take one away or leave another.
* `UiNew` acquires and records in separate steps, since what `Drop` gives back is what was
  recorded; `Measured` is where the size of the surface is checked.
* In `VideoStream` `owns[t]` is the set of stages a capture has gone through and not given
  back; a deadline is relative to now, so that time needs no bound.
* A packet in `RemoteInput` is its magic, its length and what it says of the controls. The
  pump aborts the input task of a session that is over and does not await it, so the pad of
  the session before may still be open when the next opens its own: it is `former`, and
  `FormerEnds` is its drop.

### Simplifications a reader should know of

* `update_keys` and `reset_video_stream` on resume, and `trigger_streams_start`, are left
  out of the manager: they touch key material, frame counters and a bench path.
* The watchdog awaits a token, its session's or the daemon's, then the manager's lock, then
  the end of its session's shutdown. `WatchdogRelays` passes the daemon's shutdown on to the
  session's token, `WatchdogFire` is the reset under the lock; until then a reset by another
  aborts it, and the abort takes effect at the await it is at. The third await, on which
  nothing depends, is left out: the reset has aborted the watchdog itself by then.
* The launch timeout needs the mutex to be contended for twenty seconds today. It is a
  hazard all the same, since the code around it provides for it.
* A packet handler's send is assumed to return.
* `ShutdownCompletes` is a step of its own although async-shutdown completes with the last
  token: the model allows more.
* In `SessionPump` the two receivers are seen as in `SessionStreams`, over `Gen`,
  the sessions that can have begun.
* In `Pairing` one `submit_pin` and one `unpair` are under way at a time: there is one UI
  with one PIN screen. Entries may expire at any look; that the time limit is longer than
  the PIN's is not used. A write that fails half-way while the daemon runs on is not
  modelled, only a file that cannot be opened and a crash with the file torn. Labels are
  left out.
* In `Casting`, another audio manager writes `.asoundrc` between a read and the write of
  `CastSink` only under the hazard `meddled`; its own write, and a hook's, is one step, and
  of writes that overlap the last writer's remains. A SIGTERM that comes while the release
  after a failed startup runs is taken as handled.
* In `Console` the daemon carries a request out at some time after it was sent, still
  waited for or not, or never; what goes on behind the request is in `Pairing`. The entry
  `--smoke-start-daemon` is left out. Of the layout only the rows and the hint group are
  modelled: the rest of what is drawn has no state, and nothing in the code bounds a text.
* A pad that is left over is the only one: a task aborted two sessions ago has let go. A
  packet an aborted task was about to decode counts as never sent. A write the kernel
  refuses fails before its first event, and the writes of a drop succeed.
* The sleep of the capture loop lasts at least as long as it was asked to. A signal could
  cut it short (`capture.rs:572` ignores the remainder); the daemon handles none but those that end it.
* Record strings of the encoder's `extradata` come in two of the three forms the code
  distinguishes (`MCRecords`); the third, unavailable, leaves keyframes as they are.

## Runs

Each answers one question; `tlc -config X.cfg M` repeats any of them.

| run | module | bounds | what it shows |
|---|---|---|---|
| `Manager` | `MCSessionManager` | 2 HTTP and 2 RTSP handlers, the pump, 2 sessions, all six hazards | types; one owner of the session; watchdogs guard their own session and every session has one; contexts, channels and keys are never another's; no stream runs untold; the lifecycle is implemented; a stopped session leaves the slot; handlers return |
| `Streams` | `MCStreamTasks` | queues of 2 | the tasks implement `SessionStreams`; the control port is free when the shutdown completes; every shutdown completes; all audio tasks start |
| `Pump` | `MCSessionPump` | 1 HTTP and 1 RTSP handler, 1 session; failing streams, slow drains, shutdown | no hardware loop is left over when the pump looks for the next session; the slot never refuses every client; the pump comes round after a session whose streams have started; `serve` exits |
| `PumpStopsAnother` | `MCSessionPump` | 2 sessions | *violated*: `PumpStopsItsOwn` |
| `Pairing` | `MCPairing` | 2 handshakes sharing one id and one machine, 1 restart, all hazards but `early_pin` | the published lists and the file keep up; an entered PIN moves its handshake on; `submit_pin` returns |
| `Casting` | `MCCasting` | 2 daemon processes; kills, reboots, full disks, failing startups at every step | one caster; the speaker is free; foreign settings return; a daemon told to stop ends |
| `EarlyTerm` | `MCCasting` | 2 daemon processes; a SIGTERM before its handler | *violated*: `SigtermReleases` |
| `Socket` | `MCControlSocket` | 2 subscribers, 2 changes of the lists, 1 cast | whoever waits has looked since the last change; each subscription implements `LatestValue`, its liveness included |
| `Console` | `MCConsole` | 1 pending and 2 paired clients, 3 rows, 2-digit PINs, 1 change, 1 stop of the daemon, 5 button states | a request is outstanding only behind the screen that waits for it; no frame panics over a row and the display is given back; the UI catches up |
| `SixthRow` | `MCConsole` | 5 paired clients, the real row count | *violated*: `RowsEndAboveHints` |
| `Video` | `MCVideoStream` | 2 threads, a control channel of 1, keyframe interval 2, frame numbers to 2 | the capture slot is its owner's; keyframes decode; no bursts; requests in the channel are heard |
| `Devices` | `MCSessionDevices` | 3 grips, 2 keys, a queue of 1, periods of 2 frames, a pad left over | the pad shows what the client holds; nothing stays held; periods are whole; devices are let go |

Why the bounds are enough.

* The manager's dangers need a session in one handler's hands and another handler in the
  slot, and one session that must not meet the next: two of each. (The proofs lift these
  bounds.) `Pump` has the manager's handlers at one each, since what is new in it is the
  pump, its loops and `serve`, and one session is begun, stopped from outside, stopped by
  the pump, or dies; a round over two sessions is what `PumpStopsAnother` needs.
* The audio pipeline's waiting is about a queue being empty, partly full and full, which
  2 covers. A control channel or an input queue of 1 is full as soon as it can be.
* `Pairing` needs two clients under one id; other ids only add independent entries. A
  single restart covers every point of a save.
* Two daemon processes is one that leaves and one that comes; with the UI's probe they
  are all who can want the lock at a time. Pids and inodes are reused, so nothing else is
  bounded.
* A subscriber may be two changes behind before it looks, and one subscriber may be gone
  while another has come.
* In `Console` the list is one client too long for its rows or not, depending on the one
  change; digits of a PIN wrap at `Radix`. Two clients of three are alike to every rule
  but the cursor's, which three rows put on the first, a middle and the last row. The real
  six rows matter to `RowsEndAboveHints` alone, whose run has them.
* `Devices` has a gamepad at rest, one with an end of the hat and the trigger just above its
  threshold, and one with everything at once; of the keys one is a button and one an arrow.
* Video time is cut off at `Late`, past which nothing behaves differently.

Deadlock is not checked: each of these systems may stop (the daemon has ended, or
the bounds are used up). No run uses symmetry.

### What the violated runs show

* `PumpStopsAnother`: by the time the pump calls `stop_session` its session may have ended
  and another may be in the slot, which is then stopped (`rgsp-host/src/main.rs:479`).
* `EarlyTerm`: between `CastSink::engage` and the first poll of the signal task SIGTERM
  has its default disposition; the daemon dies with `.asoundrc` engaged.
* `SixthRow`: the sixth row ends at y 450, the hint pill begins at y 400.

### What else does not hold

Noticed while modelling; the properties are stated so that they leave these out, and each
is easy to see again by admitting the hazard named.

* Admitting `launch_timeout`, `disconnect` or `bare_play`, `NeverWedged` fails: the session
  is dropped while `keys_tx` stays set, and `initialize_session` refuses every client until
  the daemon is restarted. The rest of `Manager` holds with all hazards.
* Admitting `early_pin`, `PinMovesHandshake` fails: a PIN registered between `add_pending`
  and the making of the `notified()` future wakes nobody, and the handshake waits until its
  client gives up. The window is a few instructions of one poll.
* Admitting `preempted`, `OneCaster` fails: a daemon that has opened the pidfile locks it
  after the leaving one has unlinked it, and a third creates and locks another
  (`daemon.rs:75`, whose comment says there is no race with a new acquire).
* Admitting `meddled`, `ForeignConfigReturns` fails: the release has read `.asoundrc` and
  found it ours, another manager writes, and the release removes or rewrites what it wrote
  (`routing.rs:118`; `routing.rs:108` says that it respects that change).
* In the frame of a press a new state, or a lost connection, may move other rows under the
  cursor before the press acts (`rgsp-ui/src/main.rs:129`, `screens/home.rs:107`): `A` acts on the client that is
  there now, and may pair where the hint that was drawn said Unpair. A confirmation names
  the client before it is unpaired; pairing asks for a PIN.
* The video gate calls `notify_one` twice on one `Notify` (`stream/video/mod.rs:266`), which
  stores one permit: if `StartB` comes before both video tasks have been polled, one of
  them never starts. Only `AudioStarts` is stated.
* A session stopped before `StartB` leaves its packetize task and PCM bridge parked at gates
  that heed no token; the hardware loops fill the channels and block, and the pump waits
  for them (`main.rs:380`). `PumpComesRoundOnceStarted` leaves these sessions out.
* `stop_session` answers Ok, and stops nothing, while a launch has the session out
  (`manager.rs:563`); `serve`'s last `stop_session` can miss one that way (`main.rs:313`).
* `submit_pin` takes the disappearance of the id for success (`control.rs:268`): a client
  that disconnects after its PIN was entered, or an entry that expires, counts as paired. A
  PIN submitted in the frame that notices the end of the connection leaves the screen
  "Pairing" with nothing behind it until it is cancelled (`rgsp-ui/src/main.rs:217`).
* A failed save leaves the memory changed and notifies nobody (`state.rs:186`), although
  `main.rs:270` expects a notification after every mutation; `ListsCurrent` (its paired half)
  and `DiskCurrent` are stated up to it. With `torn_write` the daemon may find a file it
  cannot parse and not start; no property says that it comes back.
* A pairing handler's guard removes whatever is pending under its id, another client's
  attempt included, since all Moonlight clients send the same one.
* `input.rs:25` says the pad is created once for the daemon; it is created per session.
  `host_input.rs:27` says that a dropped packet is made up for by the next, which is so for
  gamepads and not for keyboards: `PadShowsTheClient` is stated of a keyboard only until a
  packet is dropped.

## Fairness

Weak fairness throughout, but for two places, and only for what tokio, the kernel or the
hardware runs by itself: a handler between two locks, the watchdog, a spawned task, a
thread whose queue is ready, `submit_pin`'s timer, a frame of the UI's loop and its
clocks, the video clock, the loopback's cable. Nothing is assumed of clients (no request
ever need come, `StartB` included), of the user, of failures, or that an entry expires.

Strong fairness: in `Casting`, where without `preempted` a leaving daemon's unlink is not
let fall between another's open and its flock, it gets past starters that come and go
there (`ReleaseUnlinks`), since nothing in the code makes it wait for them; in `SessionDevices` a read that is not
overrun succeeds again and again, which says that the reader is scheduled often enough
for the ring it reads.

In `Manager` and `Pump` stopped stream tasks are assumed to wind down (`StreamsDrain`);
`Streams` shows that they do (`ShutdownAlwaysCompletes`), from the fairness of the tasks
alone.

## Proofs

All of these hold for every value of the constants that satisfies the module's named
assumptions: handlers of the three kinds are disjoint, `Hazards` is a subset of
those the module names, queue lengths are natural numbers, the set of daemons is finite, names
that stand for nobody are nobody's. No invariant below is inductive as a run states it;
for each module the conjuncts that make it so are named in its proof module. Those
invariants were themselves model-checked before they were proved.

### The manager and the pump

`SessionManagerProofs`: `TypeCorrect`, `OneOwnerAlways`, `AlwaysWatched`, `NothingStale`,
`StreamsNeverRunAway`. `Inductive` adds `HandsMatchPlace` (what a handler may carry
follows from its `pc`), `KeysMatchWatchdog` (key channel, watchdog handle and watchdog
come and go together), `LiveIsCurrent` (outside the daemon's shutdown, whatever session
there is, in the slot or on loan, is built on the token in the slot) and `TokenInUse`
(the token in the slot is triggered or delayed only by the active session built on it).
`StepInductive` has one step per action.

`ManagerImplementsLifecycle` is the refinement:
the live session is the one in the slot or, if a handler has borrowed it, in that
handler's hands (`Live`), and `OneOwner` makes that one session; `Borrowed`, `PutBack`,
`HandsEmptied` and `SlotReset` say what the four ways of moving a session do to it.
`NeverWedgedUnlessLost` needs that `Hazards` has none of `bare_play`, `disconnect` and
`launch_timeout`; its invariant `KeysHaveSession` adds that a PLAY under way has its
contexts.

`SessionPumpProofs` carries this over to the pump. `PumpIsACaller` shows that each of its
steps is one the manager allows a caller, or leaves the manager alone, so `PumpSpec`
implies `Spec` and with it every theorem above; `PumpNeverWedges` is one of them.
What makes it so is `ReceiversBacked`: a receiver there ever was belongs to a session
that has streams or was stopped, so that its end, which triggers a token, is a stop the
manager knows of. `DevicesAlwaysReleased` and `PumpTypeCorrect` are conjuncts of
`PumpInductive`, with `SessionsCounted` (a session in sight is within the count).

### The streams of a session

`StreamTasksProofs`: `TasksTypeCorrect`, `ControlPortAlwaysFreed`, `TasksImplementStreams`.
The invariant: a task that has left has told its streams (`LeftIsTold`), control
closes its socket before it drops its token (`ControlClosesFirst`), and a complete
shutdown was triggered (`CompleteIsTold`). The step simulation has three lemmas: what is
hidden from the abstraction, what is seen, and what changes neither.

### Pairing and the daemon's life

`PairingProofs`: `PairingTypeCorrect` (with the exclusion of the pending set's lock),
`FileAlwaysCurrent`, `ListsAlwaysCurrent`, for all hazards, `early_pin` included, and any
number of crashes. `Writers` says who may have the file open; `FileFollows` that the file
is current or a save is under way, of an attempt, of an unpairing or of the start;
`ListsFollow` that what the watcher has published is current unless it has been told
since, or somebody who will tell it is under way. `PinNeverLost`, unless `early_pin`: an
attempt whose PIN was entered while it waited has been woken, which is the safety
`PinMovesHandshake` rests on; `KeysFollow` adds that no entry is of an attempt that has not
begun, and none with a key of one that does not wait yet.

`CastingProofs`: `CastingTypeCorrect` and `SpeakerAlwaysFree` for all hazards,
`OneCasterAlways` and `ForeignConfigAlwaysReturns` unless a daemon is preempted between
opening the pidfile and locking it. `Locked` (`OwnersNameTheirs`, `ProbeHoldsItsOwn`) says
whose lock is whose; `CasterKeepsIt` that whoever is engaged has what it must give back.
That an unused inode is left at every open is a counting argument (`FreshIsFree`).

### Both ends of the control socket

`ControlProofs`, the daemon's end: `SocketTypeCorrect`, `NothingEverMissed`,
`SubscriptionsNeverGoBack`, for any number of subscribers and changes. What a waiter relies
on is that it armed its bell before it looked (`WatcherArmed`, `WatcherCurrent`,
`SubscriberCurrent`). The last of the three is the safety half of `ImplementsLatestValue`.

The UI's end: `AnswersReachTheirScreen`, `DisplayIsGivenBack`, for any clients,
fingerprints and lists, any number of rows, and any number of changes and restarts.
`ConsoleInductive` types the daemon's lists, the connection with its inbox and both
requests, those that were abandoned, and every screen with what it
names, and adds `Held` (no frame has panicked, a program that runs has recorded all it
holds, and one that is gone holds nothing). That no frame indexes past a list is `RowOpens`: the rows that
are drawn are no more than the lists have (`RowsFit`), and the cursor is put among them
first. On these types `AnswerIsForThisScreen` is inductive, one lemma per group of frames. A list's removal is
a search for the least index, which `LeastOne` gets from the well-foundedness of the numbers.

### Video

`VideoStreamProofs`: `SlotAlwaysItsOwners`, for any number of threads. `OneInside` ties
the flag to the one thread inside, `HoldsItsStages` what it owns to how far it has come.

`NeverABurst`, for every frame rate: `Paces` says how old the last samples are, given
where the deadline stands: the next frame is not due before the second last sample was
taken, nor less than an interval after the third last, which is why four frames suffice.

`KeyframesAlwaysDecodable`, however many buffers the encoder hands out and wherever the
ring cuts them. `BuffersDrain`, that what they drain to is a sequence of NAL units at all,
is an induction over the buffers: the library's induction theorems take an operator
as a parameter and cannot be used, so it goes by the least buffer at which it would
fail (`LeastOf`), twice, once for the drain being defined and once for its type.
`EncoderAssumption` says what a buffer is and that
parameter sets hold nothing but parameter sets.

`ResetsNeverLost`, the safety `RecoveryHeard` rests on: a reset in the control channel is
owed (`ResetOwed`: in the channel, in the flag, or in the number 0 that the loop has set)
until a frame numbered 1 is taken or the stream ends. `RequestsOK` adds that whoever is at
number 0 has yet to take its first frame or will force a keyframe.

Pure functions, which have no run: the panel fits the padded surface (`PanelFits`), rows and
whole copies stay inside the input buffer (`RowsStayInside`, `WholeStaysInside`), luma and
chroma stay in their limited range (`LimitedRange`), channels are bytes (`ChannelsAreBytes`),
and successive RTP stamps differ through every wrap of the clock (`StampsDiffer`).

### The devices

`SessionDevicesProofs`: `InputAddsUp` is the invariant the next two rest on. `PadAgrees`: the
decoder's state, the last report and what the emulator sees are one; `GripPending`: the
last packet of a gamepad in the queue is what is held, or the pad shows it already;
`KeysPending`, key by key: it is held if it last went down, in the queue or in the pad. `EmulatorSeesTheClient` is the case
of an empty queue, `PadLetsGo` that of a pad that is gone. `InputAssumption` says that
the packets named `Noise` are none of the pad's (that `apply_packet` takes nothing from
them) and that a keyboard's codes are a byte. `PeriodsAreWhole` has its own invariant, over the
frames buffered and those read.

### What is only model-checked

All liveness, which the prover does not reach: `StoppedSessionLeaves`, `HandlersReturn`,
`ShutdownAlwaysCompletes`, `AudioStarts`, `PumpComesRoundOnceStarted`, `ServeExits`,
`PinMovesHandshake`, `SubmitReturns`, `ToldDaemonEnds`, the liveness half of
`ImplementsLatestValue`, `ConsoleCatchesUp`, `RecoveryHeard`, `DevicesLetGo`. Every
invariant and every action property of a passing run is a theorem.

## Not modelled, and why

* The launch script and the bench tool `rgsp-cast`: no state of their own.
* The packetizer, shard batches and the GSO socket: vendored; packet layout,
  Reed-Solomon and socket calls on which the modelled state does not depend.
* Discovery, TLS, configuration, ciphers, reverse DNS: I/O and cryptography, done once
  or by a library.
* The JSON-RPC server over IPC: third-party.
* Framebuffer ioctls, `dlopen`, statistics, logging; of the UI's drawing all but the rows.
* The closing of inherited descriptors in a spawned daemon (`service.rs:337`): one call with
  a fallback, between fork and exec.
* Parsing of SDP, of HTTP queries and of the TOML files.

## Plan

Done: the session manager, its streams and the pump; pairing and persistent state; the
daemon's life with its hooks; the control socket; the UI; video; devices; the proofs
above. What is left, in order of worth:

1. `/resume`: `update_keys` and `reset_video_stream` as a third caller of the manager; the
   theorems about `SessionManager` and the pump with them.
2. `SlotIsItsOwners` together with the pump: the thread that still closes when the next
   round opens is joined there, and free to overlap in `VideoStream`.
3. That an access unit holds every NAL unit of every buffer that parses, in order, by the
   same induction as `BuffersDrain`.
