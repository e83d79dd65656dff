------------------------------ MODULE Casting ------------------------------
(***************************************************************************)
(* The life of the daemon as seen from outside: rgsp-host's pidfile,       *)
(* audio routing, startup and shutdown, the UI's Service that starts and   *)
(* stops it, and NextUI's hooks that run beside it.                        *)
(*                                                                         *)
(* They share files and nothing else: the pidfile with its flock, the      *)
(* control socket, .asoundrc, the persisted audio sink.  /tmp is gone      *)
(* after a reboot; .asoundrc and the sink are not.                         *)
(*                                                                         *)
(* CastSink reads .asoundrc, truncates it, writes it and sets the sink in  *)
(* steps of their own, and a daemon may end between any two of them.       *)
(***************************************************************************)
EXTENDS FiniteSets, Naturals

CONSTANTS
    Daemon,     \* the processes that run rgsp-host, and so their pids
    UI,         \* rgsp-ui, which probes the lock
    Nobody,
    Hazards     \* what may go wrong, out of Hazard

Hazard == {"kill",           \* a daemon is killed outright
           "reboot",
           "disk_full",      \* a write to .asoundrc fails, maybe truncated
           "startup_fails",  \* a step of main after the routing fails
           "preempted",      \* an unlink falls between an open and its flock
           "meddled",        \* another manager writes after CastSink has read
           "early_term"}     \* SIGTERM before its handler is registered

ASSUME CastingAssumption ==
    /\ IsFiniteSet(Daemon)
    /\ UI \notin Daemon /\ Nobody \notin Daemon \cup {UI}
    /\ Hazards \subseteq Hazard

VARIABLES
    path,       \* the inode daemon.pid names, 0 when there is none
    flock,      \* who holds the lock of each inode
    pid,        \* the pid written into each inode
    at,         \* where each daemon is, "dead" when it is not running
    fd,         \* the inode each process has open as its pidfile
    previous,   \* CastSink::previous
    told,       \* the daemons whose signal handler has seen SIGTERM
    socket,     \* who answers on control.sock
    asoundrc,   \* what .asoundrc holds
    sink,       \* the audio sink NextUI has persisted
    ui,         \* what Service is doing: its step, and the pid it has read
    hook,       \* what the hook that is running does
    wasCasting, \* the flag pre-sleep leaves for post-resume
    owed,       \* history: what other software last left in .asoundrc
    blamed      \* history: what a fault since may have left behind

files == <<path, flock, pid>>
sound == <<asoundrc, sink, owed, blamed>>
others == <<ui, hook, wasCasting>>
castingVars == <<files, at, fd, previous, told, socket, sound, others>>

Inode == 1..(Cardinality(Daemon) + 2)
Foreign == {"theirs", "empty"}      \* .asoundrc without our marker

At == {"dead", "spawned", "opened", "locked", "acquired",
       "snapped", "truncated", "routed",    \* the steps of CastSink::engage
       "engaged", "bound", "serving", "closing", "parked", "releasing",
       "restoring", "rewriting", "restored", \* and of CastSink::release
       "unlinking", "unlocking"}

\* Between the first thing CastSink::engage overwrites and the end of
\* CastSink::release.
Engaged(d) == at[d] \in {"truncated", "routed", "engaged", "bound", "serving", "closing",
                         "parked", "releasing", "restoring", "rewriting", "restored"}

\* Between PidFile::acquire and the unlink of PidFile::release.
Owner(d) == at[d] \in {"locked", "acquired", "snapped", "unlinking"} \/ Engaged(d)

Alive(d) == at[d] # "dead"

TypeOK ==
    /\ path \in Inode \cup {0}
    /\ flock \in [Inode -> Daemon \cup {UI, Nobody}]
    /\ pid \in [Inode -> Daemon \cup {Nobody}]
    /\ at \in [Daemon -> At]
    /\ fd \in [Daemon \cup {UI} -> Inode \cup {0}]
    /\ previous \in [Daemon -> Foreign \cup {"absent"}]
    /\ told \subseteq Daemon
    /\ socket \in Daemon \cup {Nobody}
    /\ asoundrc \in Foreign \cup {"absent", "ours"}
    /\ sink \in {"DEFAULT", "USBDAC"}
    /\ ui \in [at : {"idle", "read", "probing", "held"}, pid : Daemon \cup {Nobody}]
    /\ hook \in {"none", "boot", "routing", "sleeping"}
    /\ wasCasting \in BOOLEAN
    /\ owed \in {"absent", "theirs"}
    /\ blamed \subseteq {"routing", "sink"}

CastingInit ==
    /\ path = 0
    /\ flock = [i \in Inode |-> Nobody]
    /\ pid = [i \in Inode |-> Nobody]
    /\ at = [d \in Daemon |-> "dead"]
    /\ fd = [p \in Daemon \cup {UI} |-> 0]
    /\ previous = [d \in Daemon |-> "absent"]
    /\ told = {} /\ socket = Nobody
    /\ asoundrc \in {"absent", "theirs"} /\ owed = asoundrc
    /\ sink = "DEFAULT" /\ blamed = {}
    /\ ui = [at |-> "idle", pid |-> Nobody]
    /\ hook = "boot" /\ wasCasting = FALSE

-----------------------------------------------------------------------------
(* PidFile *)

Goes(d, from, to) == at[d] = from /\ at' = [at EXCEPT ![d] = to]

Fresh == CHOOSE i \in Inode : i # path /\ \A p \in DOMAIN fd : fd[p] # i

\* What an inode holds is gone with its last name and its last descriptor.
Kept == [i \in Inode |-> IF i = path \/ \E p \in DOMAIN fd : fd'[p] = i THEN pid[i] ELSE Nobody]

\* acquire opens the file, and creates it when there is none.
AcquireOpens(d) ==
    /\ Goes(d, "spawned", "opened")
    /\ path' = IF path = 0 THEN Fresh ELSE path
    /\ fd' = [fd EXCEPT ![d] = path']
    /\ pid' = IF path = 0 THEN [pid EXCEPT ![path'] = Nobody] ELSE pid
    /\ UNCHANGED <<flock, previous, told, socket, sound, others>>

\* acquire's flock fails while anyone has the lock of that inode.
AcquireFails(d) ==
    /\ Goes(d, "opened", "dead")
    /\ flock[fd[d]] # Nobody
    /\ fd' = [fd EXCEPT ![d] = 0]
    /\ pid' = Kept
    /\ UNCHANGED <<path, flock, previous, told, socket, sound, others>>

\* Mutant of AcquireLocks: a lock that does not exclude.
AcquireLocksShared(d) ==
    /\ Goes(d, "opened", "locked")
    /\ flock' = [flock EXCEPT ![fd[d]] = d]
    /\ UNCHANGED <<path, pid, fd, previous, told, socket, sound, others>>

AcquireLocks(d) ==
    /\ Goes(d, "opened", "locked")
    /\ flock[fd[d]] = Nobody
    /\ flock' = [flock EXCEPT ![fd[d]] = d]
    /\ UNCHANGED <<path, pid, fd, previous, told, socket, sound, others>>

AcquireWrites(d) ==
    /\ Goes(d, "locked", "acquired")
    /\ pid' = [pid EXCEPT ![fd[d]] = d]
    /\ UNCHANGED <<path, flock, fd, previous, told, socket, sound, others>>

\* release unlinks the name, whatever it names by now, and then lets go.
ReleaseUnlinks(d) ==
    /\ Goes(d, "unlinking", "unlocking")
    /\ "preempted" \in Hazards \/ \A e \in Daemon : at[e] # "opened"
    /\ path' = 0
    /\ UNCHANGED <<flock, pid, fd, previous, told, socket, sound, others>>

Unlocked(d) == [i \in Inode |-> IF flock[i] = d THEN Nobody ELSE flock[i]]

ReleaseCloses(d) ==
    /\ Goes(d, "unlocking", "dead")
    /\ flock' = Unlocked(d) /\ fd' = [fd EXCEPT ![d] = 0]
    /\ told' = told \ {d}
    /\ pid' = Kept
    /\ UNCHANGED <<path, previous, socket, sound, others>>

-----------------------------------------------------------------------------
(* CastSink *)

\* The snapshot is of a foreign file only.
Snapshot == IF asoundrc = "ours" THEN "absent" ELSE asoundrc

\* libmsettings saves what it is told.
SetAudioSink(value) == sink' = value

\* CastSink has read the file, and not yet written what it made of it.
Reading(d) == at[d] \in {"snapped", "truncated", "restoring", "rewriting"}

EngageReads(d) ==
    /\ Goes(d, "acquired", "snapped")
    /\ previous' = [previous EXCEPT ![d] = Snapshot]
    /\ UNCHANGED <<files, fd, told, socket, sound, others>>

\* fs::write opens and truncates the file before it writes to it.
EngageTruncates(d) ==
    /\ Goes(d, "snapped", "truncated")
    /\ asoundrc' = "empty"
    /\ blamed' = blamed \ {"routing"}
    /\ UNCHANGED <<files, fd, previous, told, socket, sink, owed, others>>

EngageWrites(d) ==
    /\ Goes(d, "truncated", "routed")
    /\ asoundrc' = "ours"
    /\ UNCHANGED <<files, fd, previous, told, socket, sink, owed, blamed, others>>

EngageSetsSink(d) ==
    /\ Goes(d, "routed", "engaged")
    /\ SetAudioSink("USBDAC")
    /\ blamed' = {}
    /\ UNCHANGED <<files, fd, previous, told, socket, asoundrc, owed, others>>

\* The file cannot be opened, or not be written: main gives the pidfile up and
\* exits without a CastSink to release.
EngageFails(d) ==
    /\ "disk_full" \in Hazards
    /\ at[d] \in {"snapped", "truncated"}
    /\ at' = [at EXCEPT ![d] = "unlinking"]
    /\ owed' = IF at[d] = "truncated" /\ asoundrc = "empty" THEN "absent" ELSE owed
    /\ blamed' = IF asoundrc = "ours" THEN blamed \cup {"routing"} ELSE blamed
    /\ previous' = [previous EXCEPT ![d] = "absent"]
    /\ UNCHANGED <<files, fd, told, socket, asoundrc, sink, others>>

\* Mutant of ShouldRestore: it never looks at the file again.
RestoreAlways(d) == TRUE

\* release restores what it replaced, unless somebody else has been there.
ShouldRestore(d) ==
    asoundrc = "ours" \/ (asoundrc = "absent" /\ previous[d] = "absent")

ReleaseReads(d) ==
    /\ at[d] = "releasing"
    /\ at' = [at EXCEPT ![d] = IF ShouldRestore(d) THEN "restoring" ELSE "restored"]
    /\ UNCHANGED <<files, fd, previous, told, socket, sound, others>>

\* What was not there is removed, what was is truncated and rewritten.
ReleaseTakesBack(d) ==
    /\ at[d] = "restoring"
    /\ IF previous[d] = "absent"
       THEN asoundrc' = "absent" /\ at' = [at EXCEPT ![d] = "restored"]
       ELSE asoundrc' = "empty" /\ at' = [at EXCEPT ![d] = "rewriting"]
    /\ UNCHANGED <<files, fd, previous, told, socket, sink, owed, blamed, others>>

ReleaseRewrites(d) ==
    /\ Goes(d, "rewriting", "restored")
    /\ asoundrc' = previous[d]
    /\ UNCHANGED <<files, fd, previous, told, socket, sink, owed, blamed, others>>

ReleaseSetsSink(d) ==
    /\ Goes(d, "restored", "unlinking")
    /\ SetAudioSink("DEFAULT")
    /\ previous' = [previous EXCEPT ![d] = "absent"]
    /\ UNCHANGED <<files, fd, told, socket, asoundrc, owed, blamed, others>>

\* The write that restores fails: release returns early, the sink as it was.
ReleaseFails(d) ==
    /\ "disk_full" \in Hazards
    /\ at[d] \in {"restoring", "rewriting"} /\ previous[d] # "absent"
    /\ at' = [at EXCEPT ![d] = "unlinking"]
    /\ owed' = "absent"
    /\ previous' = [previous EXCEPT ![d] = "absent"]
    /\ blamed' = {"sink"} \cup (IF asoundrc = "ours" THEN {"routing"} ELSE {})
    /\ UNCHANGED <<files, fd, told, socket, asoundrc, sink, others>>

-----------------------------------------------------------------------------
(* main *)

\* Mutant of StartupFails: it exits like a failure before engage.
StartupFailsBare(d) ==
    /\ Goes(d, "engaged", "unlinking")
    /\ UNCHANGED <<files, fd, previous, told, socket, sound, others>>

\* The configuration, the runtime or the control socket: shutdown runs.
StartupFails(d) ==
    /\ "startup_fails" \in Hazards
    /\ Goes(d, "engaged", "releasing")
    /\ UNCHANGED <<files, fd, previous, told, socket, sound, others>>

\* ControlHandle::serve removes what is at the path and binds.
Bind(d) ==
    /\ Goes(d, "engaged", "bound")
    /\ socket' = d
    /\ UNCHANGED <<files, fd, previous, told, sound, others>>

\* serve's first step; only now does SIGTERM not kill the process.
HandleSignals(d) ==
    /\ Goes(d, "bound", "serving")
    /\ UNCHANGED <<files, fd, previous, told, socket, sound, others>>

\* serve returns when told to, or with an error of its own before the loop.
\* A hardware loop may be parked in the kernel at this time.
ServeReturns(d) ==
    /\ d \in told \/ "startup_fails" \in Hazards
    /\ at[d] = "serving"
    /\ \E to \in {"closing", "parked"} : at' = [at EXCEPT ![d] = to]
    /\ socket' = IF socket = d THEN Nobody ELSE socket
    /\ UNCHANGED <<files, fd, previous, told, sound, others>>

\* Mutant of RuntimeShutsDown: dropping the runtime waits for the loops.
RuntimeWaits(d) ==
    /\ Goes(d, "closing", "releasing")
    /\ UNCHANGED <<files, fd, previous, told, socket, sound, others>>

\* shutdown_timeout: a parked loop is left to the exit of the process.
RuntimeShutsDown(d) ==
    /\ at[d] \in {"closing", "parked"}
    /\ at' = [at EXCEPT ![d] = "releasing"]
    /\ UNCHANGED <<files, fd, previous, told, socket, sound, others>>

\* The process ends where it stands; the kernel drops its lock and sockets.
Dies(d) ==
    /\ at' = [at EXCEPT ![d] = "dead"]
    /\ flock' = Unlocked(d) /\ fd' = [fd EXCEPT ![d] = 0]
    /\ told' = told \ {d}
    /\ socket' = IF socket = d THEN Nobody ELSE socket
    /\ owed' = IF Engaged(d) /\ asoundrc \in {"ours", "empty"} THEN "absent" ELSE owed
    /\ blamed' = IF Engaged(d) THEN {"routing", "sink"} ELSE blamed
    /\ previous' = [previous EXCEPT ![d] = "absent"]
    /\ pid' = Kept
    /\ UNCHANGED <<path, asoundrc, sink>>

Kill(d) ==
    /\ "kill" \in Hazards
    /\ Alive(d)
    /\ Dies(d)
    /\ UNCHANGED others

-----------------------------------------------------------------------------
(* SIGTERM, and who sends it *)

Handled(d) == at[d] \in {"serving", "closing", "parked", "releasing", "restoring",
                         "rewriting", "restored", "unlinking", "unlocking"}

\* kill(2): without a handler the default disposition ends the process.
\* Nothing happens to a pid that names no process.
Terminate(p) ==
    IF p \in Daemon /\ Alive(p) /\ ~Handled(p)
    THEN /\ "early_term" \in Hazards
         /\ Dies(p)
    ELSE /\ told' = IF p \in Daemon /\ Alive(p) THEN told \cup {p} ELSE told
         /\ UNCHANGED <<files, at, fd, previous, socket, sound>>

Spawn ==
    \E d \in Daemon :
        /\ at[d] = "dead" /\ \A e \in Daemon : at[e] # "spawned"
        /\ at' = [at EXCEPT ![d] = "spawned"]

Daemons == <<files, at, fd, previous, told, socket, sound>>
UiGoes(step, p) == ui' = [at |-> step, pid |-> p]
Idle == UiGoes("idle", Nobody)

\* Service::start, for a binary that is there: it spawns, polls, and returns
\* when anything answers or after start_timeout, so at any time at all.
Start ==
    /\ ui.at = "idle" /\ hook # "boot"
    /\ Spawn
    /\ UNCHANGED <<files, fd, previous, told, socket, sound, others>>

\* Service::stop reads the pidfile; without one, or without a pid in it, there
\* is nothing to signal.
StopReads ==
    /\ ui.at = "idle" /\ hook # "boot"
    /\ path # 0
    /\ pid[path] # Nobody
    /\ UiGoes("read", pid[path])
    /\ UNCHANGED <<Daemons, hook, wasCasting>>

\* pidfile_lock_is_held opens the file anew and tries the lock, which for
\* that moment it holds itself if nobody else does.
StopProbes ==
    /\ ui.at = "read"
    /\ CASE path = 0 -> Idle /\ UNCHANGED <<fd, flock>>
         [] path # 0 /\ flock[path] # Nobody -> UiGoes("held", ui.pid) /\ UNCHANGED <<fd, flock>>
         [] OTHER -> /\ UiGoes("probing", ui.pid)
                     /\ fd' = [fd EXCEPT ![UI] = path]
                     /\ flock' = [flock EXCEPT ![path] = UI]
    /\ UNCHANGED <<path, pid, at, previous, told, socket, sound, hook, wasCasting>>

StopUnlocks ==
    /\ ui.at = "probing"
    /\ Idle
    /\ fd' = [fd EXCEPT ![UI] = 0]
    /\ flock' = [flock EXCEPT ![fd[UI]] = Nobody]
    /\ pid' = Kept
    /\ UNCHANGED <<path, at, previous, told, socket, sound, hook, wasCasting>>

\* It signals the pid it has read, and returns when nothing answers any more
\* or after stop_timeout, so again at any time.
StopSignals ==
    /\ ui.at = "held"
    /\ Terminate(ui.pid)
    /\ Idle
    /\ UNCHANGED <<hook, wasCasting>>

-----------------------------------------------------------------------------
(* The hooks, one at a time *)

PidAlive == path # 0 /\ pid[path] # Nobody /\ Alive(pid[path])

HookGoes(from, to) == hook = from /\ hook' = to

\* Mutant of BootHook: it trusts a routing of ours to be in use.
BootHookTrusts ==
    /\ HookGoes("boot", "none")
    /\ blamed' = blamed \ {"routing"}
    /\ UNCHANGED <<files, at, fd, previous, told, socket, asoundrc, sink, owed, ui, wasCasting>>

\* boot.d: crash recovery.
BootHook ==
    /\ HookGoes("boot", "none")
    /\ asoundrc' = IF asoundrc = "ours" /\ ~PidAlive THEN "absent" ELSE asoundrc
    /\ blamed' = blamed \ {"routing"}
    /\ UNCHANGED <<files, at, fd, previous, told, socket, sink, owed, ui, wasCasting>>

\* pre-launch.d: it looks at the pid and at the file, and writes afterwards.
LaunchHookLooks ==
    /\ HookGoes("none", "routing")
    /\ PidAlive /\ asoundrc \notin Foreign
    /\ UNCHANGED <<Daemons, ui, wasCasting>>

LaunchHookWrites ==
    /\ HookGoes("routing", "none")
    /\ asoundrc' = "ours"
    /\ owed' = "absent"
    /\ blamed' = IF \E d \in Daemon : Engaged(d) /\ at[d] # "restored"
                 THEN blamed ELSE blamed \cup {"routing"}
    /\ UNCHANGED <<files, at, fd, previous, told, socket, sink, ui, wasCasting>>

\* pre-sleep.d signals, and waits for the pidfile to go for a time only.
SleepHook ==
    /\ HookGoes("none", "sleeping")
    /\ PidAlive
    /\ Terminate(pid[path])
    /\ wasCasting' = TRUE
    /\ UNCHANGED ui

\* post-resume.d starts the daemon again, the old one gone or not.
ResumeHook ==
    /\ HookGoes("sleeping", "none")
    /\ Spawn
    /\ wasCasting' = FALSE
    /\ UNCHANGED <<files, fd, previous, told, socket, sound, ui>>

-----------------------------------------------------------------------------
(* The rest of the console *)

\* Another audio manager, a headset for instance, rewrites or removes it.
OtherManager ==
    /\ hook # "boot"
    /\ "meddled" \in Hazards \/ \A d \in Daemon : ~Reading(d)
    /\ asoundrc' \in {"theirs", "absent"} /\ asoundrc' # asoundrc
    /\ owed' = asoundrc'
    /\ blamed' = blamed \ {"routing"}
    /\ UNCHANGED <<files, at, fd, previous, told, socket, sink, others>>

Reboot ==
    /\ "reboot" \in Hazards
    /\ path' = 0
    /\ flock' = [i \in Inode |-> Nobody] /\ pid' = [i \in Inode |-> Nobody]
    /\ at' = [d \in Daemon |-> "dead"]
    /\ fd' = [p \in Daemon \cup {UI} |-> 0]
    /\ previous' = [d \in Daemon |-> "absent"]
    /\ told' = {} /\ socket' = Nobody
    /\ owed' = IF asoundrc \in {"ours", "empty"} THEN "absent" ELSE owed
    /\ blamed' = blamed \cup (IF \E d \in Daemon : Engaged(d) THEN {"routing", "sink"} ELSE {})
    /\ Idle /\ hook' = "boot" /\ wasCasting' = FALSE
    /\ UNCHANGED <<asoundrc, sink>>

DaemonStep(d) ==
    \/ AcquireOpens(d) \/ AcquireFails(d) \/ AcquireLocks(d) \/ AcquireWrites(d)
    \/ EngageReads(d) \/ EngageTruncates(d) \/ EngageWrites(d) \/ EngageSetsSink(d)
    \/ EngageFails(d) \/ StartupFails(d) \/ Bind(d) \/ HandleSignals(d)
    \/ ServeReturns(d) \/ RuntimeShutsDown(d)
    \/ ReleaseReads(d) \/ ReleaseTakesBack(d) \/ ReleaseRewrites(d) \/ ReleaseSetsSink(d)
    \/ ReleaseFails(d) \/ ReleaseUnlinks(d) \/ ReleaseCloses(d)

ServiceStep ==
    \/ Start \/ StopReads \/ StopProbes \/ StopUnlocks \/ StopSignals

HookStep ==
    \/ BootHook \/ LaunchHookLooks \/ LaunchHookWrites \/ SleepHook
    \/ ResumeHook

CastingNext ==
    \/ \E d \in Daemon : DaemonStep(d) \/ Kill(d)
    \/ ServiceStep \/ HookStep \/ OtherManager \/ Reboot

\* A process that runs gets on, past starters between open and flock too, and
\* the UI's probe lets go of the lock.
CastingFairness ==
    /\ \A d \in Daemon : WF_castingVars(DaemonStep(d)) /\ SF_castingVars(ReleaseUnlinks(d))
    /\ WF_castingVars(StopUnlocks)

CastingSpec == CastingInit /\ [][CastingNext]_castingVars /\ CastingFairness

-----------------------------------------------------------------------------
(* Properties *)

\* At most one daemon is between PidFile::acquire and the unlink, whatever
\* starts, stops and kills there are: routing and socket have one writer.
OneCaster ==
    \A d, e \in Daemon : Owner(d) /\ Owner(e) => d = e

\* With nobody casting the speaker works and the indicator is out, unless a
\* kill, a full disk or a late hook since the last cast is to blame; the next
\* clean cast and, for the routing, the next boot put that right.
SpeakerIsFree ==
    (\A d \in Daemon : ~Engaged(d)) =>
        /\ asoundrc = "ours" => "routing" \in blamed
        /\ sink = "USBDAC" => "sink" \in blamed

\* A configuration another audio manager has left is there after a cast,
\* whichever of the two wrote last.
ForeignConfigReturns ==
    (\A d \in Daemon : ~Engaged(d)) /\ owed = "theirs" => asoundrc = "theirs"

\* A daemon that has been told to stop ends, whatever its hardware loops are
\* parked in.
ToldDaemonEnds ==
    \A d \in Daemon : d \in told ~> d \notin told

\* main.rs:196: shutdown "Runs on clean shutdown, on SIGTERM/SIGINT, and on
\* every startup failure after `CastSink::engage` succeeded".  No daemon whose
\* engage has succeeded ends and leaves the routing.
SigtermReleases ==
    [][\A d \in Daemon :
          Engaged(d) /\ at[d] \notin {"truncated", "routed"} /\ ~Alive(d)'
              => asoundrc' # "ours"]_castingVars
=============================================================================
