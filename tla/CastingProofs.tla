--------------------------- MODULE CastingProofs ---------------------------
(***************************************************************************)
(* For any number of processes that run rgsp-host: one of them casts, and  *)
(* the routing it borrows is given back.                                   *)
(***************************************************************************)
EXTENDS Casting, FiniteSetTheorems, TLAPS

Process == Daemon \cup {UI}

\* A daemon's inode is the one daemon.pid names from its open to its unlink,
\* and from its flock on it holds that inode's lock.
OwnersNameTheirs ==
    \A d \in Daemon :
        /\ at[d] = "opened" \/ Owner(d) => path # 0 /\ fd[d] = path
        /\ Owner(d) => flock[path] = d

\* The lock the UI's probe takes is one it lets go of.
ProbeHoldsItsOwn ==
    ui.at = "probing" => fd[UI] # 0 /\ flock[fd[UI]] = UI

\* Before the boot hook has run there is nobody to have routed anything.
NobodyAtBoot == hook = "boot" => \A d \in Daemon : ~Alive(d)

\* What a caster replaced is what it owes: it has it in hand from its snapshot
\* until it has put it back.
CasterKeepsIt ==
    owed = "theirs" => \A d \in Daemon :
        /\ at[d] = "snapped" => previous[d] = "theirs"
        /\ at[d] \in {"truncated", "rewriting"} => asoundrc = "empty" /\ previous[d] = "theirs"
        /\ at[d] = "restoring" => asoundrc = "ours" /\ previous[d] = "theirs"
        /\ at[d] = "restored" => asoundrc = "theirs"
        /\ at[d] \in {"routed", "engaged", "bound", "serving", "closing", "parked",
                      "releasing"} =>
              \/ asoundrc = "theirs"
              \/ asoundrc = "ours" /\ previous[d] = "theirs"

\* A routing of ours has a caster that will take it down or a fault to blame,
\* and so has the sink.
RoutingAccounted ==
    asoundrc = "ours" /\ "routing" \notin blamed =>
        \E d \in Daemon : Engaged(d) /\ at[d] # "restored"

SinkAccounted ==
    sink = "USBDAC" /\ "sink" \notin blamed =>
        \E d \in Daemon : Engaged(d) /\ at[d] # "truncated"

Inductive == TypeOK /\ NobodyAtBoot
Locked == OwnersNameTheirs /\ ProbeHoldsItsOwn

-----------------------------------------------------------------------------
(* Inodes *)

\* There is an inode left when no process has it open.
LEMMA FreshIsFree ==
    ASSUME TypeOK, path = 0
    PROVE  Fresh \in Inode /\ Fresh # 0
<1> DEFINE n == Cardinality(Daemon)
           used == {fd[p] : p \in Process}
<1>1. n \in Nat /\ IsFiniteSet(Process) /\ Cardinality(Process) = n + 1
  BY CastingAssumption, FS_CardinalityType, FS_AddElement DEF Process
<1>2. DOMAIN fd = Process /\ fd \in Surjection(Process, used)
  BY DEF TypeOK, Process, Surjection
<1>3. IsFiniteSet(used) /\ Cardinality(used) <= n + 1
  BY <1>1, <1>2, FS_Surjection
<1>4. Cardinality(Inode) = n + 2
  BY <1>1, FS_Interval DEF Inode
<1>5. ~(Inode \subseteq used)
  <2> SUFFICES ASSUME Inode \subseteq used PROVE FALSE
    OBVIOUS
  <2>1. Cardinality(Inode) <= Cardinality(used)
    BY <1>3, FS_Subset
  <2>2. Cardinality(used) \in Nat
    BY <1>3, FS_CardinalityType
  <2> QED BY <1>1, <1>3, <1>4, <2>1, <2>2
<1>6. PICK i \in Inode : i \notin used
  BY <1>5
<1>7. i # path /\ \A p \in DOMAIN fd : fd[p] # i
  <2>1. i # 0
    BY <1>1 DEF Inode
  <2>2. \A p \in Process : fd[p] # i
    BY <1>6
  <2> QED BY <1>2, <2>1, <2>2
<1>8. Fresh \in Inode
  BY <1>7 DEF Fresh
<1> QED BY <1>1, <1>8 DEF Inode

-----------------------------------------------------------------------------
(* Types *)

LEMMA TypeInit == CastingInit => Inductive
<1> SUFFICES ASSUME CastingInit PROVE Inductive
  OBVIOUS
<1>1. NobodyAtBoot
  BY DEF CastingInit, NobodyAtBoot, Alive
<1>2. TypeOK
  <2>1. path \in Inode \cup {0} /\ fd \in [Daemon \cup {UI} -> Inode \cup {0}]
    BY DEF CastingInit
  <2>2. flock \in [Inode -> Daemon \cup {UI, Nobody}] /\ pid \in [Inode -> Daemon \cup {Nobody}]
    BY DEF CastingInit
  <2>3. previous \in [Daemon -> Foreign \cup {"absent"}] /\ asoundrc \in Foreign \cup {"absent", "ours"}
    BY DEF CastingInit, Foreign
  <2> QED BY <2>1, <2>2, <2>3 DEF CastingInit, TypeOK, At
<1> QED BY <1>1, <1>2 DEF Inductive

\* A process that dies leaves every file with its type.
LEMMA DyingKeepsType ==
    ASSUME Inductive, NEW d \in Daemon, Dies(d)
    PROVE  /\ path' \in Inode \cup {0}
           /\ flock' \in [Inode -> Daemon \cup {UI, Nobody}]
           /\ pid' \in [Inode -> Daemon \cup {Nobody}]
           /\ at' \in [Daemon -> At]
           /\ fd' \in [Daemon \cup {UI} -> Inode \cup {0}]
           /\ previous' \in [Daemon -> Foreign \cup {"absent"}]
           /\ told' \subseteq Daemon
           /\ socket' \in Daemon \cup {Nobody}
           /\ owed' \in {"absent", "theirs"}
           /\ blamed' \subseteq {"routing", "sink"}
           /\ UNCHANGED <<asoundrc, sink>>
           /\ \A e \in Daemon : ~Alive(e) => ~Alive(e)'
<1>1. at' \in [Daemon -> At]
  BY DEF Inductive, TypeOK, Dies, At
<1> QED BY <1>1 DEF Inductive, TypeOK, Dies, Unlocked, Kept, Foreign, Alive

\* Each step keeps the types, and lets nothing but a hook leave "boot".
LEMMA TypeStep == Inductive /\ [CastingNext]_castingVars => Inductive'
<1> SUFFICES ASSUME Inductive, [CastingNext]_castingVars PROVE Inductive'
  OBVIOUS
<1> USE CastingAssumption DEF At
<1>1. ASSUME NEW d \in Daemon, AcquireOpens(d) PROVE Inductive'
  <2>1. path' \in Inode
    BY <1>1, FreshIsFree DEF AcquireOpens, Inductive, TypeOK
  <2> QED
    BY <1>1, <2>1 DEF AcquireOpens, Goes, Inductive, TypeOK, NobodyAtBoot, Alive,
       sound, others
<1>2. ASSUME NEW d \in Daemon, AcquireFails(d) PROVE Inductive'
  BY <1>2 DEF AcquireFails, Kept, Goes, Inductive, TypeOK,
     NobodyAtBoot, Alive, sound, others
<1>3. ASSUME NEW d \in Daemon, AcquireLocks(d) PROVE Inductive'
  <2>1. flock' \in [Inode -> Daemon \cup {UI, Nobody}]
    BY <1>3 DEF AcquireLocks, Inductive, TypeOK
  <2>2. UNCHANGED <<path, pid, fd, previous, told, socket, sound, others>>
    BY <1>3 DEF AcquireLocks
  <2> QED
    BY <1>3, <2>1, <2>2
    DEF AcquireLocks, Goes, Inductive, TypeOK, NobodyAtBoot, Alive, sound, others
<1>4. ASSUME NEW d \in Daemon, AcquireWrites(d) PROVE Inductive'
  <2>1. pid' \in [Inode -> Daemon \cup {Nobody}]
    BY <1>4 DEF AcquireWrites, Inductive, TypeOK
  <2>2. UNCHANGED <<path, flock, fd, previous, told, socket, sound, others>>
    BY <1>4 DEF AcquireWrites
  <2> QED
    BY <1>4, <2>1, <2>2
    DEF AcquireWrites, Goes, Inductive, TypeOK, NobodyAtBoot, Alive, sound, others
<1>5. ASSUME NEW d \in Daemon, ReleaseUnlinks(d) PROVE Inductive'
  BY <1>5 DEF ReleaseUnlinks, Goes, Inductive, TypeOK,
     NobodyAtBoot, Alive, sound, others
<1>6. ASSUME NEW d \in Daemon, ReleaseCloses(d) PROVE Inductive'
  BY <1>6 DEF ReleaseCloses, Unlocked, Kept, Goes, Inductive, TypeOK,
     NobodyAtBoot, Alive, sound, others
<1>7. ASSUME NEW d \in Daemon,
             \/ EngageReads(d) \/ EngageTruncates(d) \/ EngageWrites(d) \/ EngageSetsSink(d)
      PROVE  Inductive'
  <2>1. CASE EngageReads(d)
    BY <2>1 DEF EngageReads, Snapshot, Foreign, Goes, Inductive, TypeOK, NobodyAtBoot, Alive,
       files, sound, others
  <2>2. CASE EngageTruncates(d)
    BY <2>2 DEF EngageTruncates, Foreign, Goes, Inductive, TypeOK, NobodyAtBoot, Alive,
       files, others
  <2>3. CASE EngageWrites(d)
    BY <2>3 DEF EngageWrites, Goes, Inductive, TypeOK, NobodyAtBoot, Alive, files, others
  <2>4. CASE EngageSetsSink(d)
    BY <2>4 DEF EngageSetsSink, SetAudioSink, Goes, Inductive, TypeOK, NobodyAtBoot, Alive,
       files, others
  <2> QED BY <1>7, <2>1, <2>2, <2>3, <2>4
<1>8. ASSUME NEW d \in Daemon, EngageFails(d) PROVE Inductive'
  BY <1>8 DEF EngageFails, Foreign, Goes, Inductive, TypeOK,
     NobodyAtBoot, Alive, files, others
<1>9. ASSUME NEW d \in Daemon,
             \/ ReleaseReads(d) \/ ReleaseTakesBack(d) \/ ReleaseRewrites(d)
             \/ ReleaseSetsSink(d)
      PROVE  Inductive'
  <2>1. CASE ReleaseReads(d)
    BY <2>1 DEF ReleaseReads, Inductive, TypeOK, NobodyAtBoot, Alive, files, sound, others
  <2>2. CASE ReleaseTakesBack(d)
    BY <2>2 DEF ReleaseTakesBack, Foreign, Inductive, TypeOK, NobodyAtBoot, Alive, files, others
  <2>3. CASE ReleaseRewrites(d)
    BY <2>3 DEF ReleaseRewrites, Foreign, Goes, Inductive, TypeOK, NobodyAtBoot, Alive,
       files, others
  <2>4. CASE ReleaseSetsSink(d)
    BY <2>4 DEF ReleaseSetsSink, SetAudioSink, Foreign, Goes, Inductive, TypeOK,
       NobodyAtBoot, Alive, files, others
  <2> QED BY <1>9, <2>1, <2>2, <2>3, <2>4
<1>10. ASSUME NEW d \in Daemon, ReleaseFails(d) PROVE Inductive'
  BY <1>10 DEF ReleaseFails, Foreign, Goes, Inductive, TypeOK,
     NobodyAtBoot, Alive, files, others
<1>11. ASSUME NEW d \in Daemon, StartupFails(d) PROVE Inductive'
  BY <1>11 DEF StartupFails, Goes, Inductive, TypeOK,
     NobodyAtBoot, Alive, files, sound, others
<1>12. ASSUME NEW d \in Daemon, Bind(d) PROVE Inductive'
  BY <1>12 DEF Bind, Goes, Inductive, TypeOK,
     NobodyAtBoot, Alive, files, sound, others
<1>13. ASSUME NEW d \in Daemon, HandleSignals(d) PROVE Inductive'
  BY <1>13 DEF HandleSignals, Goes, Inductive, TypeOK,
     NobodyAtBoot, Alive, files, sound, others
<1>14. ASSUME NEW d \in Daemon, ServeReturns(d) PROVE Inductive'
  BY <1>14 DEF ServeReturns, Goes, Inductive, TypeOK,
     NobodyAtBoot, Alive, files, sound, others
<1>15. ASSUME NEW d \in Daemon, RuntimeShutsDown(d) PROVE Inductive'
  BY <1>15 DEF RuntimeShutsDown, Goes, Inductive, TypeOK,
     NobodyAtBoot, Alive, files, sound, others
<1> HIDE DEF At
<1>16. ASSUME NEW d \in Daemon, Kill(d) PROVE Inductive'
  BY <1>16, DyingKeepsType DEF Kill, Inductive, TypeOK, NobodyAtBoot, others
<1>17. ASSUME NEW p \in Daemon \cup {Nobody}, Terminate(p),
             sink' = sink, asoundrc' = asoundrc,
             ui' \in [at : {"idle", "read", "probing", "held"}, pid : Daemon \cup {Nobody}],
             hook' \in {"none", "boot", "routing", "sleeping"}, wasCasting' \in BOOLEAN,
             hook' = "boot" => hook = "boot"
      PROVE  Inductive'
  <2>1. CASE p \in Daemon /\ Dies(p)
    BY <1>17, <2>1, DyingKeepsType DEF Inductive, TypeOK, NobodyAtBoot
  <2>2. CASE UNCHANGED <<files, at, fd, previous, socket, sound>> /\ told' \subseteq Daemon
    BY <1>17, <2>2 DEF Inductive, TypeOK, NobodyAtBoot, Alive, files, sound
  <2> QED BY <1>17, <2>1, <2>2 DEF Terminate, Inductive, TypeOK
<1>18. ASSUME Start \/ ResumeHook PROVE Inductive'
  <2>1. hook' # "boot" /\ hook' \in {"none", "sleeping", "routing"} /\ wasCasting' \in BOOLEAN
    BY <1>18 DEF Start, ResumeHook, HookGoes, Inductive, TypeOK, others
  <2>2. UNCHANGED <<files, fd, previous, told, socket, sound, ui>>
    BY <1>18 DEF Start, ResumeHook, others
  <2>3. at' \in [Daemon -> At]
    BY <1>18 DEF Start, ResumeHook, Spawn, Inductive, TypeOK, At
  <2> QED BY <2>1, <2>2, <2>3 DEF Inductive, TypeOK, NobodyAtBoot, files, sound
<1>19. ASSUME StopReads \/ StopProbes \/ StopUnlocks PROVE Inductive'
  BY <1>19 DEF StopReads, StopProbes, StopUnlocks, UiGoes, Idle, Kept, Daemons,
     Inductive, TypeOK, NobodyAtBoot, Alive, files, sound
<1>20. ASSUME StopSignals PROVE Inductive'
  <2>1. sink' = sink /\ asoundrc' = asoundrc
    BY <1>20 DEF StopSignals, Terminate, Dies, sound
  <2>2. ui.pid \in Daemon \cup {Nobody} /\ UNCHANGED <<hook, wasCasting>>
    BY <1>20 DEF StopSignals, Inductive, TypeOK
  <2>3. ui' \in [at : {"idle", "read", "probing", "held"}, pid : Daemon \cup {Nobody}]
    BY <1>20 DEF StopSignals, Idle, UiGoes
  <2> QED BY <1>17, <1>20, <2>1, <2>2, <2>3 DEF StopSignals, Inductive, TypeOK
<1>21. ASSUME SleepHook PROVE Inductive'
  <2>1. sink' = sink /\ asoundrc' = asoundrc
    BY <1>21 DEF SleepHook, Terminate, Dies, sound
  <2>2. pid[path] \in Daemon \cup {Nobody}
    BY <1>21 DEF SleepHook, PidAlive, Inductive, TypeOK
  <2> QED BY <1>17, <1>21, <2>1, <2>2 DEF SleepHook, HookGoes, Inductive, TypeOK
<1>22. ASSUME BootHook \/ LaunchHookLooks \/ LaunchHookWrites \/ OtherManager
       PROVE  Inductive'
  <2>1. CASE BootHook
    BY <2>1 DEF BootHook, HookGoes, Daemons, Inductive, TypeOK, NobodyAtBoot, Alive, files
  <2>2. CASE LaunchHookLooks \/ LaunchHookWrites
    BY <2>2 DEF LaunchHookLooks, LaunchHookWrites, HookGoes, Daemons,
       Inductive, TypeOK, NobodyAtBoot, Alive, files, sound
  <2>3. CASE OtherManager
    BY <2>3 DEF OtherManager, Daemons, Foreign, Inductive, TypeOK, NobodyAtBoot, Alive,
       files, others
  <2> QED BY <1>22, <2>1, <2>2, <2>3
<1>23. ASSUME Reboot PROVE Inductive'
  BY <1>23 DEF Reboot, Idle, UiGoes, Inductive, TypeOK, NobodyAtBoot, Alive, Foreign, At
<1>24. ASSUME UNCHANGED castingVars PROVE Inductive'
  BY <1>24 DEF castingVars, files, sound, others, Inductive, TypeOK, NobodyAtBoot, Alive
<1> QED
  BY <1>1, <1>2, <1>3, <1>4, <1>5, <1>6, <1>7, <1>8, <1>9, <1>10, <1>11,
     <1>12, <1>13, <1>14, <1>15, <1>16, <1>18, <1>19, <1>20, <1>21, <1>22,
     <1>23, <1>24
  DEF CastingNext, DaemonStep, ServiceStep, HookStep

\* Every variable has its type, and nobody runs before the boot hook has.
THEOREM CastingTypeCorrect == CastingSpec => []TypeOK
<1>1. Inductive => TypeOK
  BY DEF Inductive
<1> QED BY <1>1, TypeInit, TypeStep, PTL DEF CastingSpec

-----------------------------------------------------------------------------
(* One caster *)

LEMMA LockedInit == CastingInit => Locked
  BY DEF CastingInit, Locked, OwnersNameTheirs, ProbeHoldsItsOwn, Owner, Engaged

\* The daemons but the one that takes a step go on as they were.
LEMMA LockedStep ==
  ASSUME "preempted" \notin Hazards
  PROVE  TypeOK /\ Locked /\ [CastingNext]_castingVars => Locked'
<1> SUFFICES ASSUME TypeOK, Locked, [CastingNext]_castingVars PROVE Locked'
  OBVIOUS
<1> USE CastingAssumption DEF TypeOK
<1> DEFINE Same == UNCHANGED <<path, flock, fd, ui>>
\* A step along the way from engaged to the unlink.
<1>1. ASSUME NEW d \in Daemon, Same,
             Owner(d), NEW to, at' = [at EXCEPT ![d] = to], to # "opened"
      PROVE  Locked'
  BY <1>1 DEF Locked, OwnersNameTheirs, ProbeHoldsItsOwn, Owner, Engaged
<1>2. ASSUME NEW d \in Daemon, AcquireOpens(d) PROVE Locked'
  <2>1. /\ path' \in Inode /\ path' # 0 /\ fd' = [fd EXCEPT ![d] = path']
        /\ path # 0 => path' = path
    BY <1>2, FreshIsFree DEF AcquireOpens, Inode
  <2>2. at[d] = "spawned" /\ at' = [at EXCEPT ![d] = "opened"] /\ UNCHANGED <<flock, ui>>
    BY <1>2 DEF AcquireOpens, Goes, others
  <2>3. OwnersNameTheirs'
    BY <2>1, <2>2 DEF Locked, OwnersNameTheirs, Owner, Engaged
  <2>4. ProbeHoldsItsOwn'
    BY <2>1, <2>2 DEF Locked, ProbeHoldsItsOwn
  <2> QED BY <2>3, <2>4 DEF Locked
<1>3. ASSUME NEW d \in Daemon, AcquireFails(d) PROVE Locked'
  BY <1>3 DEF AcquireFails, Goes, others, Locked, OwnersNameTheirs, ProbeHoldsItsOwn,
     Owner, Engaged
<1>4. ASSUME NEW d \in Daemon, AcquireLocks(d) PROVE Locked'
  <2>1. at[d] = "opened" /\ fd[d] = path /\ path \in Inode /\ flock[path] = Nobody
    BY <1>4 DEF AcquireLocks, Goes, Locked, OwnersNameTheirs
  <2>2. flock' = [flock EXCEPT ![path] = d] /\ at' = [at EXCEPT ![d] = "locked"]
        /\ UNCHANGED <<path, fd, ui>>
    BY <1>4, <2>1 DEF AcquireLocks, Goes, others
  <2>3. OwnersNameTheirs'
    BY <2>1, <2>2 DEF Locked, OwnersNameTheirs, Owner, Engaged
  <2>4. ProbeHoldsItsOwn'
    BY <2>1, <2>2 DEF Locked, ProbeHoldsItsOwn
  <2> QED BY <2>3, <2>4 DEF Locked
<1>5. ASSUME NEW d \in Daemon,
             \/ AcquireWrites(d) \/ EngageReads(d) \/ EngageTruncates(d) \/ EngageWrites(d)
             \/ EngageSetsSink(d) \/ EngageFails(d)
      PROVE  Locked'
  BY <1>1, <1>5 DEF AcquireWrites, EngageReads, EngageTruncates, EngageWrites,
     EngageSetsSink, EngageFails, Goes, others, files, Owner, Engaged
<1>6. ASSUME NEW d \in Daemon,
             \/ StartupFails(d) \/ Bind(d) \/ HandleSignals(d) \/ ServeReturns(d)
             \/ RuntimeShutsDown(d) \/ ReleaseReads(d) \/ ReleaseTakesBack(d)
             \/ ReleaseRewrites(d) \/ ReleaseSetsSink(d) \/ ReleaseFails(d)
      PROVE  Locked'
  BY <1>1, <1>6 DEF StartupFails, Bind, HandleSignals, ServeReturns, RuntimeShutsDown,
     ReleaseReads, ReleaseTakesBack, ReleaseRewrites, ReleaseSetsSink, ReleaseFails,
     Goes, others, files, Owner, Engaged
<1>7. ASSUME NEW d \in Daemon, ReleaseUnlinks(d) PROVE Locked'
  <2>1. \A e \in Daemon : at[e] # "opened"
    BY <1>7 DEF ReleaseUnlinks
  <2>2. \A e \in Daemon : Owner(e) => e = d
    BY <1>7 DEF ReleaseUnlinks, Goes, Locked, OwnersNameTheirs, Owner
  <2>3. at' = [at EXCEPT ![d] = "unlocking"] /\ UNCHANGED <<flock, fd, ui>>
    BY <1>7 DEF ReleaseUnlinks, Goes, others
  <2> QED
    BY <2>1, <2>2, <2>3 DEF Locked, OwnersNameTheirs, ProbeHoldsItsOwn, Owner, Engaged
\* A process that ends lets go of its own locks only.
<1>8. ASSUME NEW d \in Daemon, flock' = Unlocked(d), fd' = [fd EXCEPT ![d] = 0],
             at' = [at EXCEPT ![d] = "dead"], path' = path,
             ui' = ui \/ ui' = [at |-> "idle", pid |-> Nobody]
      PROVE  Locked'
  <2>1. OwnersNameTheirs'
    BY <1>8 DEF Locked, OwnersNameTheirs, Unlocked, Owner, Engaged
  <2>2. ProbeHoldsItsOwn'
    BY <1>8 DEF Locked, ProbeHoldsItsOwn, Unlocked
  <2> QED BY <2>1, <2>2 DEF Locked
<1>9. ASSUME NEW d \in Daemon, ReleaseCloses(d) \/ Kill(d) PROVE Locked'
  BY <1>8, <1>9 DEF ReleaseCloses, Kill, Dies, Goes, others
<1>10. ASSUME NEW p, Terminate(p), ui' = ui \/ ui' = [at |-> "idle", pid |-> Nobody]
       PROVE  Locked'
  <2>1. CASE p \in Daemon /\ Dies(p)
    BY <1>8, <1>10, <2>1 DEF Dies
  <2>2. CASE UNCHANGED <<files, at, fd>>
    BY <1>10, <2>2 DEF files, Locked, OwnersNameTheirs, ProbeHoldsItsOwn, Owner, Engaged
  <2> QED BY <1>10, <2>1, <2>2 DEF Terminate
<1>11. ASSUME StopSignals \/ SleepHook PROVE Locked'
  BY <1>10, <1>11 DEF StopSignals, SleepHook, Idle, UiGoes
<1>12. ASSUME Start \/ ResumeHook PROVE Locked'
  BY <1>12 DEF Start, ResumeHook, Spawn, files, others, Locked, OwnersNameTheirs,
     ProbeHoldsItsOwn, Owner, Engaged
<1>13. ASSUME StopReads PROVE Locked'
  BY <1>13 DEF StopReads, UiGoes, Daemons, files, Locked, OwnersNameTheirs,
     ProbeHoldsItsOwn, Owner, Engaged
<1>14. ASSUME StopProbes PROVE Locked'
  <2>1. UNCHANGED <<path, at>>
    BY <1>14 DEF StopProbes
  <2>2. CASE ui'.at # "probing" /\ UNCHANGED <<fd, flock>>
    BY <2>1, <2>2 DEF Locked, OwnersNameTheirs, ProbeHoldsItsOwn, Owner, Engaged
  <2>3. CASE path # 0 /\ flock[path] = Nobody /\ fd' = [fd EXCEPT ![UI] = path]
             /\ flock' = [flock EXCEPT ![path] = UI]
    BY <2>1, <2>3 DEF Locked, OwnersNameTheirs, ProbeHoldsItsOwn, Owner, Engaged
  <2> QED BY <1>14, <2>2, <2>3 DEF StopProbes, Idle, UiGoes
<1>15. ASSUME StopUnlocks PROVE Locked'
  <2>1. fd[UI] \in Inode /\ flock[fd[UI]] = UI
    BY <1>15 DEF StopUnlocks, Locked, ProbeHoldsItsOwn
  <2> QED
    BY <1>15, <2>1 DEF StopUnlocks, Idle, UiGoes, Locked, OwnersNameTheirs,
       ProbeHoldsItsOwn, Owner, Engaged
<1>16. ASSUME BootHook \/ LaunchHookLooks \/ LaunchHookWrites \/ OtherManager
              \/ UNCHANGED castingVars
       PROVE  Locked'
  BY <1>16 DEF BootHook, LaunchHookLooks, LaunchHookWrites, OtherManager, Daemons,
     castingVars, files, others, Locked, OwnersNameTheirs, ProbeHoldsItsOwn, Owner, Engaged
<1>17. ASSUME Reboot PROVE Locked'
  BY <1>17 DEF Reboot, Idle, UiGoes, Locked, OwnersNameTheirs, ProbeHoldsItsOwn,
     Owner, Engaged
<1> QED
  BY <1>2, <1>3, <1>4, <1>5, <1>6, <1>7, <1>9, <1>11, <1>12, <1>13, <1>14, <1>15,
     <1>16, <1>17
  DEF CastingNext, DaemonStep, ServiceStep, HookStep

\* daemon.rs:57: as long as no unlink falls between another's open and its
\* flock, at most one daemon casts.
THEOREM OneCasterAlways ==
  ASSUME "preempted" \notin Hazards
  PROVE  CastingSpec => []OneCaster
<1>1. TypeOK /\ Locked => OneCaster
  BY DEF TypeOK, Locked, OwnersNameTheirs, OneCaster
<1>2. Inductive => TypeOK
  BY DEF Inductive
<1> QED
  BY <1>1, <1>2, TypeInit, TypeStep, LockedInit, LockedStep, PTL DEF CastingSpec

-----------------------------------------------------------------------------
(* What the caster borrowed *)

LEMMA AccountedStep ==
    Inductive /\ RoutingAccounted /\ SinkAccounted /\ [CastingNext]_castingVars
        => RoutingAccounted' /\ SinkAccounted'
<1> DEFINE Accounted == RoutingAccounted /\ SinkAccounted
<1> SUFFICES ASSUME Inductive, Accounted, [CastingNext]_castingVars
             PROVE  Accounted'
  OBVIOUS
<1> USE CastingAssumption DEF Inductive, TypeOK, RoutingAccounted, SinkAccounted, Engaged
<1>1. ASSUME UNCHANGED sound,
             \A d \in Daemon : Engaged(d) =>
                 /\ Engaged(d)'
                 /\ at'[d] = "restored" => at[d] = "restored"
                 /\ at'[d] = "truncated" => at[d] = "truncated"
      PROVE  Accounted'
  BY <1>1 DEF sound
<1>2. ASSUME NEW d \in Daemon,
             \/ AcquireOpens(d) \/ AcquireFails(d) \/ AcquireLocks(d) \/ AcquireWrites(d)
             \/ EngageReads(d) \/ StartupFails(d) \/ Bind(d) \/ HandleSignals(d)
             \/ ServeReturns(d) \/ RuntimeShutsDown(d) \/ ReleaseUnlinks(d) \/ ReleaseCloses(d)
      PROVE  Accounted'
  BY <1>1, <1>2 DEF AcquireOpens, AcquireFails, AcquireLocks, AcquireWrites, EngageReads,
     StartupFails, Bind, HandleSignals, ServeReturns, RuntimeShutsDown, ReleaseUnlinks,
     ReleaseCloses, Goes
<1>3. ASSUME NEW d \in Daemon, EngageTruncates(d) \/ EngageWrites(d) PROVE Accounted'
  BY <1>3 DEF EngageTruncates, EngageWrites, Goes
<1>4. ASSUME NEW d \in Daemon, EngageSetsSink(d) \/ ReleaseSetsSink(d) PROVE Accounted'
  BY <1>4 DEF EngageSetsSink, ReleaseSetsSink, SetAudioSink, Goes
<1>5. ASSUME NEW d \in Daemon, EngageFails(d) \/ ReleaseFails(d) PROVE Accounted'
  BY <1>5 DEF EngageFails, ReleaseFails
<1>6. ASSUME NEW d \in Daemon, ReleaseReads(d) \/ ReleaseTakesBack(d) \/ ReleaseRewrites(d)
      PROVE  Accounted'
  BY <1>6 DEF ReleaseReads, ReleaseTakesBack, ReleaseRewrites, ShouldRestore, Goes, Foreign,
     sound
<1>7. ASSUME NEW d \in Daemon, Dies(d) PROVE Accounted'
  BY <1>7 DEF Dies
<1>8. ASSUME NEW p, Terminate(p) PROVE Accounted'
  BY <1>1, <1>7, <1>8 DEF Terminate
<1>9. ASSUME Start \/ ResumeHook PROVE Accounted'
  BY <1>1, <1>9 DEF Start, ResumeHook, Spawn
<1>10. ASSUME StopReads \/ StopProbes \/ StopUnlocks \/ LaunchHookLooks PROVE Accounted'
  BY <1>1, <1>10 DEF StopReads, StopProbes, StopUnlocks, LaunchHookLooks, Daemons
\* At boot no pid is alive, so a routing of ours is taken down.
<1>11. ASSUME BootHook PROVE Accounted'
  <2>1. ~PidAlive
    BY <1>11 DEF BootHook, HookGoes, NobodyAtBoot, PidAlive, Alive
  <2> QED BY <1>11, <2>1 DEF BootHook
<1>12. ASSUME LaunchHookWrites PROVE Accounted'
  BY <1>12 DEF LaunchHookWrites
<1>13. ASSUME OtherManager PROVE Accounted'
  BY <1>13 DEF OtherManager
<1>14. ASSUME Reboot PROVE Accounted'
  BY <1>14 DEF Reboot
<1>15. ASSUME UNCHANGED castingVars PROVE Accounted'
  BY <1>1, <1>15 DEF castingVars
<1> QED
  BY <1>2, <1>3, <1>4, <1>5, <1>6, <1>7, <1>8, <1>9, <1>10, <1>11, <1>12, <1>13,
     <1>14, <1>15
  DEF CastingNext, DaemonStep, ServiceStep, HookStep, Kill, StopSignals, SleepHook

\* routing.rs:24: with nobody casting the speaker works and the indicator is
\* out, unless a kill, a full disk or a late hook since is to blame.
THEOREM SpeakerAlwaysFree == CastingSpec => []SpeakerIsFree
<1>1. CastingInit => RoutingAccounted /\ SinkAccounted
  BY DEF CastingInit, RoutingAccounted, SinkAccounted
<1>2. RoutingAccounted /\ SinkAccounted => SpeakerIsFree
  BY DEF RoutingAccounted, SinkAccounted, SpeakerIsFree
<1> QED BY <1>1, <1>2, TypeInit, TypeStep, AccountedStep, PTL DEF CastingSpec

LEMMA CasterStep ==
  ASSUME "meddled" \notin Hazards
  PROVE  Inductive /\ OneCaster /\ CasterKeepsIt /\ ForeignConfigReturns
             /\ [CastingNext]_castingVars => CasterKeepsIt' /\ ForeignConfigReturns'
<1> DEFINE Returns == CasterKeepsIt /\ ForeignConfigReturns
<1> SUFFICES ASSUME Inductive, OneCaster, Returns, [CastingNext]_castingVars
             PROVE  Returns'
  OBVIOUS
<1> USE CastingAssumption DEF Inductive, TypeOK, CasterKeepsIt, ForeignConfigReturns, Engaged
<1> DEFINE Between == {"routed", "engaged", "bound", "serving", "closing", "parked", "releasing"}
<1>1. ASSUME UNCHANGED <<sound, previous>>,
             \A d \in Daemon : at'[d] = at[d] \/ (at[d] \in Between /\ at'[d] \in Between)
                               \/ (~Engaged(d) /\ ~Engaged(d)' /\ at'[d] # "snapped")
      PROVE  Returns'
  BY <1>1 DEF sound
<1>2. ASSUME NEW d \in Daemon,
             \/ AcquireOpens(d) \/ AcquireFails(d) \/ AcquireLocks(d) \/ AcquireWrites(d)
             \/ StartupFails(d) \/ Bind(d) \/ HandleSignals(d) \/ ServeReturns(d)
             \/ RuntimeShutsDown(d) \/ ReleaseUnlinks(d) \/ ReleaseCloses(d)
      PROVE  Returns'
  BY <1>1, <1>2 DEF AcquireOpens, AcquireFails, AcquireLocks, AcquireWrites, StartupFails,
     Bind, HandleSignals, ServeReturns, RuntimeShutsDown, ReleaseUnlinks, ReleaseCloses, Goes
\* The snapshot is of what is owed: nobody else has the routing.
<1>3. ASSUME NEW d \in Daemon, EngageReads(d) PROVE Returns'
  <2>1. \A e \in Daemon : ~Engaged(e) /\ at[e] # "snapped"
    BY <1>3 DEF EngageReads, Goes, OneCaster, Owner
  <2>2. owed = "theirs" => previous'[d] = "theirs"
    BY <1>3, <2>1 DEF EngageReads, Snapshot
  <2> QED BY <1>3, <2>1, <2>2 DEF EngageReads, Goes, sound
<1>4. ASSUME NEW d \in Daemon,
             \/ EngageTruncates(d) \/ EngageWrites(d) \/ EngageSetsSink(d)
             \/ ReleaseReads(d) \/ ReleaseTakesBack(d) \/ ReleaseRewrites(d)
             \/ ReleaseSetsSink(d) \/ EngageFails(d)
      PROVE  Returns'
  <2>1. Owner(d) /\ at[d] # "locked" /\ at[d] # "acquired"
    BY <1>4 DEF EngageTruncates, EngageWrites, EngageSetsSink, EngageFails, ReleaseReads,
       ReleaseTakesBack, ReleaseRewrites, ReleaseSetsSink, Goes, Owner
  <2>2. \A e \in Daemon \ {d} : ~Engaged(e) /\ at[e] # "snapped" /\ at'[e] = at[e]
    BY <1>4, <2>1 DEF EngageTruncates, EngageWrites, EngageSetsSink, EngageFails, ReleaseReads,
       ReleaseTakesBack, ReleaseRewrites, ReleaseSetsSink, Goes, Owner, OneCaster
  <2>3. CASE EngageTruncates(d) \/ EngageWrites(d) \/ EngageSetsSink(d)
    BY <2>2, <2>3 DEF EngageTruncates, EngageWrites, EngageSetsSink, Goes
  <2>4. CASE ReleaseReads(d) \/ ReleaseRewrites(d) \/ ReleaseSetsSink(d)
    BY <2>2, <2>4 DEF ReleaseReads, ReleaseRewrites, ReleaseSetsSink, ShouldRestore, Goes, sound
  <2>5. CASE ReleaseTakesBack(d)
    BY <2>2, <2>5 DEF ReleaseTakesBack
  <2>6. CASE EngageFails(d)
    BY <2>2, <2>6 DEF EngageFails
  <2> QED BY <1>4, <2>3, <2>4, <2>5, <2>6
<1>5. ASSUME NEW d \in Daemon, ReleaseFails(d) PROVE Returns'
  BY <1>5 DEF ReleaseFails
<1>6. ASSUME NEW d \in Daemon, Dies(d) PROVE Returns'
  BY <1>6 DEF Dies
<1>7. ASSUME NEW p, Terminate(p) PROVE Returns'
  BY <1>1, <1>6, <1>7 DEF Terminate
<1>8. ASSUME Start \/ ResumeHook PROVE Returns'
  BY <1>1, <1>8 DEF Start, ResumeHook, Spawn
<1>9. ASSUME StopReads \/ StopProbes \/ StopUnlocks \/ LaunchHookLooks PROVE Returns'
  BY <1>1, <1>9 DEF StopReads, StopProbes, StopUnlocks, LaunchHookLooks, Daemons
<1>10. ASSUME BootHook PROVE Returns'
  BY <1>10 DEF BootHook, HookGoes, NobodyAtBoot, Alive
<1>11. ASSUME LaunchHookWrites PROVE Returns'
  BY <1>11 DEF LaunchHookWrites
<1>12. ASSUME OtherManager PROVE Returns'
  BY <1>12 DEF OtherManager, Reading
<1>13. ASSUME Reboot PROVE Returns'
  BY <1>13 DEF Reboot
<1>14. ASSUME UNCHANGED castingVars PROVE Returns'
  BY <1>1, <1>14 DEF castingVars
<1> QED
  BY <1>2, <1>3, <1>4, <1>5, <1>6, <1>7, <1>8, <1>9, <1>10, <1>11, <1>12,
     <1>13, <1>14
  DEF CastingNext, DaemonStep, ServiceStep, HookStep, Kill, StopSignals, SleepHook

\* routing.rs:60: what another audio manager has left in .asoundrc is there
\* after a cast, however often it was rewritten and whoever was killed; only
\* between CastSink's own read and write nobody else may write.
THEOREM ForeignConfigAlwaysReturns ==
  ASSUME "preempted" \notin Hazards, "meddled" \notin Hazards
  PROVE  CastingSpec => []ForeignConfigReturns
<1>1. CastingInit => CasterKeepsIt /\ ForeignConfigReturns
  BY DEF CastingInit, CasterKeepsIt, ForeignConfigReturns, Engaged
<1> QED
  BY <1>1, TypeInit, TypeStep, OneCasterAlways, CasterStep, PTL DEF CastingSpec
=============================================================================
