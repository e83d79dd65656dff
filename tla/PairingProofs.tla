---------------------------- MODULE PairingProofs ----------------------------
(***************************************************************************)
(* What Pairing keeps true for every set of attempts, machines and ids and *)
(* all its hazards: the lock of the pending set has one holder, the file   *)
(* keeps up with the memory, the published lists with what they list.      *)
(***************************************************************************)
EXTENDS Pairing, TLAPS

UserCalls ==
    \/ \E i \in Pending : \E pin \in {pending[i].owner, Typo} : SubmitPin(i, pin)
    \/ \E m \in Machine : UnpairRemoves(m)
    \/ SubmitEnds \/ UnpairGoesOn \/ UnpairFails

Idle == UNCHANGED vars

\* Who has the file open, and that nothing goes on while the daemon is down.
Writers ==
    /\ \A a \in Attempt : a \in writing => attempt[a] \in {"saving_cert", "saving_client"}
    /\ "unpair" \in writing => unpairing # NoOne
    /\ "boot" \in writing => daemon = "booting"
    /\ daemon # "up" => holder = NoOne /\ unpairing = NoOne /\ watcher = "pending"
    /\ daemon = "down" => writing = {}

LEMMA KindsOfSteps ==
    [Next]_vars =>
        \/ \E a \in Attempt : Handshake(a) \/ Serving(a)
        \/ UserCalls \/ Watch \/ Crash \/ Boots \/ Idle
  BY DEF Next, UserCalls, Idle

-----------------------------------------------------------------------------
(* Types, and the lock of the pending set.                                 *)

LEMMA TypesInitially == Init => TypeOK
  <1> SUFFICES ASSUME Init PROVE TypeOK
    OBVIOUS
  <1>1. AttemptsOK
    BY DEF Init, AttemptsOK, AttemptState
  <1>2. LockOK
    BY NamesAssumption DEF Init, LockOK, Locking
  <1>3. PendingOK
    BY DEF Init, PendingOK, EntryType, Party, NoEntry
  <1>4. CallsOK
    BY DEF Init, CallsOK
  <1>7. DaemonOK
    <2>1. daemon = "up" /\ crashes = 0 /\ unsaved = FALSE
      BY DEF Init
    <2>2. crashes \in 0..MaxCrashes
      BY <2>1, CrashesAssumption
    <2> QED BY <2>1, <2>2, Zenon DEF DaemonOK
  <1>6. WatcherOK
    <2>1. {} \in SUBSET Id /\ {} \in SUBSET Machine
      OBVIOUS
    <2> QED BY <2>1 DEF Init, WatcherOK
  <1>5. State!StateTypeOK
    BY DEF Init, State!StateInit, State!StateTypeOK, State!Data
  <1> QED BY <1>1, <1>2, <1>3, <1>4, <1>5, <1>6, <1>7 DEF TypeOK

\* Where an attempt may go, and what becomes of the lock with it.
LEMMA AttemptsKept ==
    ASSUME AttemptsOK, LockOK, Writers, [Next]_vars
    PROVE  AttemptsOK' /\ LockOK'
  <1> USE NamesAssumption DEF AttemptsOK, LockOK, Locking, AttemptState, Goto, Free, Refuse
  <1>1. ASSUME NEW a \in Attempt,
               \/ AddPending(a) \/ AwaitPin(a) \/ Answer(a) \/ Disconnect(a) \/ GiveUp(a)
        PROVE  AttemptsOK' /\ LockOK'
    BY <1>1 DEF AddPending, AwaitPin, Answer, Disconnect, GiveUp
  <1>2. ASSUME NEW a \in Attempt,
               ClientChallenge(a) \/ ServerChallengeResponse(a) \/ Reject(a)
        PROVE  AttemptsOK' /\ LockOK'
    BY <1>2 DEF ClientChallenge, ServerChallengeResponse, Reject
  <1>3. ASSUME NEW a \in Attempt,
               Verify(a) \/ SaveFails(a) \/ RemovePending(a)
        PROVE  AttemptsOK' /\ LockOK'
    BY <1>3 DEF Verify, SaveFails, RemovePending
  <1>4. ASSUME NEW a \in Attempt, Save(a) \/ AddClient(a)
        PROVE  AttemptsOK' /\ LockOK'
    BY <1>4 DEF Save, AddClient
  <1>5. ASSUME NEW a \in Attempt, Saved(a)
        PROVE  AttemptsOK' /\ LockOK'
    BY <1>5 DEF Saved, State!Written, Writers
  <1>6. CASE Crash
    BY <1>6 DEF Crash
  <1>7. CASE UserCalls
    BY <1>7 DEF UserCalls, SubmitPin, UnpairRemoves, SubmitEnds, TimedOut, Resolved,
                UnpairGoesOn, UnpairSaves, UnpairSaved, UnpairFails
  <1>8. CASE Watch \/ Boots \/ Idle
    BY <1>8 DEF Watch, WatcherWakes, PublishPaired, PublishPending,
                Boots, Start, StartSaves, StartSaved, Idle, vars
  <1> QED
    BY <1>1, <1>2, <1>3, <1>4, <1>5, <1>6, <1>7, <1>8, KindsOfSteps DEF Handshake, Serving

LEMMA PendingKept ==
    ASSUME AttemptsOK, PendingOK, [Next]_vars
    PROVE  PendingOK'
  <1> USE DEF PendingOK, Party
  <1>1. ASSUME NEW a \in Attempt,
               AddPending(a) \/ Disconnect(a) \/ RemovePending(a)
        PROVE  PendingOK'
    BY <1>1 DEF AddPending, Disconnect, RemovePending, EntryType, NoEntry, AttemptsOK
  <1>2. ASSUME NEW i \in Id, NEW p \in Party
        PROVE  /\ [pending EXCEPT ![i].challenge = p] \in [Id -> EntryType]
               /\ [pending EXCEPT ![i].hash = p] \in [Id -> EntryType]
    BY <1>2 DEF EntryType
  <1>3. ASSUME NEW a \in Attempt, ClientChallenge(a) \/ ServerChallengeResponse(a)
        PROVE  PendingOK'
    <2>1. who[a].id \in Id /\ a \in Party /\ Typo \in Party
      BY DEF AttemptsOK
    <2>2. CASE ClientChallenge(a)
      <3> DEFINE p == IF Agree(a) THEN a ELSE Typo
      <3>1. p \in Party
        BY <2>1
      <3>2. CASE Entry(a).key = NoOne
        BY <2>2, <3>2 DEF ClientChallenge, Refuse
      <3>3. CASE Entry(a).key # NoOne
        <4>1. pending' = [pending EXCEPT ![who[a].id].challenge = p]
          BY <2>2, <3>3 DEF ClientChallenge
        <4> QED BY <2>1, <3>1, <4>1, <1>2
      <3> QED BY <3>2, <3>3
    <2>3. CASE ServerChallengeResponse(a)
      <3> DEFINE p == IF Agree(a) /\ Entry(a).challenge = a THEN a ELSE Typo
      <3>1. p \in Party
        BY <2>1
      <3>2. CASE Entry(a).key = NoOne
        BY <2>3, <3>2 DEF ServerChallengeResponse, Refuse
      <3>3. CASE Entry(a).key # NoOne
        <4>1. pending' = [pending EXCEPT ![who[a].id].hash = p]
          BY <2>3, <3>3 DEF ServerChallengeResponse
        <4> QED BY <2>1, <3>1, <4>1, <1>2
      <3> QED BY <3>2, <3>3
    <2> QED BY <1>3, <2>2, <2>3
  <1>4. ASSUME NEW a \in Attempt,
               \/ AwaitPin(a) \/ Answer(a) \/ GiveUp(a) \/ Reject(a) \/ Verify(a)
               \/ Save(a) \/ Saved(a) \/ SaveFails(a) \/ AddClient(a)
        PROVE  PendingOK'
    BY <1>4 DEF AwaitPin, Answer, GiveUp, Reject, Refuse, Verify,
                Save, Saved, SaveFails, AddClient
  <1>5. ASSUME NEW gone \in SUBSET Id, Sweep(gone)
        PROVE  PendingOK'
    BY <1>5 DEF Sweep, EntryType, NoEntry
  <1>6. ASSUME NEW i \in Pending, NEW pin \in {pending[i].owner, Typo}, SubmitPin(i, pin)
        PROVE  PendingOK'
    BY <1>6 DEF SubmitPin, Pending, EntryType
  <1>7. CASE UserCalls
    BY <1>5, <1>6, <1>7 DEF UserCalls, UnpairRemoves, SubmitEnds, TimedOut, Resolved,
                UnpairGoesOn, UnpairSaves, UnpairSaved, UnpairFails
  <1>8. CASE Watch
    BY <1>5, <1>8 DEF Watch, WatcherWakes, PublishPaired, PublishPending
  <1>9. CASE Crash
    BY <1>9 DEF Crash, EntryType, NoEntry
  <1>10. CASE Boots \/ Idle
    BY <1>10 DEF Boots, Start, StartSaves, StartSaved, Idle, vars
  <1> QED
    BY <1>1, <1>3, <1>4, <1>7, <1>8, <1>9, <1>10, KindsOfSteps DEF Handshake, Serving

LEMMA CallsAndDaemonKept ==
    ASSUME CallsOK, WatcherOK, DaemonOK, State!StateTypeOK, [Next]_vars
    PROVE  CallsOK' /\ WatcherOK' /\ DaemonOK'
  <1> USE DEF CallsOK, WatcherOK, DaemonOK, uiVars, listVars, daemonVars
  <1>1. ASSUME NEW a \in Attempt, Handshake(a)
        PROVE  CallsOK' /\ WatcherOK' /\ DaemonOK'
    BY <1>1 DEF Handshake, AddPending, Disconnect, GiveUp, ClientChallenge,
                ServerChallengeResponse, Refuse, Reject, Verify, SaveFails
  <1>2. ASSUME NEW a \in Attempt, Serving(a)
        PROVE  CallsOK' /\ WatcherOK' /\ DaemonOK'
    BY <1>2 DEF Serving, AwaitPin, Answer, Save, Saved, AddClient, RemovePending
  <1>3. CASE UserCalls
    BY <1>3 DEF UserCalls, SubmitPin, Pending, UnpairRemoves, SubmitEnds, TimedOut, Resolved,
                UnpairGoesOn, UnpairSaves, UnpairSaved, UnpairFails
  <1>4. CASE Watch
    <2>1. CASE WatcherWakes \/ PublishPaired
      BY <2>1 DEF WatcherWakes, PublishPaired, State!StateTypeOK
    <2>2. ASSUME NEW gone \in SUBSET Id, PublishPending(gone)
          PROVE  CallsOK' /\ WatcherOK' /\ DaemonOK'
      <3>1. (Pending \ gone) \in SUBSET Id
        BY DEF Pending
      <3>2. shown' \in [pending : SUBSET Id, paired : SUBSET Machine]
        BY <2>2, <3>1 DEF PublishPending
      <3>3. signal' \in BOOLEAN
        BY <2>2, Zenon DEF PublishPending
      <3> QED BY <2>2, <3>2, <3>3 DEF PublishPending
    <2> QED BY <1>4, <2>1, <2>2 DEF Watch
  <1>5. CASE Crash
    <2>1. CallsOK' /\ WatcherOK'
      BY <1>5 DEF Crash
    <2>2. crashes' \in 0..MaxCrashes
      BY <1>5, CrashesAssumption DEF Crash
    <2> QED BY <1>5, <2>1, <2>2 DEF Crash
  <1>6. CASE Boots \/ Idle
    BY <1>6 DEF Boots, Start, StartSaves, StartSaved, Idle, vars
  <1> QED BY <1>1, <1>2, <1>3, <1>4, <1>5, <1>6, KindsOfSteps

LEMMA StateKept ==
    ASSUME AttemptsOK, State!StateTypeOK, [Next]_vars
    PROVE  State!StateTypeOK'
  <1> USE DEF AttemptsOK, State!StateTypeOK, State!Data, State!Torn, stateVars
  <1>1. ASSUME NEW a \in Attempt, Handshake(a)
        PROVE  State!StateTypeOK'
    BY <1>1 DEF Handshake, AddPending, Disconnect, GiveUp, ClientChallenge,
                ServerChallengeResponse, Refuse, Reject, Verify, SaveFails, State!AddPairedCert
  <1>2. ASSUME NEW s, State!Written(s)
        PROVE  State!StateTypeOK'
    BY <1>2 DEF State!Written
  <1>3. ASSUME NEW s \in Attempt \cup {Unpair, Boot}, State!Truncate(s)
        PROVE  State!StateTypeOK'
    BY <1>3 DEF State!Truncate
  <1>4. ASSUME NEW a \in Attempt, Serving(a)
        PROVE  State!StateTypeOK'
    BY <1>2, <1>3, <1>4 DEF Serving, AwaitPin, Answer, Save, Saved, AddClient, RemovePending,
                            State!AddClient
  <1>5. CASE UserCalls
    BY <1>2, <1>3, <1>5
    DEF UserCalls, SubmitPin, UnpairRemoves, State!RemovePairedCert, SubmitEnds, TimedOut,
        Resolved, UnpairGoesOn, UnpairSaves, UnpairSaved, UnpairFails
  <1>6. CASE Watch \/ Crash \/ Idle
    BY <1>6 DEF Watch, WatcherWakes, PublishPaired, PublishPending, Crash, Idle, vars
  <1>7. CASE Boots
    BY <1>2, <1>3, <1>7 DEF Boots, Start, StartSaves, StartSaved, State!Load
  <1> QED BY <1>1, <1>4, <1>5, <1>6, <1>7, KindsOfSteps

LEMMA WritersKept ==
    ASSUME TypeOK, Writers, [Next]_vars
    PROVE  Writers'
  <1> USE NamesAssumption
      DEF TypeOK, AttemptsOK, LockOK, Locking, CallsOK, Writers, Goto, Free,
          uiVars, listVars, daemonVars, stateVars
  <1>1. ASSUME NEW a \in Attempt, Handshake(a)
        PROVE  Writers'
    BY <1>1 DEF Handshake, AddPending, Disconnect, GiveUp, ClientChallenge,
                ServerChallengeResponse, Refuse, Reject, Verify, SaveFails, State!AddPairedCert,
                State!Unlocked
  <1>2. ASSUME NEW a \in Attempt, Serving(a)
        PROVE  Writers'
    BY <1>2 DEF Serving, AwaitPin, Answer, Save, Saved, AddClient, RemovePending,
                State!AddClient, State!Written, State!Truncate
  <1>3. CASE UserCalls
    BY <1>3
    DEF UserCalls, SubmitPin, UnpairRemoves, State!RemovePairedCert, SubmitEnds, TimedOut,
        Resolved, UnpairGoesOn, UnpairSaves, UnpairSaved, UnpairFails, Unpair,
        State!Written, State!Truncate
  <1>4. CASE Watch
    BY <1>4 DEF Watch, WatcherWakes, PublishPaired, PublishPending
  <1>5. CASE Crash
    BY <1>5 DEF Crash
  <1>6. CASE Boots \/ Idle
    BY <1>6 DEF Boots, Start, StartSaves, StartSaved, Boot, Idle, vars,
                State!Load, State!Written, State!Truncate
  <1> QED BY <1>1, <1>2, <1>3, <1>4, <1>5, <1>6, KindsOfSteps

\* The types hold, and nobody changes the pending set while
\* check_client_pairing_secret saves under its lock.
THEOREM PairingTypeCorrect == Spec => [](TypeOK /\ Writers)
  <1>1. Init => TypeOK /\ Writers
    BY TypesInitially DEF Init, Writers, State!StateInit
  <1>2. TypeOK /\ Writers /\ [Next]_vars => (TypeOK /\ Writers)'
    BY AttemptsKept, PendingKept, CallsAndDaemonKept, StateKept, WritersKept DEF TypeOK
  <1> QED BY <1>1, <1>2, PTL DEF Spec

-----------------------------------------------------------------------------
(* The file.                                                               *)

\* What may keep the file from holding what the memory holds.
SaveUnderWay ==
    \/ \E a \in Attempt : attempt[a] \in {"saving_cert", "saving_client"}
    \/ unpairing # NoOne

FileFollows ==
    /\ daemon = "up" /\ ~unsaved => disk = State!Data \/ SaveUnderWay
    /\ daemon = "booting" => disk = State!Data \/ writing = {"boot"}

LEMMA FileFollowsKept ==
    ASSUME TypeOK, Writers, FileFollows, [Next]_vars
    PROVE  FileFollows'
  <1> USE NamesAssumption
      DEF TypeOK, AttemptsOK, LockOK, Locking, CallsOK, Writers, Goto, Free,
          FileFollows, SaveUnderWay, State!Data, uiVars, listVars, daemonVars, stateVars
  <1>1. ASSUME NEW a \in Attempt, Handshake(a)
        PROVE  FileFollows'
    BY <1>1 DEF Handshake, AddPending, Disconnect, GiveUp, ClientChallenge,
                ServerChallengeResponse, Refuse, Reject, Verify, SaveFails, State!AddPairedCert,
                State!Unlocked
  <1>2. ASSUME NEW a \in Attempt, Saved(a)
        PROVE  FileFollows'
    <2>1. attempt[a] \in {"saving_cert", "saving_client"} /\ daemon = "up" /\ holder = a
      BY <1>2 DEF Saved, State!Written
    <2>2. CASE writing = {a}
      BY <1>2, <2>1, <2>2 DEF Saved, State!Written
    <2>3. CASE writing # {a}
      <3>1. "unpair" \in writing
        BY <1>2, <2>1, <2>3 DEF Saved, State!Written, State!StateTypeOK, Unpair, Boot
      <3> QED BY <1>2, <2>1, <3>1 DEF Saved, State!Written
    <2> QED BY <2>2, <2>3
  <1>7. ASSUME NEW a \in Attempt, Save(a)
        PROVE  FileFollows'
    BY <1>7 DEF Save, State!Truncate
  <1>8. ASSUME NEW a \in Attempt, AwaitPin(a) \/ Answer(a) \/ AddClient(a) \/ RemovePending(a)
        PROVE  FileFollows'
    BY <1>8 DEF AwaitPin, Answer, AddClient, RemovePending, State!AddClient
  <1>9. CASE UnpairSaved
    <2>1. unpairing # NoOne /\ daemon = "up"
      BY <1>9 DEF UnpairSaved, State!Written, Unpair
    <2>2. CASE writing = {"unpair"}
      BY <1>9, <2>1, <2>2 DEF UnpairSaved, State!Written, Unpair
    <2>3. CASE writing # {"unpair"}
      <3>1. PICK a \in Attempt : a \in writing
        BY <1>9, <2>1, <2>3 DEF UnpairSaved, State!Written, State!StateTypeOK, Unpair, Boot
      <3> QED BY <1>9, <2>1, <3>1 DEF UnpairSaved, State!Written
    <2> QED BY <2>2, <2>3
  <1>3. CASE UserCalls
    BY <1>3, <1>9
    DEF UserCalls, SubmitPin, UnpairRemoves, State!RemovePairedCert, SubmitEnds, TimedOut,
        Resolved, UnpairGoesOn, UnpairSaves, UnpairFails, State!Truncate
  <1>4. CASE Watch
    BY <1>4 DEF Watch, WatcherWakes, PublishPaired, PublishPending
  <1>5. CASE Crash
    BY <1>5 DEF Crash
  <1>10. CASE Start
    BY <1>10 DEF Start, State!Load, State!StateTypeOK
  <1>11. CASE StartSaves
    <2>1. writing' = {"boot"}
      BY <1>11 DEF StartSaves, State!Truncate, State!StateTypeOK, Unpair, Boot
    <2> QED BY <1>11, <2>1 DEF StartSaves
  <1>12. CASE StartSaved
    <2>1. writing = {"boot"}
      BY <1>12 DEF StartSaved, State!Written, State!StateTypeOK, Unpair, Boot
    <2> QED BY <1>12, <2>1 DEF StartSaved, State!Written, Boot
  <1>6. CASE Boots \/ Idle
    BY <1>6, <1>10, <1>11, <1>12 DEF Boots, Idle, vars
  <1> QED
    BY <1>1, <1>2, <1>3, <1>4, <1>5, <1>6, <1>7, <1>8, KindsOfSteps DEF Serving

\* Once every operation is over, and none has failed to save since the daemon
\* started, state.toml holds what the memory holds, whatever the clients, the
\* user and a crash in the middle of a save have done.
THEOREM FileAlwaysCurrent == Spec => []DiskCurrent
  <1>1. Init => FileFollows
    BY DEF Init, FileFollows, State!StateInit
  <1>2. TypeOK /\ Writers /\ FileFollows /\ [Next]_vars => FileFollows'
    BY FileFollowsKept
  <1>3. TypeOK /\ Writers /\ FileFollows => DiskCurrent
    BY NamesAssumption
    DEF TypeOK, LockOK, Locking, FileFollows, SaveUnderWay, DiskCurrent
  <1> QED BY <1>1, <1>2, <1>3, PairingTypeCorrect, PTL DEF Spec

-----------------------------------------------------------------------------
(* The lists.                                                              *)

\* What the watcher has published and not been told to look at again.
ListsFollow ==
    daemon = "up" /\ ~signal =>
        /\ watcher # "pending" => shown.pending = Pending
        /\ watcher = "waiting" =>
               shown.paired = certs \/ holder # NoOne \/ unpairing # NoOne \/ unsaved

LEMMA ListsFollowKept ==
    ASSUME TypeOK, Writers, ListsFollow, [Next]_vars
    PROVE  ListsFollow'
  <1> USE NamesAssumption DEF Writers, Free, ListsFollow, uiVars, listVars, daemonVars, stateVars
  <1>1. ASSUME NEW a \in Attempt,
               AddPending(a) \/ RemovePending(a) \/ ClientChallenge(a)
        PROVE  ListsFollow'
    BY <1>1 DEF AddPending, RemovePending, ClientChallenge, Refuse, Pending
  <1>2. ASSUME NEW a \in Attempt, ServerChallengeResponse(a)
        PROVE  ListsFollow'
    <2>1. CASE UNCHANGED <<pending, signal>>
      BY <1>2, <2>1 DEF ServerChallengeResponse, Pending
    <2>2. CASE signal'
      BY <2>2
    <2>3. CASE ~signal' /\ ~UNCHANGED <<pending, signal>>
      <3>1. Entry(a).key # NoOne /\ UNCHANGED signal
        BY <1>2, <2>3 DEF ServerChallengeResponse, Refuse
      <3>2. pending' = [pending EXCEPT ![who[a].id].hash =
                            IF Agree(a) /\ Entry(a).challenge = a THEN a ELSE Typo]
        BY <1>2, <3>1 DEF ServerChallengeResponse
      <3>3. \A i \in Id : pending[i] # NoEntry <=> pending'[i] # NoEntry
        BY <3>1, <3>2 DEF TypeOK, AttemptsOK, PendingOK, EntryType, NoEntry, Entry
      <3> QED BY <1>2, <3>1, <3>3 DEF ServerChallengeResponse, Pending
    <2> QED BY <2>1, <2>2, <2>3
  <1>3. ASSUME NEW a \in Attempt, Disconnect(a)
        PROVE  ListsFollow'
    <2>1. CASE Entry(a) = NoEntry
      <3>1. pending' = pending
        BY <1>3, <2>1 DEF Disconnect, Entry, TypeOK, PendingOK, AttemptsOK
      <3>2. signal' = signal
        BY <1>3, <2>1 DEF Disconnect, TypeOK, WatcherOK
      <3> QED BY <1>3, <3>1, <3>2 DEF Disconnect, Pending
    <2>2. CASE Entry(a) # NoEntry
      BY <1>3, <2>2 DEF Disconnect
    <2> QED BY <2>1, <2>2
  <1>4. ASSUME NEW a \in Attempt,
               \/ AwaitPin(a) \/ Answer(a) \/ GiveUp(a) \/ Reject(a) \/ Verify(a)
               \/ Save(a) \/ Saved(a) \/ SaveFails(a) \/ AddClient(a)
        PROVE  ListsFollow'
    BY <1>4
    DEF AwaitPin, Answer, GiveUp, Reject, Refuse, Verify, State!AddPairedCert, Save, Saved,
        State!Truncate, State!Written, SaveFails, AddClient, State!AddClient, Pending,
        TypeOK, LockOK, Locking
  <1>5. ASSUME NEW gone \in SUBSET Id, Sweep(gone), signal' = (signal \/ gone # {}), ~signal'
        PROVE  pending' = pending /\ gone = {} /\ ~signal
    BY <1>5 DEF Sweep, TypeOK, PendingOK
  <1>6. CASE UserCalls
    <2>1. ASSUME NEW i \in Pending, NEW pin \in {pending[i].owner, Typo}, SubmitPin(i, pin)
          PROVE  ListsFollow'
      BY <2>1 DEF SubmitPin
    <2>2. ASSUME NEW m \in Machine, UnpairRemoves(m)
          PROVE  ListsFollow'
      BY <2>2 DEF UnpairRemoves, State!RemovePairedCert, Pending
    <2>3. ASSUME NEW gone \in SUBSET Id, Resolved(gone)
          PROVE  ListsFollow'
      BY <1>5, <2>3 DEF Resolved, Pending
    <2>4. CASE TimedOut \/ UnpairGoesOn \/ UnpairFails
      BY <2>4 DEF TimedOut, UnpairGoesOn, UnpairSaves, UnpairSaved, UnpairFails,
                  State!Truncate, State!Written, Pending
    <2> QED BY <1>6, <2>1, <2>2, <2>3, <2>4 DEF UserCalls, SubmitEnds
  <1>7. CASE Watch
    <2>1. CASE WatcherWakes \/ PublishPaired
      BY <2>1 DEF WatcherWakes, PublishPaired, Pending, TypeOK, WatcherOK
    <2>2. ASSUME NEW gone \in SUBSET Id, PublishPending(gone)
          PROVE  ListsFollow'
      <3>1. ASSUME ~signal'
            PROVE  shown'.pending = Pending'
        BY <1>5, <2>2, <3>1 DEF PublishPending, Pending, TypeOK, WatcherOK
      <3> QED BY <2>2, <3>1 DEF PublishPending
    <2> QED BY <1>7, <2>1, <2>2 DEF Watch
  <1>8. CASE Crash
    BY <1>8 DEF Crash
  <1>9. CASE Boots \/ Idle
    BY <1>9 DEF Boots, Start, StartSaves, StartSaved, State!Written, Boot, Idle, vars, Pending
  <1> QED
    BY <1>1, <1>2, <1>3, <1>4, <1>6, <1>7, <1>8, <1>9, KindsOfSteps DEF Handshake, Serving

\* No change is lost between the watcher's looks: while it waits for the next,
\* the user interface is shown the clients that are pending and, up to a save
\* under way or failed, those that are paired.
THEOREM ListsAlwaysCurrent == Spec => []ListsCurrent
  <1>1. Init => ListsFollow
    BY DEF Init, ListsFollow
  <1>2. TypeOK /\ Writers /\ ListsFollow /\ [Next]_vars => ListsFollow'
    BY ListsFollowKept
  <1>3. ListsFollow => ListsCurrent
    BY DEF ListsFollow, ListsCurrent
  <1> QED BY <1>1, <1>2, <1>3, PairingTypeCorrect, PTL DEF Spec

-----------------------------------------------------------------------------
(* The PIN.                                                                *)

\* An attempt whose PIN has been entered while it waited has been told.
EnteredPinWakes ==
    \A a \in Attempt, i \in Id :
        attempt[a] = "waiting" /\ pending[i].owner = a /\ pending[i].key # NoOne => a \in woken

\* An entry is its attempt's that has left it, and its key that of one that
\* waited as it came.
KeysFollow ==
    \A a \in Attempt, i \in Id :
        pending[i].owner = a =>
            /\ attempt[a] # "new"
            /\ pending[i].key # NoOne => attempt[a] # "added"
            /\ pending[i].key # NoOne /\ attempt[a] = "waiting" => a \in woken

LEMMA KeysFollowKept ==
    ASSUME TypeOK, Writers, KeysFollow, [Next]_vars, "early_pin" \notin Hazards
    PROVE  KeysFollow'
  <1> USE NamesAssumption DEF KeysFollow, TypeOK, AttemptsOK, PendingOK, EntryType, Entry, Goto,
          uiVars, listVars, daemonVars, stateVars
  <1>1. ASSUME NEW a \in Attempt, AddPending(a)
        PROVE  KeysFollow'
    <2>1. /\ attempt[a] = "new" /\ attempt' = [attempt EXCEPT ![a] = "added"] /\ woken' = woken
          /\ pending' = [pending EXCEPT ![who[a].id] = [NoEntry EXCEPT !.owner = a]]
      BY <1>1 DEF AddPending
    <2>2. ASSUME NEW b \in Attempt, NEW i \in Id, pending'[i].owner = b
          PROVE  IF i = who[a].id THEN b = a /\ pending'[i].key = NoOne
                 ELSE b # a /\ pending'[i] = pending[i]
      BY <2>1, <2>2 DEF NoEntry
    <2> QED BY <2>1, <2>2
  <1>2. ASSUME NEW a \in Attempt, Disconnect(a) \/ RemovePending(a)
        PROVE  KeysFollow'
    <2>1. /\ attempt'[a] \in {"over", "paired"}
          /\ \A b \in Attempt \ {a} : attempt'[b] = attempt[b] /\ (b \in woken <=> b \in woken')
          /\ pending' = [pending EXCEPT ![who[a].id] = NoEntry]
      BY <1>2 DEF Disconnect, RemovePending
    <2>2. ASSUME NEW b \in Attempt, NEW i \in Id, pending'[i].owner = b
          PROVE  pending'[i] = pending[i]
      BY <2>1, <2>2 DEF NoEntry
    <2> QED BY <2>1, <2>2
  <1>3. ASSUME NEW a \in Attempt, ClientChallenge(a) \/ ServerChallengeResponse(a)
        PROVE  KeysFollow'
    <2>1. /\ attempt'[a] \in {"challenged", "responded", "over"} /\ woken' = woken
          /\ \A b \in Attempt \ {a} : attempt'[b] = attempt[b]
      BY <1>3 DEF ClientChallenge, ServerChallengeResponse, Refuse
    <2>2. ASSUME NEW i \in Id
          PROVE  pending'[i].owner = pending[i].owner /\ pending'[i].key = pending[i].key
      <3>1. \/ pending' = pending
            \/ \E p : pending' = [pending EXCEPT ![who[a].id].challenge = p]
            \/ \E p : pending' = [pending EXCEPT ![who[a].id].hash = p]
        BY <1>3 DEF ClientChallenge, ServerChallengeResponse, Refuse
      <3>2. pending[i] \in EntryType /\ pending[who[a].id] \in EntryType
        BY DEF EntryType
      <3>3. ASSUME NEW p, pending' = [pending EXCEPT ![who[a].id].challenge = p]
            PROVE  pending'[i].owner = pending[i].owner /\ pending'[i].key = pending[i].key
        BY <3>2, <3>3 DEF EntryType
      <3>4. ASSUME NEW p, pending' = [pending EXCEPT ![who[a].id].hash = p]
            PROVE  pending'[i].owner = pending[i].owner /\ pending'[i].key = pending[i].key
        BY <3>2, <3>4 DEF EntryType
      <3> QED BY <3>1, <3>3, <3>4
    <2>3. ASSUME NEW b \in Attempt, NEW i \in Id, pending'[i].owner = b
          PROVE  /\ attempt'[b] # "new"
                 /\ pending'[i].key # NoOne => attempt'[b] # "added"
                 /\ pending'[i].key # NoOne /\ attempt'[b] = "waiting" => b \in woken'
      <3>1. pending[i].owner = b /\ pending'[i].key = pending[i].key
        BY <2>2, <2>3
      <3>2. CASE b = a
        BY <2>1, <3>2
      <3>3. CASE b # a
        BY <2>1, <3>1, <3>3
      <3> QED BY <3>2, <3>3
    <2> QED BY <2>3
  <1>4. ASSUME NEW a \in Attempt, AwaitPin(a)
        PROVE  KeysFollow'
    BY <1>4 DEF AwaitPin
  <1>5. ASSUME NEW a \in Attempt,
               \/ Answer(a) \/ GiveUp(a) \/ Reject(a) \/ Verify(a)
               \/ Save(a) \/ Saved(a) \/ SaveFails(a) \/ AddClient(a)
        PROVE  KeysFollow'
    <2>1. /\ attempt'[a] \in AttemptState \ {"new", "added"}
          /\ attempt'[a] = "waiting" => attempt[a] = "waiting" /\ (a \in woken => a \in woken')
          /\ \A b \in Attempt \ {a} : attempt'[b] = attempt[b] /\ (b \in woken <=> b \in woken')
          /\ pending' = pending
      BY <1>5 DEF Answer, GiveUp, Reject, Refuse, Verify, Save, Saved, SaveFails, AddClient,
                  AttemptState
    <2> QED BY <2>1
  <1>6. CASE UserCalls
    <2>1. ASSUME NEW i \in Pending, NEW pin \in {pending[i].owner, Typo}, SubmitPin(i, pin)
          PROVE  KeysFollow'
      <3>1. /\ attempt[pending[i].owner] # "added" /\ attempt' = attempt
            /\ pending' = [pending EXCEPT ![i].key = pin] /\ i \in Id
            /\ woken' = woken \cup ({pending[i].owner} \cap {a \in Attempt : attempt[a] = "waiting"})
        BY <2>1 DEF SubmitPin, Pending
      <3>2. \A j \in Id : pending'[j].owner = pending[j].owner /\ (j # i => pending'[j] = pending[j])
        BY <3>1
      <3> QED BY <3>1, <3>2
    <2>2. ASSUME NEW gone \in SUBSET Id, Resolved(gone)
          PROVE  KeysFollow'
      BY <2>2 DEF Resolved, Sweep, NoEntry
    <2>3. ASSUME NEW m \in Machine, UnpairRemoves(m)
          PROVE  KeysFollow'
      BY <2>3 DEF UnpairRemoves
    <2>4. CASE TimedOut \/ UnpairGoesOn \/ UnpairFails
      BY <2>4 DEF TimedOut, UnpairGoesOn, UnpairSaves, UnpairSaved, UnpairFails
    <2> QED BY <1>6, <2>1, <2>2, <2>3, <2>4 DEF UserCalls, SubmitEnds
  <1>7. CASE Watch
    <2>1. ASSUME NEW gone \in SUBSET Id, PublishPending(gone)
          PROVE  KeysFollow'
      BY <2>1 DEF PublishPending, Sweep, NoEntry
    <2>2. CASE WatcherWakes \/ PublishPaired
      BY <2>2 DEF WatcherWakes, PublishPaired
    <2> QED BY <1>7, <2>1, <2>2 DEF Watch
  <1>8. CASE Crash
    BY <1>8 DEF Crash, NoEntry
  <1>9. CASE Boots \/ Idle
    BY <1>9 DEF Boots, Start, StartSaves, StartSaved, Idle, vars
  <1> QED
    BY <1>1, <1>2, <1>3, <1>4, <1>5, <1>6, <1>7, <1>8, <1>9, KindsOfSteps DEF Handshake, Serving

\* clients.rs, register_pin and the notified() of getservercert: the wake-up of
\* a PIN that is entered is never lost, whatever other attempts use the same id,
\* if no PIN arrives before the handler waits for one.  It is what
\* PinMovesHandshake rests on.
THEOREM PinNeverLost ==
    ASSUME "early_pin" \notin Hazards
    PROVE  Spec => []EnteredPinWakes
  <1>1. Init => KeysFollow
    BY NamesAssumption DEF Init, KeysFollow, NoEntry
  <1>2. TypeOK /\ Writers /\ KeysFollow /\ [Next]_vars => KeysFollow'
    BY KeysFollowKept
  <1>3. KeysFollow => EnteredPinWakes
    BY DEF KeysFollow, EnteredPinWakes
  <1> QED BY <1>1, <1>2, <1>3, PairingTypeCorrect, PTL DEF Spec

=============================================================================
