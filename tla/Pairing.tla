------------------------------ MODULE Pairing ------------------------------
(***************************************************************************)
(* Pairing a client: the /pair requests of the web server, ClientManager's *)
(* pending clients, the submit_pin and unpair calls of the on-device UI,   *)
(* the watcher that keeps the UI's two lists current, and PersistentState. *)
(*                                                                         *)
(* An attempt is one client going through the handshake once: its own      *)
(* salt, its own PIN, the certificate of its machine and the unique id it  *)
(* sends, which different machines may share.  The pending set is keyed by *)
(* that id.  Its lock is held for one step, except by                      *)
(* check_client_pairing_secret, which holds it while it saves.             *)
(*                                                                         *)
(* A change of the pending or paired set and the notify_waiters after it   *)
(* are one step: a watcher that reads in between is only woken once more.  *)
(* Ciphers and hashes are abstracted to whose they are: what one attempt   *)
(* encrypts, another's key does not decrypt to anything of use.            *)
(***************************************************************************)
EXTENDS Naturals, FiniteSets

CONSTANTS
    Attempt,    \* handshakes
    Machine,    \* client machines, by certificate
    Id,         \* unique ids
    Hazards,    \* which misfortunes a run admits
    MaxCrashes, \* bound: the daemon stops and starts again this often at most
    Typo,       \* a PIN that is nobody's
    NoOne

HazardKinds ==
    { "disconnect",  \* a client goes away
      "expiry",      \* PENDING_CLIENT_TTL passes
      "save_fails",  \* state.toml cannot be written
      "torn_write",  \* the daemon dies while it writes state.toml
      "early_pin" }  \* a PIN arrives before the handler waits for it

ASSUME HazardsAssumption == Hazards \subseteq HazardKinds
ASSUME CrashesAssumption == MaxCrashes \in Nat
ASSUME NamesAssumption ==
    /\ {Typo, NoOne, "unpair", "boot"} \cap Attempt = {} /\ Typo # NoOne
    /\ NoOne \notin Machine \cup Id

VARIABLES
    who,        \* each attempt's machine and unique id
    attempt,    \* where each attempt is
    woken,      \* attempts whose pin_notify has fired while they waited
    pending,    \* pending_clients
    holder,     \* the attempt that holds the lock of pending_clients
    submit,     \* the id a submit_pin call waits for
    unpairing,  \* the machine an unpair call has removed and not yet saved
    watcher,    \* where serve's pending watcher is
    signal,     \* pending_changed has fired since the watcher registered
    shown,      \* the lists of the CastState that the watcher has published
    daemon,     \* whether the daemon runs
    crashes,
    unsaved,    \* history: a save has failed since the daemon started
    certs, clients, disk, writing   \* PersistentState

Unpair == "unpair"
Boot == "boot"
State == INSTANCE PairedState WITH Saver <- Attempt \cup {Unpair, Boot}

stateVars == <<certs, clients, disk, writing>>
uiVars == <<submit, unpairing>>
listVars == <<watcher, signal, shown>>
daemonVars == <<daemon, crashes, unsaved>>
vars == <<who, attempt, woken, pending, holder, uiVars, listVars, daemonVars, stateVars>>

\* "added" to "waiting": in getservercert; then the next request awaited, or
\* the step of check_client_pairing_secret; "over" is given up or refused.
AttemptState ==
    {"new", "added", "waiting", "answered", "challenged", "responded",
     "saving_cert", "adding_client", "saving_client", "removing",
     "paired", "over"}

\* Whose the salt, the PIN the key was made with, the challenge and the hash
\* are; NoOne where the field is None, Typo where it is of use to nobody.
Party == Attempt \cup {NoOne, Typo}
NoEntry == [owner |-> NoOne, key |-> NoOne, challenge |-> NoOne, hash |-> NoOne]
Pending == {i \in Id : pending[i] # NoEntry}

\* The steps of check_client_pairing_secret, under the lock.
Locking == {"saving_cert", "adding_client", "saving_client", "removing"}

AttemptsOK ==
    /\ who \in [Attempt -> [machine : Machine, id : Id]]
    /\ attempt \in [Attempt -> AttemptState]
    /\ woken \subseteq {a \in Attempt : attempt[a] = "waiting"}

\* The lock is held by exactly the attempt that is between the verification
\* of its secret and its removal from the pending set.
LockOK ==
    /\ holder \in Attempt \cup {NoOne}
    /\ \A a \in Attempt : holder = a <=> attempt[a] \in Locking

EntryType == [owner : Attempt \cup {NoOne}, key : Party, challenge : Party, hash : Party]
PendingOK == pending \in [Id -> EntryType]

CallsOK == submit \in Id \cup {NoOne} /\ unpairing \in Machine \cup {NoOne}

WatcherOK ==
    /\ watcher \in {"waiting", "pending", "paired"}
    /\ signal \in BOOLEAN
    /\ shown \in [pending : SUBSET Id, paired : SUBSET Machine]

DaemonOK ==
    /\ daemon \in {"up", "down", "booting"}
    /\ crashes \in 0..MaxCrashes
    /\ unsaved \in BOOLEAN

TypeOK ==
    /\ AttemptsOK /\ LockOK /\ PendingOK
    /\ CallsOK /\ WatcherOK /\ DaemonOK /\ State!StateTypeOK

Init ==
    /\ who \in [Attempt -> [machine : Machine, id : Id]]
    /\ attempt = [a \in Attempt |-> "new"]
    /\ woken = {}
    /\ pending = [i \in Id |-> NoEntry]
    /\ holder = NoOne
    /\ submit = NoOne /\ unpairing = NoOne
    /\ watcher = "pending" /\ signal = FALSE
    /\ shown = [pending |-> {}, paired |-> {}]
    /\ daemon = "up" /\ crashes = 0 /\ unsaved = FALSE
    /\ State!StateInit

Goto(a, to) == attempt' = [attempt EXCEPT ![a] = to]
Entry(a) == pending[who[a].id]

\* Somebody other than the holder can take the lock of pending_clients.
Free == daemon = "up" /\ holder = NoOne

-----------------------------------------------------------------------------
\* getservercert, add_pending: an entry of the same id is overwritten.
AddPending(a) ==
    /\ Free
    /\ attempt[a] = "new"
    /\ Goto(a, "added")
    /\ pending' = [pending EXCEPT ![who[a].id] = [NoEntry EXCEPT !.owner = a]]
    /\ signal' = TRUE
    /\ UNCHANGED <<who, woken, holder, uiVars, watcher, shown, daemonVars, stateVars>>

\* The guard is made, and the future that notify_waiters will find.
AwaitPin(a) ==
    /\ daemon = "up"
    /\ attempt[a] = "added"
    /\ Goto(a, "waiting")
    /\ UNCHANGED <<who, woken, pending, holder, uiVars, listVars, daemonVars, stateVars>>

\* The PIN is there: the guard is disarmed, the client gets its answer.
Answer(a) ==
    /\ daemon = "up"
    /\ attempt[a] = "waiting"
    /\ a \in woken
    /\ Goto(a, "answered")
    /\ woken' = woken \ {a}
    /\ UNCHANGED <<who, pending, holder, uiVars, listVars, daemonVars, stateVars>>

\* The client is gone, and its handler dropped where it waits: the guard
\* removes what is pending under its id.
Disconnect(a) ==
    /\ "disconnect" \in Hazards
    /\ Free
    /\ attempt[a] = "waiting"
    /\ Goto(a, "over")
    /\ pending' = [pending EXCEPT ![who[a].id] = NoEntry]
    /\ woken' = woken \ {a}
    /\ signal' = (signal \/ Entry(a) # NoEntry)
    /\ UNCHANGED <<who, holder, uiVars, watcher, shown, daemonVars, stateVars>>

\* The client does not send its next request.
GiveUp(a) ==
    /\ attempt[a] \in {"answered", "challenged", "responded"}
    /\ Goto(a, "over")
    /\ UNCHANGED <<who, woken, pending, holder, uiVars, listVars, daemonVars, stateVars>>

\* What the attempt and the entry under its id encrypt, the other can read.
Agree(a) == Entry(a).owner = a /\ Entry(a).key = a

\* A request that is refused ends the attempt; its entry stays.
Refuse(a) ==
    /\ Goto(a, "over")
    /\ UNCHANGED <<pending, signal>>

ClientChallenge(a) ==
    /\ Free
    /\ attempt[a] = "answered"
    /\ IF Entry(a).key = NoOne THEN Refuse(a)
       ELSE /\ Goto(a, "challenged")
            /\ pending' = [pending EXCEPT
                   ![who[a].id].challenge = IF Agree(a) THEN a ELSE Typo]
            /\ signal' = TRUE
    /\ UNCHANGED <<who, woken, holder, uiVars, watcher, shown, daemonVars, stateVars>>

\* The hash is stored before the server secret, which a challenge must have
\* left behind, is looked for.
ServerChallengeResponse(a) ==
    /\ Free
    /\ attempt[a] = "challenged"
    /\ IF Entry(a).key = NoOne THEN Refuse(a)
       ELSE /\ pending' = [pending EXCEPT ![who[a].id].hash =
                   IF Agree(a) /\ Entry(a).challenge = a THEN a ELSE Typo]
            /\ IF Entry(a).challenge = NoOne
               THEN Goto(a, "over") /\ UNCHANGED signal
               ELSE Goto(a, "responded") /\ signal' = TRUE
    /\ UNCHANGED <<who, woken, holder, uiVars, watcher, shown, daemonVars, stateVars>>

-----------------------------------------------------------------------------
\* check_client_pairing_secret refuses.  The entry stays.
Reject(a) ==
    /\ Free
    /\ attempt[a] = "responded"
    /\ Entry(a).hash # a \/ Entry(a).challenge # a
    /\ Refuse(a)
    /\ UNCHANGED <<who, woken, holder, uiVars, watcher, shown, daemonVars, stateVars>>

\* verify_pairing_secret accepts, and the certificate is added.
Verify(a) ==
    /\ Free
    /\ attempt[a] = "responded"
    /\ Entry(a).hash = a /\ Entry(a).challenge = a
    /\ State!AddPairedCert(who[a].machine)
    /\ holder' = a
    /\ Goto(a, "saving_cert")
    /\ UNCHANGED <<who, woken, pending, uiVars, listVars, daemonVars>>

Save(a) ==
    /\ attempt[a] \in {"saving_cert", "saving_client"}
    /\ State!Truncate(a)
    /\ UNCHANGED <<who, attempt, woken, pending, holder, uiVars, listVars, daemonVars>>

Saved(a) ==
    /\ State!Written(a)
    /\ Goto(a, IF attempt[a] = "saving_cert" THEN "adding_client" ELSE "removing")
    /\ UNCHANGED <<who, woken, pending, holder, uiVars, listVars, daemonVars>>

\* The file cannot be opened, and the request fails: what was changed stays
\* changed, and nobody is notified.
SaveFails(a) ==
    /\ "save_fails" \in Hazards
    /\ attempt[a] \in {"saving_cert", "saving_client"} /\ a \notin writing
    /\ Goto(a, "over")
    /\ holder' = NoOne
    /\ unsaved' = TRUE
    /\ UNCHANGED <<who, woken, pending, uiVars, listVars, daemon, crashes, stateVars>>

\* Mutant of AddClient: what it adds is not saved.
AddClientUnsaved(a) ==
    /\ attempt[a] = "adding_client"
    /\ State!AddClient(who[a].id)
    /\ Goto(a, "removing")
    /\ UNCHANGED <<who, woken, pending, holder, uiVars, listVars, daemonVars>>

\* has_client, add_client.
AddClient(a) ==
    /\ attempt[a] = "adding_client"
    /\ IF who[a].id \in clients
       THEN Goto(a, "removing") /\ UNCHANGED stateVars
       ELSE Goto(a, "saving_client") /\ State!AddClient(who[a].id)
    /\ UNCHANGED <<who, woken, pending, holder, uiVars, listVars, daemonVars>>

\* Mutant of RemovePending: nobody is notified.
RemovePendingQuietly(a) ==
    /\ attempt[a] = "removing"
    /\ Goto(a, "paired")
    /\ pending' = [pending EXCEPT ![who[a].id] = NoEntry]
    /\ holder' = NoOne
    /\ UNCHANGED <<who, woken, uiVars, listVars, daemonVars, stateVars>>

RemovePending(a) ==
    /\ attempt[a] = "removing"
    /\ Goto(a, "paired")
    /\ pending' = [pending EXCEPT ![who[a].id] = NoEntry]
    /\ holder' = NoOne
    /\ signal' = TRUE
    /\ UNCHANGED <<who, woken, uiVars, watcher, shown, daemonVars, stateVars>>

-----------------------------------------------------------------------------
\* Mutant of SubmitPin: the waiting handler is not notified.
SubmitPinQuietly(i, pin) ==
    /\ Free
    /\ submit = NoOne
    /\ i \in Pending
    /\ pending' = [pending EXCEPT ![i].key = pin]
    /\ submit' = i
    /\ signal' = TRUE
    /\ UNCHANGED <<who, attempt, woken, holder, unpairing, watcher, shown, daemonVars, stateVars>>

\* submit_pin, register_pin: the key is made from the entry's salt and a PIN,
\* the one of the attempt that left the entry or another, which is as good as
\* a mistyped one.
SubmitPin(i, pin) ==
    LET owner == pending[i].owner
    IN  /\ Free
        /\ submit = NoOne
        /\ i \in Pending
        /\ attempt[owner] = "added" => "early_pin" \in Hazards
        /\ pending' = [pending EXCEPT ![i].key = pin]
        /\ woken' = woken \cup ({owner} \cap {a \in Attempt : attempt[a] = "waiting"})
        /\ submit' = i
        /\ signal' = TRUE
        /\ UNCHANGED <<who, attempt, holder, unpairing, watcher, shown, daemonVars, stateVars>>

\* pending_clients drops what has waited too long before it looks.
Sweep(gone) ==
    /\ gone \subseteq Pending
    /\ gone # {} => "expiry" \in Hazards
    /\ pending' = [i \in Id |-> IF i \in gone THEN NoEntry ELSE pending[i]]

\* submit_pin looks whether the id is pending still; it registers before it
\* looks, so it looks again after every change.
Resolved(gone) ==
    /\ Free
    /\ Sweep(gone)
    /\ submit \in Id \ (Pending \ gone)
    /\ submit' = NoOne
    /\ signal' = (signal \/ gone # {})
    /\ UNCHANGED <<who, attempt, woken, holder, unpairing, watcher, shown, daemonVars, stateVars>>

\* Mutant of TimedOut: submit_pin waits for as long as the client may go on.
TimedOutOnlyIfFailed ==
    /\ Free
    /\ submit \in Pending
    /\ attempt[pending[submit].owner] = "over"
    /\ submit' = NoOne
    /\ UNCHANGED <<who, attempt, woken, pending, holder, unpairing, listVars, daemonVars, stateVars>>

\* PAIRING_TIMEOUT: the last look finds the id pending.
TimedOut ==
    /\ Free
    /\ submit \in Pending
    /\ submit' = NoOne
    /\ UNCHANGED <<who, attempt, woken, pending, holder, unpairing, listVars, daemonVars, stateVars>>

\* unpair: a machine that is not paired changes nothing.
UnpairRemoves(m) ==
    /\ daemon = "up"
    /\ unpairing = NoOne
    /\ m \in certs
    /\ State!RemovePairedCert(m)
    /\ unpairing' = m
    /\ UNCHANGED <<who, attempt, woken, pending, holder, submit, listVars, daemonVars>>

UnpairSaves ==
    /\ daemon = "up"
    /\ unpairing # NoOne
    /\ State!Truncate(Unpair)
    /\ UNCHANGED <<who, attempt, woken, pending, holder, uiVars, listVars, daemonVars>>

UnpairSaved ==
    /\ State!Written(Unpair)
    /\ unpairing' = NoOne
    /\ signal' = TRUE
    /\ UNCHANGED <<who, attempt, woken, pending, holder, submit, watcher, shown, daemonVars>>

\* The call fails, and so nobody is notified of what it removed.
UnpairFails ==
    /\ "save_fails" \in Hazards
    /\ unpairing # NoOne /\ Unpair \notin writing
    /\ unpairing' = NoOne
    /\ unsaved' = TRUE
    /\ UNCHANGED <<who, attempt, woken, pending, holder, submit, listVars, daemon, crashes, stateVars>>

-----------------------------------------------------------------------------
\* The watcher wakes and registers again before it looks.
WatcherWakes ==
    /\ daemon = "up"
    /\ watcher = "waiting" /\ signal
    /\ watcher' = "pending"
    /\ signal' = FALSE
    /\ UNCHANGED <<who, attempt, woken, pending, holder, uiVars, shown, daemonVars, stateVars>>

PublishPending(gone) ==
    /\ Free
    /\ watcher = "pending"
    /\ Sweep(gone)
    /\ shown' = [shown EXCEPT !.pending = Pending \ gone]
    /\ signal' = (signal \/ gone # {})
    /\ watcher' = "paired"
    /\ UNCHANGED <<who, attempt, woken, holder, uiVars, daemonVars, stateVars>>

PublishPaired ==
    /\ daemon = "up"
    /\ watcher = "paired"
    /\ shown' = [shown EXCEPT !.paired = certs]
    /\ watcher' = "waiting"
    /\ UNCHANGED <<who, attempt, woken, pending, holder, uiVars, signal, daemonVars, stateVars>>

-----------------------------------------------------------------------------
\* The daemon dies, or is stopped: its requests, calls and pending clients
\* are gone.
Crash ==
    /\ crashes < MaxCrashes
    /\ daemon # "down"
    /\ disk.torn => "torn_write" \in Hazards
    /\ crashes' = crashes + 1
    /\ daemon' = "down" /\ unsaved' = FALSE
    /\ attempt' = [a \in Attempt |->
           IF attempt[a] \in {"new", "paired", "over"} THEN attempt[a] ELSE "over"]
    /\ woken' = {}
    /\ pending' = [i \in Id |-> NoEntry]
    /\ holder' = NoOne
    /\ submit' = NoOne /\ unpairing' = NoOne
    /\ watcher' = "pending" /\ signal' = FALSE
    /\ shown' = [pending |-> {}, paired |-> {}]
    /\ writing' = {}
    /\ UNCHANGED <<who, certs, clients, disk>>

\* PersistentState::new loads the file and saves it at once.
Start ==
    /\ daemon = "down"
    /\ daemon' = "booting"
    /\ State!Load
    /\ UNCHANGED <<who, attempt, woken, pending, holder, uiVars, listVars, crashes, unsaved>>

StartSaves ==
    /\ daemon = "booting"
    /\ State!Truncate(Boot)
    /\ UNCHANGED <<who, attempt, woken, pending, holder, uiVars, listVars, daemonVars>>

StartSaved ==
    /\ State!Written(Boot)
    /\ daemon' = "up"
    /\ UNCHANGED <<who, attempt, woken, pending, holder, uiVars, listVars, crashes, unsaved>>

Handshake(a) ==
    \/ AddPending(a) \/ Disconnect(a) \/ GiveUp(a)
    \/ ClientChallenge(a) \/ ServerChallengeResponse(a)
    \/ Reject(a) \/ Verify(a) \/ SaveFails(a)

\* What goes on by itself once a request is in.
Serving(a) ==
    \/ AwaitPin(a) \/ Answer(a)
    \/ Save(a) \/ Saved(a) \/ AddClient(a) \/ RemovePending(a)

SubmitEnds == TimedOut \/ \E gone \in SUBSET Id : Resolved(gone)
UnpairGoesOn == UnpairSaves \/ UnpairSaved
Watch == WatcherWakes \/ PublishPaired \/ \E gone \in SUBSET Id : PublishPending(gone)
Boots == Start \/ StartSaves \/ StartSaved

Next ==
    \/ \E a \in Attempt : Handshake(a) \/ Serving(a)
    \/ \E i \in Pending : \E pin \in {pending[i].owner, Typo} : SubmitPin(i, pin)
    \/ \E m \in Machine : UnpairRemoves(m)
    \/ SubmitEnds \/ UnpairGoesOn \/ UnpairFails
    \/ Watch \/ Crash \/ Boots

Spec == Init /\ [][Next]_vars

\* Requests and calls of the daemon run on; the timer of submit_pin fires.
\* Clients, the user and misfortunes owe nothing, and no entry need expire.
Fairness ==
    /\ \A a \in Attempt : WF_vars(Serving(a))
    /\ WF_vars(TimedOut \/ Resolved({})) /\ WF_vars(UnpairGoesOn)

FairSpec == Spec /\ Fairness

-----------------------------------------------------------------------------
\* While the watcher waits for a change, the lists it has published are the
\* lists there are: no change is lost between its looks.  (Saving in progress,
\* the change is yet to be announced.)
ListsCurrent ==
    daemon = "up" /\ watcher = "waiting" /\ ~signal =>
        /\ shown.pending = Pending
        /\ holder = NoOne /\ unpairing = NoOne /\ ~unsaved => shown.paired = certs

\* When no operation is under way the file holds what the memory holds: the
\* client, or the user, is never told of a change that a restart would undo.
DiskCurrent ==
    daemon = "up" /\ holder = NoOne /\ unpairing = NoOne /\ ~unsaved => disk = State!Data

\* A handler whose client is there goes on when its PIN has been entered.
PinMovesHandshake ==
    \A a \in Attempt :
        (attempt[a] = "waiting" /\ \E i \in Id : pending[i].owner = a /\ pending[i].key # NoOne)
        ~> (attempt[a] # "waiting")

\* The UI's call returns; it does not wait for a client that has given up.
SubmitReturns == (submit # NoOne) ~> (submit = NoOne)

=============================================================================
