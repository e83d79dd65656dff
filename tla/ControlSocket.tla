--------------------------- MODULE ControlSocket ---------------------------
(***************************************************************************)
(* The state the daemon publishes on its control socket: ControlHandle,    *)
(* its setters and subscriptions, and serve's watcher, which copies the    *)
(* ClientManager's two lists into it.                                      *)
(*                                                                         *)
(* Everybody who waits here waits on a Notify whose notify_waiters stores  *)
(* no permit: a bell that rings only for those who have armed it.  States  *)
(* are told apart by their versions.                                       *)
(***************************************************************************)
EXTENDS Integers

CONSTANTS
    Subscriber,     \* connections that may subscribe
    MaxListChanges, \* bound: changes of the ClientManager's lists
    MaxCasts        \* bound: what session_pump sets

ASSUME SocketAssumption == MaxListChanges \in Nat /\ MaxCasts \in Nat

VARIABLES
    managed,    \* the version of each of the ClientManager's lists
    casts,      \* how often session_pump has set the client or the casting
    inner,      \* the version of each list in CastState
    version,    \* how often CastState has been set
    watcher,    \* the pending watcher: its step, its bell, what it has read
    at,         \* where each subscription is
    bell,       \* its Notified future: off, armed or rung
    sent        \* the last version it was given to send, -1 for none

subVars == <<at, bell, sent>>
socketVars == <<managed, casts, inner, version, watcher, subVars>>

List == {"pending", "paired"}
Bell == {"off", "armed", "rung"}

TypeOK ==
    /\ managed \in [List -> Nat] /\ inner \in [List -> Nat]
    /\ casts \in Nat /\ version \in Nat
    /\ watcher \in [at : {"unarmed", "waiting", "set"} \cup List, bell : Bell, read : Nat,
                    list : List]
    /\ at \in [Subscriber -> {"away", "accepted", "snapshot", "sending", "waiting"}]
    /\ bell \in [Subscriber -> Bell]
    /\ sent \in [Subscriber -> Nat \cup {-1}]

Init ==
    /\ managed = [l \in List |-> 0] /\ inner = managed
    /\ casts = 0 /\ version = 0
    /\ watcher = [at |-> "unarmed", bell |-> "off", read |-> 0, list |-> "pending"]
    /\ at = [s \in Subscriber |-> "away"]
    /\ bell = [s \in Subscriber |-> "off"]
    /\ sent = [s \in Subscriber |-> -1]

Rung(b) == IF b = "armed" THEN "rung" ELSE b

\* Every setter of CastState ends in notify_waiters.
Publishes ==
    /\ version' = version + 1
    /\ bell' = [s \in Subscriber |-> Rung(bell[s])]
    /\ UNCHANGED <<at, sent>>

-----------------------------------------------------------------------------
\* The ClientManager changes a list of its own and fires pending_changed.
ListChanges(l) ==
    /\ managed["pending"] + managed["paired"] < MaxListChanges
    /\ managed' = [managed EXCEPT ![l] = @ + 1]
    /\ watcher' = [watcher EXCEPT !.bell = Rung(@)]
    /\ UNCHANGED <<casts, inner, version, subVars>>

\* The watcher arms its bell before it first looks, and each time it rings.
WatcherArms ==
    /\ watcher.at = "unarmed" \/ (watcher.at = "waiting" /\ watcher.bell = "rung")
    /\ watcher' = [watcher EXCEPT !.at = "pending", !.bell = "armed"]
    /\ UNCHANGED <<managed, casts, inner, version, subVars>>

\* pending_entries, then paired_entries.
WatcherReads(l) ==
    /\ watcher.at = l
    /\ watcher' = [watcher EXCEPT !.at = "set", !.read = managed[l], !.list = l]
    /\ UNCHANGED <<managed, casts, inner, version, subVars>>

\* Mutant of WatcherSets: its bell is armed once it is done, not before.
WatcherSetsAndArms ==
    /\ watcher.at = "set"
    /\ inner' = [inner EXCEPT ![watcher.list] = watcher.read]
    /\ Publishes
    /\ watcher' = IF watcher.list = "pending" THEN [watcher EXCEPT !.at = "paired"]
                  ELSE [watcher EXCEPT !.at = "waiting", !.bell = "armed"]
    /\ UNCHANGED <<managed, casts>>

\* set_pending, then set_paired.
WatcherSets ==
    /\ watcher.at = "set"
    /\ inner' = [inner EXCEPT ![watcher.list] = watcher.read]
    /\ Publishes
    /\ watcher' = [watcher EXCEPT !.at = IF watcher.list = "pending" THEN "paired" ELSE "waiting"]
    /\ UNCHANGED <<managed, casts>>

\* session_pump calls set_client and set_casting, one right after the other.
PumpSets ==
    /\ casts < MaxCasts
    /\ casts' = casts + 1
    /\ Publishes
    /\ UNCHANGED <<managed, inner, watcher>>

-----------------------------------------------------------------------------
Goes(s, from, to) == at[s] = from /\ at' = [at EXCEPT ![s] = to]

Accept(s) ==
    /\ Goes(s, "away", "accepted")
    /\ UNCHANGED <<managed, casts, inner, version, watcher, bell, sent>>

\* Mutant of Arms: interest is registered for the first change only.
ArmsOnce(s) ==
    /\ Goes(s, "accepted", "snapshot") \/ (Goes(s, "waiting", "snapshot") /\ bell[s] = "rung")
    /\ bell' = [bell EXCEPT ![s] = IF at[s] = "accepted" THEN "armed" ELSE "off"]
    /\ UNCHANGED <<managed, casts, inner, version, watcher, sent>>

\* Interest is registered before anything is read, and again before a send.
Arms(s) ==
    /\ Goes(s, "accepted", "snapshot") \/ (Goes(s, "waiting", "snapshot") /\ bell[s] = "rung")
    /\ bell' = [bell EXCEPT ![s] = "armed"]
    /\ UNCHANGED <<managed, casts, inner, version, watcher, sent>>

Snapshot(s) ==
    /\ Goes(s, "snapshot", "sending")
    /\ sent' = [sent EXCEPT ![s] = version]
    /\ UNCHANGED <<managed, casts, inner, version, watcher, bell>>

\* Mutant of Sent: the bell is armed after the send, not before it.
SentArms(s) ==
    /\ Goes(s, "sending", "waiting")
    /\ bell' = [bell EXCEPT ![s] = "armed"]
    /\ UNCHANGED <<managed, casts, inner, version, watcher, sent>>

\* The send may have been suspended for as long as the client did not read.
Sent(s) ==
    /\ Goes(s, "sending", "waiting")
    /\ UNCHANGED <<managed, casts, inner, version, watcher, bell, sent>>

\* The sink is closed, or the send fails.
Closed(s) ==
    /\ at[s] # "away"
    /\ at' = [at EXCEPT ![s] = "away"]
    /\ bell' = [bell EXCEPT ![s] = "off"]
    /\ sent' = [sent EXCEPT ![s] = -1]
    /\ UNCHANGED <<managed, casts, inner, version, watcher>>

WatcherStep == WatcherArms \/ WatcherSets \/ \E l \in List : WatcherReads(l)
SubscriptionStep(s) == Arms(s) \/ Snapshot(s) \/ Sent(s)

Next ==
    \/ WatcherStep \/ PumpSets
    \/ \E l \in List : ListChanges(l)
    \/ \E s \in Subscriber : Accept(s) \/ SubscriptionStep(s) \/ Closed(s)

\* Tasks run; a client that stays reads what it is sent.  Nobody owes a change
\* or a subscription.
SocketSpec ==
    /\ Init /\ [][Next]_socketVars
    /\ WF_socketVars(WatcherStep)
    /\ \A s \in Subscriber : WF_socketVars(SubscriptionStep(s))

-----------------------------------------------------------------------------
\* main.rs:269, control.rs:183: who waits for a bell that has not rung has the
\* current state: no change falls between a look and the wait that follows.
NothingMissed ==
    /\ watcher.at = "waiting" /\ watcher.bell = "armed" => inner = managed
    /\ \A s \in Subscriber :
         at[s] \in {"sending", "waiting"} /\ bell[s] = "armed" => sent[s] = version

\* Each subscription is a view of the latest value, and gets to it in the end.
Latest == INSTANCE LatestValue WITH value <- version, seen <- sent
ImplementsLatestValue == Latest!LatestSpec
=============================================================================
