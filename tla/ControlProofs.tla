--------------------------- MODULE ControlProofs ----------------------------
(***************************************************************************)
(* Both ends of the control socket.  The daemon's, for any number of       *)
(* subscribers and changes: nobody who waits has missed a change, and what *)
(* a subscription is sent never goes back.  The UI's, for any clients and  *)
(* lists: a request is outstanding only behind the screen that waits for   *)
(* it, no frame panics over a list that has shrunk, and a program that has *)
(* ended or failed to start has given the display back.                    *)
(***************************************************************************)
EXTENDS ControlSocket, Console, FiniteSetTheorems, SequenceTheorems, TLAPS

-----------------------------------------------------------------------------
(* The daemon's end *)

\* What the watcher has copied since it last armed its bell is still current
\* as long as the bell has not rung.
WatcherCurrent ==
    watcher.bell = "armed" =>
        /\ watcher.at = "set" => watcher.read = managed[watcher.list]
        /\ watcher.at = "paired" \/ (watcher.at = "set" /\ watcher.list = "paired") =>
             inner["pending"] = managed["pending"]
        /\ watcher.at = "waiting" => inner = managed

\* The bell is silent before the watcher has first looked.
WatcherArmed == watcher.at = "unarmed" => watcher.bell = "off"

\* A subscription whose bell has not rung since it looked has the latest.
SubscriberCurrent ==
    \A s \in Subscriber :
        at[s] \in {"sending", "waiting"} /\ bell[s] = "armed" => sent[s] = version

\* Nobody has been sent what is still to come.
SentIsPast == \A s \in Subscriber : sent[s] <= version

Inductive ==
    TypeOK /\ WatcherCurrent /\ WatcherArmed /\ SubscriberCurrent /\ SentIsPast

-----------------------------------------------------------------------------
LEMMA InitiallyInductive == Init => Inductive
<1> SUFFICES ASSUME Init PROVE Inductive
  OBVIOUS
<1>1. TypeOK
  BY DEF Init, TypeOK, List, Bell
<1>2. WatcherCurrent /\ WatcherArmed /\ SubscriberCurrent /\ SentIsPast
  BY DEF Init, WatcherCurrent, WatcherArmed, SubscriberCurrent, SentIsPast
<1> QED BY <1>1, <1>2 DEF Inductive

\* A setter rings for every subscription, so none of them is left behind.
LEMMA PublishingRings ==
    ASSUME Inductive, Publishes
    PROVE  /\ version' \in Nat /\ version <= version'
           /\ at' \in [Subscriber -> {"away", "accepted", "snapshot", "sending", "waiting"}]
           /\ bell' \in [Subscriber -> Bell] /\ sent' \in [Subscriber -> Nat \cup {-1}]
           /\ SubscriberCurrent' /\ SentIsPast'
<1> USE DEF Inductive
<1>1. /\ version' = version + 1 /\ version \in Nat
      /\ UNCHANGED <<at, sent>> /\ bell' = [s \in Subscriber |-> Rung(bell[s])]
  BY DEF Publishes, TypeOK
<1>2. \A s \in Subscriber : bell'[s] = Rung(bell[s]) /\ bell'[s] \in Bell /\ bell'[s] # "armed"
  BY <1>1 DEF Rung, Bell, TypeOK
<1>3. bell' \in [Subscriber -> Bell]
  BY <1>1, <1>2
<1>4. SubscriberCurrent'
  BY <1>2 DEF SubscriberCurrent
<1>5. SentIsPast'
  BY <1>1 DEF SentIsPast, TypeOK
<1> QED BY <1>1, <1>3, <1>4, <1>5 DEF TypeOK

LEMMA WatcherSteps ==
    ASSUME Inductive, WatcherStep
    PROVE  Inductive'
<1> USE DEF Inductive
<1>1. CASE WatcherArms
  <2>1. TypeOK'
    BY <1>1 DEF WatcherArms, TypeOK, subVars, Bell, List
  <2>2. WatcherCurrent' /\ WatcherArmed'
    BY <1>1 DEF WatcherArms, TypeOK, WatcherCurrent, WatcherArmed
  <2>3. SubscriberCurrent' /\ SentIsPast'
    BY <1>1 DEF WatcherArms, SubscriberCurrent, SentIsPast, subVars
  <2> QED BY <2>1, <2>2, <2>3
<1>2. ASSUME NEW l \in List, WatcherReads(l) PROVE Inductive'
  <2>1. TypeOK'
    BY <1>2 DEF WatcherReads, TypeOK, subVars, Bell, List
  <2>2. WatcherCurrent' /\ WatcherArmed'
    BY <1>2 DEF WatcherReads, TypeOK, WatcherCurrent, WatcherArmed, List
  <2>3. SubscriberCurrent' /\ SentIsPast'
    BY <1>2 DEF WatcherReads, SubscriberCurrent, SentIsPast, subVars
  <2> QED BY <2>1, <2>2, <2>3
<1>3. CASE WatcherSets
  <2>1. Publishes /\ UNCHANGED <<managed, casts>>
    BY <1>3 DEF WatcherSets
  <2>2. /\ watcher.at = "set" /\ watcher.read \in Nat /\ watcher.list \in List
        /\ inner' = [inner EXCEPT ![watcher.list] = watcher.read]
        /\ watcher' = [watcher EXCEPT !.at = IF watcher.list = "pending" THEN "paired"
                                             ELSE "waiting"]
    BY <1>3 DEF WatcherSets, TypeOK
  <2>3. inner' \in [List -> Nat]
    BY <2>2 DEF TypeOK
  <2>4. TypeOK'
    <3>1. watcher' \in [at : {"unarmed", "waiting", "set"} \cup List, bell : Bell, read : Nat,
                        list : List]
      BY <2>2 DEF TypeOK, List
    <3>2. managed' \in [List -> Nat] /\ casts' \in Nat
      BY <2>1 DEF TypeOK
    <3> QED BY <2>1, <2>3, <3>1, <3>2, PublishingRings DEF TypeOK
  <2>5. WatcherCurrent'
    <3> SUFFICES ASSUME watcher'.bell = "armed"
                 PROVE  /\ watcher'.at # "set"
                        /\ watcher'.at = "paired" => inner'["pending"] = managed'["pending"]
                        /\ watcher'.at = "waiting" => inner' = managed'
      BY DEF WatcherCurrent
    <3>1. watcher.bell = "armed" /\ watcher.read = managed[watcher.list] /\ watcher'.at # "set"
      BY <2>2 DEF WatcherCurrent, TypeOK
    <3>2. CASE watcher.list = "pending"
      BY <2>1, <2>2, <3>1, <3>2 DEF TypeOK, List
    <3>3. CASE watcher.list = "paired"
      <4>1. inner["pending"] = managed["pending"]
        BY <2>2, <3>1, <3>3 DEF WatcherCurrent
      <4>2. \A l \in List : inner'[l] = managed'[l]
        BY <2>1, <2>2, <3>1, <3>3, <4>1 DEF TypeOK, List
      <4>3. inner' \in [List -> Nat] /\ managed' \in [List -> Nat]
        BY <2>4 DEF TypeOK
      <4>4. inner' = managed'
        BY <4>2, <4>3
      <4>5. watcher'.at = "waiting"
        BY <2>2, <3>3 DEF TypeOK
      <4> QED BY <4>4, <4>5
    <3> QED BY <2>2, <3>2, <3>3 DEF List
  <2>6. WatcherArmed'
    BY <2>2 DEF WatcherArmed, TypeOK
  <2> QED BY <2>1, <2>4, <2>5, <2>6, PublishingRings
<1> QED BY <1>1, <1>2, <1>3 DEF WatcherStep

\* A change rings the watcher's bell, if it is armed.
LEMMA ListSteps ==
    ASSUME Inductive, NEW l \in List, ListChanges(l)
    PROVE  Inductive'
<1> USE DEF Inductive
<1>1. TypeOK'
  BY DEF ListChanges, TypeOK, subVars, Rung, Bell, List
<1>2. WatcherCurrent' /\ WatcherArmed'
  BY DEF ListChanges, TypeOK, Rung, Bell, WatcherCurrent, WatcherArmed
<1>3. SubscriberCurrent' /\ SentIsPast'
  BY DEF ListChanges, SubscriberCurrent, SentIsPast, subVars
<1> QED BY <1>1, <1>2, <1>3

LEMMA PumpSteps == ASSUME Inductive, PumpSets PROVE Inductive'
<1> USE DEF Inductive
<1>1. Publishes /\ casts' = casts + 1 /\ UNCHANGED <<managed, inner, watcher>>
  BY DEF PumpSets
<1>2. TypeOK'
  BY <1>1, PublishingRings DEF TypeOK
<1>3. WatcherCurrent' /\ WatcherArmed'
  BY <1>1 DEF WatcherCurrent, WatcherArmed
<1> QED BY <1>1, <1>2, <1>3, PublishingRings

LEMMA SubscriberSteps ==
    ASSUME Inductive, NEW s \in Subscriber, Accept(s) \/ SubscriptionStep(s) \/ Closed(s)
    PROVE  Inductive'
<1> USE DEF Inductive
<1>1. UNCHANGED <<managed, casts, inner, version, watcher>>
  BY DEF Accept, SubscriptionStep, Arms, Snapshot, Sent, Closed
<1>2. WatcherCurrent' /\ WatcherArmed'
  BY <1>1 DEF WatcherCurrent, WatcherArmed
<1>3. CASE Accept(s)
  <2>1. TypeOK'
    BY <1>1, <1>3 DEF Accept, Goes, TypeOK
  <2>2. SubscriberCurrent' /\ SentIsPast'
    BY <1>1, <1>3 DEF Accept, Goes, TypeOK, SubscriberCurrent, SentIsPast
  <2> QED BY <1>2, <2>1, <2>2
<1>4. CASE Arms(s)
  <2>1. TypeOK'
    BY <1>1, <1>4 DEF Arms, Goes, TypeOK, Bell
  <2>2. SubscriberCurrent' /\ SentIsPast'
    BY <1>1, <1>4 DEF Arms, Goes, TypeOK, SubscriberCurrent, SentIsPast
  <2> QED BY <1>2, <2>1, <2>2
<1>5. CASE Snapshot(s)
  <2>1. TypeOK'
    BY <1>1, <1>5 DEF Snapshot, Goes, TypeOK
  <2>2. SubscriberCurrent' /\ SentIsPast'
    BY <1>1, <1>5 DEF Snapshot, Goes, TypeOK, SubscriberCurrent, SentIsPast
  <2> QED BY <1>2, <2>1, <2>2
<1>6. CASE Sent(s)
  <2>1. TypeOK'
    BY <1>1, <1>6 DEF Sent, Goes, TypeOK
  <2>2. SubscriberCurrent' /\ SentIsPast'
    BY <1>1, <1>6 DEF Sent, Goes, TypeOK, SubscriberCurrent, SentIsPast
  <2> QED BY <1>2, <2>1, <2>2
<1>7. CASE Closed(s)
  <2>1. TypeOK'
    BY <1>1, <1>7 DEF Closed, TypeOK, Bell
  <2>2. SubscriberCurrent' /\ SentIsPast'
    BY <1>1, <1>7 DEF Closed, TypeOK, SubscriberCurrent, SentIsPast
  <2> QED BY <1>2, <2>1, <2>2
<1> QED BY <1>3, <1>4, <1>5, <1>6, <1>7 DEF SubscriptionStep

LEMMA StepInductive == Inductive /\ [Next]_socketVars => Inductive'
<1> SUFFICES ASSUME Inductive, [Next]_socketVars PROVE Inductive'
  OBVIOUS
<1>1. CASE UNCHANGED socketVars
  BY <1>1 DEF Inductive, socketVars, subVars, TypeOK, WatcherCurrent, WatcherArmed,
     SubscriberCurrent, SentIsPast
<1>2. CASE Next
  BY <1>2, WatcherSteps, PumpSteps, ListSteps, SubscriberSteps DEF Next
<1> QED BY <1>1, <1>2

LEMMA AlwaysInductive == SocketSpec => []Inductive
<1> QED BY InitiallyInductive, StepInductive, PTL DEF SocketSpec

-----------------------------------------------------------------------------
\* control.rs:124, main.rs:281: every variable has its type.
THEOREM SocketTypeCorrect == SocketSpec => []TypeOK
<1>1. Inductive => TypeOK
  BY DEF Inductive
<1> QED BY <1>1, AlwaysInductive, PTL

\* main.rs:269, control.rs:183: whoever waits for a bell that has not rung has
\* the current state, for any number of subscribers and changes.
THEOREM NothingEverMissed == SocketSpec => []NothingMissed
<1>1. Inductive => NothingMissed
  BY DEF Inductive, WatcherCurrent, SubscriberCurrent, NothingMissed
<1> QED BY <1>1, AlwaysInductive, PTL

LEMMA StepSimulates ==
    ASSUME Inductive, Inductive', [Next]_socketVars
    PROVE  [Latest!LatestNext]_(Latest!latestVars)
<1> USE DEF Latest!latestVars
<1>1. CASE Publishes
  BY <1>1 DEF Publishes, Latest!LatestNext, Latest!Change
<1>2. CASE UNCHANGED <<version, sent>>
  BY <1>2
<1>3. ASSUME NEW s \in Subscriber, Snapshot(s) PROVE [Latest!LatestNext]_(Latest!latestVars)
  <2>1. /\ UNCHANGED version /\ sent' = [sent EXCEPT ![s] = version]
        /\ sent[s] \in Nat \cup {-1} /\ sent[s] <= version /\ version \in Nat
    BY <1>3 DEF Snapshot, Inductive, TypeOK, SentIsPast
  <2>2. CASE sent[s] = -1
    BY <2>1, <2>2 DEF Latest!LatestNext, Latest!Join
  <2>3. CASE sent[s] = version
    BY <2>1, <2>3 DEF Inductive, TypeOK
  <2>4. CASE sent[s] # -1 /\ sent[s] < version
    <3>1. version \in sent[s] + 1 .. version
      BY <2>1, <2>4
    <3> QED BY <2>1, <2>4, <3>1 DEF Latest!LatestNext, Latest!Deliver
  <2> QED BY <2>1, <2>2, <2>3, <2>4
<1>4. ASSUME NEW s \in Subscriber, Closed(s) PROVE [Latest!LatestNext]_(Latest!latestVars)
  BY <1>4 DEF Closed, Latest!LatestNext, Latest!Leave
<1>5. CASE UNCHANGED socketVars
  BY <1>5 DEF socketVars, subVars
<1>6. CASE Next
  <2>1. CASE WatcherStep \/ PumpSets \/ \E l \in List : ListChanges(l)
    BY <2>1, <1>1, <1>2 DEF WatcherStep, WatcherArms, WatcherReads, WatcherSets, PumpSets,
       ListChanges, subVars
  <2>2. ASSUME NEW s \in Subscriber, Accept(s) \/ SubscriptionStep(s) \/ Closed(s)
        PROVE  [Latest!LatestNext]_(Latest!latestVars)
    BY <2>2, <1>2, <1>3, <1>4 DEF Accept, SubscriptionStep, Arms, Sent
  <2> QED BY <1>6, <2>1, <2>2 DEF Next
<1> QED BY <1>5, <1>6

\* control.rs:194-211: what a subscription is sent are values the daemon has
\* had, each newer than the last: the safety part of LatestValue.
THEOREM SubscriptionsNeverGoBack ==
    SocketSpec => Latest!LatestInit /\ [][Latest!LatestNext]_(Latest!latestVars)
<1>1. Init => Latest!LatestInit
  BY DEF Init, Latest!LatestInit
<1> QED BY <1>1, AlwaysInductive, StepSimulates, PTL DEF SocketSpec

-----------------------------------------------------------------------------
(* The UI's end: lists *)

CastLists == [pending : Seq(Client), paired : Seq(Fingerprint)]

LEMMA LeastOne ==
    ASSUME NEW I, I \subseteq Nat, I # {}
    PROVE  Min(I) \in I /\ \A y \in I : Min(I) <= y
<1> DEFINE R == {p \in Nat \X Nat : p[1] < p[2]}
<1>1. IsWellFoundedOn(R, Nat)
  BY NatLessThanWellFounded DEF OpToRel
<1> HIDE DEF R
<1>2. PICK x \in I : \A y \in I : ~(<<y, x>> \in R)
  BY <1>1, WFMin
<1>3. ASSUME NEW y \in I
      PROVE  x <= y
  <2>1. x \in Nat /\ y \in Nat
    OBVIOUS
  <2>2. <<y, x>> \in R <=> y < x
    BY <2>1 DEF R
  <2> QED BY <1>2, <2>1, <2>2
<1> QED BY <1>3 DEF Min

LEMMA LesserOfTwo ==
    ASSUME NEW a \in Nat, NEW b \in Nat
    PROVE  Min({a, b}) = IF a <= b THEN a ELSE b
<1>1. Min({a, b}) \in {a, b} /\ Min({a, b}) <= a /\ Min({a, b}) <= b
  BY LeastOne
<1> QED BY <1>1

\* A list that loses an entry is a list.
LEMMA RemovalKeepsType ==
    ASSUME NEW S, NEW s \in Seq(S), NEW e
    PROVE  RemoveFirst(s, e) \in Seq(S)
<1> DEFINE I == {i \in 1 .. Len(s) : s[i] = e}
<1>1. CASE I = {}
  BY <1>1 DEF RemoveFirst
<1>2. CASE I # {}
  <2>1. Min(I) \in 1 .. Len(s)
    <3>1. I \subseteq 1 .. Len(s) /\ I \subseteq Nat
      OBVIOUS
    <3> HIDE DEF I
    <3> QED BY <1>2, <3>1, LeastOne
  <2>2. /\ SelectInSeq(s, LAMBDA v : v = e) = Min(I)
        /\ \E i \in 1 .. Len(s) : s[i] = e
    BY <1>2 DEF SelectInSeq
  <2> HIDE DEF I
  <2>3. ASSUME NEW i \in 1 .. Len(s)
        PROVE  RemoveAt(s, i) \in Seq(S)
    <3>1. SubSeq(s, 1, i - 1) \in Seq(S) /\ SubSeq(s, i + 1, Len(s)) \in Seq(S)
      OBVIOUS
    <3> QED BY <3>1 DEF RemoveAt
  <2> QED BY <2>1, <2>2, <2>3 DEF RemoveFirst
<1> QED BY <1>1, <1>2

LEMMA ListsFromState == SetToSeq(Fingerprint) \in Seq(Fingerprint)
<1> DEFINE n == Cardinality(Fingerprint)
<1>1. PICK m \in Nat : ExistsBijection(1 .. m, Fingerprint)
  BY ConsoleAssumption, FS_NatBijection
<1>2. n = m
  BY <1>1, FS_CountingElements
<1>3. PICK f \in [1 .. n -> Fingerprint] : IsInjective(f)
  <2>1. PICK f \in Bijection(1 .. n, Fingerprint) : TRUE
    BY <1>1, <1>2 DEF ExistsBijection
  <2>2. f \in [1 .. n -> Fingerprint] /\ IsInjective(f)
    BY <2>1 DEF Bijection, Injection, IsInjective
  <2> QED BY <2>2
<1>4. SetToSeq(Fingerprint) \in [1 .. n -> Fingerprint]
  BY <1>3 DEF SetToSeq
<1> QED BY <1>1, <1>2, <1>4

-----------------------------------------------------------------------------
(* The UI's end: types *)

Subject == Client \cup Fingerprint \cup {"none"}
Request ==
    [at : {"none", "waiting", "lost", "paired", "not_ready", "rejected", "done", "error"},
     subject : Subject]
Inbox == {<<>>} \cup {<<l>> : l \in CastLists}
ControlType ==
    [at : {"none", "live", "broken"}, connected : BOOLEAN, inbox : Inbox,
     pin : Request, unpair : Request]

HomeScreen == [at : {"home"}, selected : Nat]
PinScreen(names) ==
    [at : names, id : Client, digits : [1 .. Places -> Int], cursor : 1 .. Places,
     error : BOOLEAN]
UnpairScreen == [at : {"confirm", "unpairing"}, fingerprint : Fingerprint]
Screens ==
    HomeScreen \cup PinScreen({"pin", "pairing"}) \cup UnpairScreen \cup {Message}

Requests == [kind : {"pin", "unpair"}, subject : Subject]

DaemonTypes == lists \in CastLists /\ up \in BOOLEAN /\ abandoned \subseteq Requests
UiTypes == control \in ControlType /\ state \in CastLists /\ screen \in Screens
DisplayTypes ==
    display = [phase |-> display.phase, held |-> display.held, recorded |-> display.recorded]

\* No frame has panicked, a program that runs has recorded all it has, and one
\* that is gone has nothing.
Held ==
    /\ display.phase # "panicked"
    /\ display.phase = "running" => display.recorded = display.held
    /\ display.phase = "gone" => display.held = {}

ConsoleInductive ==
    DaemonTypes /\ UiTypes /\ DisplayTypes /\ AnswerIsForThisScreen /\ Held

LEMMA TypesOfNothing ==
    /\ NoRequest \in Request /\ NoControl \in ControlType /\ NoLists \in CastLists
    /\ NoControl.pin = NoRequest /\ NoControl.unpair = NoRequest
    /\ Home \in Screens /\ Message \in Screens /\ Home.at = "home" /\ Message.at = "message"
<1>1. NoRequest \in Request
  BY DEF NoRequest, Request, Subject
<1>2. NoControl \in ControlType /\ NoControl.pin = NoRequest /\ NoControl.unpair = NoRequest
  BY <1>1 DEF NoControl, ControlType, Inbox
<1>3. NoLists \in CastLists
  BY DEF NoLists, CastLists
<1>4. Home \in Screens /\ Message \in Screens /\ Home.at = "home" /\ Message.at = "message"
  BY DEF Home, Message, Screens, HomeScreen
<1> QED BY <1>1, <1>2, <1>3, <1>4

\* Which screen it is says what is on it.
LEMMA ScreensApart ==
    ASSUME NEW s \in Screens
    PROVE  /\ s.at \in {"home", "pin", "pairing", "confirm", "unpairing", "message"}
           /\ s.at = "home" => s \in HomeScreen
           /\ s.at \in {"pin", "pairing"} => s \in PinScreen({"pin", "pairing"})
           /\ s.at \in {"confirm", "unpairing"} => s \in UnpairScreen
<1>1. CASE s \in HomeScreen
  BY <1>1 DEF HomeScreen
<1>2. CASE s \in PinScreen({"pin", "pairing"})
  BY <1>2 DEF PinScreen
<1>3. CASE s \in UnpairScreen
  BY <1>3 DEF UnpairScreen
<1>4. CASE s = Message
  BY <1>4 DEF Message
<1> QED BY <1>1, <1>2, <1>3, <1>4 DEF Screens

LEMMA OutstandingAreRequests ==
    ASSUME NEW c \in ControlType
    PROVE  Outstanding(c) \subseteq Requests
<1>1. ASSUME NEW k \in {"pin", "unpair"}
      PROVE  c[k].subject \in Subject
  BY DEF ControlType, Request
<1> QED BY <1>1 DEF Outstanding, Requests

\* A frame that polls forgets a request or keeps it, and invents none.
LEMMA PollingKeeps ==
    ASSUME DaemonTypes, UiTypes
    PROVE  /\ Polled \in ControlType /\ Shown \in CastLists
           /\ Polled.pin \in {NoRequest, control.pin}
           /\ Polled.unpair \in {NoRequest, control.unpair}
           /\ Reconnected \in ControlType
           /\ Forgotten \subseteq Requests
           /\ \A kind : Dropped(kind) \subseteq Requests
<1> USE DEF DaemonTypes, UiTypes
<1>1. /\ Connect \in ControlType /\ Connect.pin = NoRequest /\ Connect.unpair = NoRequest
  <2>1. CASE up
    <3>1. <<lists>> \in Inbox
      BY DEF Inbox
    <3>2. Connect = [NoControl EXCEPT !.at = "live", !.connected = TRUE, !.inbox = <<lists>>]
      BY <2>1 DEF Connect
    <3> QED BY <3>1, <3>2, TypesOfNothing DEF ControlType
  <2>2. CASE ~up
    BY <2>2, TypesOfNothing DEF Connect
  <2> QED BY <2>1, <2>2
<1>2. /\ Reconnected \in ControlType
      /\ Reconnected.pin \in {NoRequest, control.pin}
      /\ Reconnected.unpair \in {NoRequest, control.unpair}
  BY <1>1 DEF Reconnected
<1>3. ASSUME NEW c \in ControlType
      PROVE  /\ PollState(c) \in ControlType
             /\ PollState(c).pin = c.pin /\ PollState(c).unpair = c.unpair
  <2>1. <<>> \in Inbox
    BY DEF Inbox
  <2>2. CASE c.inbox # <<>>
    <3>1. PollState(c) = [c EXCEPT !.inbox = <<>>]
      BY <2>2 DEF PollState
    <3> QED BY <2>1, <3>1 DEF ControlType
  <2>3. CASE c.inbox = <<>> /\ c.at = "broken"
    <3>1. PollState(c) = [c EXCEPT !.connected = FALSE]
      BY <2>3 DEF PollState
    <3> QED BY <3>1 DEF ControlType
  <2>4. CASE c.inbox = <<>> /\ c.at # "broken"
    BY <2>4 DEF PollState
  <2> QED BY <2>2, <2>3, <2>4
<1>4. /\ Polled \in ControlType
      /\ Polled.pin \in {NoRequest, control.pin} /\ Polled.unpair \in {NoRequest, control.unpair}
  BY <1>2, <1>3 DEF Polled
<1>5. Shown \in CastLists
  <2>1. CASE Reconnected.inbox # <<>>
    <3>1. Reconnected.inbox \in Inbox
      BY <1>2 DEF ControlType
    <3>2. Head(Reconnected.inbox) \in CastLists
      BY <2>1, <3>1 DEF Inbox
    <3> QED BY <2>1, <3>2 DEF Shown
  <2>2. CASE Reconnected.inbox = <<>>
    BY <2>2, TypesOfNothing DEF Shown
  <2> QED BY <2>1, <2>2
<1>6. Forgotten \subseteq Requests
  BY OutstandingAreRequests DEF Forgotten
<1>7. \A kind : Dropped(kind) \subseteq Requests
  BY <1>4, <1>6, OutstandingAreRequests DEF Dropped
<1> QED BY <1>2, <1>4, <1>5, <1>6, <1>7

-----------------------------------------------------------------------------
(* The UI's end: rows *)

LEMMA RowsFit ==
    ASSUME NEW s \in CastLists
    PROVE  /\ PendingRows(s) \in 0 .. Len(s.pending)
           /\ PairedRows(s) \in 0 .. Len(s.paired)
           /\ RowCount(s) = 1 + PendingRows(s) + PairedRows(s)
           /\ RowCount(s) <= MAIN_ROW_COUNT
<1> DEFINE m == MAIN_ROW_COUNT - 1
           a == Len(s.pending)
           b == Len(s.paired)
<1>1. m \in Nat /\ a \in Nat /\ b \in Nat
  BY ConsoleAssumption DEF CastLists
<1>2. PendingRows(s) = IF a <= m THEN a ELSE m
  BY <1>1, LesserOfTwo DEF PendingRows
<1>3. m - PendingRows(s) \in Nat
  BY <1>1, <1>2
<1>4. PairedRows(s) = IF b <= m - PendingRows(s) THEN b ELSE m - PendingRows(s)
  BY <1>1, <1>3, LesserOfTwo DEF PairedRows
<1>5. MAIN_ROW_COUNT = m + 1
  BY ConsoleAssumption
<1> HIDE DEF m, a, b
<1>6. /\ PendingRows(s) \in 0 .. a /\ PairedRows(s) \in 0 .. b
      /\ 1 + PendingRows(s) + PairedRows(s) <= MAIN_ROW_COUNT
  BY <1>1, <1>2, <1>3, <1>4, <1>5
<1> QED BY <1>6 DEF RowCount, a, b

\* home.rs:89: what A is pressed on is there, however the lists have shrunk.
LEMMA RowOpens ==
    ASSUME UiTypes, DaemonTypes, screen.at = "home", NEW b
    PROVE  /\ Keeps(b) \in HomeScreen /\ Opened(b) \in Screens
           /\ Opened(b).at \in {"home", "pin", "confirm"}
<1> DEFINE n == RowCount(Shown)
           p == PendingRows(Shown)
           i == Selected(b)
           j == i - p
<1>1. Shown \in CastLists
  BY PollingKeeps
<1>2. /\ p \in 0 .. Len(Shown.pending) /\ PairedRows(Shown) \in 0 .. Len(Shown.paired)
      /\ n = 1 + p + PairedRows(Shown)
      /\ Len(Shown.pending) \in Nat /\ Len(Shown.paired) \in Nat
  BY <1>1, RowsFit DEF CastLists
<1>3. screen \in HomeScreen
  BY ScreensApart DEF UiTypes
<1>4. i \in 0 .. n - 1
  <2>1. screen.selected \in Nat
    BY <1>3 DEF HomeScreen
  <2>2. Clamped(screen.selected, Shown) \in 0 .. n - 1
    BY <1>2, <2>1 DEF Clamped
  <2> HIDE DEF n
  <2> QED BY <1>2, <2>2 DEF Selected, n
<1>5. Keeps(b) = [at |-> "home", selected |-> i]
  BY DEF Keeps, Home
<1> HIDE DEF i
<1>6. Keeps(b) \in HomeScreen
  BY <1>2, <1>4, <1>5 DEF HomeScreen
<1>7. CASE i = 0
  <2>1. Opened(b) = Keeps(b)
    BY <1>2, <1>7 DEF Opened, i
  <2> QED BY <1>5, <1>6, <2>1 DEF Screens
<1>8. CASE i # 0 /\ j <= 0
  <2>1. Opened(b) = NewPin(Shown.pending[i])
    BY <1>2, <1>4, <1>8 DEF Opened, i
  <2>2. i \in 1 .. Len(Shown.pending)
    BY <1>2, <1>4, <1>8
  <2>3. Shown.pending[i] \in Client
    BY <1>1, <2>2 DEF CastLists
  <2>4. NewPin(Shown.pending[i]) \in PinScreen({"pin", "pairing"})
    BY <2>3, ConsoleAssumption DEF NewPin, PinScreen
  <2>5. NewPin(Shown.pending[i]).at = "pin"
    BY DEF NewPin
  <2> QED BY <1>6, <2>1, <2>4, <2>5 DEF Screens
<1>9. CASE i # 0 /\ j > 0
  <2>1. j \in 1 .. Len(Shown.paired)
    BY <1>2, <1>4, <1>9
  <2>2. Opened(b) = [at |-> "confirm", fingerprint |-> Shown.paired[j]]
    BY <1>2, <1>4, <1>9, <2>1 DEF Opened, i
  <2>3. Shown.paired[j] \in Fingerprint
    BY <1>1, <2>1 DEF CastLists
  <2>4. Opened(b) \in UnpairScreen /\ Opened(b).at = "confirm"
    BY <2>2, <2>3 DEF UnpairScreen
  <2> QED BY <1>6, <2>4 DEF Screens
<1> QED BY <1>2, <1>4, <1>7, <1>8, <1>9

-----------------------------------------------------------------------------
(* The UI's end: steps *)

LEMMA ConsoleInitially == ConsoleInit => ConsoleInductive
<1> SUFFICES ASSUME ConsoleInit
             PROVE  ConsoleInductive
  OBVIOUS
<1> USE DEF ConsoleInit
<1>1. DaemonTypes
  BY ListsFromState DEF DaemonTypes, CastLists
<1>2. UiTypes
  BY TypesOfNothing DEF UiTypes
<1>3. DisplayTypes /\ Held
  BY DEF DisplayTypes, Held
<1>4. AnswerIsForThisScreen
  BY TypesOfNothing DEF AnswerIsForThisScreen
<1> QED BY <1>1, <1>2, <1>3, <1>4 DEF ConsoleInductive

\* Nothing is outstanding but behind the two screens that wait.
LEMMA OnlyWaitersWait ==
    ASSUME ConsoleInductive
    PROVE  /\ screen.at # "pairing" => Polled.pin = NoRequest
           /\ screen.at # "unpairing" => Polled.unpair = NoRequest
           /\ Polled.pin # NoRequest => screen.id = Polled.pin.subject
           /\ Polled.unpair # NoRequest => screen.fingerprint = Polled.unpair.subject
  BY PollingKeeps DEF ConsoleInductive, AnswerIsForThisScreen

\* A frame that waits for nothing new.
LEMMA IdleFrame ==
    ASSUME ConsoleInductive, control' \in ControlType, state' \in CastLists, screen' \in Screens,
           control'.pin = NoRequest, control'.unpair = NoRequest
    PROVE  UiTypes' /\ AnswerIsForThisScreen'
  BY DEF UiTypes, AnswerIsForThisScreen

LEMMA NewSafely ==
    ASSUME ConsoleInductive, UiNew
    PROVE  ConsoleInductive'
<1> USE DEF ConsoleInductive
<1>1. DaemonTypes' /\ UiTypes' /\ AnswerIsForThisScreen'
  BY DEF UiNew, daemonVars, uiVars, DaemonTypes, UiTypes, AnswerIsForThisScreen
<1> SUFFICES DisplayTypes' /\ Held'
  BY <1>1
<1>2. /\ display.phase = "starting"
      /\ DisplayTypes
  BY DEF UiNew
<1> DEFINE next == Acquired[Cardinality(display.held) + 1]
<1>3. \/ display.recorded = display.held /\ display' = [display EXCEPT !.held = @ \cup {next}]
      \/ display' = [display EXCEPT !.recorded = display.held]
      \/ Drop("gone") /\ display.recorded = display.held
  BY DEF UiNew, Measured
<1> HIDE DEF next
<1>4. CASE display.recorded = display.held /\ display' = [display EXCEPT !.held = @ \cup {next}]
  <2>1. display' = [phase |-> "starting", held |-> display.held \cup {next}, recorded |-> display.held]
    BY <1>2, <1>4 DEF DisplayTypes
  <2> QED BY <2>1 DEF DisplayTypes, Held
<1>5. CASE display' = [display EXCEPT !.recorded = display.held]
  <2>1. display' = [phase |-> "starting", held |-> display.held, recorded |-> display.held]
    BY <1>2, <1>5 DEF DisplayTypes
  <2> QED BY <2>1 DEF DisplayTypes, Held
<1>6. CASE Drop("gone") /\ display.recorded = display.held
  BY <1>6 DEF Drop, DisplayTypes, Held
<1> QED BY <1>3, <1>4, <1>5, <1>6

LEMMA LoopStartsSafely ==
    ASSUME ConsoleInductive, LoopStarts
    PROVE  ConsoleInductive'
<1> USE DEF ConsoleInductive
<1>1. DaemonTypes'
  BY DEF LoopStarts, daemonVars, DaemonTypes
<1>2. DisplayTypes' /\ Held'
  BY DEF LoopStarts, DisplayTypes, Held
<1>3. Connect \in ControlType /\ Connect.pin = NoRequest /\ Connect.unpair = NoRequest
  <2>1. \/ Connect = [NoControl EXCEPT !.at = "live", !.connected = TRUE, !.inbox = <<lists>>]
        \/ Connect = NoControl
    BY DEF Connect
  <2>2. <<lists>> \in Inbox
    BY DEF Inbox, DaemonTypes
  <2> QED BY <2>1, <2>2, TypesOfNothing DEF ControlType
<1>4. control' = Connect /\ state' = state /\ screen' = screen
  BY DEF LoopStarts
<1>5. UiTypes' /\ AnswerIsForThisScreen'
  BY <1>3, <1>4, IdleFrame DEF UiTypes
<1> QED BY <1>1, <1>2, <1>5

LEMMA ExitsSafely ==
    ASSUME ConsoleInductive, NEW b, HomeExits(b)
    PROVE  ConsoleInductive'
<1> USE DEF ConsoleInductive, HomeExits
<1>1. DaemonTypes'
  BY OutstandingAreRequests DEF Daemon, DaemonTypes, UiTypes
<1>2. DisplayTypes' /\ Held'
  BY DEF Runs, DisplayTypes, Held, Drop
<1>3. UiTypes' /\ AnswerIsForThisScreen'
  BY TypesOfNothing, IdleFrame DEF UiTypes
<1> QED BY <1>1, <1>2, <1>3

LEMMA ActsSafely ==
    ASSUME ConsoleInductive, NEW b, HomeActs(b)
    PROVE  ConsoleInductive'
<1> USE DEF ConsoleInductive
<1>1. screen.at = "home" /\ Polls /\ UNCHANGED Daemon
      /\ screen' \in {Opened(b), Keeps(b)}
      /\ IF screen'.at = "panic" THEN Drop("panicked") ELSE UNCHANGED display
  BY DEF HomeActs, Runs
<1>2. screen' \in Screens /\ screen'.at # "panic"
  BY <1>1, RowOpens DEF Screens, HomeScreen
<1>3. DaemonTypes'
  BY <1>1, PollingKeeps DEF Polls, Daemon, DaemonTypes
<1>4. DisplayTypes' /\ Held'
  BY <1>1, <1>2 DEF DisplayTypes, Held
<1>5. UiTypes' /\ AnswerIsForThisScreen'
  BY <1>1, <1>2, OnlyWaitersWait, PollingKeeps, IdleFrame DEF Polls
<1> QED BY <1>3, <1>4, <1>5

\* The end of the daemon, which the frame loop and hooks can bring about.
LEMMA EndsSafely ==
    ASSUME DaemonTypes, NEW c \in ControlType, DaemonEnds(c)
    PROVE  /\ DaemonTypes' /\ control' \in ControlType
           /\ control'.pin = c.pin /\ control'.unpair = c.unpair
<1>1. lists' \in CastLists /\ up' \in BOOLEAN /\ abandoned' = {}
  <2>1. lists' = [lists EXCEPT !.pending = <<>>] /\ lists \in CastLists
    BY DEF DaemonEnds, DaemonTypes
  <2>2. <<>> \in Seq(Client)
    OBVIOUS
  <2>3. ASSUME NEW P, NEW Q, NEW e \in P, NEW l \in [pending : P, paired : Q]
        PROVE  [l EXCEPT !.pending = e] \in [pending : P, paired : Q]
    OBVIOUS
  <2>4. lists' \in CastLists
    BY <2>1, <2>2, <2>3 DEF CastLists
  <2> QED BY <2>4 DEF DaemonEnds
<1>2. control' \in ControlType /\ control'.pin = c.pin /\ control'.unpair = c.unpair
  <2>1. control' = [c EXCEPT !.at = "broken"] \/ control' = c
    BY DEF DaemonEnds
  <2> QED BY <2>1 DEF ControlType
<1> QED BY <1>1, <1>2 DEF DaemonTypes

LEMMA TogglesSafely ==
    ASSUME ConsoleInductive, NEW b, HomeToggles(b)
    PROVE  ConsoleInductive'
<1> USE DEF ConsoleInductive
<1>1. screen.at = "home" /\ screen' = Keeps(b) /\ state' = Shown /\ display' = display
  BY DEF HomeToggles, Runs
<1>2. screen' \in Screens
  BY <1>1, RowOpens DEF Screens
<1>3. Polled \in ControlType /\ Polled.pin = NoRequest /\ Polled.unpair = NoRequest
  BY <1>1, PollingKeeps, OnlyWaitersWait
<1>4. /\ DaemonTypes' /\ control' \in ControlType
      /\ control'.pin = NoRequest /\ control'.unpair = NoRequest
  <2>1. CASE /\ control' = Polled /\ abandoned' = Forgotten
             /\ up' \in {up, TRUE} /\ UNCHANGED lists
    BY <1>3, <2>1, PollingKeeps DEF DaemonTypes
  <2>2. CASE DaemonEnds(Polled)
    BY <1>3, <2>2, EndsSafely
  <2> QED BY <2>1, <2>2 DEF HomeToggles
<1>5. UiTypes' /\ AnswerIsForThisScreen'
  BY <1>1, <1>2, <1>4, PollingKeeps, IdleFrame
<1>6. DisplayTypes' /\ Held'
  BY <1>1, <1>4 DEF DisplayTypes, Held
<1> QED BY <1>4, <1>5, <1>6

LEMMA Remainder == ASSUME NEW x \in Int, NEW n \in Nat \ {0} PROVE x % n \in Int
  OBVIOUS

LEMMA EditingKeeps ==
    ASSUME screen \in PinScreen({"pin", "pairing"}), NEW b
    PROVE  /\ Edited(b) \in PinScreen({"pin", "pairing"})
           /\ Edited(b).at = screen.at /\ Edited(b).id = screen.id
<1> DEFINE at1 == IF "left" \in b /\ screen.cursor > 1 THEN screen.cursor - 1
                  ELSE IF "right" \in b /\ screen.cursor < Places THEN screen.cursor + 1
                  ELSE screen.cursor
           by == IF "up" \in b THEN 1 ELSE IF "down" \in b THEN Radix - 1 ELSE 0
           clear == screen.error /\ at1 = screen.cursor /\ {"up", "down"} \cap b = {}
           typed == [screen.digits EXCEPT ![at1] = (@ + by) % Radix]
<1>1. at1 \in 1 .. Places
  BY ConsoleAssumption DEF PinScreen
<1>2. clear \in BOOLEAN
  BY DEF PinScreen
<1>3. typed \in [1 .. Places -> Int]
  <2>1. screen.digits \in [1 .. Places -> Int]
    BY DEF PinScreen
  <2>2. by \in Int /\ Radix \in Nat \ {0}
    BY ConsoleAssumption
  <2> DEFINE x == screen.digits[at1] + by
  <2> HIDE DEF at1, by
  <2>3. screen.digits[at1] \in Int
    BY <1>1, <2>1
  <2>4. x \in Int
    BY <2>2, <2>3
  <2> HIDE DEF x
  <2>5. x % Radix \in Int
    BY <2>2, <2>4, Remainder
  <2> QED BY <1>1, <2>1, <2>5 DEF x
<1> HIDE DEF at1, by, clear, typed
<1>4. Edited(b) = [screen EXCEPT !.cursor = at1, !.digits = typed, !.error = clear]
  BY DEF Edited, at1, by, clear, typed, PinScreen
<1> QED BY <1>1, <1>2, <1>3, <1>4 DEF PinScreen

LEMMA EditsSafely ==
    ASSUME ConsoleInductive, NEW b, PinEdits(b)
    PROVE  ConsoleInductive'
<1> USE DEF ConsoleInductive
<1>1. screen.at = "pin" /\ Polls /\ UNCHANGED <<Daemon, display>> /\ screen' \in {Home, Edited(b)}
  BY DEF PinEdits, Runs
<1>2. screen' \in Screens
  BY <1>1, ScreensApart, EditingKeeps, TypesOfNothing DEF UiTypes, Screens
<1>3. DaemonTypes'
  BY <1>1, PollingKeeps DEF Polls, Daemon, DaemonTypes
<1>4. DisplayTypes' /\ Held'
  BY <1>1 DEF DisplayTypes, Held
<1>5. UiTypes' /\ AnswerIsForThisScreen'
  BY <1>1, <1>2, OnlyWaitersWait, PollingKeeps, IdleFrame DEF Polls
<1> QED BY <1>3, <1>4, <1>5

\* A request that is made, answered or forgotten leaves the other alone.
LEMMA OneRequest ==
    ASSUME NEW c \in ControlType, NEW kind \in {"pin", "unpair"}, NEW r \in Request
    PROVE  /\ [c EXCEPT ![kind] = r] \in ControlType
           /\ [c EXCEPT ![kind] = r].pin = IF kind = "pin" THEN r ELSE c.pin
           /\ [c EXCEPT ![kind] = r].unpair = IF kind = "unpair" THEN r ELSE c.unpair
<1>1. CASE kind = "pin"
  BY <1>1 DEF ControlType
<1>2. CASE kind = "unpair"
  BY <1>2 DEF ControlType
<1> QED BY <1>1, <1>2

LEMMA RequestStarts ==
    ASSUME ConsoleInductive, NEW kind \in {"pin", "unpair"}, NEW subject \in Subject,
           Starts(kind, subject)
    PROVE  /\ control' \in ControlType
           /\ control'.pin = IF kind = "pin" THEN [at |-> "waiting", subject |-> subject]
                             ELSE Polled.pin
           /\ control'.unpair = IF kind = "unpair" THEN [at |-> "waiting", subject |-> subject]
                                ELSE Polled.unpair
           /\ abandoned' \subseteq Requests
<1> DEFINE r == [at |-> "waiting", subject |-> subject]
<1>1. r \in Request
  BY DEF Request
<1>2. Polled \in ControlType
  BY PollingKeeps DEF ConsoleInductive
<1> DEFINE c == [Polled EXCEPT ![kind] = r]
<1>3. control' = c
  BY DEF Starts
<1>4. abandoned' \subseteq Requests
  BY PollingKeeps DEF Starts, ConsoleInductive
<1> HIDE DEF r
<1>5. /\ c \in ControlType
      /\ c.pin = IF kind = "pin" THEN r ELSE Polled.pin
      /\ c.unpair = IF kind = "unpair" THEN r ELSE Polled.unpair
  BY <1>1, <1>2, OneRequest
<1> HIDE DEF c
<1> QED BY <1>3, <1>4, <1>5 DEF r

\* What a frame that only polls or forgets does to the control.
LEMMA RequestEnds ==
    ASSUME ConsoleInductive, NEW kind \in {"pin", "unpair"},
           control' \in {Cancelled(kind), Taken(kind)}
    PROVE  /\ control' \in ControlType
           /\ control'.pin = IF kind = "pin" THEN NoRequest ELSE Polled.pin
           /\ control'.unpair = IF kind = "unpair" THEN NoRequest ELSE Polled.unpair
<1>1. Polled \in ControlType
  BY PollingKeeps DEF ConsoleInductive
<1> DEFINE c == [Polled EXCEPT ![kind] = NoRequest]
<1>2. /\ c \in ControlType
      /\ c.pin = IF kind = "pin" THEN NoRequest ELSE Polled.pin
      /\ c.unpair = IF kind = "unpair" THEN NoRequest ELSE Polled.unpair
  BY <1>1, TypesOfNothing, OneRequest
<1>3. control' = c \/ \E a \in BOOLEAN : control' = [c EXCEPT !.connected = a]
  <2>1. CASE control' = Cancelled(kind)
    BY <2>1 DEF Cancelled
  <2>2. CASE control' = Taken(kind)
    <3> DEFINE a == Polled.connected /\ Polled[kind].at # "lost"
    <3>1. control' = [c EXCEPT !.connected = a]
      BY <1>1, <2>2 DEF Taken, ControlType
    <3>2. a \in BOOLEAN
      OBVIOUS
    <3> HIDE DEF c, a
    <3> QED BY <3>1, <3>2
  <2> QED BY <2>1, <2>2
<1> HIDE DEF c
<1>4. ASSUME NEW a \in BOOLEAN
      PROVE  /\ [c EXCEPT !.connected = a] \in ControlType
             /\ [c EXCEPT !.connected = a].pin = c.pin
             /\ [c EXCEPT !.connected = a].unpair = c.unpair
  BY <1>2 DEF ControlType
<1> QED BY <1>2, <1>3, <1>4

LEMMA SubmitsSafely ==
    ASSUME ConsoleInductive, NEW b, PinSubmits(b)
    PROVE  ConsoleInductive'
<1> USE DEF ConsoleInductive
<1>1. screen.at = "pin" /\ state' = Shown
      /\ UNCHANGED <<Daemon, display>>
  BY DEF PinSubmits, Runs
<1>2. screen \in PinScreen({"pin", "pairing"}) /\ screen.id \in Subject
  BY <1>1, ScreensApart DEF UiTypes, PinScreen, Subject
<1>3. DisplayTypes' /\ Held'
  BY <1>1 DEF DisplayTypes, Held
<1>4. Shown \in CastLists
  BY PollingKeeps
<1>5. CASE screen' = Message /\ control' = Polled /\ abandoned' = Forgotten
  <2>1. DaemonTypes'
    BY <1>1, <1>5, PollingKeeps DEF Daemon, DaemonTypes
  <2>2. UiTypes' /\ AnswerIsForThisScreen'
    BY <1>1, <1>4, <1>5, OnlyWaitersWait, PollingKeeps, TypesOfNothing, IdleFrame
  <2> QED BY <1>3, <2>1, <2>2
<1>6. CASE screen' = [Edited(b) EXCEPT !.at = "pairing"] /\ Starts("pin", screen.id)
  <2>1. /\ control' \in ControlType
        /\ control'.pin = [at |-> "waiting", subject |-> screen.id]
        /\ control'.unpair = NoRequest
        /\ abandoned' \subseteq Requests
    BY <1>1, <1>2, <1>6, RequestStarts, OnlyWaitersWait
  <2>2. Edited(b) \in PinScreen({"pin", "pairing"}) /\ Edited(b).id = screen.id
    BY <1>2, EditingKeeps
  <2>3. ASSUME NEW e \in PinScreen({"pin", "pairing"})
        PROVE  /\ [e EXCEPT !.at = "pairing"] \in PinScreen({"pin", "pairing"})
               /\ [e EXCEPT !.at = "pairing"].at = "pairing"
               /\ [e EXCEPT !.at = "pairing"].id = e.id
    BY DEF PinScreen
  <2>4. /\ screen' \in PinScreen({"pin", "pairing"}) /\ screen'.at = "pairing"
        /\ screen'.id = screen.id
    BY <1>6, <2>2, <2>3
  <2>5. DaemonTypes'
    BY <1>1, <2>1 DEF Daemon, DaemonTypes
  <2>6. UiTypes'
    BY <1>1, <1>4, <2>1, <2>4 DEF UiTypes, Screens
  <2>7. AnswerIsForThisScreen'
    BY <2>1, <2>4 DEF AnswerIsForThisScreen
  <2> QED BY <1>3, <2>5, <2>6, <2>7
<1> QED BY <1>5, <1>6 DEF PinSubmits

LEMMA PairingSafely ==
    ASSUME ConsoleInductive, NEW b, PairingFrame(b)
    PROVE  ConsoleInductive'
<1> USE DEF ConsoleInductive
<1>1. screen.at = "pairing" /\ state' = Shown /\ UNCHANGED <<Daemon, display>>
      /\ abandoned' \in {Forgotten, Dropped("pin")}
  BY DEF PairingFrame, Runs
<1>2. DaemonTypes' /\ DisplayTypes' /\ Held'
  BY <1>1, PollingKeeps DEF Daemon, DaemonTypes, DisplayTypes, Held
<1>3. Shown \in CastLists /\ Polled \in ControlType /\ Polled.unpair = NoRequest
  BY <1>1, PollingKeeps, OnlyWaitersWait
<1>4. CASE UNCHANGED screen /\ control' = Polled
  <2>1. UiTypes'
    BY <1>1, <1>3, <1>4 DEF UiTypes
  <2>2. AnswerIsForThisScreen'
    BY <1>1, <1>3, <1>4, OnlyWaitersWait DEF AnswerIsForThisScreen
  <2> QED BY <1>2, <2>1, <2>2
<1>5. CASE screen' \in Screens /\ control' \in {Cancelled("pin"), Taken("pin")}
  <2>1. control' \in ControlType /\ control'.pin = NoRequest /\ control'.unpair = NoRequest
    BY <1>3, <1>5, RequestEnds
  <2> QED BY <1>1, <1>2, <1>3, <1>5, <2>1, IdleFrame
<1>6. [screen EXCEPT !.at = "pin", !.error = TRUE] \in Screens
  <2>1. screen \in PinScreen({"pin", "pairing"})
    BY <1>1, ScreensApart DEF UiTypes
  <2>2. [screen EXCEPT !.at = "pin", !.error = TRUE] \in PinScreen({"pin", "pairing"})
    BY <2>1 DEF PinScreen
  <2> QED BY <2>2 DEF Screens
<1>7. \/ UNCHANGED screen /\ control' = Polled
      \/ screen' \in Screens /\ control' \in {Cancelled("pin"), Taken("pin")}
  BY <1>6, TypesOfNothing DEF PairingFrame
<1> QED BY <1>4, <1>5, <1>7

LEMMA MessageSafely ==
    ASSUME ConsoleInductive, NEW b, MessageFrame(b)
    PROVE  ConsoleInductive'
<1> USE DEF ConsoleInductive
<1>1. screen.at = "message" /\ Polls /\ screen' \in {Home, screen} /\ UNCHANGED <<Daemon, display>>
  BY DEF MessageFrame, Runs
<1>2. DaemonTypes' /\ DisplayTypes' /\ Held'
  BY <1>1, PollingKeeps DEF Polls, Daemon, DaemonTypes, DisplayTypes, Held
<1>3. UiTypes' /\ AnswerIsForThisScreen'
  BY <1>1, OnlyWaitersWait, PollingKeeps, TypesOfNothing, IdleFrame DEF Polls, UiTypes
<1> QED BY <1>2, <1>3

LEMMA ConfirmSafely ==
    ASSUME ConsoleInductive, NEW b, ConfirmFrame(b)
    PROVE  ConsoleInductive'
<1> USE DEF ConsoleInductive
<1>1. screen.at = "confirm" /\ state' = Shown
      /\ UNCHANGED <<Daemon, display>>
  BY DEF ConfirmFrame, Runs
<1>2. screen \in UnpairScreen /\ screen.fingerprint \in Fingerprint
  BY <1>1, ScreensApart DEF UiTypes, UnpairScreen
<1>3. DisplayTypes' /\ Held'
  BY <1>1 DEF DisplayTypes, Held
<1>4. Shown \in CastLists
  BY PollingKeeps
<1>5. CASE screen' \in {Message, Home, screen} /\ control' = Polled /\ abandoned' = Forgotten
  <2>1. DaemonTypes'
    BY <1>1, <1>5, PollingKeeps DEF Daemon, DaemonTypes
  <2>2. UiTypes' /\ AnswerIsForThisScreen'
    BY <1>1, <1>4, <1>5, OnlyWaitersWait, PollingKeeps, TypesOfNothing, IdleFrame DEF UiTypes
  <2> QED BY <1>3, <2>1, <2>2
<1> DEFINE f == screen.fingerprint
<1>6. CASE screen' = [at |-> "unpairing", fingerprint |-> f] /\ Starts("unpair", f)
  <2>1. f \in Subject
    BY <1>2 DEF Subject
  <2>2. /\ control' \in ControlType /\ control'.pin = NoRequest
        /\ control'.unpair = [at |-> "waiting", subject |-> f]
        /\ abandoned' \subseteq Requests
    BY <1>1, <1>6, <2>1, RequestStarts, OnlyWaitersWait
  <2>3. screen' \in UnpairScreen /\ screen'.at = "unpairing" /\ screen'.fingerprint = f
    BY <1>2, <1>6 DEF UnpairScreen
  <2>4. DaemonTypes'
    BY <1>1, <2>2 DEF Daemon, DaemonTypes
  <2>5. UiTypes'
    BY <1>1, <1>4, <2>2, <2>3 DEF UiTypes, Screens
  <2>6. AnswerIsForThisScreen'
    BY <2>2, <2>3 DEF AnswerIsForThisScreen
  <2> QED BY <1>3, <2>4, <2>5, <2>6
<1>7. \/ screen' \in {Message, Home, screen} /\ control' = Polled /\ abandoned' = Forgotten
      \/ screen' = [at |-> "unpairing", fingerprint |-> f] /\ Starts("unpair", f)
  BY DEF ConfirmFrame
<1> QED BY <1>5, <1>6, <1>7

LEMMA UnpairingSafely ==
    ASSUME ConsoleInductive, NEW b, UnpairingFrame(b)
    PROVE  ConsoleInductive'
<1> USE DEF ConsoleInductive
<1>1. screen.at = "unpairing" /\ state' = Shown /\ UNCHANGED <<Daemon, display>>
      /\ abandoned' \in {Forgotten, Dropped("unpair")}
  BY DEF UnpairingFrame, Runs
<1>2. DaemonTypes' /\ DisplayTypes' /\ Held'
  BY <1>1, PollingKeeps DEF Daemon, DaemonTypes, DisplayTypes, Held
<1>3. Shown \in CastLists /\ Polled \in ControlType /\ Polled.pin = NoRequest
  BY <1>1, PollingKeeps, OnlyWaitersWait
<1>4. CASE UNCHANGED screen /\ control' = Polled
  <2>1. UiTypes'
    BY <1>1, <1>3, <1>4 DEF UiTypes
  <2>2. AnswerIsForThisScreen'
    BY <1>1, <1>3, <1>4, OnlyWaitersWait DEF AnswerIsForThisScreen
  <2> QED BY <1>2, <2>1, <2>2
<1>5. CASE screen' \in {Home, Message} /\ control' \in {Cancelled("unpair"), Taken("unpair")}
  <2>1. control' \in ControlType /\ control'.pin = NoRequest /\ control'.unpair = NoRequest
    BY <1>3, <1>5, RequestEnds
  <2> QED BY <1>1, <1>2, <1>3, <1>5, <2>1, TypesOfNothing, IdleFrame
<1>6. \/ UNCHANGED screen /\ control' = Polled
      \/ screen' \in {Home, Message} /\ control' \in {Cancelled("unpair"), Taken("unpair")}
  BY DEF UnpairingFrame
<1> QED BY <1>4, <1>5, <1>6

LEMMA FrameSafely ==
    ASSUME ConsoleInductive, Frame
    PROVE  ConsoleInductive'
<1>1. PICK b \in Presses :
        \/ HomeExits(b) \/ HomeActs(b) \/ HomeToggles(b)
        \/ PinEdits(b) \/ PinSubmits(b) \/ PairingFrame(b)
        \/ MessageFrame(b) \/ ConfirmFrame(b) \/ UnpairingFrame(b)
  BY DEF Frame
<1> QED BY <1>1, ExitsSafely, ActsSafely, TogglesSafely, EditsSafely, SubmitsSafely,
           PairingSafely, MessageSafely, ConfirmSafely, UnpairingSafely

\* A step beside the loop that leaves the requests' subjects alone.
LEMMA BesidesSafely ==
    ASSUME ConsoleInductive, DaemonTypes', UNCHANGED <<state, screen, display>>,
           control' \in ControlType,
           \/ UNCHANGED <<control.pin, control.unpair>>
           \/ \E kind \in {"pin", "unpair"} :
                /\ control[kind] # NoRequest /\ control'[kind].subject = control[kind].subject
                /\ kind = "pin" => UNCHANGED control.unpair
                /\ kind = "unpair" => UNCHANGED control.pin
    PROVE  ConsoleInductive'
<1> USE DEF ConsoleInductive
<1>1. UiTypes'
  BY DEF UiTypes
<1>2. DisplayTypes' /\ Held'
  BY DEF DisplayTypes, Held
<1>3. /\ control'.pin # NoRequest =>
           control.pin # NoRequest /\ control'.pin.subject = control.pin.subject
      /\ control'.unpair # NoRequest =>
           control.unpair # NoRequest /\ control'.unpair.subject = control.unpair.subject
  <2>1. control.pin = control["pin"] /\ control.unpair = control["unpair"]
    OBVIOUS
  <2> QED BY <2>1
<1>4. AnswerIsForThisScreen'
  BY <1>3 DEF AnswerIsForThisScreen
<1> QED BY <1>1, <1>2, <1>4

\* An answer, or that there is none, changes where a request is.
LEMMA AnswersSafely ==
    ASSUME ConsoleInductive, DaemonTypes', UNCHANGED <<state, screen, display>>,
           NEW kind \in {"pin", "unpair"},
           NEW with \in {"lost", "paired", "not_ready", "rejected", "done", "error"},
           Waits(kind), Answered(kind, with)
    PROVE  ConsoleInductive'
<1>1. control \in ControlType
  BY DEF ConsoleInductive, UiTypes
<1> DEFINE r == [control[kind] EXCEPT !.at = with]
<1>2. control[kind] \in Request /\ control[kind] # NoRequest
  BY <1>1 DEF ControlType, Waits, NoRequest
<1>3. r \in Request /\ r.subject = control[kind].subject
  BY <1>2 DEF Request
<1> DEFINE c == [control EXCEPT ![kind] = r]
<1>4. control' = c
  BY DEF Answered
<1> HIDE DEF r
<1>5. /\ c \in ControlType /\ c[kind] = r
      /\ kind = "pin" => c.unpair = control.unpair
      /\ kind = "unpair" => c.pin = control.pin
  <2>1. /\ c \in ControlType
        /\ c.pin = IF kind = "pin" THEN r ELSE control.pin
        /\ c.unpair = IF kind = "unpair" THEN r ELSE control.unpair
    BY <1>1, <1>3, OneRequest
  <2>2. c[kind] = r
    BY <1>1 DEF ControlType
  <2> HIDE DEF c
  <2> QED BY <2>1, <2>2
<1> HIDE DEF c
<1>6. /\ control' \in ControlType
      /\ control[kind] # NoRequest /\ control'[kind].subject = control[kind].subject
      /\ kind = "pin" => UNCHANGED control.unpair
      /\ kind = "unpair" => UNCHANGED control.pin
  BY <1>2, <1>3, <1>4, <1>5
<1> QED BY <1>6, BesidesSafely

LEMMA ExecutingKeeps ==
    ASSUME DaemonTypes, NEW kind, NEW subject, NEW with, Executes(kind, subject, with)
    PROVE  lists' \in CastLists
<1>1. lists.pending \in Seq(Client) /\ lists.paired \in Seq(Fingerprint) /\ lists \in CastLists
  BY DEF DaemonTypes, CastLists
<1>2. CASE with = "done"
  <2> DEFINE p == RemoveFirst(lists.paired, subject)
  <2>1. p \in Seq(Fingerprint)
    BY <1>1, RemovalKeepsType
  <2>2. lists' = [lists EXCEPT !.paired = p]
    BY <1>2 DEF Executes
  <2> HIDE DEF p
  <2> QED BY <1>1, <2>1, <2>2 DEF CastLists
<1>3. CASE with = "paired"
  <2>1. PICK f \in Fingerprint :
          lists' = [pending |-> RemoveFirst(lists.pending, subject),
                    paired |-> Append(RemoveFirst(lists.paired, f), f)]
    BY <1>3 DEF Executes
  <2>2. RemoveFirst(lists.pending, subject) \in Seq(Client)
    BY <1>1, RemovalKeepsType
  <2>3. RemoveFirst(lists.paired, f) \in Seq(Fingerprint)
    BY <1>1, RemovalKeepsType
  <2>4. Append(RemoveFirst(lists.paired, f), f) \in Seq(Fingerprint)
    BY <2>3, AppendProperties
  <2> QED BY <2>1, <2>2, <2>4 DEF CastLists
<1>4. CASE with \notin {"done", "paired"}
  BY <1>1, <1>4 DEF Executes
<1> QED BY <1>2, <1>3, <1>4

LEMMA AnsweringSafely ==
    ASSUME ConsoleInductive, NEW kind \in {"pin", "unpair"}, Answers(kind)
    PROVE  ConsoleInductive'
<1>1. PICK with \in Outcomes[kind] :
        Answered(kind, with) /\ Executes(kind, control[kind].subject, with)
  BY DEF Answers
<1>2. with \in {"lost", "paired", "not_ready", "rejected", "done", "error"}
  BY DEF Outcomes
<1>3. Waits(kind) /\ UNCHANGED <<up, abandoned, state, screen, display>>
  BY DEF Answers, Ui
<1>4. lists' \in CastLists
  BY <1>1, ExecutingKeeps DEF ConsoleInductive
<1>5. DaemonTypes'
  BY <1>3, <1>4 DEF ConsoleInductive, DaemonTypes
<1> QED BY <1>1, <1>2, <1>3, <1>5, AnswersSafely

LEMMA CompletesSafely ==
    ASSUME ConsoleInductive, NEW r \in abandoned, Completes(r)
    PROVE  ConsoleInductive'
<1>1. /\ UNCHANGED <<up, control, state, screen, display>>
      /\ abandoned' \in {abandoned, abandoned \ {r}}
      /\ \E with : Executes(r.kind, r.subject, with)
  BY DEF Completes, Ui
<1>2. DaemonTypes'
  BY <1>1, ExecutingKeeps DEF ConsoleInductive, DaemonTypes
<1> QED BY <1>1, <1>2, BesidesSafely DEF ConsoleInductive, UiTypes

LEMMA ListsChangeSafely ==
    ASSUME ConsoleInductive, ListsChange
    PROVE  ConsoleInductive'
<1> USE DEF ConsoleInductive
<1>1. UNCHANGED <<up, abandoned, control, state, screen, display>>
  BY DEF ListsChange, Ui
<1>2. lists' \in CastLists
  <2>1. lists.pending \in Seq(Client) /\ lists.paired \in Seq(Fingerprint) /\ lists \in CastLists
    BY DEF DaemonTypes, CastLists
  <2>2. ASSUME NEW p \in Seq(Client), lists' = [lists EXCEPT !.pending = p]
        PROVE  lists' \in CastLists
    BY <2>1, <2>2 DEF CastLists
  <2>3. ASSUME NEW p \in Seq(Fingerprint), lists' = [lists EXCEPT !.paired = p]
        PROVE  lists' \in CastLists
    BY <2>1, <2>3 DEF CastLists
  <2>4. ASSUME NEW c \in Client
        PROVE  RemoveFirst(lists.pending, c) \in Seq(Client)
               /\ Append(lists.pending, c) \in Seq(Client)
    BY <2>1, RemovalKeepsType, AppendProperties
  <2>5. ASSUME NEW f \in Fingerprint
        PROVE  RemoveFirst(lists.paired, f) \in Seq(Fingerprint)
    BY <2>1, RemovalKeepsType
  <2>6. \/ \E c \in Client : \/ lists' = [lists EXCEPT !.pending = RemoveFirst(lists.pending, c)]
                             \/ lists' = [lists EXCEPT !.pending = Append(lists.pending, c)]
        \/ \E f \in Fingerprint : lists' = [lists EXCEPT !.paired = RemoveFirst(lists.paired, f)]
    BY DEF ListsChange
  <2> QED BY <2>2, <2>3, <2>4, <2>5, <2>6
<1>3. DaemonTypes'
  BY <1>1, <1>2 DEF DaemonTypes
<1> QED BY <1>1, <1>3, BesidesSafely DEF UiTypes

LEMMA OthersSafely ==
    ASSUME ConsoleInductive,
           \/ Elapses \/ Push \/ DaemonStarts \/ DaemonDies \/ UNCHANGED consoleVars
           \/ \E kind \in {"pin", "unpair"} : TimesOut(kind)
    PROVE  ConsoleInductive'
<1> USE DEF ConsoleInductive
<1>1. CASE Elapses \/ UNCHANGED consoleVars
  <2>1. UNCHANGED <<lists, up, abandoned, control, state, screen, display>>
    BY <1>1 DEF Elapses, consoleVars, uiVars, Daemon, daemonVars
  <2>2. DaemonTypes'
    BY <2>1 DEF DaemonTypes
  <2> QED BY <2>1, <2>2, BesidesSafely DEF UiTypes
<1>2. CASE Push
  <2>1. /\ UNCHANGED <<lists, up, abandoned, state, screen, display>>
        /\ control' = [control EXCEPT !.inbox = <<lists>>]
    BY <1>2 DEF Push, Ui, Daemon, daemonVars
  <2>2. DaemonTypes'
    BY <2>1 DEF DaemonTypes
  <2>3. <<lists>> \in Inbox
    BY DEF Inbox, DaemonTypes
  <2>4. control' \in ControlType /\ UNCHANGED <<control.pin, control.unpair>>
    BY <2>1, <2>3 DEF ControlType, UiTypes
  <2> QED BY <2>1, <2>2, <2>4, BesidesSafely
<1>3. CASE DaemonStarts
  <2>1. UNCHANGED <<lists, abandoned, control, state, screen, display>> /\ up' = TRUE
    BY <1>3 DEF DaemonStarts, Ui
  <2>2. DaemonTypes'
    BY <2>1 DEF DaemonTypes
  <2> QED BY <2>1, <2>2, BesidesSafely DEF UiTypes
<1>4. CASE DaemonDies
  <2>1. /\ DaemonTypes' /\ control' \in ControlType
        /\ control'.pin = control.pin /\ control'.unpair = control.unpair
    BY <1>4, EndsSafely DEF DaemonDies, UiTypes
  <2>2. UNCHANGED <<state, screen, display>>
    BY <1>4 DEF DaemonDies, Ui
  <2> QED BY <2>1, <2>2, BesidesSafely
<1>5. ASSUME NEW kind \in {"pin", "unpair"}, TimesOut(kind)
      PROVE  ConsoleInductive'
  <2>1. UNCHANGED <<lists, up, state, screen, display>>
    BY <1>5 DEF TimesOut, Ui, Daemon
  <2>2. DaemonTypes'
    BY <1>5, <2>1, OutstandingAreRequests DEF TimesOut, DaemonTypes, UiTypes
  <2> QED BY <1>5, <2>1, <2>2, AnswersSafely DEF TimesOut
<1> QED BY <1>1, <1>2, <1>3, <1>4, <1>5

LEMMA ConsoleAlways == ConsoleSpec => []ConsoleInductive
<1>1. ConsoleInductive /\ [ConsoleNext]_consoleVars => ConsoleInductive'
  BY NewSafely, LoopStartsSafely, FrameSafely, AnsweringSafely, CompletesSafely,
     ListsChangeSafely, OthersSafely DEF ConsoleNext
<1> QED BY <1>1, ConsoleInitially, PTL DEF ConsoleSpec

\* rpc.rs:160: an answer is only ever taken by the screen that waits for it,
\* about what that screen names, whatever was cancelled or lost before.
THEOREM AnswersReachTheirScreen == ConsoleSpec => []AnswerIsForThisScreen
<1>1. ConsoleInductive => AnswerIsForThisScreen
  BY DEF ConsoleInductive
<1> QED BY <1>1, ConsoleAlways, PTL

\* home.rs:89, ui.rs:3: no frame panics over a row, and a program that is gone,
\* wherever in its start it failed, holds nothing of the display.
THEOREM DisplayIsGivenBack == ConsoleSpec => []DisplayGivenBack
<1>1. ConsoleInductive => DisplayGivenBack
  BY DEF ConsoleInductive, Held, DisplayGivenBack
<1> QED BY <1>1, ConsoleAlways, PTL
=============================================================================
