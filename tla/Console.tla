------------------------------ MODULE Console -------------------------------
(***************************************************************************)
(* rgsp-ui: the frame loop, the connection to the control socket and the   *)
(* screens.  The loop is one thread: a frame takes the buttons, reconnects *)
(* if it is time, takes at most one state off the subscription, lets the   *)
(* screen act, and draws.  Requests run beside it, and the daemon changes  *)
(* at any time.                                                            *)
(***************************************************************************)
EXTENDS FiniteSets, Integers, Sequences, SequencesExt, Layout

CONSTANTS
    Client,         \* ids of clients that may ask to be paired
    Fingerprint,    \* certificates of paired clients
    Presses,        \* the sets of buttons one frame may find pressed
    Places, Radix,  \* how many digits a PIN has, and how many values a digit
    MAIN_ROW_COUNT,
    MaxChanges,     \* bound: changes of the lists from elsewhere
    MaxStops        \* bound: ends of the daemon

ASSUME ConsoleAssumption ==
    /\ Client \cap Fingerprint = {} /\ IsFiniteSet(Fingerprint)
    /\ Places \in Nat \ {0} /\ Radix \in Nat \ {0} /\ MAIN_ROW_COUNT \in Nat \ {0}
    /\ MaxChanges \in Nat /\ MaxStops \in Nat

VARIABLES
    up,         \* the daemon answers on its socket
    lists,      \* its pending and its paired clients
    abandoned,  \* requests it may still carry out that nobody waits for
    control,    \* the UI's Control
    state,      \* the CastState the UI draws
    screen,
    due,        \* RECONNECT_INTERVAL is over, or there was no attempt yet
    display,    \* the phase of the program, what it holds of the display, and
                \* what of that its Ui has recorded
    changes, stops

daemonVars == <<up, lists, abandoned>>
uiVars == <<control, state, screen, due>>
consoleVars == <<daemonVars, uiVars, display, changes, stops>>

NoLists == [pending |-> <<>>, paired |-> <<>>]
NoRequest == [at |-> "none", subject |-> "none"]
NoControl ==
    [at |-> "none", connected |-> FALSE, inbox |-> <<>>, pin |-> NoRequest, unpair |-> NoRequest]
Home == [at |-> "home", selected |-> 0]
Message == [at |-> "message"]

ConsoleInit ==
    /\ up \in BOOLEAN
    /\ lists = [pending |-> <<>>, paired |-> SetToSeq(Fingerprint)]
    /\ abandoned = {}
    /\ control = NoControl /\ state = NoLists
    /\ screen = Home /\ due = TRUE
    /\ display = [phase |-> "starting", held |-> {}, recorded |-> {}]
    /\ changes = 0 /\ stops = 0

-----------------------------------------------------------------------------
(* Ui::new and Drop *)

Acquired == <<"settings", "screen", "input", "power">>

\* Drop gives up what was recorded, however the program ends.
Drop(phase) ==
    display' = [phase |-> phase, held |-> display.held \ display.recorded, recorded |-> {}]

\* Mutant of Measured: the surface's size is checked before it is recorded.
MeasuredEarly == display.held = {"settings", "screen"}

Measured == display.held = {"settings", "screen"} /\ display.recorded = display.held

\* new acquires one thing after the other, and records each when it has it; a
\* failure on the way drops what there is.
UiNew ==
    /\ display.phase = "starting"
    /\ LET n == Cardinality(display.held)
       IN \/ /\ display.recorded = display.held /\ n < Len(Acquired)
             /\ display' = [display EXCEPT !.held = @ \cup {Acquired[n + 1]}]
          \/ /\ display.recorded # display.held
             /\ display' = [display EXCEPT !.recorded = display.held]
          \* GFX_init returns null, or a surface that is not 720x480.
          \/ display.recorded = {"settings"} /\ display.held = {"settings"} /\ Drop("gone")
          \/ Measured /\ Drop("gone")
    /\ UNCHANGED <<daemonVars, uiVars, changes, stops>>

-----------------------------------------------------------------------------
(* Control *)

IsConnected(c) == c.connected

\* connect subscribes, and the snapshot is the first thing it is sent.
Connect ==
    IF up THEN [NoControl EXCEPT !.at = "live", !.connected = TRUE, !.inbox = <<lists>>]
    ELSE NoControl

\* The connection is tried once before the loop, whatever comes of it.
LoopStarts ==
    /\ display.phase = "starting"
    /\ display.recorded = display.held /\ Cardinality(display.held) = Len(Acquired)
    /\ display' = [display EXCEPT !.phase = "running"]
    /\ control' = Connect /\ due' = FALSE
    /\ UNCHANGED <<daemonVars, state, screen, changes, stops>>

\* The requests the daemon has from c and c waits for.
Outstanding(c) ==
    {[kind |-> k, subject |-> c[k].subject] :
        k \in {k \in {"pin", "unpair"} : c.at = "live" /\ c[k].at = "waiting"}}

\* A frame looks at the connection before anything else, and replaces it,
\* requests and all, when it is known to be gone.
Reconnects == ~IsConnected(control) /\ due
Reconnected == IF Reconnects THEN Connect ELSE control
Forgotten == IF Reconnects THEN abandoned \cup Outstanding(control) ELSE abandoned
Due == due /\ ~Reconnects

\* Mutant of PollState: the end of the subscription is nothing new either.
PollStateForgiving(c) == IF c.inbox # <<>> THEN [c EXCEPT !.inbox = <<>>] ELSE c

\* poll_state takes what has arrived; the end of the subscription latches.
PollState(c) ==
    IF c.inbox # <<>> THEN [c EXCEPT !.inbox = <<>>]
    ELSE IF c.at = "broken" THEN [c EXCEPT !.connected = FALSE]
    ELSE c

Polled == PollState(Reconnected)
Shown ==
    IF Reconnected.inbox # <<>> THEN Head(Reconnected.inbox)
    ELSE IF Reconnects /\ ~up THEN NoLists ELSE state

\* A handle that is dropped detaches its request and takes nothing back.
Dropped(kind) == Forgotten \cup {r \in Outstanding(Polled) : r.kind = kind}

\* start_submit_pin and start_unpair return at once, and drop the handle of one
\* made before.
Starts(kind, subject) ==
    /\ control' = [Polled EXCEPT ![kind] = [at |-> "waiting", subject |-> subject]]
    /\ abandoned' = Dropped(kind)

\* Mutant of Cancelled: the answer is still there to be taken.
CancelledNot(kind) == Polled

\* cancel_submit_pin and cancel_unpair drop the handle.
Cancelled(kind) == [Polled EXCEPT ![kind] = NoRequest]

\* poll_submit_pin and poll_unpair: a failure of the connection latches, an
\* error the daemon answers with does not.
Taken(kind) ==
    [Polled EXCEPT ![kind] = NoRequest, !.connected = @ /\ Polled[kind].at # "lost"]

\* The daemon ends, by Service::stop or without the UI, and c with it.
DaemonEnds(c) ==
    /\ up /\ stops < MaxStops
    /\ up' = FALSE /\ stops' = stops + 1
    /\ lists' = [lists EXCEPT !.pending = <<>>] /\ abandoned' = {}
    /\ control' = IF c.at = "live" THEN [c EXCEPT !.at = "broken"] ELSE c

-----------------------------------------------------------------------------
(* The home screen *)

PendingRows(s) == Min({Len(s.pending), MAIN_ROW_COUNT - 1})
PairedRows(s) == Min({Len(s.paired), MAIN_ROW_COUNT - 1 - PendingRows(s)})
RowCount(s) == 1 + PendingRows(s) + PairedRows(s)

\* The list may have shrunk since the cursor was put there.
Clamped(i, s) == IF i >= RowCount(s) THEN RowCount(s) - 1 ELSE i

Selected(b) ==
    LET i == Clamped(screen.selected, Shown)
    IN IF "down" \in b /\ i + 1 < RowCount(Shown) THEN i + 1
       ELSE IF "up" \in b /\ i > 0 THEN i - 1 ELSE i

NewPin(id) ==
    [at |-> "pin", id |-> id, digits |-> [i \in 1..Places |-> 0], cursor |-> 1, error |-> FALSE]

Keeps(b) == [Home EXCEPT !.selected = Selected(b)]

\* Where A leads from a row.  It is the client of this moment's row, and only
\* its id or its fingerprint is kept; past the end of a list, Rust panics.
Opened(b) ==
    LET i == Selected(b)
        j == i - PendingRows(Shown)
    IN CASE i = 0 -> Keeps(b)
         [] i # 0 /\ j <= 0 -> NewPin(Shown.pending[i])
         [] j > 0 /\ j <= Len(Shown.paired) -> [at |-> "confirm", fingerprint |-> Shown.paired[j]]
         [] OTHER -> [at |-> "panic"]

Runs(at) == display.phase = "running" /\ screen.at = at
Polls == control' = Polled /\ state' = Shown /\ due' = Due /\ abandoned' = Forgotten
Daemon == <<up, lists, changes, stops>>

HomeExits(b) ==
    /\ Runs("home") /\ "b" \in b
    /\ Drop("gone")
    /\ control' = NoControl /\ abandoned' = abandoned \cup Outstanding(control)
    /\ UNCHANGED <<Daemon, state, screen, due>>

HomeActs(b) ==
    /\ Runs("home") /\ "b" \notin b
    /\ "a" \in b => Selected(b) # 0
    /\ Polls
    /\ screen' = IF "a" \in b THEN Opened(b) ELSE Keeps(b)
    /\ IF screen'.at = "panic" THEN Drop("panicked") ELSE UNCHANGED display
    /\ UNCHANGED Daemon

\* The direction is that of the connection as the frame found it.  start and
\* stop block the loop and may fail; a second daemon gives up.
HomeToggles(b) ==
    /\ Runs("home") /\ "b" \notin b /\ "a" \in b
    /\ Selected(b) = 0
    /\ screen' = Keeps(b) /\ due' = TRUE /\ state' = Shown
    /\ \/ /\ control' = Polled /\ abandoned' = Forgotten
          /\ IF IsConnected(control) THEN UNCHANGED up ELSE up' \in {up, TRUE}
          /\ UNCHANGED <<lists, stops>>
       \/ /\ IsConnected(control)
          /\ DaemonEnds(Polled)
    /\ UNCHANGED <<display, changes>>

-----------------------------------------------------------------------------
(* The other screens *)

\* update: the cursor stops at either end, a digit wraps, an edit clears the
\* error.
Edited(b) ==
    LET at == IF "left" \in b /\ screen.cursor > 1 THEN screen.cursor - 1
              ELSE IF "right" \in b /\ screen.cursor < Places THEN screen.cursor + 1
              ELSE screen.cursor
        by == IF "up" \in b THEN 1 ELSE IF "down" \in b THEN Radix - 1 ELSE 0
    IN [screen EXCEPT !.cursor = at, !.digits[at] = (@ + by) % Radix,
                      !.error = @ /\ at = screen.cursor /\ {"up", "down"} \cap b = {}]

PinEdits(b) ==
    /\ Runs("pin") /\ ("a" \notin b \/ "b" \in b)
    /\ Polls
    /\ screen' = IF "b" \in b THEN Home ELSE Edited(b)
    /\ UNCHANGED <<Daemon, display>>

\* A press that submits may move the cursor first.  Without a Control at all
\* there is nothing to wait for.
PinSubmits(b) ==
    /\ Runs("pin") /\ "b" \notin b /\ "a" \in b
    /\ state' = Shown /\ due' = Due
    /\ IF Polled.at = "none"
       THEN screen' = Message /\ control' = Polled /\ abandoned' = Forgotten
       ELSE screen' = [Edited(b) EXCEPT !.at = "pairing"] /\ Starts("pin", screen.id)
    /\ UNCHANGED <<Daemon, display>>

\* What the answer leads to: "not_ready" back to the digits, all else to a
\* message; no answer yet, or nothing to wait for, to another frame of this.
PairingFrame(b) ==
    /\ Runs("pairing")
    /\ state' = Shown /\ due' = Due
    /\ abandoned' = IF "b" \in b THEN Dropped("pin") ELSE Forgotten
    /\ CASE "b" \in b -> screen' = Home /\ control' = Cancelled("pin")
         [] "b" \notin b /\ Polled.pin.at \in {"none", "waiting"} ->
              UNCHANGED screen /\ control' = Polled
         [] "b" \notin b /\ Polled.pin.at = "not_ready" ->
              screen' = [screen EXCEPT !.at = "pin", !.error = TRUE] /\ control' = Taken("pin")
         [] OTHER -> screen' = Message /\ control' = Taken("pin")
    /\ UNCHANGED <<Daemon, display>>

MessageFrame(b) ==
    /\ Runs("message")
    /\ Polls
    /\ screen' = IF "b" \in b THEN Home ELSE screen
    /\ UNCHANGED <<Daemon, display>>

ConfirmFrame(b) ==
    /\ Runs("confirm")
    /\ state' = Shown /\ due' = Due
    /\ CASE "a" \in b /\ Polled.at # "none" ->
              /\ screen' = [at |-> "unpairing", fingerprint |-> screen.fingerprint]
              /\ Starts("unpair", screen.fingerprint)
         [] "a" \in b /\ Polled.at = "none" ->
              screen' = Message /\ control' = Polled /\ abandoned' = Forgotten
         [] OTHER ->
              /\ screen' = IF "b" \in b THEN Home ELSE screen
              /\ control' = Polled /\ abandoned' = Forgotten
    /\ UNCHANGED <<Daemon, display>>

UnpairingFrame(b) ==
    /\ Runs("unpairing")
    /\ state' = Shown /\ due' = Due
    /\ abandoned' = IF "b" \in b THEN Dropped("unpair") ELSE Forgotten
    /\ CASE "b" \in b -> screen' = Home /\ control' = Cancelled("unpair")
         [] "b" \notin b /\ Polled.unpair.at \in {"none", "waiting"} ->
              UNCHANGED screen /\ control' = Polled
         [] OTHER -> screen' = Message /\ control' = Taken("unpair")
    /\ UNCHANGED <<Daemon, display>>

Frame ==
    \E b \in Presses :
        \/ HomeExits(b) \/ HomeActs(b) \/ HomeToggles(b)
        \/ PinEdits(b) \/ PinSubmits(b) \/ PairingFrame(b)
        \/ MessageFrame(b) \/ ConfirmFrame(b) \/ UnpairingFrame(b)

Elapses ==
    /\ ~due /\ due' = TRUE
    /\ UNCHANGED <<Daemon, abandoned, control, state, screen, display>>

-----------------------------------------------------------------------------
(* What runs beside the loop *)

Waits(kind) == control[kind].at = "waiting"
Answered(kind, with) == control' = [control EXCEPT ![kind].at = with]
Ui == <<state, screen, due, display>>

\* SUBMIT_PIN_TIMEOUT, UNPAIR_TIMEOUT, or the client's task sees the end.
TimesOut(kind) ==
    /\ Waits(kind)
    /\ Answered(kind, "lost")
    /\ abandoned' = abandoned \cup {r \in Outstanding(control) : r.kind = kind}
    /\ UNCHANGED <<Daemon, Ui>>

Outcomes == [pin |-> {"paired", "not_ready", "rejected"}, unpair |-> {"done", "error"}]

\* The daemon carries a request out; only a client that waits can be paired.
Executes(kind, subject, with) ==
    CASE with = "done" -> lists' = [lists EXCEPT !.paired = RemoveFirst(@, subject)]
      [] with = "paired" ->
           /\ Contains(lists.pending, subject)
           /\ \E f \in Fingerprint :
                lists' = [pending |-> RemoveFirst(lists.pending, subject),
                          paired |-> Append(RemoveFirst(lists.paired, f), f)]
      [] OTHER -> UNCHANGED lists

\* The request that is waited for is the one whose handle the Control has,
\* whatever others there are about the same subject.
Answers(kind) ==
    /\ control.at = "live" /\ Waits(kind)
    /\ \E with \in Outcomes[kind] :
          Answered(kind, with) /\ Executes(kind, control[kind].subject, with)
    /\ UNCHANGED <<up, abandoned, changes, stops, Ui>>

\* The outcome of an abandoned one goes nowhere.  There may be others like it.
Completes(r) ==
    /\ up /\ abandoned' \in {abandoned, abandoned \ {r}}
    /\ \E with \in Outcomes[r.kind] : Executes(r.kind, r.subject, with)
    /\ UNCHANGED <<up, control, changes, stops, Ui>>

\* A client asks to be paired or gives up; somebody else unpairs one.
ListsChange ==
    /\ up /\ changes < MaxChanges /\ changes' = changes + 1
    /\ \/ \E c \in Client :
            lists' = [lists EXCEPT !.pending = IF Contains(@, c) THEN RemoveFirst(@, c)
                                               ELSE Append(@, c)]
       \/ \E f \in Fingerprint : Contains(lists.paired, f)
                                 /\ lists' = [lists EXCEPT !.paired = RemoveFirst(@, f)]
    /\ UNCHANGED <<up, abandoned, stops, control, Ui>>

\* The subscription sends the latest state, and the last is not yet taken.
Push ==
    /\ control.at = "live" /\ control.inbox = <<>> /\ lists # state
    /\ control' = [control EXCEPT !.inbox = <<lists>>]
    /\ UNCHANGED <<Daemon, abandoned, Ui>>

\* Hooks start and end the daemon, too, and it may die.
DaemonStarts ==
    /\ ~up /\ up' = TRUE
    /\ UNCHANGED <<lists, abandoned, changes, stops, control, Ui>>

DaemonDies ==
    /\ DaemonEnds(control)
    /\ UNCHANGED <<changes, Ui>>

ConsoleNext ==
    \/ UiNew \/ LoopStarts \/ Frame \/ Elapses
    \/ \E kind \in {"pin", "unpair"} : TimesOut(kind) \/ Answers(kind)
    \/ \E r \in abandoned : Completes(r)
    \/ ListsChange \/ Push \/ DaemonStarts \/ DaemonDies

\* The loop never waits for anyone, the clock goes on, and the subscription
\* delivers (ControlSocket).  The daemon owes no answer.
ConsoleSpec ==
    /\ ConsoleInit /\ [][ConsoleNext]_consoleVars
    /\ WF_consoleVars(Frame) /\ WF_consoleVars(Elapses) /\ WF_consoleVars(Push)

-----------------------------------------------------------------------------
(* Properties *)

\* rpc.rs:160: a request is only ever outstanding behind the screen that waits
\* for it, so no answer is taken for that to another request.
AnswerIsForThisScreen ==
    /\ control.pin # NoRequest => screen.at = "pairing" /\ screen.id = control.pin.subject
    /\ control.unpair # NoRequest =>
         screen.at = "unpairing" /\ screen.fingerprint = control.unpair.subject

\* main.rs:115: while the daemon is up, the UI keeps coming to show that it is
\* and what it has, though a Control never heals.
ConsoleCatchesUp ==
    <>[](up /\ display.phase = "running") =>
        []<>(control.at = "live" /\ control.connected /\ state = lists)

\* ui.rs:3, home.rs:89: the program never ends by a panic over a row of a list
\* that has shrunk; and once it has ended, or given up wherever it was in
\* starting, it holds nothing of the display.
DisplayGivenBack ==
    /\ display.phase # "panicked"
    /\ display.phase = "gone" => display.held = {}

\* home.rs:32: the rows that are drawn end above the hint group.
RowsEndAboveHints ==
    display.phase = "running" /\ screen.at = "home" =>
        row_y(RowCount(state) - 1) + pill <= hints_y
=============================================================================
