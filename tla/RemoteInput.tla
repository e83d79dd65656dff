---------------------------- MODULE RemoteInput -----------------------------
(***************************************************************************)
(* Remote input: the packets a client sends, the bounded queue they reach  *)
(* run_input of main.rs through, their decoding (input_decode.rs) and the  *)
(* uinput pad they are applied to (input.rs).  A packet is its magic, its  *)
(* length and what it says of the controls; seen is what the emulator has  *)
(* been told by the pad of this session.  The pump aborts the task of a    *)
(* session that is over and does not wait for it, so that its pad, the     *)
(* former one, may still be there when the next session opens its own.     *)
(***************************************************************************)
EXTENDS HostSession, Integers, Sequences

CONSTANTS Grips,    \* what a gamepad may report at one instant
          Keys,     \* virtual-key codes a client may press
          Noise,    \* packets that are no input of the pad
          QueueLen  \* capacity of the input channel

VARIABLES kind,     \* what its client plays with
          holds,    \* what the client holds down
          queue,    \* packets on their way to run_input
          behind,   \* a packet was dropped that no later one makes up for
          at,       \* run_input
          state,    \* its PadState
          last,     \* the PadState the pad reported last
          seen,
          former    \* at, last and seen of the pad of the session before

-----------------------------------------------------------------------------
(* PadState and the pad's description *)

KEYS == {1, 114, 115} \union (304 .. 312) \union {314, 315, 354}

BUTTON_MAP ==
    [A |-> 304, B |-> 305, X |-> 307, Y |-> 308, LB |-> 310, RB |-> 311,
     BACK |-> 314, PLAY |-> 315, SPECIAL |-> 354]
BTN_TL2 == 312

\* Z X A S Q W, Enter, Backspace and Escape.
KEYBOARD_MAP ==
    [k \in {90, 88, 65, 83, 81, 87, 13, 8, 27} |->
       CASE k = 90 -> 304 [] k = 88 -> 305 [] k = 65 -> 307 [] k = 83 -> 308
         [] k = 81 -> 310 [] k = 87 -> 311 [] k = 13 -> 315 [] k = 8 -> 314
         [] k = 27 -> 354]
VK == [LEFT |-> 37, UP |-> 38, RIGHT |-> 39, DOWN |-> 40]

Default == [keys |-> {}, hat_x |-> 0, hat_y |-> 0, rx |-> 0, ry |-> 0, rz |-> 0]

\* A code the pad does not have is ignored.
set_key(s, code, down) ==
    IF code \notin KEYS THEN s
    ELSE IF down THEN [s EXCEPT !.keys = @ \union {code}]
    ELSE [s EXCEPT !.keys = @ \ {code}]

-----------------------------------------------------------------------------
(* Decoding; each operator gives the state, and None for "not applicable" *)

None == [keys |-> {}]

apply_keyboard(p, s) ==
    LET key  == p.key % 256
        down == p.magic = "KEY_DOWN"
        Pull(n) == IF down THEN n ELSE 0
    IN  IF p.len < 7 THEN None
        ELSE CASE key \in DOMAIN KEYBOARD_MAP -> set_key(s, KEYBOARD_MAP[key], down)
               [] key = VK.LEFT  -> [s EXCEPT !.hat_x = Pull(-1)]
               [] key = VK.RIGHT -> [s EXCEPT !.hat_x = Pull(1)]
               [] key = VK.UP    -> [s EXCEPT !.hat_y = Pull(-1)]
               [] key = VK.DOWN  -> [s EXCEPT !.hat_y = Pull(1)]
               [] OTHER          -> None

\* Mutant of Buttons: what is not pressed is left as it was.
ButtonsPressed(s, flags) ==
    [s EXCEPT !.keys = @ \union {BUTTON_MAP[b] : b \in flags \intersect DOMAIN BUTTON_MAP}]

\* Every mapped button is set or cleared; opposite directions cancel.
Buttons(s, flags) ==
    LET mapped == {BUTTON_MAP[b] : b \in DOMAIN BUTTON_MAP} \intersect KEYS
        down   == {BUTTON_MAP[b] : b \in flags \intersect DOMAIN BUTTON_MAP} \intersect KEYS
        Hat(neg, pos) == CASE neg \in flags /\ pos \notin flags -> -1
                           [] pos \in flags /\ neg \notin flags -> 1
                           [] OTHER -> 0
    IN  [s EXCEPT !.keys = (@ \ mapped) \union down,
                  !.hat_x = Hat("LEFT", "RIGHT"), !.hat_y = Hat("UP", "DOWN")]

\* The triggers and the left stick, as far as the packet has them.
Analog(s, p, after) ==
    LET triggers == [set_key(s, BTN_TL2, p.grip.left > 127) EXCEPT !.rz = p.grip.right]
        t        == IF p.len >= after + 2 THEN triggers ELSE s
    IN  IF p.len >= after + 6 THEN [t EXCEPT !.rx = p.grip.x, !.ry = p.grip.y] ELSE t

buttons_at == [MULTI |-> 12, MULTI_GEN5 |-> 12, CONTROLLER |-> 6]

apply_packet(p, s) ==
    IF p.magic \in {"KEY_DOWN", "KEY_UP"} THEN apply_keyboard(p, s)
    ELSE IF \/ p.magic \notin DOMAIN buttons_at
            \/ p.magic = "MULTI" /\ p.len < 24      \* enables haptics
            \/ p.len < buttons_at[p.magic] + 2
    THEN None
    ELSE Analog(Buttons(s, p.grip.buttons), p, buttons_at[p.magic] + 2)

\* Grips have the pad's controls, virtual-key codes are bytes, and Noise is what
\* is not applicable.
ASSUME InputAssumption ==
    /\ Keys \subseteq 0 .. 255
    /\ \A g \in Grips :
         /\ g.buttons \subseteq DOMAIN BUTTON_MAP \union DOMAIN VK
         /\ g.left \in Int /\ g.right \in Int /\ g.x \in Int /\ g.y \in Int
    /\ \A p \in Noise : apply_packet(p, Default) = None

-----------------------------------------------------------------------------
(* The pad *)

\* The report of what changed from one state to the next, as its reader, who
\* saw v before, takes it in.
Reported(v, from, to) ==
    [a \in DOMAIN v |->
       IF a = "keys" THEN (v.keys \ (from.keys \ to.keys)) \union (to.keys \ from.keys)
       ELSE IF from[a] # to[a] THEN to[a] ELSE v[a]]

\* apply, when the write succeeds.
apply(s) ==
    /\ last' = s
    /\ seen' = Reported(seen, last, s)

\* Mutant of Released: the device is destroyed as it is.
ReleasedBare(pad) == pad

\* What is held is released before the device goes away.
Released(pad) == [last |-> Default, seen |-> Reported(pad.seen, pad.last, Default)]

\* Drop, of the pad of this session.
drop == LET pad == Released([last |-> last, seen |-> seen])
        IN  last' = pad.last /\ seen' = pad.seen

InputInit ==
    /\ kind = "gamepad" /\ holds = {}
    /\ queue = <<>> /\ behind = FALSE
    /\ at = "off"
    /\ state = Default /\ last = Default /\ seen = Default
    /\ former = [at |-> "off", last |-> Default, seen |-> Default]

\* A task that was aborted may have a pad that it has still to drop; at most
\* one is left over.
InputStarts ==
    /\ at = "open" => former.at = "off"
    /\ former' = IF at = "open" THEN [at |-> "open", last |-> last, seen |-> seen] ELSE former
    /\ at' = "opening"
    /\ kind' \in {"gamepad", "keyboard"}
    /\ holds' = {} /\ queue' = <<>> /\ behind' = FALSE
    /\ state' = Default /\ last' = Default /\ seen' = Default

\* The task aborted with the session before lets go of its pad.
FormerEnds ==
    /\ former.at = "open"
    /\ LET pad == Released([last |-> former.last, seen |-> former.seen])
       IN  former' = [at |-> "off", last |-> pad.last, seen |-> pad.seen]

open_pad ==
    /\ at = "opening"
    /\ \/ at' = "open"
       \/ at' = "off"    \* no /dev/uinput: the session cannot be controlled
    /\ state' = Default /\ last' = Default
    /\ UNCHANGED <<session, kind, holds, queue, behind, seen>>

\* InputForwarder: a full queue drops the packet, and one that nobody reads.
forward(p) ==
    IF Len(queue) < QueueLen /\ at # "off"
    THEN queue' = Append(queue, p) ELSE UNCHANGED queue

Fits == Len(queue) < QueueLen /\ at # "off"

GamepadPacket(m, g) == [magic |-> m, len |-> IF m = "MULTI" THEN 24 ELSE 16, grip |-> g]
KeyPacket(m, k) == [magic |-> m, len |-> 10, key |-> 32768 + k]

\* A gamepad sends all it holds, which makes up for what was dropped; a
\* keyboard sends one key going down or up.
GamepadMoves ==
    /\ session /\ kind = "gamepad"
    /\ \E g \in Grips, m \in {"MULTI", "CONTROLLER"} :
         /\ holds' = {g}
         /\ forward(GamepadPacket(m, g))
    /\ behind' = ~Fits
    /\ UNCHANGED <<session, kind, at, state, last, seen>>

KeyMoves ==
    /\ session /\ kind = "keyboard"
    /\ \E k \in Keys :
         /\ holds' = IF k \in holds THEN holds \ {k} ELSE holds \union {k}
         /\ forward(KeyPacket(IF k \in holds THEN "KEY_UP" ELSE "KEY_DOWN", k))
    /\ behind' = (behind \/ ~Fits)
    /\ UNCHANGED <<session, kind, at, state, last, seen>>

OtherPackets ==
    /\ session
    /\ \E p \in Noise : forward(p)
    /\ UNCHANGED <<session, kind, holds, behind, at, state, last, seen>>

\* One packet; when the kernel refuses the write, run_input returns and the pad
\* is dropped.
Decodes ==
    /\ at = "open" /\ queue # <<>>
    /\ LET s == apply_packet(Head(queue), state)
       IN  \/ /\ s = None
              /\ queue' = Tail(queue)
              /\ UNCHANGED <<at, state, last, seen>>
           \/ /\ s # None
              /\ queue' = Tail(queue)
              /\ state' = s
              /\ apply(s)
              /\ UNCHANGED at
           \/ /\ s # None /\ s # last
              /\ queue' = <<>>
              /\ at' = "off"
              /\ drop
              /\ UNCHANGED state
    /\ UNCHANGED <<session, kind, holds, behind>>

\* The queue is closed and empty, or the pump aborts the task; either way the
\* pad is dropped.
InputEnds ==
    /\ at \in {"opening", "open"} /\ ~session
    /\ at' = "off"
    /\ queue' = <<>>
    /\ IF at = "open" THEN drop ELSE UNCHANGED <<last, seen>>
    /\ UNCHANGED <<session, kind, holds, behind, state>>

InputClient == GamepadMoves \/ KeyMoves \/ OtherPackets
InputTask == open_pad \/ Decodes \/ InputEnds

-----------------------------------------------------------------------------
(* Properties *)

Pulled(buttons, b) == IF b \in buttons THEN 1 ELSE 0

\* What the client holds, in terms of the pad.
Wanted(g) ==
    [keys |-> {BUTTON_MAP[b] : b \in g.buttons \ {"LEFT", "RIGHT", "UP", "DOWN"}}
                \union (IF g.left >= 128 THEN {BTN_TL2} ELSE {}),
     hat_x |-> Pulled(g.buttons, "RIGHT") - Pulled(g.buttons, "LEFT"),
     hat_y |-> Pulled(g.buttons, "DOWN") - Pulled(g.buttons, "UP"),
     rx |-> g.x, ry |-> g.y, rz |-> g.right]

\* host_input.rs:27-30, input_decode.rs:46: once everything the client sent
\* has been read, the emulator sees what the client holds; a gamepad's next
\* packet makes up for any that was dropped.  Of a keyboard, whose packets are
\* edges, that is said only while none was dropped, and not of its arrows.
PadShowsTheClient ==
    at = "open" /\ queue = <<>> /\ ~behind =>
      IF kind = "gamepad"
      THEN \A g \in holds : seen = Wanted(g)
      ELSE seen.keys = {KEYBOARD_MAP[k] : k \in holds \intersect DOMAIN KEYBOARD_MAP}

\* input.rs:235: when a session's task is gone, however and whenever it went,
\* nothing stays held on its pad.
NothingStaysHeld ==
    /\ at = "off" => seen = Default
    /\ former.at = "off" => former.seen = Default
=============================================================================
