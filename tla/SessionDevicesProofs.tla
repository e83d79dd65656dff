------------------------ MODULE SessionDevicesProofs ------------------------
(***************************************************************************)
(* The remote pad and the loopback capture, for any grips, keys and other  *)
(* packets, any queue and any period.                                      *)
(*                                                                         *)
(* What the emulator sees is what the packets read so far amount to; what  *)
(* the client holds is that, followed by what the packets in the queue     *)
(* say.  A gamepad's packet says everything, so only the last one counts   *)
(* (GripPending); a keyboard's says one key, so that the last one for each *)
(* key counts (KeysPending).                                               *)
(***************************************************************************)
EXTENDS SessionDevices, SequenceTheorems, TLAPS

Mapped == {304, 305, 307, 308, 310, 311, 314, 315, 354}
PadKeys == Mapped \union {BTN_TL2}
PadState ==
    [keys : SUBSET PadKeys, hat_x : Int, hat_y : Int, rx : Int, ry : Int, rz : Int]

GamepadPackets == {GamepadPacket(m, g) : m \in {"MULTI", "CONTROLLER"}, g \in Grips}
KeyPackets == {KeyPacket(m, k) : m \in {"KEY_DOWN", "KEY_UP"}, k \in Keys}
Packet == GamepadPackets \union KeyPackets \union Noise

-----------------------------------------------------------------------------
(* Decoding *)

LEMMA TheMaps ==
    /\ DOMAIN BUTTON_MAP = {"A", "B", "X", "Y", "LB", "RB", "BACK", "PLAY", "SPECIAL"}
    /\ DOMAIN VK = {"LEFT", "RIGHT", "UP", "DOWN"}
    /\ {BUTTON_MAP[b] : b \in DOMAIN BUTTON_MAP} = Mapped
    /\ DOMAIN KEYBOARD_MAP = {90, 88, 65, 83, 81, 87, 13, 8, 27}
    /\ \A k \in DOMAIN KEYBOARD_MAP : KEYBOARD_MAP[k] \in Mapped
    /\ \A k, l \in DOMAIN KEYBOARD_MAP : KEYBOARD_MAP[k] = KEYBOARD_MAP[l] => k = l
    /\ PadKeys \subseteq KEYS
<1>1. DOMAIN BUTTON_MAP = {"A", "B", "X", "Y", "LB", "RB", "BACK", "PLAY", "SPECIAL"}
  BY DEF BUTTON_MAP
<1>2. DOMAIN VK = {"LEFT", "RIGHT", "UP", "DOWN"}
  BY DEF VK
<1>3. {BUTTON_MAP[b] : b \in DOMAIN BUTTON_MAP} = Mapped
  BY <1>1 DEF BUTTON_MAP, Mapped
<1>4. DOMAIN KEYBOARD_MAP = {90, 88, 65, 83, 81, 87, 13, 8, 27}
  BY DEF KEYBOARD_MAP
<1>5. /\ KEYBOARD_MAP[90] = 304 /\ KEYBOARD_MAP[88] = 305 /\ KEYBOARD_MAP[65] = 307
      /\ KEYBOARD_MAP[83] = 308 /\ KEYBOARD_MAP[81] = 310 /\ KEYBOARD_MAP[87] = 311
      /\ KEYBOARD_MAP[13] = 315 /\ KEYBOARD_MAP[8] = 314 /\ KEYBOARD_MAP[27] = 354
  BY DEF KEYBOARD_MAP
<1>6. \A k \in DOMAIN KEYBOARD_MAP : KEYBOARD_MAP[k] \in Mapped
  BY <1>4, <1>5 DEF Mapped
<1>7. \A k, l \in DOMAIN KEYBOARD_MAP : KEYBOARD_MAP[k] = KEYBOARD_MAP[l] => k = l
  BY <1>4, <1>5
<1>8. PadKeys \subseteq KEYS
  BY DEF PadKeys, Mapped, KEYS, BTN_TL2
<1> QED BY <1>1, <1>2, <1>3, <1>4, <1>6, <1>7, <1>8

\* A decoded state is told from None by its other fields.
LEMMA StatesAreNotNone == None \notin PadState /\ Default \in PadState
<1>1. None \notin PadState
  BY DEF None, PadState
<1>2. Default \in PadState
  BY DEF Default, PadState
<1> QED BY <1>1, <1>2

\* A key the pad has.
LEMMA SettingAKey ==
    ASSUME NEW s \in PadState, NEW code \in PadKeys, NEW down \in BOOLEAN
    PROVE  /\ set_key(s, code, down) \in PadState
           /\ set_key(s, code, down).keys =
                IF down THEN s.keys \union {code} ELSE s.keys \ {code}
<1>1. code \in KEYS
  BY TheMaps
<1>2. CASE down
  BY <1>1, <1>2 DEF set_key, PadState
<1>3. CASE ~down
  BY <1>1, <1>3 DEF set_key, PadState
<1> QED BY <1>2, <1>3

\* A key packet is decoded by its low byte.
LEMMA KeyByte ==
    ASSUME NEW s, NEW k \in Keys, NEW m \in {"KEY_DOWN", "KEY_UP"},
           NEW p, p = KeyPacket(m, k)
    PROVE  /\ p.magic = m /\ p.len = 10 /\ p.key % 256 = k
           /\ apply_packet(p, s) = apply_keyboard(p, s)
<1>1. p.magic = m /\ p.len = 10 /\ p.key = 32768 + k
  BY DEF KeyPacket
<1>2. p.key % 256 = k
  <2>1. k \in Nat /\ k < 256
    BY InputAssumption
  <2> QED BY <1>1, <2>1
<1>3. p.magic \in {"KEY_DOWN", "KEY_UP"}
  BY <1>1
<1>4. apply_packet(p, s) = apply_keyboard(p, s)
  BY <1>3 DEF apply_packet
<1> QED BY <1>1, <1>2, <1>4

\* What one key going down or up does: a mapped one sets its button,
LEMMA MappedKeyDecodes ==
    ASSUME NEW s \in PadState, NEW k \in Keys, NEW m \in {"KEY_DOWN", "KEY_UP"},
           k \in DOMAIN KEYBOARD_MAP
    PROVE  /\ apply_packet(KeyPacket(m, k), s) \in PadState
           /\ apply_packet(KeyPacket(m, k), s).keys =
                IF m = "KEY_DOWN" THEN s.keys \union {KEYBOARD_MAP[k]}
                ELSE s.keys \ {KEYBOARD_MAP[k]}
<1> DEFINE p == KeyPacket(m, k)
           down == m = "KEY_DOWN"
           code == KEYBOARD_MAP[k]
<1>1. /\ p.magic = m /\ p.len = 10 /\ p.key % 256 = k
      /\ apply_packet(p, s) = apply_keyboard(p, s)
  BY KeyByte
<1> HIDE DEF p
<1>2. apply_keyboard(p, s) = set_key(s, code, down)
  <2>1. k \in {90, 88, 65, 83, 81, 87, 13, 8, 27}
    BY TheMaps
  <2>2. k \notin {37, 38, 39, 40}
    BY <2>1
  <2> QED BY <1>1, <2>2 DEF apply_keyboard, VK
<1>3. code \in PadKeys /\ down \in BOOLEAN
  BY TheMaps DEF PadKeys
<1> HIDE DEF code, down
<1>4. /\ set_key(s, code, down) \in PadState
      /\ set_key(s, code, down).keys =
           IF down THEN s.keys \union {code} ELSE s.keys \ {code}
  BY <1>3, SettingAKey
<1>5. apply_packet(p, s) = set_key(s, code, down)
  BY <1>1, <1>2
<1> QED BY <1>4, <1>5 DEF p, code, down

\* and any other moves the hat, if anything.
LEMMA OtherKeyDecodes ==
    ASSUME NEW s \in PadState, NEW k \in Keys, NEW m \in {"KEY_DOWN", "KEY_UP"},
           k \notin DOMAIN KEYBOARD_MAP,
           apply_packet(KeyPacket(m, k), s) # None
    PROVE  /\ apply_packet(KeyPacket(m, k), s) \in PadState
           /\ apply_packet(KeyPacket(m, k), s).keys = s.keys
<1> DEFINE p == KeyPacket(m, k)
           Pull(n) == IF m = "KEY_DOWN" THEN n ELSE 0
           X(n) == [s EXCEPT !.hat_x = n]
           Y(n) == [s EXCEPT !.hat_y = n]
           r == apply_packet(p, s)
<1>1. /\ p.magic = m /\ p.len = 10 /\ p.key % 256 = k
      /\ apply_packet(p, s) = apply_keyboard(p, s)
  BY KeyByte
<1>2. ASSUME NEW n \in Int
      PROVE  /\ X(n) \in PadState /\ X(n).keys = s.keys
             /\ Y(n) \in PadState /\ Y(n).keys = s.keys
  BY DEF PadState
<1> HIDE DEF p
<1>3. apply_packet(p, s) =
        CASE k = 37 -> X(Pull(-1)) [] k = 39 -> X(Pull(1))
          [] k = 38 -> Y(Pull(-1)) [] k = 40 -> Y(Pull(1))
          [] OTHER -> None
  BY <1>1 DEF apply_keyboard, VK
<1>4. Pull(-1) \in Int /\ Pull(1) \in Int
  OBVIOUS
<1> HIDE DEF X, Y, Pull, r
<1>5. CASE k \notin {37, 38, 39, 40}
  <2>1. r = None
    BY <1>3, <1>5 DEF r
  <2> QED BY <2>1 DEF r, p
<1>6. CASE k \in {37, 38, 39, 40}
  <2>1. r \in {X(Pull(-1)), X(Pull(1)), Y(Pull(-1)), Y(Pull(1))}
    BY <1>3, <1>6 DEF r
  <2>2. r \in PadState /\ r.keys = s.keys
    BY <1>2, <1>4, <2>1
  <2> QED BY <2>2 DEF r, p
<1> QED BY <1>5, <1>6

Fields == {"keys", "hat_x", "hat_y", "rx", "ry", "rz"}

\* Whether a packet is applicable does not depend on the state it finds.
LEMMA NoiseIsNothing ==
    ASSUME NEW p \in Noise, NEW s
    PROVE  apply_packet(p, s) = None
<1>1. apply_packet(p, Default) = None
  BY InputAssumption
<1>2. ASSUME NEW v, DOMAIN v = Fields
      PROVE  v # None
  BY <1>2 DEF None, Fields
<1>3. DOMAIN Default = Fields
  BY DEF Default, Fields
<1>4. ASSUME NEW code, NEW down, NEW v, DOMAIN v = Fields
      PROVE  DOMAIN set_key(v, code, down) = Fields
  BY <1>4 DEF set_key
<1>5. CASE p.magic \in {"KEY_DOWN", "KEY_UP"}
  <2>1. apply_keyboard(p, Default) = None
    BY <1>1, <1>5 DEF apply_packet
  <2>2. apply_packet(p, s) = apply_keyboard(p, s)
    BY <1>5 DEF apply_packet
  <2> DEFINE key == p.key % 256
  <2>3. p.len < 7 \/ key \notin DOMAIN KEYBOARD_MAP \union {37, 39, 38, 40}
    <3> SUFFICES ASSUME ~(p.len < 7), key \in DOMAIN KEYBOARD_MAP \union {37, 39, 38, 40}
                 PROVE  FALSE
      OBVIOUS
    <3>1. DOMAIN apply_keyboard(p, Default) = Fields
      <4>1. CASE key \in DOMAIN KEYBOARD_MAP
        <5>1. key \notin {37, 39, 38, 40}
          BY <4>1, TheMaps
        <5>2. apply_keyboard(p, Default) = set_key(Default, KEYBOARD_MAP[key], p.magic = "KEY_DOWN")
          BY <4>1, <5>1 DEF apply_keyboard, VK
        <5> QED BY <1>3, <1>4, <5>2
      <4>2. CASE key \in {37, 39, 38, 40}
        <5>1. key \notin DOMAIN KEYBOARD_MAP
          BY <4>2, TheMaps
        <5> DEFINE Pull(n) == IF p.magic = "KEY_DOWN" THEN n ELSE 0
                   X(n) == [Default EXCEPT !.hat_x = n]
                   Y(n) == [Default EXCEPT !.hat_y = n]
        <5>2. ASSUME NEW n
              PROVE  DOMAIN X(n) = Fields /\ DOMAIN Y(n) = Fields
          BY <1>3
        <5>3. apply_keyboard(p, Default) =
                CASE key = 37 -> X(Pull(-1)) [] key = 39 -> X(Pull(1))
                  [] key = 38 -> Y(Pull(-1)) [] key = 40 -> Y(Pull(1))
          BY <4>2, <5>1 DEF apply_keyboard, VK
        <5> HIDE DEF X, Y, Pull
        <5>4. apply_keyboard(p, Default) \in {X(Pull(-1)), X(Pull(1)), Y(Pull(-1)), Y(Pull(1))}
          BY <4>2, <5>3
        <5> QED BY <5>2, <5>4
      <4> QED BY <4>1, <4>2
    <3> QED BY <1>2, <2>1, <3>1
  <2>4. apply_keyboard(p, s) = None
    <3>1. CASE p.len < 7
      BY <3>1 DEF apply_keyboard
    <3>2. CASE ~(p.len < 7)
      BY <2>3, <3>2 DEF apply_keyboard, VK
    <3> QED BY <3>1, <3>2
  <2> QED BY <2>2, <2>4
<1>6. CASE p.magic \notin {"KEY_DOWN", "KEY_UP"}
  <2> DEFINE ignored == \/ p.magic \notin DOMAIN buttons_at
                        \/ p.magic = "MULTI" /\ p.len < 24
                        \/ p.len < buttons_at[p.magic] + 2
             after == buttons_at[p.magic] + 2
             R(v) == Analog(Buttons(v, p.grip.buttons), p, after)
  <2>1. ASSUME NEW v
        PROVE  apply_packet(p, v) = IF ignored THEN None ELSE R(v)
    BY <1>6 DEF apply_packet
  <2> HIDE DEF ignored
  <2>2. DOMAIN R(Default) = Fields
    <3> HIDE DEF after
    <3>1. DOMAIN Buttons(Default, p.grip.buttons) = Fields
      BY <1>3 DEF Buttons
    <3>2. ASSUME NEW v, DOMAIN v = Fields
          PROVE  DOMAIN Analog(v, p, after) = Fields
      <4>1. DOMAIN set_key(v, BTN_TL2, p.grip.left > 127) = Fields
        BY <1>4, <3>2
      <4> QED BY <3>2, <4>1 DEF Analog
    <3> QED BY <3>1, <3>2
  <2> HIDE DEF R
  <2>3. ignored
    BY <1>1, <1>2, <2>1, <2>2
  <2> QED BY <2>1, <2>3
<1> QED BY <1>5, <1>6

\* What the pad reports when nothing is held already.
LEMMA ReportsAll ==
    ASSUME NEW v \in PadState, NEW s \in PadState
    PROVE  Reported(v, v, s) = s
<1>1. DOMAIN v = DOMAIN s
  BY DEF PadState
<1>2. s = [a \in DOMAIN s |-> s[a]]
  BY DEF PadState
<1>3. (v.keys \ (v.keys \ s.keys)) \union (s.keys \ v.keys) = s.keys
  OBVIOUS
<1>4. \A a \in DOMAIN s : Reported(v, v, s)[a] = s[a]
  BY <1>1, <1>3 DEF Reported
<1>5. Reported(v, v, s) = [a \in DOMAIN s |-> Reported(v, v, s)[a]]
  BY <1>1 DEF Reported
<1> QED BY <1>2, <1>4, <1>5

\* A gamepad's packet says all that its client holds.
LEMMA GripDecodes ==
    ASSUME NEW s \in PadState, NEW g \in Grips, NEW m \in {"MULTI", "CONTROLLER"}
    PROVE  /\ apply_packet(GamepadPacket(m, g), s) = Wanted(g)
           /\ Wanted(g) \in PadState
<1> DEFINE p == GamepadPacket(m, g)
           after == buttons_at[m] + 2
           flags == g.buttons
           down == {BUTTON_MAP[b] : b \in flags \intersect DOMAIN BUTTON_MAP}
           X == Pulled(flags, "RIGHT") - Pulled(flags, "LEFT")
           Y == Pulled(flags, "DOWN") - Pulled(flags, "UP")
           pressed == Buttons(s, flags)
<1>1. /\ flags \subseteq DOMAIN BUTTON_MAP \union DOMAIN VK
      /\ g.left \in Int /\ g.right \in Int /\ g.x \in Int /\ g.y \in Int
  BY InputAssumption
<1>2. p.magic = m /\ p.grip = g /\ p.len = IF m = "MULTI" THEN 24 ELSE 16
  BY DEF GamepadPacket
<1>3. m \in DOMAIN buttons_at /\ after = IF m = "MULTI" THEN 14 ELSE 8
  BY DEF buttons_at
<1>4. apply_packet(p, s) = Analog(pressed, p, after)
  BY <1>2, <1>3 DEF apply_packet
<1>5. p.len >= after + 2 /\ p.len >= after + 6
  BY <1>2, <1>3
<1>6. down \subseteq Mapped /\ Mapped \subseteq KEYS /\ BTN_TL2 \in KEYS
  BY TheMaps DEF PadKeys
<1>7. pressed = [keys |-> (s.keys \ Mapped) \union down, hat_x |-> X, hat_y |-> Y,
                 rx |-> s.rx, ry |-> s.ry, rz |-> s.rz]
  <2>1. {BUTTON_MAP[b] : b \in DOMAIN BUTTON_MAP} \intersect KEYS = Mapped
    BY TheMaps DEF PadKeys
  <2>2. down \intersect KEYS = down
    BY <1>6
  <2> DEFINE K == (s.keys \ Mapped) \union down
  <2> DEFINE Hat(neg, pos) == CASE neg \in flags /\ pos \notin flags -> -1
                                [] pos \in flags /\ neg \notin flags -> 1
                                [] OTHER -> 0
  <2>3. X = Hat("LEFT", "RIGHT") /\ Y = Hat("UP", "DOWN")
    BY DEF Pulled
  <2>4. pressed = [s EXCEPT !.keys = K, !.hat_x = X, !.hat_y = Y]
    <3> HIDE DEF K
    <3>1. K = (s.keys \ ({BUTTON_MAP[b] : b \in DOMAIN BUTTON_MAP} \intersect KEYS))
                  \union (down \intersect KEYS)
      BY <2>1, <2>2 DEF K
    <3>2. pressed = [s EXCEPT !.keys = K, !.hat_x = Hat("LEFT", "RIGHT"), !.hat_y = Hat("UP", "DOWN")]
      BY <3>1 DEF Buttons
    <3> QED BY <2>3, <3>2
  <2> HIDE DEF X, Y, K, down, pressed
  <2>5. s = [keys |-> s.keys, hat_x |-> s.hat_x, hat_y |-> s.hat_y,
             rx |-> s.rx, ry |-> s.ry, rz |-> s.rz]
    BY DEF PadState
  <2>6. pressed = [keys |-> K, hat_x |-> X, hat_y |-> Y, rx |-> s.rx, ry |-> s.ry, rz |-> s.rz]
    BY <2>4, <2>5
  <2> QED BY <2>6 DEF K
<1>8. BTN_TL2 \notin Mapped /\ s.keys \subseteq Mapped \union {BTN_TL2}
  BY DEF BTN_TL2, Mapped, PadState, PadKeys
<1>9. Analog(pressed, p, after) =
        [keys |-> down \union (IF g.left > 127 THEN {BTN_TL2} ELSE {}),
         hat_x |-> X, hat_y |-> Y, rx |-> g.x, ry |-> g.y, rz |-> g.right]
  <2> DEFINE keyed == set_key(pressed, BTN_TL2, g.left > 127)
  <2>1. keyed = [keys |-> down \union (IF g.left > 127 THEN {BTN_TL2} ELSE {}),
                 hat_x |-> X, hat_y |-> Y, rx |-> s.rx, ry |-> s.ry, rz |-> s.rz]
    <3> HIDE DEF X, Y, down, pressed
    <3>1. CASE g.left > 127
      BY <1>6, <1>7, <1>8, <3>1 DEF set_key
    <3>2. CASE ~(g.left > 127)
      BY <1>6, <1>7, <1>8, <3>2 DEF set_key
    <3> QED BY <3>1, <3>2
  <2> HIDE DEF keyed, X, Y, down, pressed, after, p
  <2>2. Analog(pressed, p, after) = [[keyed EXCEPT !.rz = g.right] EXCEPT !.rx = g.x, !.ry = g.y]
    BY <1>2, <1>5 DEF Analog, keyed
  <2> QED BY <2>1, <2>2
<1>10. Wanted(g) =
        [keys |-> down \union (IF g.left > 127 THEN {BTN_TL2} ELSE {}),
         hat_x |-> X, hat_y |-> Y, rx |-> g.x, ry |-> g.y, rz |-> g.right]
  <2>1. flags \ {"LEFT", "RIGHT", "UP", "DOWN"} = flags \intersect DOMAIN BUTTON_MAP
    BY <1>1, TheMaps
  <2>2. g.left >= 128 <=> g.left > 127
    BY <1>1
  <2> QED BY <2>1, <2>2 DEF Wanted
<1>11. Wanted(g) \in PadState
  <2>1. X \in Int /\ Y \in Int
    BY DEF Pulled
  <2> HIDE DEF X, Y
  <2>2. down \union (IF g.left > 127 THEN {BTN_TL2} ELSE {}) \in SUBSET PadKeys
    BY <1>6 DEF PadKeys
  <2> HIDE DEF down
  <2> QED BY <1>1, <1>10, <2>1, <2>2 DEF PadState
<1> QED BY <1>4, <1>9, <1>10, <1>11

-----------------------------------------------------------------------------
(* The invariant *)

Says(p, g) == \E m \in {"MULTI", "CONTROLLER"} : p = GamepadPacket(m, g)
Down(k) == KeyPacket("KEY_DOWN", k)
Up(k) == KeyPacket("KEY_UP", k)

MappedKeys == Keys \intersect DOMAIN KEYBOARD_MAP

InputTypes ==
    /\ kind \in {"gamepad", "keyboard"} /\ at \in {"off", "opening", "open"}
    /\ behind \in BOOLEAN

\* The client's packets are its kind's, and the queue has no others but Noise.
Sent ==
    /\ queue \in Seq(Packet)
    /\ kind = "gamepad" =>
         /\ holds \subseteq Grips
         /\ \A i \in 1 .. Len(queue) : queue[i] \in GamepadPackets \union Noise
    /\ kind = "keyboard" =>
         /\ holds \subseteq Keys
         /\ \A i \in 1 .. Len(queue) : queue[i] \in KeyPackets \union Noise

\* The pad, its last report and its reader agree; without a pad nothing is held.
PadAgrees ==
    /\ at = "open" => seen \in PadState /\ last = seen /\ state = seen
    /\ at # "open" => seen = Default

\* The last packet of a gamepad is what it holds, or has been decoded.
GripPending ==
    kind = "gamepad" /\ at # "off" /\ ~behind =>
      \A g \in holds :
        \/ \E i \in 1 .. Len(queue) :
             Says(queue[i], g) /\ \A j \in i + 1 .. Len(queue) : queue[j] \in Noise
        \/ seen = Wanted(g) /\ \A j \in 1 .. Len(queue) : queue[j] \in Noise

\* A key is held when it last went down, here or in the queue.
Pressed(k) ==
    \/ \E i \in 1 .. Len(queue) :
         queue[i] = Down(k) /\ \A j \in i + 1 .. Len(queue) : queue[j] # Up(k)
    \/ KEYBOARD_MAP[k] \in seen.keys /\ \A j \in 1 .. Len(queue) : queue[j] # Up(k)

KeysPending ==
    kind = "keyboard" /\ at # "off" =>
      /\ seen.keys \subseteq {KEYBOARD_MAP[k] : k \in MappedKeys}
      /\ ~behind => \A k \in MappedKeys : k \in holds <=> Pressed(k)

InputInductive == InputTypes /\ Sent /\ PadAgrees /\ GripPending /\ KeysPending

\* The pad of the session before and its reader agree until it is dropped.
FormerAgrees ==
    /\ former.at = "open" => former.seen \in PadState /\ former.last = former.seen
    /\ former.at # "open" => former.seen = Default

\* The frames that were read are the front of the period.
AudioInductive ==
    /\ filled \in 0 .. PeriodFrames /\ handed = filled
    /\ buf \in [1 .. PeriodFrames -> Nat]
    /\ \A i \in 1 .. filled : buf[i] = i

-----------------------------------------------------------------------------
(* The queue *)

LEMMA Queued ==
    ASSUME queue \in Seq(Packet), NEW p \in Packet, forward(p)
    PROVE  /\ queue' \in Seq(Packet)
           /\ Fits => /\ Len(queue') = Len(queue) + 1 /\ queue'[Len(queue) + 1] = p
                      /\ \A i \in 1 .. Len(queue) : queue'[i] = queue[i]
           /\ ~Fits => queue' = queue
<1>1. CASE Fits
  <2>1. queue' = Append(queue, p)
    BY <1>1 DEF forward, Fits
  <2> QED BY <1>1, <2>1, AppendProperties
<1>2. CASE ~Fits
  BY <1>2 DEF forward, Fits
<1> QED BY <1>1, <1>2

LEMMA Dequeued ==
    ASSUME queue \in Seq(Packet), queue # <<>>
    PROVE  /\ Len(queue) \in Nat \ {0} /\ Head(queue) = queue[1] /\ Head(queue) \in Packet
           /\ Tail(queue) \in Seq(Packet) /\ Len(Tail(queue)) = Len(queue) - 1
           /\ \A i \in 1 .. Len(queue) - 1 : Tail(queue)[i] = queue[i + 1]
<1>1. /\ Head(queue) \in Packet /\ Tail(queue) \in Seq(Packet)
      /\ Len(Tail(queue)) = Len(queue) - 1
      /\ \A i \in 1 .. Len(Tail(queue)) : Tail(queue)[i] = queue[i + 1]
  BY HeadTailProperties
<1>2. Len(queue) \in Nat \ {0} /\ Head(queue) = queue[1]
  BY DEF Packet
<1> QED BY <1>1, <1>2

\* A packet that counts for a key is no noise, and counts for no other key.
LEMMA EdgesAreApart ==
    ASSUME NEW k \in MappedKeys
    PROVE  /\ Down(k) \notin Noise /\ Up(k) \notin Noise /\ Down(k) # Up(k)
           /\ \A l \in Keys : l # k => {Down(l), Up(l)} \intersect {Down(k), Up(k)} = {}
<1>1. k \in Keys /\ k \in DOMAIN KEYBOARD_MAP
  BY DEF MappedKeys
<1>2. Down(k) \notin Noise /\ Up(k) \notin Noise
  <2>1. apply_packet(Down(k), Default) # None /\ apply_packet(Up(k), Default) # None
    BY <1>1, MappedKeyDecodes, StatesAreNotNone DEF Down, Up
  <2> QED BY <2>1, NoiseIsNothing
<1>3. Down(k) # Up(k)
  BY DEF Down, Up, KeyPacket
<1>4. ASSUME NEW l \in Keys, l # k
      PROVE  {Down(l), Up(l)} \intersect {Down(k), Up(k)} = {}
  <2>1. k \in Int /\ l \in Int
    BY <1>1, InputAssumption
  <2>2. /\ Down(l).key = 32768 + l /\ Up(l).key = 32768 + l
        /\ Down(k).key = 32768 + k /\ Up(k).key = 32768 + k
    BY DEF Down, Up, KeyPacket
  <2> QED BY <1>4, <2>1, <2>2
<1> QED BY <1>2, <1>3, <1>4

\* The last packet for a key decides.
LEMMA PressedQueued ==
    ASSUME queue \in Seq(Packet), NEW p \in Packet, forward(p), Fits,
           seen' = seen, NEW k \in MappedKeys
    PROVE  /\ p = Down(k) => Pressed(k)'
           /\ p = Up(k) => ~Pressed(k)'
           /\ p \notin {Down(k), Up(k)} => (Pressed(k)' <=> Pressed(k))
<1> DEFINE n == Len(queue)
<1>1. /\ n \in Nat /\ Len(queue') = n + 1 /\ queue'[n + 1] = p
      /\ \A i \in 1 .. n : queue'[i] = queue[i]
  BY Queued
<1>2. Down(k)' = Down(k) /\ Up(k)' = Up(k)
  BY DEF Down, Up
<1>3. Down(k) # Up(k)
  BY EdgesAreApart
<1> HIDE DEF n
<1>4. Pressed(k)' <=>
        \/ \E i \in 1 .. n + 1 :
             queue'[i] = Down(k) /\ \A j \in i + 1 .. n + 1 : queue'[j] # Up(k)
        \/ KEYBOARD_MAP[k] \in seen.keys /\ \A j \in 1 .. n + 1 : queue'[j] # Up(k)
  BY <1>1, <1>2 DEF Pressed
<1>5. ASSUME p = Down(k) PROVE Pressed(k)'
  <2>1. n + 1 \in 1 .. n + 1 /\ \A j \in n + 1 + 1 .. n + 1 : queue'[j] # Up(k)
    BY <1>1
  <2> QED BY <1>1, <1>4, <1>5, <2>1
<1>6. ASSUME p = Up(k) PROVE ~Pressed(k)'
  <2>1. \A i \in 1 .. n : n + 1 \in i + 1 .. n + 1
    BY <1>1
  <2>2. n + 1 \in 1 .. n + 1 /\ 1 .. n + 1 = 1 .. n \union {n + 1}
    BY <1>1
  <2> QED BY <1>1, <1>3, <1>4, <1>6, <2>1, <2>2
<1>7. ASSUME p \notin {Down(k), Up(k)} PROVE Pressed(k)' <=> Pressed(k)
  <2>1. 1 .. n + 1 = 1 .. n \union {n + 1}
    BY <1>1
  <2>2. ASSUME NEW i \in 1 .. n
        PROVE  i + 1 .. n + 1 = i + 1 .. n \union {n + 1} /\ i + 1 .. n \subseteq 1 .. n
    BY <1>1
  <2>3. Pressed(k) <=>
          \/ \E i \in 1 .. n : queue[i] = Down(k) /\ \A j \in i + 1 .. n : queue[j] # Up(k)
          \/ KEYBOARD_MAP[k] \in seen.keys /\ \A j \in 1 .. n : queue[j] # Up(k)
    BY DEF Pressed, n
  <2>4. (\A j \in 1 .. n + 1 : queue'[j] # Up(k)) <=> (\A j \in 1 .. n : queue[j] # Up(k))
    BY <1>1, <1>7, <2>1
  <2>5. ASSUME NEW i \in 1 .. n
        PROVE  (\A j \in i + 1 .. n + 1 : queue'[j] # Up(k)) <=>
               (\A j \in i + 1 .. n : queue[j] # Up(k))
    BY <1>1, <1>7, <2>2
  <2>6. (\E i \in 1 .. n + 1 :
            queue'[i] = Down(k) /\ \A j \in i + 1 .. n + 1 : queue'[j] # Up(k)) <=>
        (\E i \in 1 .. n : queue[i] = Down(k) /\ \A j \in i + 1 .. n : queue[j] # Up(k))
    BY <1>1, <1>7, <2>1, <2>5
  <2> QED BY <1>4, <2>3, <2>4, <2>6
<1> QED BY <1>5, <1>6, <1>7

\* Reading a packet moves what it says of a key from the queue to the pad.
LEMMA PressedDequeued ==
    ASSUME queue \in Seq(Packet), queue # <<>>, queue' = Tail(queue), NEW k \in MappedKeys,
           KEYBOARD_MAP[k] \in seen'.keys <=>
             IF Head(queue) = Down(k) THEN TRUE
             ELSE IF Head(queue) = Up(k) THEN FALSE
             ELSE KEYBOARD_MAP[k] \in seen.keys
    PROVE  Pressed(k)' <=> Pressed(k)
<1> DEFINE n == Len(queue) - 1
<1>1. /\ n \in Nat /\ Len(queue) = n + 1 /\ Len(queue') = n /\ Head(queue) = queue[1]
      /\ \A i \in 1 .. n : queue'[i] = queue[i + 1]
  BY Dequeued
<1>2. Down(k)' = Down(k) /\ Up(k)' = Up(k)
  BY DEF Down, Up
<1>3. Down(k) # Up(k)
  BY EdgesAreApart
<1> HIDE DEF n
<1> DEFINE none == \A j \in 1 .. n : queue'[j] # Up(k)
           later == \E i \in 1 .. n :
                      queue'[i] = Down(k) /\ \A j \in i + 1 .. n : queue'[j] # Up(k)
<1>4. Pressed(k)' <=> later \/ (KEYBOARD_MAP[k] \in seen'.keys /\ none)
  BY <1>1, <1>2 DEF Pressed
<1>5. Pressed(k) <=>
        \/ \E i \in 1 .. n + 1 :
             queue[i] = Down(k) /\ \A j \in i + 1 .. n + 1 : queue[j] # Up(k)
        \/ KEYBOARD_MAP[k] \in seen.keys /\ \A j \in 1 .. n + 1 : queue[j] # Up(k)
  BY <1>1 DEF Pressed
<1>6. ASSUME NEW i \in 0 .. n
      PROVE  (\A j \in i + 1 + 1 .. n + 1 : queue[j] # Up(k)) <=>
             (\A j \in i + 1 .. n : queue'[j] # Up(k))
  <2>1. ASSUME NEW j \in i + 1 + 1 .. n + 1 PROVE j - 1 \in i + 1 .. n /\ j - 1 \in 1 .. n
    BY <1>1
  <2>2. ASSUME NEW j \in i + 1 .. n
        PROVE  j + 1 \in i + 1 + 1 .. n + 1 /\ j \in 1 .. n
    BY <1>1
  <2>3. \A j \in i + 1 + 1 .. n + 1 : queue[j] = queue'[j - 1]
    BY <1>1, <2>1
  <2> QED BY <1>1, <2>1, <2>2, <2>3
<1>7. (\A j \in 2 .. n + 1 : queue[j] # Up(k)) <=> none
  BY <1>1, <1>6
<1>8. (\A j \in 1 .. n + 1 : queue[j] # Up(k)) <=> queue[1] # Up(k) /\ none
  <2>1. 1 .. n + 1 = {1} \union 2 .. n + 1
    BY <1>1
  <2> QED BY <1>7, <2>1
<1>9. (\E i \in 1 .. n + 1 :
          queue[i] = Down(k) /\ \A j \in i + 1 .. n + 1 : queue[j] # Up(k)) <=>
      (queue[1] = Down(k) /\ none) \/ later
  <2>1. ASSUME NEW i \in 2 .. n + 1
        PROVE  /\ i - 1 \in 1 .. n /\ i = i - 1 + 1
               /\ queue[i] = queue'[i - 1]
    BY <1>1
  <2>2. (\E i \in 2 .. n + 1 :
            queue[i] = Down(k) /\ \A j \in i + 1 .. n + 1 : queue[j] # Up(k)) <=> later
    <3>1. ASSUME NEW i \in 2 .. n + 1, queue[i] = Down(k),
                 \A j \in i + 1 .. n + 1 : queue[j] # Up(k)
          PROVE  later
      <4>1. \A j \in (i - 1) + 1 .. n : queue'[j] # Up(k)
        <5>1. i - 1 \in 0 .. n /\ (i - 1) + 1 + 1 = i + 1
          BY <2>1, <1>1
        <5> QED BY <1>6, <3>1, <5>1
      <4> QED BY <2>1, <3>1, <4>1
    <3>2. ASSUME NEW i \in 1 .. n, queue'[i] = Down(k),
                 \A j \in i + 1 .. n : queue'[j] # Up(k)
          PROVE  \E h \in 2 .. n + 1 :
                   queue[h] = Down(k) /\ \A j \in h + 1 .. n + 1 : queue[j] # Up(k)
      <4>1. i + 1 \in 2 .. n + 1 /\ i \in 0 .. n
        BY <1>1
      <4>2. \A j \in i + 1 + 1 .. n + 1 : queue[j] # Up(k)
        BY <1>6, <3>2, <4>1
      <4>3. queue[i + 1] = Down(k)
        BY <1>1, <3>2
      <4> QED BY <4>1, <4>2, <4>3
    <3> QED BY <3>1, <3>2
  <2>3. 1 .. n + 1 = {1} \union 2 .. n + 1
    BY <1>1
  <2> HIDE DEF later, none
  <2>4. (\A j \in 1 + 1 .. n + 1 : queue[j] # Up(k)) <=> none
    BY <1>7
  <2> QED BY <2>2, <2>3, <2>4
<1> HIDE DEF later, none
<1> QED BY <1>1, <1>3, <1>4, <1>5, <1>8, <1>9

-----------------------------------------------------------------------------
(* The client's steps *)

LEMMA InputInitially == InputInit => InputInductive
<1> SUFFICES ASSUME InputInit
             PROVE  InputInductive
  OBVIOUS
<1> USE DEF InputInit
<1>1. InputTypes
  BY DEF InputTypes
<1>2. Sent
  BY DEF Sent
<1>3. PadAgrees
  BY DEF PadAgrees
<1>4. GripPending /\ KeysPending
  BY DEF GripPending, KeysPending
<1> QED BY <1>1, <1>2, <1>3, <1>4 DEF InputInductive

\* What does not touch the input keeps all that is said of it.
LEMMA InputStands ==
    ASSUME InputInductive, UNCHANGED padVars
    PROVE  InputInductive'
<1> USE DEF padVars, InputInductive
<1>1. InputTypes'
  BY DEF InputTypes
<1>2. Sent'
  BY DEF Sent
<1>3. PadAgrees'
  BY DEF PadAgrees
<1>4. GripPending'
  BY DEF GripPending, Says
<1>5. KeysPending'
  <2>1. \A k \in MappedKeys : Pressed(k)' <=> Pressed(k)
    BY DEF Pressed, Down, Up
  <2> QED BY <2>1 DEF KeysPending
<1> QED BY <1>1, <1>2, <1>3, <1>4, <1>5

LEMMA InputStartsSafely ==
    ASSUME InputInductive, InputStarts
    PROVE  InputInductive'
<1> USE DEF InputInductive, InputStarts
<1>1. InputTypes'
  BY DEF InputTypes
<1>2. Sent'
  BY DEF Sent
<1>3. PadAgrees'
  BY DEF PadAgrees
<1>4. GripPending'
  BY DEF GripPending
<1>5. KeysPending'
  <2>1. seen'.keys = {}
    BY DEF Default
  <2>2. \A k \in MappedKeys : ~Pressed(k)'
    BY <2>1 DEF Pressed
  <2> QED BY <2>1, <2>2 DEF KeysPending
<1> QED BY <1>1, <1>2, <1>3, <1>4, <1>5

\* A packet that fits is the last one; one that does not is behind.
LEMMA GamepadMovesSafely ==
    ASSUME InputInductive, GamepadMoves
    PROVE  InputInductive'
<1> USE DEF InputInductive, GamepadMoves
<1>1. PICK g \in Grips, m \in {"MULTI", "CONTROLLER"} :
        holds' = {g} /\ forward(GamepadPacket(m, g))
  OBVIOUS
<1> DEFINE p == GamepadPacket(m, g)
<1>2. p \in GamepadPackets /\ p \in Packet /\ Says(p, g)
  BY DEF GamepadPackets, Packet, Says
<1> HIDE DEF p
<1>3. /\ queue' \in Seq(Packet) /\ Len(queue) \in Nat
      /\ Fits => /\ Len(queue') = Len(queue) + 1 /\ queue'[Len(queue) + 1] = p
                 /\ \A i \in 1 .. Len(queue) : queue'[i] = queue[i]
      /\ ~Fits => queue' = queue
  BY <1>1, <1>2, Queued DEF Sent, p
<1>4. InputTypes'
  BY DEF InputTypes, Fits
<1>5. Sent'
  <2>1. \A i \in 1 .. Len(queue) : queue[i] \in GamepadPackets \union Noise
    BY DEF Sent
  <2>2. \A i \in 1 .. Len(queue') : queue'[i] \in GamepadPackets \union Noise
    BY <1>2, <1>3, <2>1
  <2>3. (GamepadPackets \union Noise)' = GamepadPackets \union Noise
    BY DEF GamepadPackets
  <2> QED BY <1>1, <1>3, <2>2, <2>3 DEF Sent, Packet, GamepadPackets, KeyPackets
<1>6. PadAgrees'
  BY DEF PadAgrees
<1>7. GripPending'
  <2> SUFFICES ASSUME ~behind', NEW h \in holds'
               PROVE  \E i \in 1 .. Len(queue') :
                         Says(queue'[i], h) /\ \A j \in i + 1 .. Len(queue') : queue'[j] \in Noise
    BY DEF GripPending, Says
  <2>1. h = g /\ Fits
    BY <1>1
  <2>2. Len(queue) + 1 \in 1 .. Len(queue') /\ Len(queue') + 1 .. Len(queue') = {}
    BY <1>3, <2>1
  <2> QED BY <1>2, <1>3, <2>1, <2>2
<1>8. KeysPending'
  BY DEF KeysPending
<1> QED BY <1>4, <1>5, <1>6, <1>7, <1>8

LEMMA KeyMovesSafely ==
    ASSUME InputInductive, KeyMoves
    PROVE  InputInductive'
<1> USE DEF InputInductive, KeyMoves
<1>1. PICK k \in Keys :
        /\ holds' = IF k \in holds THEN holds \ {k} ELSE holds \union {k}
        /\ forward(KeyPacket(IF k \in holds THEN "KEY_UP" ELSE "KEY_DOWN", k))
  OBVIOUS
<1> DEFINE p == IF k \in holds THEN Up(k) ELSE Down(k)
<1>2. p = KeyPacket(IF k \in holds THEN "KEY_UP" ELSE "KEY_DOWN", k)
  BY DEF Up, Down
<1>3. p \in KeyPackets /\ p \in Packet
  BY DEF KeyPackets, Packet, Up, Down
<1> HIDE DEF p
<1>4. /\ queue' \in Seq(Packet) /\ Len(queue) \in Nat
      /\ Fits => /\ Len(queue') = Len(queue) + 1 /\ queue'[Len(queue) + 1] = p
                 /\ \A i \in 1 .. Len(queue) : queue'[i] = queue[i]
      /\ ~Fits => queue' = queue
  BY <1>1, <1>2, <1>3, Queued DEF Sent
<1>5. InputTypes'
  BY DEF InputTypes, Fits
<1>6. Sent'
  <2>1. \A i \in 1 .. Len(queue) : queue[i] \in KeyPackets \union Noise
    BY DEF Sent
  <2>2. \A i \in 1 .. Len(queue') : queue'[i] \in KeyPackets \union Noise
    BY <1>3, <1>4, <2>1
  <2>3. holds' \subseteq Keys
    BY <1>1 DEF Sent
  <2> QED BY <1>4, <2>2, <2>3 DEF Sent, Packet, GamepadPackets, KeyPackets
<1>7. PadAgrees'
  BY DEF PadAgrees
<1>8. GripPending'
  BY DEF GripPending
<1>9. KeysPending'
  <2>1. ASSUME ~behind', at # "off", NEW l \in MappedKeys
        PROVE  l \in holds' <=> Pressed(l)'
    <3>1. Fits /\ forward(p)
      BY <1>1, <1>2, <2>1
    <3>2. /\ p = Down(l) => Pressed(l)'
          /\ p = Up(l) => ~Pressed(l)'
          /\ p \notin {Down(l), Up(l)} => (Pressed(l)' <=> Pressed(l))
      BY <1>3, <3>1, PressedQueued DEF Sent
    <3>3. CASE l = k
      BY <1>1, <3>2, <3>3 DEF p
    <3>4. CASE l # k
      <4>1. p \notin {Down(l), Up(l)}
        BY <3>4, EdgesAreApart DEF p
      <4>2. l \in holds <=> Pressed(l)
        BY <2>1 DEF KeysPending
      <4> QED BY <1>1, <3>2, <3>4, <4>1, <4>2
    <3> QED BY <3>3, <3>4
  <2>2. at # "off" => seen'.keys \subseteq {KEYBOARD_MAP[l] : l \in MappedKeys}
    BY DEF KeysPending
  <2> HIDE DEF InputInductive, KeyMoves
  <2>3. at' = at
    BY DEF KeyMoves
  <2> QED BY <2>1, <2>2, <2>3 DEF KeysPending
<1> QED BY <1>5, <1>6, <1>7, <1>8, <1>9

LEMMA OtherPacketsSafely ==
    ASSUME InputInductive, OtherPackets
    PROVE  InputInductive'
<1> USE DEF InputInductive, OtherPackets
<1>1. PICK p \in Noise : forward(p)
  OBVIOUS
<1>2. p \in Packet
  BY DEF Packet
<1>3. /\ queue' \in Seq(Packet) /\ Len(queue) \in Nat
      /\ Fits => /\ Len(queue') = Len(queue) + 1 /\ queue'[Len(queue) + 1] = p
                 /\ \A i \in 1 .. Len(queue) : queue'[i] = queue[i]
      /\ ~Fits => queue' = queue
  BY <1>1, <1>2, Queued DEF Sent
<1>4. InputTypes'
  BY DEF InputTypes
<1>5. Sent'
  <2>1. \A i \in 1 .. Len(queue') : queue'[i] = p \/ \E j \in 1 .. Len(queue) : queue'[i] = queue[j]
    BY <1>3
  <2>2. kind' = kind /\ holds' = holds
    OBVIOUS
  <2>3. ASSUME NEW S, \A i \in 1 .. Len(queue) : queue[i] \in S \union Noise
        PROVE  \A i \in 1 .. Len(queue') : queue'[i] \in S \union Noise
    BY <1>1, <2>1, <2>3
  <2> QED BY <1>3, <2>2, <2>3 DEF Sent
<1>6. PadAgrees'
  BY DEF PadAgrees
<1>7. GripPending'
  <2> SUFFICES ASSUME kind = "gamepad", at # "off", ~behind, NEW g \in holds
               PROVE  \/ \E i \in 1 .. Len(queue') :
                          Says(queue'[i], g) /\ \A j \in i + 1 .. Len(queue') : queue'[j] \in Noise
                      \/ seen = Wanted(g) /\ \A j \in 1 .. Len(queue') : queue'[j] \in Noise
    BY DEF GripPending, Says
  <2>1. \/ \E i \in 1 .. Len(queue) :
             Says(queue[i], g) /\ \A j \in i + 1 .. Len(queue) : queue[j] \in Noise
        \/ seen = Wanted(g) /\ \A j \in 1 .. Len(queue) : queue[j] \in Noise
    BY DEF GripPending
  <2>2. CASE ~Fits
    BY <1>3, <2>1, <2>2
  <2>3. CASE Fits
    <3>1. \A i \in 0 .. Len(queue) :
            (\A j \in i + 1 .. Len(queue) : queue[j] \in Noise)
              => (\A j \in i + 1 .. Len(queue') : queue'[j] \in Noise)
      BY <1>3, <2>3
    <3>2. \A i \in 1 .. Len(queue) : i \in 1 .. Len(queue') /\ i \in 0 .. Len(queue)
      BY <1>3, <2>3
    <3>3. ASSUME NEW i \in 1 .. Len(queue), Says(queue[i], g),
                 \A j \in i + 1 .. Len(queue) : queue[j] \in Noise
          PROVE  \E h \in 1 .. Len(queue') :
                   Says(queue'[h], g) /\ \A j \in h + 1 .. Len(queue') : queue'[j] \in Noise
      <4>1. Says(queue'[i], g)
        BY <1>3, <2>3, <3>3
      <4> QED BY <3>1, <3>2, <3>3, <4>1
    <3>4. ASSUME \A j \in 1 .. Len(queue) : queue[j] \in Noise
          PROVE  \A j \in 1 .. Len(queue') : queue'[j] \in Noise
      BY <1>3, <2>3, <3>4
    <3> QED BY <2>1, <3>3, <3>4
  <2> QED BY <2>2, <2>3
<1>8. KeysPending'
  <2>1. ASSUME at # "off", NEW k \in MappedKeys
        PROVE  Pressed(k)' <=> Pressed(k)
    <3>1. p \notin {Down(k), Up(k)}
      BY EdgesAreApart
    <3>2. CASE Fits
      BY <1>1, <1>2, <3>1, <3>2, PressedQueued DEF Sent
    <3>3. CASE ~Fits
      BY <1>3, <3>3 DEF Pressed, Down, Up
    <3> QED BY <3>2, <3>3
  <2>2. kind' = kind /\ at' = at /\ behind' = behind /\ holds' = holds /\ seen' = seen
    OBVIOUS
  <2>3. KeysPending
    OBVIOUS
  <2> HIDE DEF InputInductive, OtherPackets
  <2> QED BY <2>1, <2>2, <2>3 DEF KeysPending
<1> QED BY <1>4, <1>5, <1>6, <1>7, <1>8

-----------------------------------------------------------------------------
(* The task's steps *)

LEMMA OpenPadSafely ==
    ASSUME InputInductive, open_pad
    PROVE  InputInductive'
<1> USE DEF InputInductive, open_pad
<1>1. InputTypes'
  BY DEF InputTypes
<1>2. Sent'
  BY DEF Sent
<1>3. PadAgrees'
  BY StatesAreNotNone DEF PadAgrees
<1>4. GripPending'
  BY DEF GripPending, Says
<1>5. KeysPending'
  <2>1. \A k \in MappedKeys : Pressed(k)' <=> Pressed(k)
    BY DEF Pressed, Down, Up
  <2> QED BY <2>1 DEF KeysPending
<1> QED BY <1>1, <1>2, <1>3, <1>4, <1>5

\* A pad that is gone holds nothing, and nothing is said of the queue.
LEMMA WithoutPad ==
    ASSUME InputTypes, Sent, at' = "off", queue' = <<>>, seen' = Default,
           UNCHANGED <<kind, holds, behind>>
    PROVE  InputInductive'
<1>1. InputTypes'
  BY DEF InputTypes
<1>2. Sent'
  BY DEF Sent
<1>3. PadAgrees'
  BY DEF PadAgrees
<1>4. GripPending' /\ KeysPending'
  BY DEF GripPending, KeysPending
<1> QED BY <1>1, <1>2, <1>3, <1>4 DEF InputInductive

\* A pad that is dropped holds nothing.
LEMMA DroppedPad ==
    ASSUME PadAgrees, at = "open", drop
    PROVE  seen' = Default
<1>1. seen' = Reported(seen, last, Default) /\ last = seen /\ seen \in PadState
  BY DEF drop, Released, PadAgrees
<1> QED BY <1>1, ReportsAll, StatesAreNotNone

LEMMA InputEndsSafely ==
    ASSUME InputInductive, InputEnds
    PROVE  InputInductive'
<1> USE DEF InputInductive, InputEnds
<1>1. seen' = Default
  <2>1. CASE at = "open"
    BY <2>1, DroppedPad
  <2>2. CASE at # "open"
    BY <2>2 DEF PadAgrees
  <2> QED BY <2>1, <2>2
<1> QED BY <1>1, WithoutPad

\* A key's packet on the way to the pad.
LEMMA KeyIsDecoded ==
    ASSUME NEW v \in PadState, NEW p \in KeyPackets \union Noise,
           NEW r, r = apply_packet(p, v),
           v.keys \subseteq {KEYBOARD_MAP[k] : k \in MappedKeys}
    PROVE  /\ r # None => /\ r \in PadState
                          /\ r.keys \subseteq {KEYBOARD_MAP[k] : k \in MappedKeys}
           /\ \A k \in MappedKeys :
                KEYBOARD_MAP[k] \in (IF r = None THEN v ELSE r).keys <=>
                  IF p = Down(k) THEN TRUE ELSE IF p = Up(k) THEN FALSE
                  ELSE KEYBOARD_MAP[k] \in v.keys
<1> DEFINE after == IF r = None THEN v ELSE r
           mapped == {KEYBOARD_MAP[k] : k \in MappedKeys}
<1>1. CASE p \in Noise
  <2>1. r = None
    BY <1>1, NoiseIsNothing
  <2>2. \A k \in MappedKeys : p # Down(k) /\ p # Up(k)
    BY <1>1, EdgesAreApart
  <2> QED BY <2>1, <2>2
<1>2. CASE p \in KeyPackets /\ p \notin Noise
  <2>1. PICK l \in Keys, m \in {"KEY_DOWN", "KEY_UP"} : p = KeyPacket(m, l)
    BY <1>2 DEF KeyPackets
  <2>2. p = IF m = "KEY_DOWN" THEN Down(l) ELSE Up(l)
    BY <2>1 DEF Down, Up
  <2>3. CASE l \in DOMAIN KEYBOARD_MAP
    <3>1. l \in MappedKeys
      BY <2>3 DEF MappedKeys
    <3>2. /\ r \in PadState
          /\ r.keys = IF m = "KEY_DOWN" THEN v.keys \union {KEYBOARD_MAP[l]}
                      ELSE v.keys \ {KEYBOARD_MAP[l]}
      BY <2>1, <2>3, MappedKeyDecodes
    <3>3. r # None
      BY <3>2, StatesAreNotNone
    <3>4. r.keys \subseteq mapped
      BY <3>1, <3>2
    <3>5. ASSUME NEW k \in MappedKeys
          PROVE  KEYBOARD_MAP[k] \in r.keys <=>
                   IF p = Down(k) THEN TRUE ELSE IF p = Up(k) THEN FALSE
                   ELSE KEYBOARD_MAP[k] \in v.keys
      <4>1. Down(k) # Up(k)
        BY EdgesAreApart
      <4>2. CASE k = l
        BY <2>2, <3>2, <4>1, <4>2
      <4>3. CASE k # l
        <5>1. KEYBOARD_MAP[k] # KEYBOARD_MAP[l]
          BY <2>3, <4>3, TheMaps DEF MappedKeys
        <5>2. p # Down(k) /\ p # Up(k)
          BY <2>2, <4>3, EdgesAreApart
        <5> QED BY <3>2, <5>1, <5>2
      <4> QED BY <4>2, <4>3
    <3> QED BY <3>2, <3>3, <3>4, <3>5
  <2>4. CASE l \notin DOMAIN KEYBOARD_MAP
    <3>1. r # None => r \in PadState /\ r.keys = v.keys
      BY <2>1, <2>4, OtherKeyDecodes
    <3>2. ASSUME NEW k \in MappedKeys PROVE p # Down(k) /\ p # Up(k)
      <4>1. k # l
        BY <2>4 DEF MappedKeys
      <4> QED BY <2>2, <4>1, EdgesAreApart
    <3> QED BY <3>1, <3>2
  <2> QED BY <2>3, <2>4
<1> QED BY <1>1, <1>2

\* Of what is pending, one packet less is pending and the pad shows it.
LEMMA ReadsSafely ==
    ASSUME InputInductive, at = "open", queue # <<>>,
           NEW r, r = apply_packet(Head(queue), state),
           queue' = Tail(queue),
           r = None => UNCHANGED <<state, last, seen>>,
           r # None => state' = r /\ apply(r),
           UNCHANGED <<at, kind, holds, behind>>
    PROVE  InputInductive'
<1> USE DEF InputInductive
<1> DEFINE n == Len(queue) - 1
           p == Head(queue)
<1>1. /\ n \in Nat /\ Len(queue) = n + 1 /\ p = queue[1] /\ p \in Packet
      /\ queue' \in Seq(Packet) /\ Len(queue') = n
      /\ \A i \in 1 .. n : queue'[i] = queue[i + 1]
  BY Dequeued DEF Sent
<1>2. seen \in PadState /\ last = seen /\ state = seen
  BY DEF PadAgrees
<1>3. r = apply_packet(p, seen)
  BY <1>2
<1> HIDE DEF n, p
<1>4. 1 .. n + 1 = {1} \union 2 .. n + 1 /\ 1 \in 1 .. n + 1
      /\ \A i \in 1 .. n : i + 1 \in 1 .. n + 1
  BY <1>1
<1>5. /\ kind = "gamepad" => holds \subseteq Grips /\ p \in GamepadPackets \union Noise
      /\ kind = "keyboard" => p \in KeyPackets \union Noise
  BY <1>1, <1>4 DEF Sent
<1>6. ASSUME NEW g \in Grips, Says(p, g)
      PROVE  r = Wanted(g) /\ r \in PadState /\ r # None
  <2>1. PICK m \in {"MULTI", "CONTROLLER"} : p = GamepadPacket(m, g)
    BY <1>6 DEF Says
  <2> QED BY <1>2, <1>3, <2>1, GripDecodes, StatesAreNotNone
<1>7. p \in Noise => r = None
  BY <1>3, NoiseIsNothing
<1>8. kind = "keyboard" => seen.keys \subseteq {KEYBOARD_MAP[k] : k \in MappedKeys}
  BY DEF KeysPending
<1>9. r # None => r \in PadState
  <2>1. CASE kind = "gamepad"
    <3>1. ASSUME p \in GamepadPackets PROVE \E g \in Grips : Says(p, g)
      BY <3>1 DEF GamepadPackets, Says
    <3> QED BY <1>5, <1>6, <1>7, <2>1, <3>1
  <2>2. CASE kind = "keyboard"
    BY <1>2, <1>3, <1>5, <1>8, <2>2, KeyIsDecoded
  <2> QED BY <2>1, <2>2 DEF InputTypes
<1>10. seen' = (IF r = None THEN seen ELSE r) /\ last' = seen' /\ state' = seen'
  BY <1>2, <1>9, ReportsAll DEF apply
<1>11. InputTypes'
  BY DEF InputTypes
<1>12. Sent'
  BY <1>1, <1>4 DEF Sent, Packet, GamepadPackets, KeyPackets
<1>13. PadAgrees'
  BY <1>2, <1>9, <1>10 DEF PadAgrees
<1>14. GripPending'
  <2> SUFFICES ASSUME kind = "gamepad", ~behind, NEW g \in holds
               PROVE  \/ \E i \in 1 .. n :
                          Says(queue'[i], g) /\ \A j \in i + 1 .. n : queue'[j] \in Noise
                      \/ seen' = Wanted(g) /\ \A j \in 1 .. n : queue'[j] \in Noise
    BY <1>1 DEF GripPending, Says
  <2>1. \/ \E i \in 1 .. n + 1 :
             Says(queue[i], g) /\ \A j \in i + 1 .. n + 1 : queue[j] \in Noise
        \/ seen = Wanted(g) /\ \A j \in 1 .. n + 1 : queue[j] \in Noise
    BY <1>1 DEF GripPending
  <2>2. g \in Grips
    BY <1>5
  <2>3. ASSUME NEW i \in 1 .. n + 1, Says(queue[i], g),
               \A j \in i + 1 .. n + 1 : queue[j] \in Noise
        PROVE  \/ \E h \in 1 .. n :
                   Says(queue'[h], g) /\ \A j \in h + 1 .. n : queue'[j] \in Noise
               \/ seen' = Wanted(g) /\ \A j \in 1 .. n : queue'[j] \in Noise
    <3>1. \A j \in i .. n : queue'[j] \in Noise
      <4>1. ASSUME NEW j \in i .. n
            PROVE  j + 1 \in i + 1 .. n + 1 /\ j \in 1 .. n
        BY <1>1
      <4> QED BY <1>1, <2>3, <4>1
    <3>2. CASE i = 1
      <4>1. seen' = Wanted(g)
        BY <1>1, <1>6, <1>10, <2>2, <2>3, <3>2
      <4> QED BY <3>1, <3>2, <4>1
    <3>3. CASE i # 1
      <4>1. i - 1 \in 1 .. n /\ (i - 1) + 1 = i
        BY <1>1, <3>3
      <4>2. queue'[i - 1] = queue[i]
        BY <1>1, <4>1
      <4> QED BY <2>3, <3>1, <4>1, <4>2
    <3> QED BY <3>2, <3>3
  <2>4. ASSUME seen = Wanted(g), \A j \in 1 .. n + 1 : queue[j] \in Noise
        PROVE  seen' = Wanted(g) /\ \A j \in 1 .. n : queue'[j] \in Noise
    BY <1>1, <1>4, <1>7, <1>10, <2>4
  <2> QED BY <2>1, <2>3, <2>4
<1>15. KeysPending'
  <2> SUFFICES ASSUME kind = "keyboard"
               PROVE  /\ seen'.keys \subseteq {KEYBOARD_MAP[k] : k \in MappedKeys}
                      /\ ~behind => \A k \in MappedKeys : k \in holds <=> Pressed(k)'
    BY DEF KeysPending
  <2>1. /\ r # None => r.keys \subseteq {KEYBOARD_MAP[k] : k \in MappedKeys}
        /\ \A k \in MappedKeys :
             KEYBOARD_MAP[k] \in (IF r = None THEN seen ELSE r).keys <=>
               IF p = Down(k) THEN TRUE ELSE IF p = Up(k) THEN FALSE
               ELSE KEYBOARD_MAP[k] \in seen.keys
    BY <1>2, <1>3, <1>5, <1>8, KeyIsDecoded
  <2>2. ASSUME NEW k \in MappedKeys
        PROVE  Pressed(k)' <=> Pressed(k)
    BY <1>10, <2>1, PressedDequeued DEF Sent, p
  <2>3. seen'.keys \subseteq {KEYBOARD_MAP[k] : k \in MappedKeys}
    BY <1>8, <1>10, <2>1
  <2>4. ~behind => \A k \in MappedKeys : k \in holds <=> Pressed(k)
    BY DEF KeysPending
  <2> QED BY <2>2, <2>3, <2>4
<1> QED BY <1>11, <1>12, <1>13, <1>14, <1>15

LEMMA DecodesSafely ==
    ASSUME InputInductive, Decodes
    PROVE  InputInductive'
<1> DEFINE r == apply_packet(Head(queue), state)
<1>1. /\ at = "open" /\ queue # <<>> /\ UNCHANGED <<kind, holds, behind>>
      /\ \/ r = None /\ queue' = Tail(queue) /\ UNCHANGED <<at, state, last, seen>>
         \/ r # None /\ queue' = Tail(queue) /\ state' = r /\ apply(r) /\ UNCHANGED at
         \/ queue' = <<>> /\ at' = "off" /\ drop
  BY DEF Decodes
<1> HIDE DEF r
<1>2. CASE queue' = <<>> /\ at' = "off" /\ drop
  <2>1. seen' = Default
    BY <1>1, <1>2, DroppedPad DEF InputInductive
  <2> QED BY <1>1, <1>2, <2>1, WithoutPad DEF InputInductive
<1>3. CASE r = None /\ queue' = Tail(queue) /\ UNCHANGED <<at, state, last, seen>>
  BY <1>1, <1>3, ReadsSafely DEF r
<1>4. CASE r # None /\ queue' = Tail(queue) /\ state' = r /\ apply(r) /\ UNCHANGED at
  BY <1>1, <1>4, ReadsSafely DEF r
<1> QED BY <1>1, <1>2, <1>3, <1>4

LEMMA InputStepsSafely ==
    ASSUME InputInductive, [Next]_vars
    PROVE  InputInductive'
<1>1. CASE Starts
  BY <1>1, InputStartsSafely DEF Starts
<1>2. CASE Stops
  BY <1>2, InputStands DEF Stops, inputVars
<1>3. CASE InputSteps
  <2>1. CASE InputClient
    BY <2>1, GamepadMovesSafely, KeyMovesSafely, OtherPacketsSafely DEF InputClient
  <2>2. CASE InputTask
    BY <2>2, OpenPadSafely, DecodesSafely, InputEndsSafely DEF InputTask
  <2> QED BY <1>3, <2>1, <2>2 DEF InputSteps
<1>4. CASE FormerSteps \/ AudioSteps
  BY <1>4, InputStands DEF FormerSteps, AudioSteps, inputVars
<1>5. CASE UNCHANGED vars
  BY <1>5, InputStands DEF vars, inputVars
<1> QED BY <1>1, <1>2, <1>3, <1>4, <1>5 DEF Next

\* A pad becomes the former one as it is, and is dropped like any other.
LEMMA FormerStepsSafely ==
    ASSUME InputInductive, FormerAgrees, [Next]_vars
    PROVE  FormerAgrees'
<1> USE DEF FormerAgrees
<1>1. CASE Starts
  <2>1. CASE at = "open"
    <3>1. former' = [at |-> "open", last |-> last, seen |-> seen]
      BY <1>1, <2>1 DEF Starts, InputStarts
    <3>2. seen \in PadState /\ last = seen
      BY <2>1 DEF InputInductive, PadAgrees
    <3> QED BY <3>1, <3>2
  <2>2. CASE at # "open"
    BY <1>1, <2>2 DEF Starts, InputStarts
  <2> QED BY <2>1, <2>2
<1>2. CASE FormerSteps
  <2>1. /\ former'.at = "off" /\ former.seen \in PadState /\ former.last = former.seen
        /\ former'.seen = Reported(former.seen, former.last, Default)
    BY <1>2 DEF FormerSteps, FormerEnds, Released
  <2>2. former'.seen = Default
    BY <2>1, ReportsAll, StatesAreNotNone
  <2> QED BY <2>1, <2>2
<1>3. CASE Stops \/ InputSteps \/ AudioSteps \/ UNCHANGED vars
  BY <1>3 DEF Stops, InputSteps, AudioSteps, vars, inputVars
<1> QED BY <1>1, <1>2, <1>3 DEF Next

\* input_decode.rs: what the emulator sees and what is still to be read add up
\* to what the client holds, and between sessions it sees nothing held.
THEOREM InputAddsUp == Spec => []InputInductive
<1>1. Init => InputInductive
  BY InputInitially DEF Init
<1>2. InputInductive /\ [Next]_vars => InputInductive'
  BY InputStepsSafely
<1> QED BY <1>1, <1>2, PTL DEF Spec

\* host_input.rs:27-30, input_decode.rs:46: with nothing left to read and no
\* packet lost for good, the emulator sees what the client holds.
THEOREM EmulatorSeesTheClient == Spec => []PadShowsTheClient
<1>1. InputInductive => PadShowsTheClient
  <2> SUFFICES ASSUME InputInductive, at = "open", queue = <<>>, ~behind
               PROVE  IF kind = "gamepad" THEN \A g \in holds : seen = Wanted(g)
                      ELSE seen.keys = {KEYBOARD_MAP[k] : k \in holds \intersect DOMAIN KEYBOARD_MAP}
    BY DEF PadShowsTheClient
  <2> USE DEF InputInductive
  <2>1. 1 .. Len(queue) = {}
    OBVIOUS
  <2>2. CASE kind = "gamepad"
    BY <2>1, <2>2 DEF GripPending
  <2>3. CASE kind = "keyboard"
    <3>1. \A k \in MappedKeys : Pressed(k) <=> KEYBOARD_MAP[k] \in seen.keys
      BY <2>1 DEF Pressed
    <3>2. holds \intersect DOMAIN KEYBOARD_MAP \subseteq MappedKeys
      BY <2>3 DEF Sent, MappedKeys
    <3>3. /\ seen.keys \subseteq {KEYBOARD_MAP[k] : k \in MappedKeys}
          /\ \A k \in MappedKeys : k \in holds <=> KEYBOARD_MAP[k] \in seen.keys
      BY <2>3, <3>1 DEF KeysPending
    <3>4. ASSUME NEW c \in seen.keys
          PROVE  c \in {KEYBOARD_MAP[k] : k \in holds \intersect DOMAIN KEYBOARD_MAP}
      <4>1. PICK k \in MappedKeys : c = KEYBOARD_MAP[k]
        BY <3>3
      <4> QED BY <3>3, <4>1 DEF MappedKeys
    <3>5. ASSUME NEW k \in holds \intersect DOMAIN KEYBOARD_MAP
          PROVE  KEYBOARD_MAP[k] \in seen.keys
      BY <3>2, <3>3
    <3>6. seen.keys = {KEYBOARD_MAP[k] : k \in holds \intersect DOMAIN KEYBOARD_MAP}
      BY <3>4, <3>5
    <3> QED BY <2>3, <3>6
  <2> QED BY <2>2, <2>3 DEF InputTypes
<1> QED BY <1>1, InputAddsUp, PTL

\* input.rs:235: whichever way a session's pad went, and however late, nothing is
\* left held on it.
THEOREM PadLetsGo == Spec => []NothingStaysHeld
<1>1. Init => FormerAgrees
  BY DEF Init, InputInit, FormerAgrees
<1>2. InputInductive /\ FormerAgrees /\ [Next]_vars => FormerAgrees'
  BY FormerStepsSafely
<1>3. InputInductive /\ FormerAgrees => NothingStaysHeld
  BY DEF InputInductive, PadAgrees, FormerAgrees, NothingStaysHeld
<1> QED BY <1>1, <1>2, <1>3, InputAddsUp, PTL DEF Spec

-----------------------------------------------------------------------------
(* The capture *)

LEMMA AudioStepsSafely ==
    ASSUME AudioInductive, [Next]_vars
    PROVE  AudioInductive'
<1> USE DEF AudioInductive
<1>1. PeriodFrames \in Nat \ {0}
  BY DevicesAssumption
<1>2. CASE UNCHANGED <<handed, filled, buf>>
  BY <1>2
<1>3. CASE Off
  BY <1>1, <1>3 DEF Off, Silence
<1>4. CASE read /\ ~UNCHANGED <<handed, filled, buf>> /\ ~Off
  <2>1. PICK k \in 1 .. PeriodFrames - filled :
          handed' = handed + k /\ filled' = filled + k /\ buf' = Read(k)
    BY <1>4 DEF read
  <2>2. filled' \in 0 .. PeriodFrames /\ handed' = filled'
    BY <1>1, <2>1
  <2>3. ASSUME NEW i \in 1 .. PeriodFrames
        PROVE  /\ buf'[i] = IF i \in filled + 1 .. filled + k THEN handed + i - filled ELSE buf[i]
               /\ i \in filled + 1 .. filled + k => handed + i - filled = i
    BY <1>1, <2>1 DEF Read
  <2>4. buf' \in [1 .. PeriodFrames -> Nat]
    <3>1. \A i \in 1 .. PeriodFrames : buf'[i] \in Nat
      BY <2>3
    <3>2. buf' = [i \in 1 .. PeriodFrames |->
                    IF i \in filled + 1 .. filled + k THEN handed + i - filled ELSE buf[i]]
      BY <2>1 DEF Read
    <3> QED BY <3>1, <3>2
  <2>5. ASSUME NEW i \in 1 .. filled' PROVE buf'[i] = i
    <3>1. i \in 1 .. PeriodFrames /\ (i \in 1 .. filled \/ i \in filled + 1 .. filled + k)
      BY <1>1, <2>1, <2>2
    <3> QED BY <2>3, <3>1
  <2> QED BY <2>2, <2>4, <2>5
<1>5. CASE Sends /\ ~Off
  <2>1. filled = PeriodFrames /\ filled' = 0 /\ handed' = handed - PeriodFrames /\ buf' = Silence
    BY <1>5 DEF Sends
  <2> QED BY <1>1, <2>1 DEF Silence
<1>6. CASE Starts
  BY <1>2, <1>6 DEF Starts, AudioStarts
<1>7. CASE AudioSteps
  <2>1. Cable \/ open_capture => UNCHANGED <<handed, filled, buf>> \/ Off
    BY DEF Cable, open_capture
  <2> QED BY <1>2, <1>3, <1>4, <1>5, <1>7, <2>1 DEF AudioSteps, AudioTask
<1>8. CASE Stops \/ InputSteps \/ FormerSteps \/ UNCHANGED vars
  BY <1>2, <1>8 DEF Stops, InputSteps, FormerSteps, vars, audioVars
<1> QED BY <1>6, <1>7, <1>8 DEF Next

\* main.rs:598: a period that is sent has every frame read since the one
\* before, once and in order, whatever the sizes of the reads.
THEOREM PeriodsAreWhole == Spec => PeriodsWhole
<1>1. Init => AudioInductive
  BY DevicesAssumption DEF Init, AudioInit, AudioInductive, Silence
<1>2. AudioInductive /\ [Next]_vars => AudioInductive'
  BY AudioStepsSafely
<1>3. AudioInductive => (Sends => \A i \in 1 .. PeriodFrames : buf[i] = i)
  BY DEF AudioInductive, Sends
<1> QED BY <1>1, <1>2, <1>3, PTL DEF Spec, PeriodsWhole

=============================================================================
