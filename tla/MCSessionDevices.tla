-------------------------- MODULE MCSessionDevices --------------------------
(* A gamepad at rest, both ends of the hat, the trigger on either side of   *)
(* its threshold, and every button at once.                                 *)
EXTENDS SessionDevices

Grip(b, l, r, x) == [buttons |-> b, left |-> l, right |-> r, x |-> x, y |-> -x]

MCGrips ==
    { Grip({}, 127, 0, 0),
      Grip({"A", "LEFT", "DOWN"}, 128, 255, 32767),
      Grip(DOMAIN BUTTON_MAP \union {"UP", "LEFT", "RIGHT"}, 255, 1, -32767) }

\* Haptics share a magic with the controller; a controller packet that is cut
\* off; a key the pad does not know; a mouse.
MCNoise ==
    { [magic |-> "MULTI", len |-> 6], [magic |-> "CONTROLLER", len |-> 7],
      [magic |-> "KEY_DOWN", len |-> 10, key |-> 32], [magic |-> "MOUSE", len |-> 8] }
=============================================================================
