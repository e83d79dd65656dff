------------------------------ MODULE Geometry ------------------------------
(***************************************************************************)
(* The arithmetic of a capture: the padded surface the panel is centred    *)
(* in, the bytes of it a frame is copied to, and the conversion to NV12.   *)
(* Divisions round down, as those of unsigned integers and the arithmetic  *)
(* shifts of convert.rs do; but for the RTP clock nothing here comes near  *)
(* 2^31.                                                                   *)
(***************************************************************************)
EXTENDS Integers

align16(n) == 16 * (n \div 16)

\* The nearest multiple of 16, but never less than the source has.
Nearest16(want, src) ==
    IF align16(want + 8) < src THEN align16(src + 15) ELSE align16(want + 8)

unpadded(w, h) == [pad_w |-> w, pad_h |-> h, pad_x |-> 0, pad_y |-> 0, padded |-> FALSE]

centred(w, h, pad_w, pad_h) ==
    [pad_w |-> pad_w, pad_h |-> pad_h, padded |-> TRUE,
     pad_x |-> (pad_w - w) \div 2, pad_y |-> (pad_h - h) \div 2]

\* Only ever wider or higher; a target of 0 means that nothing is scaled.
for_target(w, h, dst_w, dst_h) ==
    IF dst_w = 0 \/ dst_h = 0 \/ dst_w * h = dst_h * w THEN unpadded(w, h)
    ELSE IF dst_w * h > dst_h * w
    THEN centred(w, h, Nearest16((h * dst_w) \div dst_h, w), h)
    ELSE centred(w, h, w, Nearest16((w * dst_h) \div dst_w, h))

validate_rgb_pitch(rgb, padded, pitch, w) == rgb /\ ~padded => pitch = w * 4

\* The input buffer AllocInputBuffer is asked for, in bytes.
InputBytes(p, rgb) == IF rgb THEN p.pad_w * p.pad_h * 4 ELSE p.pad_w * p.pad_h

\* Where the copy of row y of the panel starts in the input buffer, and how
\* long it is.
RowAt(p, y) == (p.pad_y + y) * (p.pad_w * 4) + p.pad_x * 4
RowBytes(w) == w * 4

\* The rows of a frame that has no bars are copied in one piece.
WholeBytes(pitch, h) == pitch * h

-----------------------------------------------------------------------------
(* convert.rs: BT.601, limited range *)

clamp8(v) == IF v < 0 THEN 0 ELSE IF v > 255 THEN 255 ELSE v

rgb_y(r, g, b) == clamp8((66 * r + 129 * g + 25 * b + 128) \div 256 + 16)
rgb_u(r, g, b) == clamp8((112 * b - 38 * r - 74 * g + 128) \div 256 + 128)
rgb_v(r, g, b) == clamp8((112 * r - 94 * g - 18 * b + 128) \div 256 + 128)

\* r565, g565, b565: the five or six bits of a 16-bit pixel, as a byte.
r565(p) == ((p \div 2048) % 32) * 8
g565(p) == ((p \div 32) % 64) * 4
b565(p) == (p % 32) * 8

\* A channel of a 2x2 block; at an odd edge the last pixel counts twice.
mean4(a, b, c, d) == (a + b + c + d) \div 4

-----------------------------------------------------------------------------
(* The stamps of the frames *)

RTP_CLOCK_HZ == 90000

\* The product is of 64 bits, which no stream outlives; the stamp is of 32.
rtp_timestamp_for(n, fps) == ((n * RTP_CLOCK_HZ) \div fps) % 2^32
=============================================================================
