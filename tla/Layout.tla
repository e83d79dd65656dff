------------------------------- MODULE Layout -------------------------------
(***************************************************************************)
(* Where rgsp-ui puts the rows of its list, and NextUI the hint group it   *)
(* reserves the bottom of the panel for: the part of ui.rs's geometry that *)
(* says how many rows there is room for, in pixels.                        *)
(***************************************************************************)
EXTENDS Integers

Height == 480

\* NextUI's, unscaled.
PADDING == 10
PILL_SIZE == 30
BUTTON_MARGIN == 5

scale1(a) == 2 * a

pill == scale1(PILL_SIZE)
header_band_height == scale1(PADDING + PILL_SIZE + BUTTON_MARGIN)
row_y(i) == header_band_height + pill * i

\* GFX_blitButtonGroup's pill.
hints_y == Height - scale1(PADDING + PILL_SIZE)
=============================================================================
