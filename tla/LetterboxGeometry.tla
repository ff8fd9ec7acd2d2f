------------------------- MODULE LetterboxGeometry -------------------------
(***************************************************************************)
(* Where the pixels of a frame go in the square the model is fed with, and *)
(* back.  Scales and pads are exact rationals where the code has f32: the  *)
(* scale is InputSize / m for m the longer side of the frame.              *)
(***************************************************************************)
EXTENDS Integers

CONSTANT InputSize     \* the side of the square: 640 in the code

ASSUME InputSizeAssumption == InputSize \in Nat \ {0}

Pad == -1              \* PAD_VALUE: no pixel of the frame

\* f32::round of the quotient n / d: half a unit goes away from zero.
Round(n, d) == IF n >= 0 THEN (2 * n + d) \div (2 * d)
                         ELSE -((d - 2 * n) \div (2 * d))

Longer(w, h) == IF w > h THEN w ELSE h

\* Mutant: the pad is cut off instead of rounded.
PadTruncated(n, m) == (InputSize * (m - n)) \div (2 * m)

\* Per axis of n pixels, m the longer side: the scale is InputSize / m, the
\* pad half of what is left, and both pads are rounded.
PadBefore(n, m) == Round(InputSize * (m - n), 2 * m)
Visible(n, m) == Round(InputSize * n, m)
SourceOf(t, n, m) == LET s == IF m = InputSize THEN t ELSE Round(t * m, InputSize)
                     IN  IF s < n THEN s ELSE n - 1

\* Column and row of the scene under a pixel of the square, or Pad.
Under(t, n, m) ==
  IF t - PadBefore(n, m) \in 0 .. Visible(n, m) - 1
  THEN SourceOf(t - PadBefore(n, m), n, m) ELSE Pad

\* unproject_xy maps t of the square back to (t - pad) / scale, with the
\* unrounded pad: the numerator of it over 2 * InputSize.
Unprojected(t, n, m) == 2 * m * t - InputSize * (m - n)
=============================================================================
