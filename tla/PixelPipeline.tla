--------------------------- MODULE PixelPipeline ---------------------------
(***************************************************************************)
(* What becomes of one picture between the camera and its consumer: the    *)
(* conversions of video-capture, the geometry the ring accepts, and what   *)
(* the detector, the CPU back end and the recorder make of the slot.       *)
(*                                                                         *)
(* A picture says, for every sample, which pixels of the scene it stands   *)
(* for: "lum" for the samples of brightness and "chr" for those of colour, *)
(* laid out as the bytes are.                                              *)
(***************************************************************************)
EXTENDS LetterboxGeometry

CONSTANT Sides         \* the widths and heights of a frame

ASSUME PipelineAssumption == Sides \subseteq Nat \ {0}

VARIABLES stage,       \* where the picture is
          frame        \* the picture

pixelVars == <<stage, frame>>

IsEven(n) == n % 2 = 0

-----------------------------------------------------------------------------
(* Conversions of video-capture, for even sizes: the ring takes no other *)

Pixels(w, h) == 0 .. w * h - 1
Bytes(fmt, w, h) == CASE fmt = "yuyv"  -> 2 * w * h
                      [] fmt = "nv12"  -> (3 * w * h) \div 2
                      [] fmt = "rgb24" -> 3 * w * h

\* The 2 x 2 block of a pixel, and the four pixels of a block.
BlockOf(w, p) == (p \div (2 * w)) * (w \div 2) + (p % w) \div 2
BlockPixels(w, b) == LET p == (b \div (w \div 2)) * 2 * w + 2 * (b % (w \div 2))
                     IN  {p, p + 1, p + w, p + w + 1}

YuyvToNv12(f) ==
  [f EXCEPT !.fmt = "nv12",
            !.chr = [b \in 0 .. (f.w * f.h) \div 4 - 1 |->
                       f.chr[(b \div (f.w \div 2)) * f.w + (b % (f.w \div 2))]]]

YuyvToRgb24(f) ==
  [f EXCEPT !.fmt = "rgb24", !.chr = [p \in Pixels(f.w, f.h) |-> f.chr[p \div 2]]]

Nv12ToRgb24(f) ==
  [f EXCEPT !.fmt = "rgb24", !.chr = [p \in Pixels(f.w, f.h) |-> f.chr[BlockOf(f.w, p)]]]

Rgb24ToNv12(f) ==
  [f EXCEPT !.fmt = "nv12", !.chr = [b \in 0 .. (f.w * f.h) \div 4 - 1 |->
                       UNION {f.chr[p] : p \in BlockPixels(f.w, b)}]]

MjpegToRgb24(f) == [f EXCEPT !.fmt = "rgb24"]
MjpegToNv12(f) == Rgb24ToNv12(MjpegToRgb24(f))

\* The table of convert_to, and what it makes of a frame.
Supported == { <<"mjpeg", "rgb24">>, <<"mjpeg", "nv12">>, <<"yuyv", "nv12">>,
               <<"yuyv", "rgb24">>, <<"rgb24", "nv12">>, <<"nv12", "rgb24">> }

ConvertTo(f, fmt) ==
  CASE fmt = f.fmt                          -> f
    [] f.fmt = "mjpeg" /\ fmt = "rgb24"     -> MjpegToRgb24(f)
    [] f.fmt = "mjpeg" /\ fmt = "nv12"      -> MjpegToNv12(f)
    [] f.fmt = "yuyv" /\ fmt = "nv12"       -> YuyvToNv12(f)
    [] f.fmt = "yuyv" /\ fmt = "rgb24"      -> YuyvToRgb24(f)
    [] f.fmt = "rgb24" /\ fmt = "nv12"      -> Rgb24ToNv12(f)
    [] f.fmt = "nv12" /\ fmt = "rgb24"      -> Nv12ToRgb24(f)

-----------------------------------------------------------------------------
(* The square the model sees *)

Letterbox(f) ==
  LET m == Longer(f.w, f.h)
      from(t) == LET x == Under(t % InputSize, f.w, m)
                     y == Under(t \div InputSize, f.h, m)
                 IN  IF Pad \in {x, y} THEN Pad ELSE y * f.w + x
      square == Pixels(InputSize, InputSize)
  IN  [f EXCEPT !.lum = [t \in square |-> IF from(t) = Pad THEN Pad ELSE f.lum[from(t)]],
                !.chr = [t \in square |-> IF from(t) = Pad THEN {} ELSE f.chr[from(t)]]]

\* Channel first: the three planes of the square one after the other.
ToNchw(f) ==
  LET n == InputSize * InputSize IN
  [f EXCEPT !.fmt = "nchw", !.lum = [i \in 0 .. 3 * n - 1 |-> f.lum[i % n]],
                            !.chr = [i \in 0 .. 3 * n - 1 |-> f.chr[i % n]]]

-----------------------------------------------------------------------------
(* Steps *)

\* A picture as it is made: a YUYV pair of pixels shares its chroma.
Scene(fmt, w, h) ==
  [fmt |-> fmt, w |-> w, h |-> h, scene |-> <<w, h>>,
   lum |-> [p \in Pixels(w, h) |-> p],
   chr |-> CASE fmt = "yuyv"  -> [q \in 0 .. (w * h) \div 2 - 1 |-> {2 * q, 2 * q + 1}]
             [] fmt = "nv12"  -> [b \in 0 .. (w * h) \div 4 - 1 |-> BlockPixels(w, b)]
             [] OTHER         -> [p \in Pixels(w, h) |-> {p}]]

\* RingConfig::validate and frame_size.
RingTakes(fmt, w, h) == w > 0 /\ h > 0 /\ (fmt = "nv12" => IsEven(w) /\ IsEven(h))

\* The driver answers with a geometry...
Capture == /\ stage = "captured"
           /\ \E fmt \in {"yuyv", "mjpeg"}, w, h \in Sides :
                IsEven(w) /\ IsEven(h) /\ frame = Scene(fmt, w, h)

\* ... or a producer paints the slots itself, in either format of the ring.
Paint == /\ stage = "slot"
         /\ \E fmt \in {"nv12", "rgb24"}, w, h \in Sides :
              /\ RingTakes(fmt, w, h)
              /\ frame = Scene(fmt, w, h)

PixelInit == Capture \/ Paint

\* A short buffer or a JPEG that does not decode is counted and skipped.
ConvertFails == /\ stage = "captured"
                /\ stage' = "skipped"
                /\ UNCHANGED frame

\* The publisher turns every frame into the format of the ring.
ToStorage == /\ stage = "captured"
             /\ frame' = IF frame.fmt = "yuyv" THEN YuyvToNv12(frame) ELSE MjpegToNv12(frame)
             /\ stage' = "nv12"

\* publish takes the bytes only if there are as many as in a slot of the
\* ring, and readers see the geometry of the ring.
Publish(w, h) ==
  /\ stage = "nv12" /\ RingTakes("nv12", w, h)
  /\ IF Bytes("nv12", frame.w, frame.h) = Bytes("nv12", w, h)
     THEN stage' = "slot" /\ frame' = [frame EXCEPT !.w = w, !.h = h]
     ELSE stage' = "refused" /\ UNCHANGED frame

\* The detector's copy for the bridge: RGB, boxed.
PreprocessForBridge ==
  /\ stage = "slot"
  /\ frame' = Letterbox(IF frame.fmt = "nv12" THEN Nv12ToRgb24(frame) ELSE frame)
  /\ stage' = "boxed"

\* The CPU back end gets the slot as it is and does the rest itself.
FrameToRgb24 == IF frame.fmt = "nv12" THEN Nv12ToRgb24(frame) ELSE frame
InferOnCpu == /\ stage = "slot"
              /\ frame' = ToNchw(Letterbox(FrameToRgb24))
              /\ stage' = "tensor"

\* The recorder's picture for the encoder.
Record == /\ stage = "slot"
          /\ frame' = IF frame.fmt = "nv12" THEN Nv12ToRgb24(frame) ELSE frame
          /\ stage' = "recorded"

\* A user of the library converts as often as it likes.
Convert(fmt) == /\ stage \in {"captured", "library"}
                /\ fmt = frame.fmt \/ <<frame.fmt, fmt>> \in Supported
                /\ frame' = ConvertTo(frame, fmt)
                /\ stage' = "library"

PixelNext == \/ ConvertFails
             \/ ToStorage
             \/ \E w, h \in Sides : Publish(w, h)
             \/ PreprocessForBridge
             \/ InferOnCpu
             \/ Record
             \/ \E fmt \in {"yuyv", "mjpeg", "nv12", "rgb24"} : Convert(fmt)

-----------------------------------------------------------------------------
(* Properties *)

\* A pixel of the scene, centred at its number, seen at t of the square.
\* unproject_xy maps t back to (t - pad) / scale; the unrounded pad and scale
\* are those compute_letterbox hands to postprocess. The nearest pixel was
\* taken, but past the last one there is none nearer.
NearUnprojected(t, s, n, m) ==
  LET gap == Unprojected(t, n, m) - 2 * InputSize * s
  IN  -(InputSize + m) <= gap /\ gap <= InputSize + m + (IF s = n - 1 THEN InputSize ELSE 0)

InPlace(f) ==
  LET w == f.w  h == f.h  m == Longer(w, h)
      shown == DOMAIN f.lum
      at(i) == i % (InputSize * InputSize)
      boxed == stage \in {"boxed", "tensor"}
  IN  /\ boxed => \A n \in {w, h} : PadBefore(n, m) + Visible(n, m) <= InputSize
      /\ \A i \in shown :
           IF ~boxed THEN f.lum[i] = i
           ELSE f.lum[i] # Pad =>
                  /\ NearUnprojected(at(i) % InputSize, f.lum[i] % w, w, m)
                  /\ NearUnprojected(at(i) \div InputSize, f.lum[i] \div w, h, m)
      /\ f.fmt \in {"rgb24", "nchw"} =>
           \A i \in shown : f.lum[i] # Pad =>
             /\ f.chr[i] # {}
             /\ f.chr[i] \subseteq BlockPixels(w, BlockOf(w, f.lum[i]))
                                    \cup {f.lum[i]}

\* Whichever way a picture takes - camera format, library conversions, the
\* slot, the copy for the bridge, the tensor of the CPU back end, the
\* recording - every sample of brightness is of its own pixel, in the square
\* of the one unproject_xy maps it back to within the rounding of pad and
\* scale, and its chroma comes from inside the pixel's 2 x 2 block.  A frame
\* whose geometry is not the ring's but whose size is, is not covered.
PixelsInPlace == frame.scene = <<frame.w, frame.h>> => InPlace(frame)

PixelSpec == PixelInit /\ [][PixelNext]_pixelVars
=============================================================================
