----------------------------- MODULE Detections -----------------------------
(***************************************************************************)
(* From the output of the model to the detections of a frame: postprocess  *)
(* of crates/yolov8 on the CPU, its C++ twin in RknnBackend::infer, and    *)
(* the StubBackend, which invents boxes in the frame and filters them with *)
(* nms.cpp, the twin of cv-inference/src/nms.rs.                           *)
(*                                                                         *)
(* A proposal is one anchor: centre and extent in the square of the model, *)
(* and its scores, in percent, after the sigmoid where there is one.       *)
(***************************************************************************)
EXTENDS LetterboxGeometry, Sequences, FiniteSets, SequencesExt

CONSTANTS Tensors,        \* the outputs of the model: sequences of proposals
          FrameSizes,     \* the sizes of a frame
          ConfThreshold,  \* percent
          IouThreshold,   \* percent
          MaxSeed         \* bounds the sequence numbers the stub looks at

Proposals == [cx : Int, cy : Int, w : Int, h : Int, scores : Seq(Int)]

ASSUME DetectionsAssumption == /\ Tensors \subseteq Seq(Proposals)
                               /\ FrameSizes \subseteq (Nat \ {0}) \X (Nat \ {0})

VARIABLES backend,        \* "cpu" | "npu" | "stub"
          phase,          \* how far the call is
          dims,           \* <<width, height>> of the frame
          tensor,         \* what the model has put out
          queue,          \* the candidates, best first
          place,          \* the candidate the outer loop is at
          suppressed,     \* positions in the queue
          kept            \* positions in the queue, in order

callVars == <<backend, phase, dims, tensor, queue, place, suppressed, kept>>

Smaller(a, b) == IF a < b THEN a ELSE b
Most(a, b) == IF a > b THEN a ELSE b
Within(v, top) == Most(0, Smaller(top, v))

-----------------------------------------------------------------------------
(* Overlap.  Both ratios are compared as products; spans are <<from, to>>. *)

Common(a, b) == Most(0, Smaller(a[2], b[2]) - Most(a[1], b[1]))
Exceeds(inter, union) == union > 0 /\ 100 * inter > IouThreshold * union

\* iou_640, in half units: the corners are half an extent from the centre.
Span2(c, extent) == <<2 * c - extent, 2 * c + extent>>
Overlaps640(a, b) ==
  LET inter == Common(Span2(a.cx, a.w), Span2(b.cx, b.w))
               * Common(Span2(a.cy, a.h), Span2(b.cy, b.h))
  IN  Exceeds(inter, 4 * a.w * a.h + 4 * b.w * b.h - inter)

\* BoundingBox::iou and its C++ twin, in pixels from the top left corner.
OverlapsBox(a, b) ==
  LET inter == Common(<<a.x, a.x + a.width>>, <<b.x, b.x + b.width>>)
               * Common(<<a.y, a.y + a.height>>, <<b.y, b.y + b.height>>)
  IN  Exceeds(inter, a.width * a.height + b.width * b.height - inter)

Overlaps(a, b) == IF backend = "stub" THEN OverlapsBox(a, b) ELSE Overlaps640(a, b)

-----------------------------------------------------------------------------
(* Candidates *)

\* The first of the best classes: a later class must beat it.
BestClass(p) == CHOOSE c \in DOMAIN p.scores :
                  /\ \A d \in DOMAIN p.scores : p.scores[d] <= p.scores[c]
                  /\ \A d \in 1 .. c - 1 : p.scores[d] < p.scores[c]
Confidence(p) == Smaller(100, Most(0, p.scores[BestClass(p)]))

Candidate(p) == [cx |-> p.cx, cy |-> p.cy, w |-> p.w, h |-> p.h,
                 class |-> BestClass(p), conf |-> Confidence(p)]

Passes(p) == Confidence(p) >= ConfThreshold /\ p.w > 0 /\ p.h > 0

\* The stub's boxes: one always, one on every third frame.
StubBoxes(seq, w, h) ==
  LET person == [x |-> (3 * w) \div 10, y |-> (4 * h) \div 10, width |-> 60,
                 height |-> 120, class |-> 0, conf |-> 85 + (seq % 10)]
      vehicle == [x |-> (7 * w) \div 10, y |-> (5 * h) \div 10, width |-> 100,
                  height |-> 80, class |-> 2, conf |-> 75]
  IN  IF seq % 3 = 0 THEN <<person, vehicle>> ELSE <<person>>

Decreasing(s) == \A i, j \in DOMAIN s : i < j => s[i].conf >= s[j].conf

\* sort_by keeps the order of equals, std::sort does not.
Stable(s, order) == \A i, j \in DOMAIN order :
  i < j /\ s[order[i]].conf = s[order[j]].conf => order[i] < order[j]

Orders(s, good) == {p \in Bijection(1 .. Cardinality(good), good) :
                      /\ Decreasing([i \in DOMAIN p |-> s[p[i]]])
                      /\ backend = "cpu" => Stable(s, p)}

\* The candidates that are good enough, best first.
Arranged(s, good) == {[i \in DOMAIN p |-> s[p[i]]] : p \in Orders(s, good)}

\* The sweep over the anchors; the stub asks only for confidence.
Sweep(t) == Arranged([i \in DOMAIN t |-> Candidate(t[i])], {i \in DOMAIN t : Passes(t[i])})
StubSweep(s) == Arranged(s, {i \in DOMAIN s : s[i].conf >= ConfThreshold})

-----------------------------------------------------------------------------
(* Boxes of the frame: unproject, round, clamp.  Ends are over 2*InputSize *)

Ends(c, extent, n, m) == << Unprojected(c, n, m) - m * extent,
                            Unprojected(c, n, m) + m * extent >>

\* round() of v / d as f32 has it: the CPU divides by the rounded scale, the
\* bridge multiplies by its rounded inverse, so what is a half may come out on
\* either side of it, and differently in the two.
Roundings(v, d) == {k \in (v \div d) .. (v \div d + 1) : 2 * (k * d - v) \in -d .. d}

\* postprocess rounds, then clamps, and subtracts the whole pixels.
CpuSpans(c, extent, n, m) ==
  LET e == Ends(c, extent, n, m) IN
  {<<Within(p, n), Most(1, Within(q, n) - Within(p, n))>> :
     p \in Roundings(e[1], 2 * InputSize), q \in Roundings(e[2], 2 * InputSize)}

\* Mutant: the second end is not clamped to the frame.
NpuSpansUnclamped(c, extent, n, m) ==
  LET e == Ends(c, extent, n, m)
      from == Within(e[1], 2 * InputSize * n)
  IN  {<<p, Most(1, k)>> :
         p \in Roundings(from, 2 * InputSize), k \in Roundings(e[2] - from, 2 * InputSize)}

\* The bridge clamps, then rounds the first end and the difference.
NpuSpans(c, extent, n, m) ==
  LET e == Ends(c, extent, n, m)
      from == Within(e[1], 2 * InputSize * n)
      to == Within(e[2], 2 * InputSize * n)
  IN  {<<p, Most(1, k)>> :
         p \in Roundings(from, 2 * InputSize), k \in Roundings(to - from, 2 * InputSize)}

-----------------------------------------------------------------------------
(* Steps *)

CallInit == /\ backend \in {"cpu", "npu", "stub"} /\ phase = "unloaded"
            /\ dims \in FrameSizes
            /\ tensor = <<>> /\ queue = <<>> /\ place = 1
            /\ suppressed = {} /\ kept = <<>>

\* A call before init finds no session on the CPU; the bridge answers an
\* empty list.
InferUnloaded == /\ phase = "unloaded"
                 /\ phase' = IF backend = "cpu" THEN "error" ELSE "done"
                 /\ UNCHANGED <<backend, dims, tensor, queue, place, suppressed, kept>>

\* load_model may fail at every call of the runtime; the stub's does not.
LoadModel == /\ phase = "unloaded"
             /\ phase' \in (IF backend = "stub" THEN {"ready"} ELSE {"ready", "error"})
             /\ UNCHANGED <<backend, dims, tensor, queue, place, suppressed, kept>>

\* A frame of the wrong size, a failed run, an output of another shape: an
\* error on the CPU, an empty list from the bridge.
InferFails == /\ phase = "ready" /\ backend # "stub"
              /\ phase' = IF backend = "cpu" THEN "error" ELSE "done"
              /\ UNCHANGED <<backend, dims, tensor, queue, place, suppressed, kept>>

Infer == /\ phase = "ready" /\ backend # "stub"
         /\ tensor' \in Tensors
         /\ queue' \in Sweep(tensor')
         /\ phase' = "filtering"
         /\ UNCHANGED <<backend, dims, place, suppressed, kept>>

StubInfer == /\ phase = "ready" /\ backend = "stub"
             /\ \E seq \in 0 .. MaxSeed :
                  queue' \in StubSweep(StubBoxes(seq, dims[1], dims[2]))
             /\ phase' = "filtering"
             /\ UNCHANGED <<backend, dims, tensor, place, suppressed, kept>>

\* Mutant: a suppressed candidate still suppresses others.
KeepBestChained ==
  /\ phase = "filtering" /\ place \in DOMAIN queue
  /\ kept' = IF place \in suppressed THEN kept ELSE Append(kept, place)
  /\ suppressed' = suppressed \cup
       {j \in DOMAIN queue : j > place /\ Overlaps(queue[place], queue[j])}
  /\ place' = place + 1
  /\ UNCHANGED <<backend, phase, dims, tensor, queue>>

\* One round of the outer loop of the suppression.
KeepBest ==
  /\ phase = "filtering" /\ place \in DOMAIN queue
  /\ IF place \in suppressed THEN UNCHANGED <<kept, suppressed>>
     ELSE /\ kept' = Append(kept, place)
          /\ suppressed' = suppressed \cup
               {j \in DOMAIN queue : j > place /\ Overlaps(queue[place], queue[j])}
  /\ place' = place + 1
  /\ UNCHANGED <<backend, phase, dims, tensor, queue>>

Return == /\ phase = "filtering" /\ place \notin DOMAIN queue
          /\ phase' = "done"
          /\ UNCHANGED <<backend, dims, tensor, queue, place, suppressed, kept>>

CallNext == \/ InferUnloaded \/ LoadModel \/ InferFails
            \/ Infer \/ StubInfer \/ KeepBest \/ Return

CallSpec == CallInit /\ [][CallNext]_callVars

-----------------------------------------------------------------------------
(* Properties *)

\* What a call returns is what greedy suppression promises, whatever the
\* order std::sort leaves equals in: no two kept boxes overlap beyond the
\* threshold, the kept ones come best first, and a candidate is missing only
\* because a kept one at least as sure overlaps it.
NmsIsGreedy ==
  phase = "done" =>
    LET on == Range(kept) IN
    /\ \A i, j \in on : i < j => ~Overlaps(queue[i], queue[j])
    /\ \A i, j \in DOMAIN kept : i < j => queue[kept[i]].conf >= queue[kept[j]].conf
    /\ \A j \in DOMAIN queue \ on :
         \E i \in on : queue[i].conf >= queue[j].conf /\ Overlaps(queue[i], queue[j])

\* Of every candidate, on both axes.
OnEveryAxis(P(_, _, _, _)) ==
  \A i \in DOMAIN queue : backend # "stub" =>
    LET m == Longer(dims[1], dims[2])
    IN  P(queue[i].cx, queue[i].w, dims[1], m) /\ P(queue[i].cy, queue[i].h, dims[2], m)

Close(c, extent, n, m) ==
  \A cpu \in CpuSpans(c, extent, n, m), npu \in NpuSpans(c, extent, n, m) :
    /\ cpu[1] - npu[1] \in -1 .. 1 /\ cpu[2] - npu[2] \in -1 .. 1
    /\ cpu[2] > 0 /\ npu[2] > 0
    /\ cpu[1] + cpu[2] <= n + (IF cpu[1] = n THEN 1 ELSE 0)
    /\ npu[1] + npu[2] <= n + 1

\* The two paths put a candidate at most one pixel apart and differ in its
\* extent by at most one, whichever way a half rounds in either; the extent is
\* never zero, a box leaves the frame by one pixel at most, and on the CPU only
\* a box that begins on the frame's edge (yolov8 postprocess, RknnBackend::infer).
PathsAgree == OnEveryAxis(Close)

MayCoincide(c, extent, n, m) == CpuSpans(c, extent, n, m) \cap NpuSpans(c, extent, n, m) # {}

\* "The same numeric logic is mirrored" in C++ and "produces identical
\* results" (yolov8/src/lib.rs:16-18): for some way the halves may round, the
\* two paths make the same box of a candidate.
PathsIdentical == OnEveryAxis(MayCoincide)
=============================================================================
