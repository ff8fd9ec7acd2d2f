---------------------------- MODULE PictureProofs ----------------------------
(***************************************************************************)
(* Proofs about what becomes of a picture: where its bytes lie in a        *)
(* segment (FrameLayout), where its samples are on the way to the model    *)
(* and the encoder (PixelPipeline), how it travels to the bridge as text   *)
(* (InlineFrames), and which of the detections made of it remain and where *)
(* they are put (Detections).                                              *)
(***************************************************************************)
EXTENDS FrameLayout, InlineFrames, Detections, PixelPipeline, SequenceTheorems, FiniteSetTheorems, TLAPS

-----------------------------------------------------------------------------
(* The layout of frames.                                                   *)

Laid(region) == /\ region.capacity \in Nat /\ region.frameSize \in Nat
                /\ region.picture # 0 => region.frameSize = region.picture
                /\ \/ region.capacity = 0
                   \/ region.len = SegmentSize(region.capacity, region.frameSize)

(* What a region is made of is laid out already: numbers from a header are *)
(* natural, and a producer's pictures take the size its header says.       *)
LayoutInv == /\ Laid(ring) /\ Laid(view)
             /\ file.capacity \in Nat /\ file.frameSize \in Nat
             /\ file.picture # 0 => file.frameSize = file.picture

(* Places of one size in a row do not overlap, and end where the row does. *)
LEMMA RowsApart ==
  ASSUME NEW extent \in Nat, NEW i \in Nat, NEW j \in Nat, i < j
  PROVE  i * extent + extent <= j * extent /\ i * extent \in Nat /\ j * extent \in Nat
<1>1. PICK d \in Nat : j = i + 1 + d
  BY SMT
<1>2. d * extent \in Nat /\ i * extent \in Nat
  BY SMT
<1>3. j * extent = i * extent + extent + d * extent
  BY <1>1, SMT
<1> QED BY <1>2, <1>3, SMT

\* A region of the length its numbers ask for keeps its frames apart.
LEMMA LaidIsApart ==
  ASSUME NEW region, Laid(region)
  PROVE  KeptApart(region)
<1> DEFINE cap == region.capacity
           extent == region.frameSize
<1>1. cap \in Nat /\ extent \in Nat /\ HeaderSize \in Nat /\ SlotSize \in Nat
  BY LayoutAssumption DEF Laid
<1>2. ASSUME NEW i \in 0 .. (cap - 1)
      PROVE  /\ HeaderSize <= SlotAt(i)
             /\ SlotAt(i) + SlotSize <= DataAt(region, 0)
             /\ DataAt(region, 0) <= DataAt(region, i)
             /\ DataAt(region, i) + extent <= region.len
  <2>1. i \in Nat /\ i < cap /\ cap # 0
    BY <1>1, SMT
  <2>2. /\ i * SlotSize + SlotSize <= cap * SlotSize
        /\ i * SlotSize \in Nat /\ cap * SlotSize \in Nat
    BY <1>1, <2>1, RowsApart
  <2>3. /\ i * extent + extent <= cap * extent
        /\ i * extent \in Nat /\ cap * extent \in Nat
    BY <1>1, <2>1, RowsApart
  <2>4. region.len = HeaderSize + cap * SlotSize + cap * extent
    BY <2>1 DEF Laid, SegmentSize, DataAreaOffset
  <2>5. DataAt(region, 0) = HeaderSize + cap * SlotSize
    BY <1>1, <2>2, SMT DEF DataAt, DataAreaOffset
  <2>6. DataAt(region, i) = HeaderSize + cap * SlotSize + i * extent
    BY DEF DataAt, DataAreaOffset
  <2>7. SlotAt(i) = HeaderSize + i * SlotSize
    BY DEF SlotAt
  <2>8. PICK s \in Nat, k \in Nat, p \in Nat, d \in Nat, c \in Nat :
            /\ s = i * SlotSize /\ k = cap * SlotSize
            /\ p = i * extent /\ d = cap * extent /\ c = extent
    BY <1>1, <2>2, <2>3
  <2>9. /\ region.len = HeaderSize + k + d
        /\ DataAt(region, 0) = HeaderSize + k
        /\ DataAt(region, i) = HeaderSize + k + p
        /\ SlotAt(i) = HeaderSize + s
        /\ s + SlotSize <= k /\ p + c <= d /\ extent = c
    BY <2>2, <2>3, <2>4, <2>5, <2>6, <2>7, <2>8
  <2>10. /\ HeaderSize <= HeaderSize + s /\ HeaderSize + s + SlotSize <= HeaderSize + k
         /\ HeaderSize + k <= HeaderSize + k + p
         /\ HeaderSize + k + p + c <= HeaderSize + k + d
    BY <1>1, <2>8, <2>9, SMT
  <2> HIDE DEF extent
  <2> QED BY <2>9, <2>10
<1>3. ASSUME NEW i \in 0 .. (cap - 1), NEW j \in 0 .. (cap - 1), i < j
      PROVE  /\ SlotAt(i) + SlotSize <= SlotAt(j)
             /\ DataAt(region, i) + extent <= DataAt(region, j)
  <2>1. i \in Nat /\ j \in Nat
    BY <1>1, SMT
  <2>2. i * SlotSize + SlotSize <= j * SlotSize /\ i * SlotSize \in Nat /\ j * SlotSize \in Nat
    BY <1>1, <1>3, <2>1, RowsApart
  <2>3. i * extent + extent <= j * extent /\ i * extent \in Nat /\ j * extent \in Nat
    BY <1>1, <1>3, <2>1, RowsApart
  <2>4. PICK k \in Nat : k = cap * SlotSize
    BY <1>1, SMT
  <2>5. DataAt(region, i) = HeaderSize + k + i * extent /\ DataAt(region, j) = HeaderSize + k + j * extent
    BY <2>4 DEF DataAt, DataAreaOffset
  <2>6. SlotAt(i) = HeaderSize + i * SlotSize /\ SlotAt(j) = HeaderSize + j * SlotSize
    BY DEF SlotAt
  <2> HIDE DEF cap, extent
  <2> QED BY <1>1, <2>2, <2>3, <2>5, <2>6, SMT
<1> QED BY <1>1, <1>2, <1>3 DEF KeptApart, Laid

(* A size that validates is a size that fits, so it is not cut.            *)
LEMMA ConfiguredIsLaid ==
  ASSUME NEW capacity \in Sizes, NEW w \in Sizes, NEW h \in Sizes, NEW format \in Formats,
         NEW backing, Validates(capacity, format, w, h)
  PROVE  Laid(Configured(backing, capacity, format, w, h))
<1>1. capacity \in Nat /\ w \in Nat /\ h \in Nat /\ Word \in Nat
  BY LayoutAssumption, SMT
<1>2. PICK p \in Nat : p = w * h * 3
  BY <1>1, SMT
<1>3. PictureBytes(format, w, h) \in Nat
  BY <1>2, SMT DEF PictureBytes
<1>4. PictureBytes(format, w, h) < Word
  BY DEF Validates, HasFrameSize
<1>5. FrameSizeOf(format, w, h) = PictureBytes(format, w, h)
  <2> DEFINE b == PictureBytes(format, w, h)
  <2>1. b % Word = b
    <3> HIDE DEF b
    <3>1. b \in Nat /\ b < Word
      BY <1>3, <1>4 DEF b
    <3> QED BY <1>1, <3>1, SMT
  <2> QED BY <2>1 DEF FrameSizeOf
<1> QED BY <1>1, <1>3, <1>5 DEF Laid, Configured

\* Without a file and without a mapping there is nothing to lay out.
LEMMA LayoutInvInit == LayoutInit => LayoutInv
  BY DEF LayoutInit, LayoutInv, Laid, NoFile, Unmapped

\* One step per operation: what it makes is laid out, the rest stays.
LEMMA LayoutInvStep == LayoutInv /\ [LayoutNext]_layoutVars => LayoutInv'
<1> SUFFICES ASSUME LayoutInv, [LayoutNext]_layoutVars PROVE LayoutInv'
  OBVIOUS
<1>1. /\ Laid(ring) /\ Laid(view)
      /\ file.capacity \in Nat /\ file.frameSize \in Nat
      /\ file.picture # 0 => file.frameSize = file.picture
  BY DEF LayoutInv
<1>2. Laid(Unmapped)
  BY DEF Laid, Unmapped
<1>3. NoFile.capacity \in Nat /\ NoFile.frameSize \in Nat /\ NoFile.picture = 0
  BY DEF NoFile
<1>4. ASSUME NEW capacity \in Sizes, NEW w \in Sizes, NEW h \in Sizes, NEW format \in Formats,
             CreateShared(capacity, format, w, h)
      PROVE  LayoutInv'
  <2>1. PICK made : made = Configured("created", capacity, format, w, h)
    OBVIOUS
  <2>2. Laid(made)
    BY <1>4, <2>1, ConfiguredIsLaid DEF CreateShared
  <2>3. made.capacity = capacity
    BY <2>1 DEF Configured
  <2>4. ring' = made /\ view' = view
    BY <1>4, <2>1 DEF CreateShared
  <2>5. file' = [len |-> made.len, header |-> TRUE, capacity |-> made.capacity,
                 frameSize |-> made.frameSize, picture |-> made.picture]
    BY <1>4, <2>4 DEF CreateShared
  <2>6. /\ file'.capacity \in Nat /\ file'.frameSize \in Nat
        /\ file'.picture # 0 => file'.frameSize = file'.picture
    BY <2>2, <2>5 DEF Laid
  <2>7. Laid(ring') /\ Laid(view')
    BY <1>1, <2>2, <2>4
  <2> QED BY <2>6, <2>7 DEF LayoutInv, Laid
<1>5. ASSUME NEW capacity \in Sizes, NEW w \in Sizes, NEW h \in Sizes, NEW format \in Formats,
             CreateInProcess(capacity, format, w, h)
      PROVE  LayoutInv'
  <2>1. Laid(Configured("heap", capacity, format, w, h))
    BY <1>5, ConfiguredIsLaid DEF CreateInProcess
  <2>2. Laid(ring') /\ Laid(view') /\ file' = file
    BY <1>5, <2>1 DEF CreateInProcess
  <2> QED BY <1>1, <2>2 DEF LayoutInv, Laid
<1>6. ASSUME NEW len \in Lengths, NEW header \in BOOLEAN, NEW capacity \in Sizes,
             NEW extent \in Sizes, OtherFile(len, header, capacity, extent)
      PROVE  LayoutInv'
  <2>1. capacity \in Nat /\ extent \in Nat
    <3>1. \A n \in Sizes : n \in Nat
      BY LayoutAssumption
    <3> QED BY <3>1
  <2>2. /\ file'.capacity \in Nat /\ file'.frameSize \in Nat
        /\ file'.picture # 0 => file'.frameSize = file'.picture
    BY <1>6, <2>1 DEF OtherFile
  <2>3. Laid(ring') /\ Laid(view')
    BY <1>1, <1>6 DEF OtherFile
  <2> QED BY <2>2, <2>3 DEF LayoutInv, Laid
<1>7. CASE AttachShared
  <2>1. PICK v : v = [backing |-> "attached", len |-> file.len, capacity |-> file.capacity,
                      frameSize |-> file.frameSize, picture |-> file.picture]
    OBVIOUS
  <2>2. view' = v /\ ring' = ring /\ file' = file
    BY <1>7, <2>1 DEF AttachShared
  <2>3. file.len = SegmentSize(file.capacity, file.frameSize)
    BY <1>7 DEF AttachShared
  <2>4. Laid(v)
    BY <1>1, <2>1, <2>3 DEF Laid
  <2>5. Laid(view') /\ Laid(ring')
    BY <1>1, <2>2, <2>4
  <2> QED BY <1>1, <2>2, <2>5 DEF LayoutInv, Laid
<1>8. CASE DropProducer
  <2>1. ring' = Unmapped /\ view' = view /\ (file' = file \/ file' = NoFile)
    BY <1>8 DEF DropProducer
  <2>2. Laid(view') /\ Laid(ring')
    BY <1>1, <1>2, <2>1
  <2> QED BY <1>1, <1>3, <2>1, <2>2 DEF LayoutInv, Laid
<1>9. CASE DropReader
  <2>1. ring' = ring /\ view' = Unmapped /\ file' = file
    BY <1>9 DEF DropReader
  <2>2. Laid(view') /\ Laid(ring')
    BY <1>1, <1>2, <2>1
  <2> QED BY <1>1, <2>1, <2>2 DEF LayoutInv, Laid
<1>10. CASE RemoveFile
  <2>1. ring' = ring /\ view' = view /\ file' = NoFile
    BY <1>10 DEF RemoveFile
  <2> QED BY <1>1, <1>3, <2>1 DEF LayoutInv, Laid
<1>11. CASE UNCHANGED layoutVars
  BY <1>1, <1>11 DEF LayoutInv, Laid, layoutVars
<1> QED BY <1>4, <1>5, <1>6, <1>7, <1>8, <1>9, <1>10, <1>11 DEF LayoutNext

\* Whatever is created, attached, left behind or removed in whatever order,
\* the three of file, producer and reader keep that invariant.
THEOREM LayoutInvariant == LayoutSpec => []LayoutInv
  BY LayoutInvInit, LayoutInvStep, PTL DEF LayoutSpec

\* The unchecked pointers of shmem-buffer stay in the mapping and apart, for
\* every geometry that validates and every header that is let in.
THEOREM LayoutKeepsFramesApart == LayoutSpec => []FramesApart
<1>1. LayoutInv => FramesApart
  BY LaidIsApart DEF LayoutInv, FramesApart
<1> QED BY <1>1, LayoutInvariant, PTL
-----------------------------------------------------------------------------
(* The suppression of overlapping detections.                              *)

(* What is decided of the candidates before place: each is kept or falls   *)
(* to one kept before it, and the kept ones have brought down all they     *)
(* overlap.                                                                *)
QueueTyped ==
  /\ \E n \in Nat : DOMAIN queue = 1 .. n
  /\ place \in Nat \ {0} /\ suppressed \subseteq DOMAIN queue
  /\ kept \in Seq(DOMAIN queue)
  /\ Decreasing(queue)
  /\ phase \in {"unloaded", "ready", "error"} =>
       queue = <<>> /\ place = 1 /\ kept = <<>> /\ suppressed = {}
  /\ phase = "done" => place \notin DOMAIN queue
  /\ \A j \in Nat \ {0} : j < place => j \in DOMAIN queue

InOrderKept ==
  /\ \A i, j \in DOMAIN kept : i < j => kept[i] < kept[j]
  /\ \A i \in DOMAIN kept : kept[i] < place /\ kept[i] \notin suppressed

Decided ==
  /\ \A j \in DOMAIN queue : j < place => j \in Range(kept) \cup suppressed
  /\ \A j \in suppressed :
       \E i \in Range(kept) : i < j /\ Overlaps(queue[i], queue[j])
  /\ \A i \in Range(kept), j \in DOMAIN queue :
       i < j /\ Overlaps(queue[i], queue[j]) => j \in suppressed

(* The candidates of a model lie in its square.                            *)
Placed ==
  /\ backend \in {"cpu", "npu", "stub"} /\ dims \in FrameSizes
  /\ backend # "stub" =>
       \A i \in DOMAIN queue : /\ queue[i].cx \in Int /\ queue[i].cy \in Int
                              /\ queue[i].w \in Int /\ queue[i].h \in Int

NmsInv == QueueTyped /\ InOrderKept /\ Decided /\ Placed

(* A queue has the good candidates in decreasing order of confidence,      *)
(* whichever way equals are left.                                          *)
LEMMA QueueIsSorted ==
  ASSUME NEW s, NEW n \in Nat, NEW good \in SUBSET (1 .. n), NEW q \in Arranged(s, good),
         NEW T, \A i \in good : s[i] \in T
  PROVE  \E k \in Nat : q \in [1 .. k -> T] /\ Decreasing(q)
<1>1. Cardinality(good) \in Nat
  <2>1. IsFiniteSet(1 .. n)
    BY FS_Interval
  <2> QED BY <2>1, FS_Subset, FS_CardinalityType
<1>2. PICK r \in Orders(s, good) : q = [i \in DOMAIN r |-> s[r[i]]]
  BY DEF Arranged
<1>3. r \in [1 .. Cardinality(good) -> good] /\ Decreasing(q)
  BY <1>2 DEF Orders, Bijection, Injection
<1> QED
  BY <1>1, <1>2, <1>3

LEMMA QueueOfSweep ==
  ASSUME NEW t \in Tensors, NEW q \in Sweep(t)
  PROVE  /\ \E k \in Nat : DOMAIN q = 1 .. k
         /\ Decreasing(q)
         /\ \A i \in DOMAIN q : /\ q[i].cx \in Int /\ q[i].cy \in Int
                                /\ q[i].w \in Int /\ q[i].h \in Int
<1> DEFINE s    == [i \in DOMAIN t |-> Candidate(t[i])]
           good == {i \in DOMAIN t : Passes(t[i])}
           T    == {Candidate(a) : a \in Proposals}
<1>1. PICK n \in Nat : DOMAIN t = 1 .. n /\ \A i \in DOMAIN t : t[i] \in Proposals
  BY DetectionsAssumption
<1>2. good \in SUBSET (1 .. n) /\ q \in Arranged(s, good) /\ \A i \in good : s[i] \in T
  BY <1>1 DEF Sweep
<1>3. \A c \in T : c.cx \in Int /\ c.cy \in Int /\ c.w \in Int /\ c.h \in Int
  BY DEF Candidate, Proposals
<1> HIDE DEF s, good, T
<1>4. \E k \in Nat : q \in [1 .. k -> T] /\ Decreasing(q)
  BY <1>2, QueueIsSorted
<1> QED
  BY <1>3, <1>4

LEMMA QueueOfStub ==
  ASSUME NEW seq, NEW w, NEW h, NEW q \in StubSweep(StubBoxes(seq, w, h))
  PROVE  (\E k \in Nat : DOMAIN q = 1 .. k) /\ Decreasing(q)
<1> DEFINE s    == StubBoxes(seq, w, h)
           good == {i \in DOMAIN s : s[i].conf >= ConfThreshold}
<1>1. DOMAIN s = 1 .. 1 \/ DOMAIN s = 1 .. 2
  BY DEF StubBoxes
<1>2. good \in SUBSET (1 .. 2) /\ q \in Arranged(s, good)
  BY <1>1 DEF StubSweep
<1> DEFINE T == {s[i] : i \in good}
<1>3. \A i \in good : s[i] \in T
  OBVIOUS
<1> HIDE DEF s, good, T
<1>4. \E k \in Nat : q \in [1 .. k -> T] /\ Decreasing(q)
  BY <1>2, <1>3, QueueIsSorted
<1> QED
  BY <1>4

(* A queue just filled: nothing is decided.                                *)
LEMMA Filled ==
  ASSUME NmsInv, phase = "ready", phase' = "filtering",
         \E n \in Nat : DOMAIN queue' = 1 .. n, Decreasing(queue'),
         UNCHANGED <<backend, dims, place, suppressed, kept>>, Placed'
  PROVE  NmsInv'
<1>1. place' = 1 /\ suppressed' = {} /\ kept' = <<>>
  BY DEF NmsInv, QueueTyped
<1>2. kept' \in Seq(DOMAIN queue') /\ DOMAIN kept' = {} /\ Range(kept') = {}
  BY <1>1 DEF Range
<1>3. QueueTyped'
  BY <1>1, <1>2 DEF QueueTyped, Decreasing
<1>4. InOrderKept' /\ Decided'
  BY <1>1, <1>2 DEF InOrderKept, Decided, Range
<1> QED
  BY <1>3, <1>4 DEF NmsInv

LEMMA KeepBestKeeps ==
  ASSUME NmsInv, KeepBest
  PROVE  NmsInv'
<1>1. /\ phase = "filtering" /\ place \in DOMAIN queue /\ place' = place + 1
      /\ backend' = backend /\ phase' = phase /\ queue' = queue /\ dims' = dims
  BY DEF KeepBest
<1>2. PICK n \in Nat : DOMAIN queue = 1 .. n
  BY DEF NmsInv, QueueTyped
<1>3. /\ QueueTyped /\ InOrderKept /\ Decided /\ place \in Nat
      /\ kept \in Seq(DOMAIN queue) /\ suppressed \subseteq DOMAIN queue
  BY DEF NmsInv, QueueTyped
<1>4. \A j \in Nat \ {0} : j < place + 1 => j \in DOMAIN queue
  BY <1>1, <1>2
<1>5. \A a, b : Overlaps(a, b)' = Overlaps(a, b)
  BY <1>1 DEF Overlaps, Overlaps640, OverlapsBox
<1>6. ASSUME kept' \in Seq(DOMAIN queue), suppressed' \subseteq DOMAIN queue
      PROVE  QueueTyped'
  <2>1. (\E i \in Nat : DOMAIN queue' = 1 .. i) /\ Decreasing(queue')
    BY <1>1, <1>2, <1>3 DEF QueueTyped
  <2>2. place' \in Nat \ {0} /\ \A j \in Nat \ {0} : j < place' => j \in DOMAIN queue'
    BY <1>1, <1>3, <1>4
  <2>3. phase' \notin {"unloaded", "ready", "error"} /\ phase' # "done"
    BY <1>1
  <2>4. kept' \in Seq(DOMAIN queue') /\ suppressed' \subseteq DOMAIN queue'
    BY <1>1, <1>6
  <2> QED BY ONLY <2>1, <2>2, <2>3, <2>4 DEF QueueTyped
<1>7. Placed'
  BY <1>1 DEF NmsInv, Placed
<1>8. CASE place \in suppressed
  <2>1. kept' = kept /\ suppressed' = suppressed /\ Range(kept') = Range(kept)
    BY <1>8 DEF KeepBest
  <2>2. QueueTyped'
    BY <1>3, <1>6, <2>1
  <2>3. InOrderKept'
    BY <1>1, <1>2, <1>3, <2>1 DEF InOrderKept
  <2>4. Decided'
    BY <1>1, <1>2, <1>3, <1>5, <1>8, <2>1 DEF Decided
  <2> QED BY <1>7, <2>2, <2>3, <2>4 DEF NmsInv
<1>9. CASE place \notin suppressed
  <2> DEFINE falls == {j \in DOMAIN queue : j > place /\ Overlaps(queue[place], queue[j])}
  <2>1. kept' = Append(kept, place) /\ suppressed' = suppressed \cup falls
    BY <1>9 DEF KeepBest
  <2>2. /\ kept' \in Seq(DOMAIN queue) /\ Len(kept') = Len(kept) + 1 /\ Len(kept) \in Nat
        /\ \A i \in 1 .. Len(kept) : kept'[i] = kept[i] /\ kept[i] \in DOMAIN queue
        /\ kept'[Len(kept) + 1] = place
        /\ DOMAIN kept = 1 .. Len(kept) /\ DOMAIN kept' = 1 .. (Len(kept) + 1)
    BY <1>1, <1>3, <2>1, AppendProperties
  <2>3. Range(kept') = Range(kept) \cup {place}
    BY <2>2 DEF Range
  <2>4. QueueTyped'
    <3>1. suppressed' \subseteq DOMAIN queue
      BY <1>3, <2>1
    <3> QED BY <1>6, <2>2, <3>1
  <2>5. InOrderKept'
    <3>1. \A i \in DOMAIN kept' : i \in DOMAIN kept \/ i = Len(kept) + 1
      BY <2>2
    <3>2. \A i \in DOMAIN kept : kept[i] < place /\ kept[i] \notin suppressed
      BY <1>3 DEF InOrderKept
    <3>3. \A i \in DOMAIN kept : kept[i] \in Nat
      BY <1>2, <2>2
    <3>4. \A i, j \in DOMAIN kept' : i < j => kept'[i] < kept'[j]
      <4> TAKE i, j \in DOMAIN kept'
      <4> HAVE i < j
      <4>1. i \in DOMAIN kept
        BY <2>2
      <4> QED BY <1>3, <2>2, <3>1, <3>2, <4>1 DEF InOrderKept
    <3>5. \A i \in DOMAIN kept' : kept'[i] < place + 1 /\ kept'[i] \notin suppressed'
      BY <1>3, <1>9, <2>1, <2>2, <3>1, <3>2, <3>3
    <3> QED BY <1>1, <3>4, <3>5 DEF InOrderKept
  <2>6. Decided'
    <3>1. \A j \in DOMAIN queue : j < place + 1 => j \in Range(kept') \cup suppressed'
      BY <1>2, <1>3, <2>1, <2>3 DEF Decided
    <3>2. \A j \in suppressed' :
            \E i \in Range(kept') : i < j /\ Overlaps(queue[i], queue[j])
      BY <1>2, <1>3, <2>1, <2>3 DEF Decided
    <3>3. \A i \in Range(kept'), j \in DOMAIN queue :
            i < j /\ Overlaps(queue[i], queue[j]) => j \in suppressed'
      BY <1>2, <1>3, <2>1, <2>3 DEF Decided
    <3> QED BY <1>1, <1>5, <3>1, <3>2, <3>3 DEF Decided
  <2> QED BY <1>7, <2>4, <2>5, <2>6 DEF NmsInv
<1> QED
  BY <1>8, <1>9

LEMMA NmsSame ==
  ASSUME NmsInv, UNCHANGED <<backend, dims, queue, place, suppressed, kept>>,
         \/ phase' = phase
         \/ phase \in {"unloaded", "ready"} /\ phase' \in {"ready", "error", "done"}
         \/ phase' = "done" /\ place \notin DOMAIN queue
  PROVE  NmsInv'
<1>1. \A a, b : Overlaps(a, b)' = Overlaps(a, b)
  BY DEF Overlaps, Overlaps640, OverlapsBox
<1>2. QueueTyped'
  BY DEF NmsInv, QueueTyped, Decreasing
<1>3. InOrderKept'
  BY DEF NmsInv, InOrderKept
<1>4. Decided'
  BY <1>1 DEF NmsInv, Decided
<1>5. Placed'
  BY DEF NmsInv, Placed
<1> QED
  BY <1>2, <1>3, <1>4, <1>5 DEF NmsInv

(* Whatever the candidates and whichever way ties are broken, the loops of *)
(* nms keep the decisions they have made (yolov8/src/lib.rs, rknn_model.cpp). *)
THEOREM SuppressionInvariant ==
  CallSpec => []NmsInv
<1>1. CallInit => NmsInv
  <2> SUFFICES ASSUME CallInit PROVE NmsInv
    OBVIOUS
  <2>1. /\ phase = "unloaded" /\ queue = <<>> /\ place = 1 /\ kept = <<>> /\ suppressed = {}
        /\ DOMAIN queue = 1 .. 0 /\ Range(kept) = {} /\ DOMAIN kept = {}
    BY DEF CallInit, Range
  <2>2. Placed
    BY <2>1 DEF CallInit, Placed
  <2> QED BY <2>1, <2>2 DEF NmsInv, QueueTyped, InOrderKept, Decided, Decreasing
<1>2. NmsInv /\ [CallNext]_callVars => NmsInv'
  <2> SUFFICES ASSUME NmsInv, [CallNext]_callVars PROVE NmsInv'
    OBVIOUS
  <2>1. CASE InferUnloaded
    BY <2>1, NmsSame DEF InferUnloaded
  <2>2. CASE LoadModel
    BY <2>2, NmsSame DEF LoadModel
  <2>3. CASE InferFails
    BY <2>3, NmsSame DEF InferFails
  <2>4. CASE Infer
    <3>1. /\ phase = "ready" /\ phase' = "filtering" /\ tensor' \in Tensors
          /\ queue' \in Sweep(tensor') /\ UNCHANGED <<backend, dims, place, suppressed, kept>>
      BY <2>4 DEF Infer
    <3>2. Placed'
      BY <3>1, QueueOfSweep DEF NmsInv, Placed
    <3> QED BY <3>1, <3>2, QueueOfSweep, Filled
  <2>5. CASE StubInfer
    <3>1. /\ phase = "ready" /\ phase' = "filtering" /\ backend = "stub"
          /\ UNCHANGED <<backend, dims, place, suppressed, kept>>
      BY <2>5 DEF StubInfer
    <3>2. PICK seq \in 0 .. MaxSeed : queue' \in StubSweep(StubBoxes(seq, dims[1], dims[2]))
      BY <2>5 DEF StubInfer
    <3>3. Placed'
      BY <3>1 DEF NmsInv, Placed
    <3> QED BY <3>1, <3>2, <3>3, QueueOfStub, Filled
  <2>6. CASE KeepBest
    BY <2>6, KeepBestKeeps
  <2>7. CASE Return
    BY <2>7, NmsSame DEF Return
  <2>8. CASE UNCHANGED callVars
    BY <2>8, NmsSame DEF callVars
  <2> QED
    BY <2>1, <2>2, <2>3, <2>4, <2>5, <2>6, <2>7, <2>8 DEF CallNext
<1> QED
  BY <1>1, <1>2, PTL DEF CallSpec

(* Kept is what greedy suppression keeps, no more and no less, on the CPU   *)
(* and on the NPU.                                                         *)
THEOREM SuppressionIsGreedy ==
  CallSpec => []NmsIsGreedy
<1>1. NmsInv => NmsIsGreedy
  <2> SUFFICES ASSUME NmsInv, phase = "done" PROVE NmsIsGreedy
    BY DEF NmsIsGreedy
  <2>1. PICK n \in Nat : DOMAIN queue = 1 .. n
    BY DEF NmsInv, QueueTyped
  <2>2. /\ QueueTyped /\ InOrderKept /\ Decided /\ Decreasing(queue)
        /\ place \notin DOMAIN queue /\ place \in Nat \ {0}
        /\ kept \in Seq(DOMAIN queue)
    BY DEF NmsInv, QueueTyped
  <2>3. \A j \in DOMAIN queue : j < place
    BY <2>1, <2>2
  <2>4. \A i \in DOMAIN kept : kept[i] \in DOMAIN queue
    BY <2>2
  <2>5. \A i \in Range(kept) : i \in DOMAIN queue /\ i \notin suppressed
    BY <2>2, <2>4 DEF Range, InOrderKept
  <2>6. \A i, j \in Range(kept) : i < j => ~Overlaps(queue[i], queue[j])
    BY <2>2, <2>5 DEF Decided
  <2>7. \A i, j \in DOMAIN kept : i < j => queue[kept[i]].conf >= queue[kept[j]].conf
    BY <2>2, <2>4 DEF InOrderKept, Decreasing
  <2>8. \A j \in DOMAIN queue \ Range(kept) :
          \E i \in Range(kept) : queue[i].conf >= queue[j].conf /\ Overlaps(queue[i], queue[j])
    <3> TAKE j \in DOMAIN queue \ Range(kept)
    <3>1. j \in suppressed
      BY <2>2, <2>3 DEF Decided
    <3>2. PICK i \in Range(kept) : i < j /\ Overlaps(queue[i], queue[j])
      BY <2>2, <3>1 DEF Decided
    <3>3. queue[i].conf >= queue[j].conf
      BY <2>2, <2>5, <3>2 DEF Decreasing
    <3> QED BY <3>2, <3>3
  <2> QED
    BY <2>6, <2>7, <2>8 DEF NmsIsGreedy
<1> QED
  BY <1>1, SuppressionInvariant, PTL

-----------------------------------------------------------------------------
(* Rounding to pixels.                                                     *)

LEMMA Division ==
  ASSUME NEW a \in Nat, NEW b \in Nat \ {0}
  PROVE  /\ a \div b \in Nat
         /\ b * (a \div b) <= a /\ a < b * (a \div b) + b
OBVIOUS

LEMMA QuotientLess ==
  ASSUME NEW b \in Nat \ {0}, NEW q \in Int, NEW r \in Int, b * q < b * r + b
  PROVE  q <= r
<1> SUFFICES ASSUME q >= r + 1 PROVE FALSE
  OBVIOUS
<1>1. b * (q - r - 1) >= 0
  OBVIOUS
<1>2. b * (q - r - 1) = b * q - b * r - b
  OBVIOUS
<1> QED BY <1>1, <1>2

(* Half a unit goes away from zero.                                        *)
LEMMA Rounded ==
  ASSUME NEW x \in Int, NEW d \in Nat \ {0}
  PROVE  /\ Round(x, d) \in Int
         /\ x >= 0 => /\ Round(x, d) >= 0
                      /\ (2 * d) * Round(x, d) <= 2 * x + d
                      /\ 2 * x + d < (2 * d) * Round(x, d) + 2 * d
         /\ x < 0 => Round(x, d) <= 0
<1>1. CASE x >= 0
  <2>1. 2 * x + d \in Nat /\ 2 * d \in Nat \ {0}
    BY <1>1
  <2>2. PICK e \in Nat \ {0}, z \in Nat : e = 2 * d /\ z = 2 * x + d
    BY <2>1
  <2>3. Round(x, d) = z \div e
    BY <1>1, <2>2 DEF Round
  <2>4. /\ Round(x, d) \in Nat
        /\ e * Round(x, d) <= z /\ z < e * Round(x, d) + e
    BY <2>3, Division
  <2> QED BY <1>1, <2>2, <2>4
<1>2. CASE x < 0
  <2>1. d - 2 * x \in Nat /\ 2 * d \in Nat \ {0}
    BY <1>2
  <2>2. Round(x, d) = -((d - 2 * x) \div (2 * d))
    BY <1>2 DEF Round
  <2>3. (d - 2 * x) \div (2 * d) \in Nat
    BY <2>1, Division
  <2> QED BY <1>2, <2>2, <2>3
<1> QED
  BY <1>1, <1>2

(* A rounding is at most half a pixel from what it rounds, and there is    *)
(* always one.                                                             *)
LEMMA RoundingsNear ==
  ASSUME NEW d \in Nat \ {0}, NEW v \in Int, NEW k \in Roundings(v, d)
  PROVE  k \in Int /\ 2 * (d * k) <= 2 * v + d /\ 2 * v - d <= 2 * (d * k)
<1>1. k \in Int /\ 2 * (k * d - v) \in -d .. d
  BY DEF Roundings
<1>2. PICK z \in Int : z = d * k /\ z = k * d
  <2>1. d * k \in Int /\ d * k = k * d
    BY <1>1
  <2> QED BY <2>1
<1> QED
  BY <1>1, <1>2

LEMMA RoundingsExist ==
  ASSUME NEW d \in Nat \ {0}, NEW v \in Int
  PROVE  Roundings(v, d) # {}
<1>1. PICK q \in Int : q = v \div d /\ d * q <= v /\ v < d * q + d
  OBVIOUS
<1>2. PICK z \in Int : z = d * q /\ z = q * d /\ (q + 1) * d = z + d
  OBVIOUS
<1>3. CASE 2 * (v - z) <= d
  <2>1. 2 * (q * d - v) \in -d .. d /\ q \in q .. q + 1
    BY <1>1, <1>2, <1>3
  <2> QED BY <1>1, <2>1 DEF Roundings
<1>4. CASE 2 * (v - z) > d
  <2>1. 2 * ((q + 1) * d - v) \in -d .. d /\ q + 1 \in q .. q + 1
    BY <1>1, <1>2, <1>4
  <2> QED BY <1>1, <2>1 DEF Roundings
<1> QED
  BY <1>1, <1>2, <1>3, <1>4

(* What is clamped after rounding is a rounding of what is clamped before. *)
LEMMA ClampKeepsRounding ==
  ASSUME NEW d \in Nat \ {0}, NEW n \in Nat, NEW x \in Int, NEW p \in Roundings(x, d)
  PROVE  /\ Within(x, d * n) \in 0 .. d * n /\ Within(p, n) \in 0 .. n
         /\ 2 * (d * Within(p, n)) <= 2 * Within(x, d * n) + d
         /\ 2 * Within(x, d * n) - d <= 2 * (d * Within(p, n))
<1>1. p \in Int /\ 2 * (d * p) <= 2 * x + d /\ 2 * x - d <= 2 * (d * p)
  BY RoundingsNear
<1>2. PICK t \in Nat : t = d * n
  <2>1. d * n \in Nat
    OBVIOUS
  <2> QED BY <2>1
<1>3. CASE x <= 0
  <2>1. d * p < d * 0 + d
    BY <1>1, <1>3
  <2>2. p <= 0
    BY <1>1, <2>1, QuotientLess
  <2>3. Within(x, t) = 0 /\ Within(p, n) = 0 /\ d * 0 = 0
    BY <1>1, <1>2, <1>3, <2>2 DEF Within, Smaller, Most
  <2> QED BY <1>2, <2>3
<1>4. CASE x >= t /\ x > 0
  <2>1. d * n < d * p + d
    BY <1>1, <1>2, <1>4
  <2>2. n <= p
    BY <1>1, <2>1, QuotientLess
  <2>3. Within(x, t) = t /\ Within(p, n) = n
    BY <1>1, <1>2, <1>4, <2>2 DEF Within, Smaller, Most
  <2> QED BY <1>2, <2>3
<1>5. CASE x > 0 /\ x < t
  <2>1. d * 0 < d * p + d /\ d * p < d * n + d
    BY <1>1, <1>2, <1>5
  <2>2. 0 <= p /\ p <= n
    BY <1>1, <2>1, QuotientLess
  <2>3. Within(x, t) = x /\ Within(p, n) = p
    BY <1>1, <1>2, <1>5, <2>2 DEF Within, Smaller, Most
  <2> QED BY <1>1, <1>2, <1>5, <2>2, <2>3
<1> QED
  BY <1>2, <1>3, <1>4, <1>5

(* Whichever way the two round, they are at most one pixel apart.          *)
LEMMA SpansClose ==
  ASSUME NEW c \in Int, NEW extent \in Int, NEW n \in Nat \ {0}, NEW m \in Nat \ {0}
  PROVE  Close(c, extent, n, m)
<1> DEFINE e == Ends(c, extent, n, m)
<1> SUFFICES ASSUME NEW cpu \in CpuSpans(c, extent, n, m), NEW npu \in NpuSpans(c, extent, n, m)
             PROVE  /\ cpu[1] - npu[1] \in -1 .. 1 /\ cpu[2] - npu[2] \in -1 .. 1
                    /\ cpu[2] > 0 /\ npu[2] > 0
                    /\ cpu[1] + cpu[2] <= n + (IF cpu[1] = n THEN 1 ELSE 0)
                    /\ npu[1] + npu[2] <= n + 1
  BY DEF Close
<1>1. PICK d \in Nat \ {0}, x \in Int, y \in Int :
         d = 2 * InputSize /\ x = e[1] /\ y = e[2]
  <2>1. 2 * InputSize \in Nat \ {0} /\ InputSize \in Nat
    BY InputSizeAssumption
  <2>2. Unprojected(c, n, m) \in Int /\ m * extent \in Int
    BY <2>1 DEF Unprojected
  <2>3. e[1] \in Int /\ e[2] \in Int
    BY <2>2 DEF Ends
  <2> QED BY <2>1, <2>3
<1>2. PICK p0 \in Roundings(x, d), q0 \in Roundings(y, d) :
        cpu = <<Within(p0, n), Most(1, Within(q0, n) - Within(p0, n))>>
  BY <1>1 DEF CpuSpans
<1>3. PICK a \in Nat, b \in Nat, p \in 0 .. n, q \in 0 .. n :
        /\ a = Within(x, d * n) /\ b = Within(y, d * n) /\ b <= d * n
        /\ p = Within(p0, n) /\ q = Within(q0, n)
        /\ 2 * (d * p) <= 2 * a + d /\ 2 * a - d <= 2 * (d * p)
        /\ 2 * (d * q) <= 2 * b + d /\ 2 * b - d <= 2 * (d * q)
  <2>1. /\ Within(x, d * n) \in 0 .. d * n /\ Within(p0, n) \in 0 .. n
        /\ 2 * (d * Within(p0, n)) <= 2 * Within(x, d * n) + d
        /\ 2 * Within(x, d * n) - d <= 2 * (d * Within(p0, n))
    BY <1>2, ClampKeepsRounding
  <2>2. /\ Within(y, d * n) \in 0 .. d * n /\ Within(q0, n) \in 0 .. n
        /\ 2 * (d * Within(q0, n)) <= 2 * Within(y, d * n) + d
        /\ 2 * Within(y, d * n) - d <= 2 * (d * Within(q0, n))
    BY <1>2, ClampKeepsRounding
  <2>3. PICK a \in Nat, b \in Nat : a = Within(x, d * n) /\ b = Within(y, d * n)
    BY <2>1, <2>2
  <2>4. PICK p \in 0 .. n, q \in 0 .. n : p = Within(p0, n) /\ q = Within(q0, n)
    BY <2>1, <2>2
  <2> QED BY <2>1, <2>2, <2>3, <2>4
<1>4. PICK r \in Roundings(a, d), k \in Roundings(b - a, d) : npu = <<r, Most(1, k)>>
  <2>1. 2 * InputSize * n = d * n
    BY <1>1
  <2> QED BY <1>1, <1>3, <2>1 DEF NpuSpans
<1>5. /\ r \in Int /\ 2 * (d * r) <= 2 * a + d /\ 2 * a - d <= 2 * (d * r)
      /\ k \in Int /\ 2 * (d * k) <= 2 * (b - a) + d /\ 2 * (b - a) - d <= 2 * (d * k)
  <2>1. b - a \in Int
    OBVIOUS
  <2> QED BY <2>1, <1>4, RoundingsNear
<1>6. p - r <= 1 /\ r - p <= 1
  <2>1. d * (p - r) = d * p - d * r /\ d * (r - p) = d * r - d * p /\ d * 1 = d
    BY <1>5
  <2>2. d * (p - r) < d * 1 + d /\ d * (r - p) < d * 1 + d
    BY <1>3, <1>5, <2>1
  <2> QED BY <1>5, <2>2, QuotientLess
<1>7. q - p - k <= 1 /\ k - (q - p) <= 1
  <2>1. /\ d * (q - p - k) = d * q - d * p - d * k /\ d * 1 = d
        /\ d * (k - (q - p)) = d * k - (d * q - d * p)
    BY <1>5
  <2>2. d * (q - p - k) < d * 1 + d /\ d * (k - (q - p)) < d * 1 + d
    BY <1>3, <1>5, <2>1
  <2> QED BY <1>5, <2>2, QuotientLess
<1>8. r <= n /\ r + k <= n + 1
  <2>1. a <= d * n
    BY <1>2, <1>3, ClampKeepsRounding
  <2>2. /\ d * (r + k) = d * r + d * k /\ d * (n + 1) = d * n + d
    BY <1>5
  <2>3. d * r < d * n + d /\ d * (r + k) < d * (n + 1) + d
    BY <1>3, <1>5, <2>1, <2>2
  <2> QED BY <1>5, <2>3, QuotientLess
<1>9. PICK s \in Nat \ {0}, t \in Nat \ {0} :
        /\ s = Most(1, q - p) /\ t = Most(1, k) /\ s - t \in -1 .. 1
        /\ p + s <= n + (IF p = n THEN 1 ELSE 0) /\ r + t <= n + 1
  <2>1. /\ Most(1, q - p) = IF q - p < 1 THEN 1 ELSE q - p
        /\ Most(1, k) = IF k < 1 THEN 1 ELSE k
    BY <1>3, <1>5 DEF Most
  <2>2. PICK s \in Nat \ {0}, t \in Nat \ {0} : s = Most(1, q - p) /\ t = Most(1, k)
    BY <1>3, <1>5, <2>1
  <2>3. s - t \in -1 .. 1 /\ r + t <= n + 1
    <3>1. PICK j \in Int : j = q - p
      BY <1>3
    <3>2. /\ r \in Int /\ k \in Int /\ j - k <= 1 /\ k - j <= 1
          /\ s = (IF j < 1 THEN 1 ELSE j) /\ t = (IF k < 1 THEN 1 ELSE k)
      BY <1>5, <1>7, <2>1, <2>2, <3>1
    <3> QED BY <1>8, <3>2
  <2>4. p + s <= n + (IF p = n THEN 1 ELSE 0)
    BY <1>3, <2>1, <2>2
  <2> QED BY <2>2, <2>3, <2>4
<1>10. cpu = <<p, s>> /\ npu = <<r, t>>
  BY <1>2, <1>3, <1>4, <1>9, Zenon
<1> QED
  BY <1>5, <1>6, <1>9, <1>10

(* Whichever way halves round in either path, the boxes they make of a     *)
(* candidate begin at most a pixel apart, differ by at most one in their   *)
(* extents, which are never zero, and end at most a pixel beyond the frame.*)
THEOREM PathsMeet ==
  CallSpec => []PathsAgree
<1>1. NmsInv => PathsAgree
  <2> SUFFICES ASSUME NmsInv, NEW i \in DOMAIN queue, backend # "stub"
               PROVE  LET m == Longer(dims[1], dims[2])
                      IN  /\ Close(queue[i].cx, queue[i].w, dims[1], m)
                          /\ Close(queue[i].cy, queue[i].h, dims[2], m)
    BY DEF PathsAgree, OnEveryAxis
  <2>1. /\ queue[i].cx \in Int /\ queue[i].w \in Int
        /\ queue[i].cy \in Int /\ queue[i].h \in Int /\ dims \in FrameSizes
    BY DEF NmsInv, Placed
  <2>2. dims[1] \in Nat \ {0} /\ dims[2] \in Nat \ {0}
    BY <2>1, DetectionsAssumption
  <2>3. Longer(dims[1], dims[2]) \in Nat \ {0}
    BY <2>2 DEF Longer
  <2> QED BY <2>1, <2>2, <2>3, SpansClose
<1> QED
  BY <1>1, SuppressionInvariant, PTL

-----------------------------------------------------------------------------
(* Pictures: an axis of the square.                                        *)

(* Between rounded values: what the quotient and its rounding differ by.   *)
LEMMA RoundedWithin ==
  ASSUME NEW x \in Nat, NEW d \in Nat \ {0}
  PROVE  /\ Round(x, d) \in Nat
         /\ 2 * (d * Round(x, d)) <= 2 * x + d
         /\ 2 * x - d < 2 * (d * Round(x, d))
<1>1. PICK r \in Nat : r = Round(x, d)
  BY Rounded, SMTT(30)
<1>2. (2 * d) * r <= 2 * x + d /\ 2 * x + d < (2 * d) * r + 2 * d
  BY <1>1, Rounded
<1>3. (2 * d) * r = 2 * (d * r)
  OBVIOUS
<1> QED BY <1>1, <1>2, <1>3

(* What is seen of an axis and the padding before it fit in the square.    *)
LEMMA AxisFits ==
  ASSUME NEW m \in Nat \ {0}, NEW n \in 1 .. m
  PROVE  /\ PadBefore(n, m) \in Nat /\ Visible(n, m) \in Nat
         /\ PadBefore(n, m) + Visible(n, m) <= InputSize
<1>1. PICK s \in Nat \ {0} : s = InputSize
  BY InputSizeAssumption
<1>2. PICK k \in Nat : n + k = m
  <2>1. m - n \in Nat /\ n + (m - n) = m
    OBVIOUS
  <2> QED BY <2>1
<1>3. PICK a \in Nat, b \in Nat : a = s * n /\ b = s * k
  <2>1. s * n \in Nat /\ s * k \in Nat
    OBVIOUS
  <2> QED BY <2>1
<1>4. a + b = s * m /\ InputSize * (m - n) = b /\ InputSize * n = a
  <2>1. s * m = s * n + s * k /\ m - n = k
    BY <1>2
  <2> QED BY <1>1, <1>3, <2>1
<1>5. PICK p \in Nat, v \in Nat : p = PadBefore(n, m) /\ v = Visible(n, m)
  <2>1. 2 * m \in Nat \ {0}
    OBVIOUS
  <2>2. PadBefore(n, m) \in Nat /\ Visible(n, m) \in Nat
    BY <1>3, <1>4, <2>1, RoundedWithin DEF PadBefore, Visible
  <2> QED BY <2>2
<1>6. /\ 2 * ((2 * m) * p) <= 2 * b + 2 * m
      /\ 2 * (m * v) <= 2 * a + m /\ 2 * a - m < 2 * (m * v)
  <2>1. 2 * m \in Nat \ {0}
    OBVIOUS
  <2> QED BY <1>3, <1>4, <1>5, <2>1, RoundedWithin DEF PadBefore, Visible
<1>7. v <= s
  <2>1. m * v < m * s + m
    BY <1>4, <1>6
  <2> QED BY <2>1, QuotientLess
<1>8. 4 * p <= 2 * (s - v) + 3
  <2>1. /\ (2 * m) * p = 2 * (m * p) /\ m * (s - v) = s * m - m * v
        /\ m * (4 * p) = 4 * (m * p) /\ m * (2 * (s - v) + 3) = 2 * (m * (s - v)) + 3 * m
    OBVIOUS
  <2>2. 2 * b <= 2 * (m * (s - v)) + m
    <3>1. PICK e \in Int, g \in Int, h \in Int : e = m * v /\ g = s * m /\ h = m * (s - v)
      <4>1. m * v \in Int /\ s * m \in Int /\ m * (s - v) \in Int
        OBVIOUS
      <4> QED BY <4>1
    <3>2. h = g - e /\ a + b = g /\ 2 * e <= 2 * a + m
      BY <1>4, <1>6, <2>1, <3>1
    <3>3. 2 * b <= 2 * h + m
      BY <3>2
    <3> QED BY <3>1, <3>3
  <2>3. m * (4 * p) < m * (2 * (s - v) + 3) + m
    BY <1>6, <2>1, <2>2
  <2> QED BY <2>3, QuotientLess
<1> QED BY <1>1, <1>5, <1>7, <1>8

(* The pixel taken for a place in the square is one of the axis, and the   *)
(* nearest to where the place came from.                                   *)
LEMMA AxisReturns ==
  ASSUME NEW m \in Nat \ {0}, NEW n \in 1 .. m, NEW t \in 0 .. InputSize - 1,
         Under(t, n, m) # Pad
  PROVE  /\ Under(t, n, m) \in 0 .. n - 1
         /\ NearUnprojected(t, Under(t, n, m), n, m)
<1>1. PICK s \in Nat \ {0} : s = InputSize
  BY InputSizeAssumption
<1>2. PICK k \in Nat : n + k = m
  <2>1. m - n \in Nat /\ n + (m - n) = m
    OBVIOUS
  <2> QED BY <2>1
<1>3. PICK a \in Nat, b \in Nat : a = s * n /\ b = s * k
  <2>1. s * n \in Nat /\ s * k \in Nat
    OBVIOUS
  <2> QED BY <2>1
<1>4. a + b = s * m /\ InputSize * (m - n) = b /\ InputSize * n = a
  <2>1. s * m = s * n + s * k /\ m - n = k
    BY <1>2
  <2> QED BY <1>1, <1>3, <2>1
<1>5. PICK p \in Nat, v \in Nat : p = PadBefore(n, m) /\ v = Visible(n, m)
  BY AxisFits
<1>6. /\ 2 * ((2 * m) * p) <= 2 * b + 2 * m /\ 2 * b - 2 * m < 2 * ((2 * m) * p)
      /\ 2 * (m * v) <= 2 * a + m
  BY <1>4, <1>5, RoundedWithin DEF PadBefore, Visible
<1>7. PICK x \in Nat : x = t - p /\ x <= v - 1 /\ Under(t, n, m) = SourceOf(x, n, m)
  BY <1>1, <1>5 DEF Under
<1>8. PICK c \in Nat : c = m * x
  <2>1. m * x \in Nat
    OBVIOUS
  <2> QED BY <2>1
<1>9. PICK r \in Nat :
         /\ Under(t, n, m) = IF r < n THEN r ELSE n - 1
         /\ 2 * (s * r) <= 2 * c + s /\ 2 * c - s < 2 * (s * r)
  <2>1. CASE m = s
    <3>1. s * x = c
      BY <1>8, <2>1
    <3> QED BY <1>1, <1>7, <2>1, <3>1 DEF SourceOf
  <2>2. CASE m # s
    <3>1. x * m = c
      BY <1>8
    <3>2. Round(c, s) \in Nat /\ 2 * (s * Round(c, s)) <= 2 * c + s
                              /\ 2 * c - s < 2 * (s * Round(c, s))
      BY RoundedWithin
    <3> QED BY <1>1, <1>7, <2>2, <3>1, <3>2 DEF SourceOf
  <2> QED BY <2>1, <2>2
<1>10. 2 * c + m <= 2 * a
  <2>1. m * (v - 1 - x) >= 0 /\ m * (v - 1 - x) = m * v - m - c
    BY <1>7, <1>8
  <2> QED BY <1>6, <2>1
<1>11. PICK d \in Int : d = 2 * (m * p) - b /\ -m <= d /\ d <= m
  <2>1. PICK e \in Nat : e = m * p
    <3>1. m * p \in Nat
      OBVIOUS
    <3> QED BY <3>1
  <2>2. (2 * m) * p = 2 * e
    BY <2>1
  <2>3. -m <= 2 * e - b /\ 2 * e - b <= m /\ 2 * e - b \in Int
    BY <1>6, <2>2
  <2> QED BY <2>1, <2>3
<1>12. 2 * m * t - b = 2 * c + d
  <2>1. t = x + p
    BY <1>7
  <2>2. 2 * m * t = 2 * (m * x) + 2 * (m * p)
    BY <2>1
  <2> QED BY <1>8, <1>11, <2>2
<1>13. PICK e \in Int, g \in Int : e = s * r /\ g = s * (n - 1)
  <2>1. s * r \in Int /\ s * (n - 1) \in Int
    OBVIOUS
  <2> QED BY <2>1
<1>14. g + s = a
  BY <1>3, <1>13
<1>15. CASE r < n
  <2>1. Under(t, n, m) = r
    BY <1>9, <1>15
  <2>2. Unprojected(t, n, m) - 2 * InputSize * r = 2 * c + d - 2 * e
    BY <1>1, <1>4, <1>12, <1>13 DEF Unprojected
  <2> QED BY <1>1, <1>9, <1>11, <1>13, <1>15, <2>1, <2>2 DEF NearUnprojected
<1>16. CASE r >= n
  <2>1. Under(t, n, m) = n - 1
    BY <1>9, <1>16
  <2>2. Unprojected(t, n, m) - 2 * InputSize * (n - 1) = 2 * c + d - 2 * g
    BY <1>1, <1>4, <1>12, <1>13 DEF Unprojected
  <2>3. e >= g + s
    <3>1. s * (r - n) >= 0 /\ s * (r - n) = e - a
      BY <1>3, <1>13, <1>16
    <3> QED BY <1>14, <3>1
  <2> QED BY <1>1, <1>9, <1>10, <1>11, <1>13, <1>14, <1>16, <2>1, <2>2, <2>3 DEF NearUnprojected
<1> QED BY <1>15, <1>16

-----------------------------------------------------------------------------
(* Pixels in blocks.                                                       *)

LEMMA Divided ==
  ASSUME NEW b \in Nat \ {0}, NEW q \in Nat, NEW r \in 0 .. b - 1
  PROVE  /\ b * q + r \in Nat
         /\ (b * q + r) \div b = q /\ (b * q + r) % b = r
<1>1. PICK e \in Nat : e = b * q
  <2>1. b * q \in Nat
    OBVIOUS
  <2> QED BY <2>1
<1>2. PICK k \in Nat, l \in Nat : k = (e + r) \div b /\ l = (e + r) % b /\ e + r = b * k + l /\ l < b
  <2>1. e + r \in Nat
    OBVIOUS
  <2> QED BY <2>1
<1>3. b * q < b * k + b /\ b * k < b * q + b
  BY <1>1, <1>2
<1>4. k <= q /\ q <= k
  BY <1>3, QuotientLess
<1>5. k = q
  BY <1>4
<1>6. l = r
  BY <1>1, <1>2, <1>5
<1> QED BY <1>1, <1>2, <1>5, <1>6

(* A place in a grid, and the number it has row by row.                    *)
LEMMA InGrid ==
  ASSUME NEW w \in Nat \ {0}, NEW h \in Nat \ {0}, NEW x \in 0 .. w - 1, NEW y \in 0 .. h - 1
  PROVE  /\ y * w + x \in 0 .. w * h - 1
         /\ (y * w + x) \div w = y /\ (y * w + x) % w = x
<1>1. y * w = w * y
  OBVIOUS
<1>2. w * (h - 1 - y) >= 0 /\ w * (h - 1 - y) = w * h - w - w * y
  OBVIOUS
<1>3. PICK a \in Nat, b \in Nat : a = w * y /\ b = w * h
  <2>1. w * y \in Nat /\ w * h \in Nat
    OBVIOUS
  <2> QED BY <2>1
<1>4. b - w - a >= 0
  BY <1>2, <1>3
<1>5. a + x \in 0 .. b - 1
  BY <1>4
<1> QED BY <1>1, <1>3, <1>5, Divided

LEMMA GridPlace ==
  ASSUME NEW w \in Nat \ {0}, NEW h \in Nat \ {0}, NEW p \in 0 .. w * h - 1
  PROVE  /\ p % w \in 0 .. w - 1 /\ p \div w \in 0 .. h - 1
         /\ p = (p \div w) * w + (p % w)
<1>1. PICK k \in Nat, l \in Nat : k = p \div w /\ l = p % w /\ p = w * k + l /\ l < w
  <2>1. w * h \in Nat
    OBVIOUS
  <2>2. p \in Nat
    BY <2>1
  <2> QED BY <2>2
<1>2. k <= h - 1
  <2>1. w * k < w * h /\ w * h = w * (h - 1) + w
    BY <1>1
  <2>2. w * k < w * (h - 1) + w
    BY <2>1
  <2> QED BY <2>2, QuotientLess
<1>3. k * w = w * k
  OBVIOUS
<1> QED BY <1>1, <1>2, <1>3

Corner(c, X, Y) == 4 * (c * Y) + 2 * X

LEMMA BlockHasPixels ==
  ASSUME NEW c \in Nat \ {0}, NEW X \in 0 .. c - 1, NEW Y \in Nat, NEW w, w = 2 * c
  PROVE  BlockPixels(w, Y * c + X)
           = {Corner(c, X, Y), Corner(c, X, Y) + 1,
              Corner(c, X, Y) + w, Corner(c, X, Y) + w + 1}
<1>1. w \div 2 = c /\ Y * c = c * Y
  OBVIOUS
<1>2. (Y * c + X) \div c = Y /\ (Y * c + X) % c = X
  BY <1>1, Divided
<1>3. Y * 2 * w + 2 * X = Corner(c, X, Y)
  BY <1>1 DEF Corner
<1> QED BY <1>1, <1>2, <1>3 DEF BlockPixels

InBlock(c, X, Y, w, e, i) == BlockOf(w, Corner(c, X, Y) + e * w + i) = Y * c + X

LEMMA PixelHasBlock ==
  ASSUME NEW c \in Nat \ {0}, NEW X \in 0 .. c - 1, NEW Y \in Nat,
         NEW i \in 0 .. 1, NEW e \in 0 .. 1,
         NEW w, w = 2 * c
  PROVE  InBlock(c, X, Y, w, e, i)
<1>1. w \div 2 = c
  OBVIOUS
<1>2. PICK a \in Nat : a = c * Y
  <2>1. c * Y \in Nat
    OBVIOUS
  <2> QED BY <2>1
<1>3. PICK p \in Nat : p = Corner(c, X, Y) + e * w + i
  <2>1. 4 * a + 2 * X + e * w + i \in Nat
    OBVIOUS
  <2> QED BY <1>2, <2>1 DEF Corner
<1>4. p \div (2 * w) = Y
  <2>1. PICK b \in Nat \ {0}, r \in Nat : r < b /\ b = 2 * w /\ r = e * w + 2 * X + i
    <3>1. 2 * w \in Nat \ {0} /\ e * w + 2 * X + i \in Nat /\ e * w + 2 * X + i < 2 * w
      BY <1>2
    <3> QED BY <3>1
  <2>2. b * Y = 4 * a
    BY <1>2, <2>1
  <2>3. p = b * Y + r
    BY <1>2, <1>3, <2>1, <2>2 DEF Corner
  <2> QED BY <2>1, <2>3, Divided
<1>5. p % w = 2 * X + i
  <2>1. PICK b \in Nat \ {0}, r \in Nat : r < b /\ b = 2 * c /\ r = 2 * X + i
    <3>1. 2 * c \in Nat \ {0} /\ 2 * X + i \in Nat /\ 2 * X + i < 2 * c
      BY <1>2
    <3> QED BY <3>1
  <2>2. PICK q \in Nat : q = 2 * Y + e /\ b * q = 4 * a + e * b
    <3>1. 2 * Y + e \in Nat /\ b * (2 * Y + e) = 4 * a + e * b
      BY <1>2, <2>1
    <3> QED BY <3>1
  <2>3. p = b * q + r
    BY <1>2, <1>3, <2>1, <2>2 DEF Corner
  <2>4. p % b = r
    <3>1. r \in 0 .. b - 1
      BY <2>1
    <3>2. (b * q + r) % b = r
      BY <3>1, Divided
    <3> QED BY <2>3, <3>2
  <2> QED BY <2>1, <2>4
<1>6. (2 * X + i) \div 2 = X
  OBVIOUS
<1> QED BY <1>1, <1>3, <1>4, <1>5, <1>6 DEF BlockOf, InBlock

-----------------------------------------------------------------------------
(* Pictures as they are laid out.                                          *)

(* A block and a pixel in it, of a picture of 2 c by 2 d.                  *)
Tiled(c, d, w, h, a) ==
  /\ a \in Nat /\ w * h = 4 * a
  /\ (w * h) \div 4 = a /\ (w * h) \div 2 = 2 * a
  /\ \A b \in 0 .. a - 1 : \E X \in 0 .. c - 1, Y \in 0 .. d - 1 : b = Y * c + X
  /\ \A p \in 0 .. 4 * a - 1 :
       \E X \in 0 .. c - 1, Y \in 0 .. d - 1, i \in 0 .. 1, e \in 0 .. 1 :
         p = Corner(c, X, Y) + e * w + i
  /\ \A X \in 0 .. c - 1, Y \in 0 .. d - 1 :
       /\ Y * c + X \in 0 .. a - 1
       /\ \A i, e \in 0 .. 1 : Corner(c, X, Y) + e * w + i \in 0 .. 4 * a - 1

LEMMA BlockInGrid ==
  ASSUME NEW c \in Nat \ {0}, NEW d \in Nat \ {0}, NEW w, NEW h, w = 2 * c, h = 2 * d,
         NEW a, a = c * d
  PROVE  Tiled(c, d, w, h, a)
<1>1. a \in Nat /\ w * h = 4 * a
  OBVIOUS
<1>2. (w * h) \div 4 = a /\ (w * h) \div 2 = 2 * a
  BY <1>1
<1>3. ASSUME NEW b \in 0 .. a - 1
      PROVE  \E X \in 0 .. c - 1, Y \in 0 .. d - 1 : b = Y * c + X
  BY GridPlace, ZenonT(60)
<1>4. ASSUME NEW p \in 0 .. 4 * a - 1
      PROVE  \E X \in 0 .. c - 1, Y \in 0 .. d - 1, i \in 0 .. 1, e \in 0 .. 1 :
               p = Corner(c, X, Y) + e * w + i
  <2>1. w \in Nat \ {0} /\ h \in Nat \ {0} /\ p \in 0 .. w * h - 1
    BY <1>1
  <2>2. PICK x \in Nat, y \in Nat : x < w /\ y < h /\ p = y * w + x
    <3>1. /\ p % w \in 0 .. w - 1 /\ p \div w \in 0 .. h - 1
          /\ p = (p \div w) * w + (p % w)
      BY <2>1, GridPlace
    <3>2. PICK x, y : x = p % w /\ y = p \div w
      OBVIOUS
    <3>3. x \in 0 .. w - 1 /\ y \in 0 .. h - 1 /\ p = y * w + x
      BY <3>1, <3>2
    <3>4. x \in Nat /\ y \in Nat /\ x < w /\ y < h
      BY <3>3
    <3> QED BY <3>3, <3>4
  <2>3. PICK X \in 0 .. c - 1, i \in 0 .. 1 : x = 2 * X + i
    <3>1. x \div 2 \in 0 .. c - 1 /\ x % 2 \in 0 .. 1 /\ x = 2 * (x \div 2) + (x % 2)
      BY <2>1, <2>2
    <3> QED BY <3>1
  <2>4. PICK Y \in 0 .. d - 1, e \in 0 .. 1 : y = 2 * Y + e
    <3>1. y \div 2 \in 0 .. d - 1 /\ y % 2 \in 0 .. 1 /\ y = 2 * (y \div 2) + (y % 2)
      BY <2>1, <2>2
    <3> QED BY <3>1
  <2>5. y * w = 4 * (c * Y) + e * w
    BY <2>1, <2>4
  <2>6. p = Corner(c, X, Y) + e * w + i
    <3>1. PICK z \in Nat : z = y * w
      <4>1. y * w \in Nat
        BY <2>1
      <4> QED BY <4>1
    <3> QED BY <2>2, <2>3, <2>5, <3>1 DEF Corner
  <2> QED BY <2>6
<1>5. ASSUME NEW X \in 0 .. c - 1, NEW Y \in 0 .. d - 1
      PROVE  /\ Y * c + X \in 0 .. a - 1
             /\ \A i, e \in 0 .. 1 : Corner(c, X, Y) + e * w + i \in 0 .. 4 * a - 1
  <2>1. PICK z \in Nat : z = c * Y /\ z <= a - c
    <3>1. c * Y \in Nat /\ c * (d - 1 - Y) >= 0 /\ c * (d - 1 - Y) = c * d - c - c * Y
      OBVIOUS
    <3>2. c * Y <= a - c
      BY <1>1, <3>1
    <3> QED BY <3>1, <3>2
  <2>2. Y * c = z
    BY <2>1
  <2> QED BY <1>1, <2>1, <2>2 DEF Corner
<1> QED BY <1>1, <1>2, <1>3, <1>4, <1>5 DEF Tiled

PixelFormats == {"yuyv", "mjpeg", "nv12", "rgb24"}

Picture(fmt, w, h, scene, lum, chr) ==
  [fmt |-> fmt, w |-> w, h |-> h, scene |-> scene, lum |-> lum, chr |-> chr]
Shaped(f) == f = Picture(f.fmt, f.w, f.h, f.scene, f.lum, f.chr)

(* Every sample at its own pixel; colour from the pixel's block.           *)
Coloured(marks, w, p) == marks # {} /\ marks \subseteq BlockPixels(w, BlockOf(w, p)) \cup {p}
Straight(f) ==
  /\ DOMAIN f.lum = Pixels(f.w, f.h)
  /\ \A p \in Pixels(f.w, f.h) : f.lum[p] = p
  /\ f.fmt \in PixelFormats
  /\ f.fmt = "yuyv" => \A q \in 0 .. (f.w * f.h) \div 2 - 1 : f.chr[q] = {2 * q, 2 * q + 1}
  /\ f.fmt = "nv12" => \A b \in 0 .. (f.w * f.h) \div 4 - 1 :
                         f.chr[b] # {} /\ f.chr[b] \subseteq BlockPixels(f.w, b)
  /\ f.fmt \in {"rgb24", "mjpeg"} => \A p \in Pixels(f.w, f.h) : Coloured(f.chr[p], f.w, p)

LEMMA Halves ==
  ASSUME NEW w \in Nat \ {0}, IsEven(w)
  PROVE  \E c \in Nat \ {0} : w = 2 * c
<1>1. w \div 2 \in Nat \ {0} /\ w = 2 * (w \div 2)
  BY DEF IsEven
<1> QED BY <1>1

\* A picture is laid out as it is made.
LEMMA SceneIsStraight ==
  ASSUME NEW fmt \in PixelFormats, NEW w \in Nat \ {0}, NEW h \in Nat \ {0},
         fmt \in {"yuyv", "nv12"} => IsEven(w) /\ IsEven(h)
  PROVE  /\ Shaped(Scene(fmt, w, h)) /\ Straight(Scene(fmt, w, h))
         /\ Scene(fmt, w, h).w = w /\ Scene(fmt, w, h).h = h
         /\ Scene(fmt, w, h).fmt = fmt /\ Scene(fmt, w, h).scene = <<w, h>>
<1> DEFINE f == Scene(fmt, w, h)
<1>1. /\ f.fmt = fmt /\ f.w = w /\ f.h = h /\ f.scene = <<w, h>>
      /\ f.lum = [p \in Pixels(w, h) |-> p]
      /\ fmt = "yuyv" => f.chr = [q \in 0 .. (w * h) \div 2 - 1 |-> {2 * q, 2 * q + 1}]
      /\ fmt = "nv12" => f.chr = [b \in 0 .. (w * h) \div 4 - 1 |-> BlockPixels(w, b)]
      /\ fmt \in {"rgb24", "mjpeg"} => f.chr = [p \in Pixels(w, h) |-> {p}]
  BY DEF Scene, PixelFormats
<1>2. Shaped(f)
  BY DEF Shaped, Picture, Scene
<1>3. \A b : BlockPixels(w, b) # {}
  BY DEF BlockPixels
<1>4. \A p \in Pixels(w, h) : Coloured({p}, w, p)
  BY DEF Coloured
<1>5. DOMAIN f.lum = Pixels(f.w, f.h) /\ \A p \in Pixels(f.w, f.h) : f.lum[p] = p
  BY <1>1
<1>6. fmt = "yuyv" => \A q \in 0 .. (f.w * f.h) \div 2 - 1 : f.chr[q] = {2 * q, 2 * q + 1}
  BY <1>1
<1>7. fmt = "nv12" => \A b \in 0 .. (f.w * f.h) \div 4 - 1 :
                        f.chr[b] # {} /\ f.chr[b] \subseteq BlockPixels(f.w, b)
  BY <1>1, <1>3, SMTT(30)
<1>8. fmt \in {"rgb24", "mjpeg"} => \A p \in Pixels(f.w, f.h) : Coloured(f.chr[p], f.w, p)
  BY <1>1, <1>4
<1>9. Straight(f)
  BY <1>1, <1>5, <1>6, <1>7, <1>8 DEF Straight
<1> QED BY <1>1, <1>2, <1>9

-----------------------------------------------------------------------------
(* What the conversions do to the chroma, for even sides.                  *)
TileAt(b, q, w, a) ==
  /\ b \in 0 .. a - 1 /\ q \in Nat /\ q < 2 * a
  /\ BlockPixels(w, b) = {2 * q, 2 * q + 1, 2 * q + w, 2 * q + w + 1}
  /\ \A e, i \in 0 .. 1 : /\ 2 * q + e * w + i \in 0 .. 4 * a - 1
                          /\ BlockOf(w, 2 * q + e * w + i) = b

Tile(c, X, Y, w, a) ==
  \E b, q : /\ TileAt(b, q, w, a)
            /\ b = Y * c + X /\ b \div c = Y /\ b % c = X
            /\ q = Y * w + X /\ Corner(c, X, Y) = 2 * q

LEMMA OneBlock ==
  ASSUME NEW c \in Nat \ {0}, NEW d \in Nat \ {0}, NEW w \in Nat, NEW h \in Nat,
         w = 2 * c, h = 2 * d,
         NEW a, a = c * d, NEW X \in 0 .. c - 1, NEW Y \in 0 .. d - 1
  PROVE  Tile(c, X, Y, w, a)
<1>1. Tiled(c, d, w, h, a) /\ Y \in Nat
  BY BlockInGrid
<1>2. PICK b \in 0 .. a - 1 : b = Y * c + X
  BY <1>1 DEF Tiled
<1>3. b \div c = Y /\ b % c = X
  BY <1>2, InGrid
<1>4. PICK q \in Nat : q = Y * w + X
  <2>1. Y * w + X \in Nat
    OBVIOUS
  <2> QED BY <2>1
<1>5. Corner(c, X, Y) = 2 * q
  BY <1>4 DEF Corner
<1>6. \A e, i \in 0 .. 1 : Corner(c, X, Y) + e * w + i \in 0 .. 4 * a - 1
  BY <1>1 DEF Tiled
<1>7. \A e, i \in 0 .. 1 : BlockOf(w, Corner(c, X, Y) + e * w + i) = Y * c + X
  <2> SUFFICES ASSUME NEW e \in 0 .. 1, NEW i \in 0 .. 1
               PROVE  BlockOf(w, Corner(c, X, Y) + e * w + i) = Y * c + X
    OBVIOUS
  <2>1. InBlock(c, X, Y, w, e, i)
    BY <1>1, PixelHasBlock
  <2> QED BY <2>1 DEF InBlock
<1>8. BlockPixels(w, b) = {2 * q, 2 * q + 1, 2 * q + w, 2 * q + w + 1}
  BY <1>2, <1>5, BlockHasPixels
<1>9. q < 2 * a
  <2>1. 2 * q + 0 * w + 0 \in 0 .. 4 * a - 1
    BY <1>5, <1>6
  <2> QED BY <2>1
<1>10. \A e, i \in 0 .. 1 : /\ 2 * q + e * w + i \in 0 .. 4 * a - 1
                            /\ BlockOf(w, 2 * q + e * w + i) = b
  BY <1>2, <1>5, <1>6, <1>7
<1>11. TileAt(b, q, w, a)
  BY <1>8, <1>9, <1>10, Zenon DEF TileAt
<1> QED BY <1>2, <1>3, <1>4, <1>5, <1>11, Zenon DEF Tile

LEMMA Blocks ==
  ASSUME NEW w \in Nat \ {0}, NEW h \in Nat \ {0}, IsEven(w), IsEven(h)
  PROVE  /\ \A b \in 0 .. (w * h) \div 4 - 1 :
              LET q == (b \div (w \div 2)) * w + (b % (w \div 2))
              IN  q \in 0 .. (w * h) \div 2 - 1 /\ {2 * q, 2 * q + 1} \subseteq BlockPixels(w, b)
         /\ \A b \in 0 .. (w * h) \div 4 - 1 : \A p \in BlockPixels(w, b) :
              p \in Pixels(w, h) /\ BlockOf(w, p) = b
         /\ \A p \in Pixels(w, h) :
              /\ BlockOf(w, p) \in 0 .. (w * h) \div 4 - 1
              /\ p \div 2 \in 0 .. (w * h) \div 2 - 1
              /\ {2 * (p \div 2), 2 * (p \div 2) + 1} \subseteq BlockPixels(w, BlockOf(w, p))
<1>1. PICK c \in Nat \ {0}, d \in Nat \ {0} : w = 2 * c /\ h = 2 * d
  BY Halves
<1>2. PICK a : a = c * d
  OBVIOUS
<1>3. Tiled(c, d, w, h, a)
  BY <1>1, <1>2, BlockInGrid, Zenon
<1>4. w \div 2 = c
  BY <1>1
<1>5. ASSUME NEW X \in 0 .. c - 1, NEW Y \in 0 .. d - 1
      PROVE  Tile(c, X, Y, w, a)
  BY <1>1, <1>2, OneBlock
<1>6. ASSUME NEW b \in 0 .. a - 1
      PROVE  /\ (b \div c) * w + (b % c) \in 0 .. 2 * a - 1
             /\ {2 * ((b \div c) * w + (b % c)), 2 * ((b \div c) * w + (b % c)) + 1}
                  \subseteq BlockPixels(w, b)
             /\ \A p \in BlockPixels(w, b) : p \in 0 .. 4 * a - 1 /\ BlockOf(w, p) = b
  <2>1. PICK X \in 0 .. c - 1, Y \in 0 .. d - 1 : b = Y * c + X
    BY <1>3 DEF Tiled
  <2>2. PICK q : TileAt(b, q, w, a) /\ b \div c = Y /\ b % c = X /\ q = Y * w + X
    BY <1>5, <2>1, Zenon DEF Tile
  <2>3. (b \div c) * w + (b % c) = q /\ q \in Nat /\ q < 2 * a
    BY <2>2 DEF TileAt
  <2>4. \A p \in BlockPixels(w, b) : p \in 0 .. 4 * a - 1 /\ BlockOf(w, p) = b
    <3>1. /\ 2 * q = 2 * q + 0 * w + 0 /\ 2 * q + 1 = 2 * q + 0 * w + 1
          /\ 2 * q + w = 2 * q + 1 * w + 0 /\ 2 * q + w + 1 = 2 * q + 1 * w + 1
      BY <2>3
    <3>2. 0 \in 0 .. 1 /\ 1 \in 0 .. 1
      OBVIOUS
    <3>3. /\ 2 * q \in 0 .. 4 * a - 1 /\ BlockOf(w, 2 * q) = b
          /\ 2 * q + 1 \in 0 .. 4 * a - 1 /\ BlockOf(w, 2 * q + 1) = b
          /\ 2 * q + w \in 0 .. 4 * a - 1 /\ BlockOf(w, 2 * q + w) = b
          /\ 2 * q + w + 1 \in 0 .. 4 * a - 1 /\ BlockOf(w, 2 * q + w + 1) = b
      <4>1. \A e, i \in 0 .. 1 : /\ 2 * q + e * w + i \in 0 .. 4 * a - 1
                                 /\ BlockOf(w, 2 * q + e * w + i) = b
        BY <2>2 DEF TileAt
      <4>2. /\ 2 * q + 0 * w + 0 \in 0 .. 4 * a - 1 /\ BlockOf(w, 2 * q + 0 * w + 0) = b
            /\ 2 * q + 0 * w + 1 \in 0 .. 4 * a - 1 /\ BlockOf(w, 2 * q + 0 * w + 1) = b
        BY <3>2, <4>1
      <4>3. /\ 2 * q + 1 * w + 0 \in 0 .. 4 * a - 1 /\ BlockOf(w, 2 * q + 1 * w + 0) = b
            /\ 2 * q + 1 * w + 1 \in 0 .. 4 * a - 1 /\ BlockOf(w, 2 * q + 1 * w + 1) = b
        BY <3>2, <4>1
      <4> QED BY <3>1, <4>2, <4>3
    <3> QED BY <2>2, <3>3, Zenon DEF TileAt
  <2>5. {2 * q, 2 * q + 1} \subseteq BlockPixels(w, b)
    BY <2>2 DEF TileAt
  <2>6. q \in 0 .. 2 * a - 1
    BY <1>3, <2>3 DEF Tiled
  <2> QED BY <2>3, <2>4, <2>5, <2>6
<1>7. ASSUME NEW p \in 0 .. 4 * a - 1
      PROVE  /\ BlockOf(w, p) \in 0 .. a - 1
             /\ p \div 2 \in 0 .. 2 * a - 1
             /\ {2 * (p \div 2), 2 * (p \div 2) + 1} \subseteq BlockPixels(w, BlockOf(w, p))
  <2>1. p \div 2 \in 0 .. 2 * a - 1
    BY <1>3 DEF Tiled
  <2>2. PICK X \in 0 .. c - 1, Y \in 0 .. d - 1, i \in 0 .. 1, e \in 0 .. 1 :
               p = Corner(c, X, Y) + e * w + i
    BY <1>3 DEF Tiled
  <2>3. PICK b, q : TileAt(b, q, w, a) /\ Corner(c, X, Y) = 2 * q
    BY <1>5 DEF Tile
  <2>4. /\ p = 2 * q + e * w + i /\ BlockOf(w, p) = b /\ b \in 0 .. a - 1
        /\ BlockPixels(w, b) = {2 * q, 2 * q + 1, 2 * q + w, 2 * q + w + 1} /\ q \in Nat
    BY <2>2, <2>3 DEF TileAt
  <2>5. 2 * (p \div 2) = IF e = 0 THEN 2 * q ELSE 2 * q + w
    <3>1. e = 0 \/ e = 1
      OBVIOUS
    <3>2. i = 0 \/ i = 1
      OBVIOUS
    <3> QED BY <1>1, <2>4, <3>1, <3>2
  <2> QED BY <2>1, <2>4, <2>5
<1> QED BY <1>3, <1>4, <1>6, <1>7 DEF Pixels, Tiled

WithFmt(f, x) == [f EXCEPT !.fmt = x]
WithW(f, x) == [f EXCEPT !.w = x]
WithH(f, x) == [f EXCEPT !.h = x]
WithLum(f, x) == [f EXCEPT !.lum = x]
WithChr(f, x) == [f EXCEPT !.chr = x]

LEMMA OneChange ==
  ASSUME NEW fmt, NEW w, NEW h, NEW scene, NEW lum, NEW chr, NEW x
  PROVE  /\ WithFmt(Picture(fmt, w, h, scene, lum, chr), x) = Picture(x, w, h, scene, lum, chr)
         /\ WithW(Picture(fmt, w, h, scene, lum, chr), x) = Picture(fmt, x, h, scene, lum, chr)
         /\ WithH(Picture(fmt, w, h, scene, lum, chr), x) = Picture(fmt, w, x, scene, lum, chr)
         /\ WithLum(Picture(fmt, w, h, scene, lum, chr), x) = Picture(fmt, w, h, scene, x, chr)
         /\ WithChr(Picture(fmt, w, h, scene, lum, chr), x) = Picture(fmt, w, h, scene, lum, x)
<1> DEFINE g == Picture(fmt, w, h, scene, lum, chr)
<1>1. WithFmt(g, x) = Picture(x, w, h, scene, lum, chr)
  BY DEF Picture, WithFmt
<1>2. WithW(g, x) = Picture(fmt, x, h, scene, lum, chr)
  BY DEF Picture, WithW
<1>3. WithH(g, x) = Picture(fmt, w, x, scene, lum, chr)
  BY DEF Picture, WithH
<1>4. WithLum(g, x) = Picture(fmt, w, h, scene, x, chr)
  BY DEF Picture, WithLum
<1>5. WithChr(g, x) = Picture(fmt, w, h, scene, lum, x)
  BY DEF Picture, WithChr
<1> QED BY <1>1, <1>2, <1>3, <1>4, <1>5

LEMMA Changed ==
  ASSUME NEW f, Shaped(f), NEW fmt, NEW lum, NEW chr, NEW w, NEW h
  PROVE  /\ WithFmt(f, fmt) = Picture(fmt, f.w, f.h, f.scene, f.lum, f.chr)
         /\ WithChr(WithFmt(f, fmt), chr) = Picture(fmt, f.w, f.h, f.scene, f.lum, chr)
         /\ WithChr(WithLum(f, lum), chr) = Picture(f.fmt, f.w, f.h, f.scene, lum, chr)
         /\ WithChr(WithLum(WithFmt(f, fmt), lum), chr)
              = Picture(fmt, f.w, f.h, f.scene, lum, chr)
         /\ WithH(WithW(f, w), h) = Picture(f.fmt, w, h, f.scene, f.lum, f.chr)
<1>1. PICK a, b, c, d, e, g : f = Picture(a, b, c, d, e, g)
  BY DEF Shaped
<1>2. f.fmt = a /\ f.w = b /\ f.h = c /\ f.scene = d /\ f.lum = e /\ f.chr = g
  BY <1>1 DEF Picture
<1>3. WithFmt(f, fmt) = Picture(fmt, b, c, d, e, g)
  BY <1>1, OneChange
<1>4. WithChr(WithFmt(f, fmt), chr) = Picture(fmt, b, c, d, e, chr)
  BY <1>3, OneChange
<1>5. WithLum(f, lum) = Picture(a, b, c, d, lum, g)
  BY <1>1, OneChange
<1>6. WithChr(WithLum(f, lum), chr) = Picture(a, b, c, d, lum, chr)
  BY <1>5, OneChange
<1>7. WithLum(WithFmt(f, fmt), lum) = Picture(fmt, b, c, d, lum, g)
  BY <1>3, OneChange
<1>8. WithChr(WithLum(WithFmt(f, fmt), lum), chr) = Picture(fmt, b, c, d, lum, chr)
  BY <1>7, OneChange
<1>9. WithH(WithW(f, w), h) = Picture(a, w, h, d, e, g)
  <2>1. WithW(f, w) = Picture(a, w, c, d, e, g)
    BY <1>1, OneChange
  <2> QED BY <2>1, OneChange
<1> QED BY <1>2, <1>3, <1>4, <1>6, <1>8, <1>9, Zenon

LEMMA Fields ==
  ASSUME NEW fmt, NEW w, NEW h, NEW scene, NEW lum, NEW chr,
         NEW g, g = Picture(fmt, w, h, scene, lum, chr)
  PROVE  /\ g.fmt = fmt /\ g.w = w /\ g.h = h /\ g.scene = scene
         /\ g.lum = lum /\ g.chr = chr /\ Shaped(g)
  BY DEF Picture, Shaped

(* The same brightness under another layout of the chroma.                 *)
Relaid(f, g) == Shaped(g) /\ g.w = f.w /\ g.h = f.h /\ g.scene = f.scene /\ g.lum = f.lum

LEMMA RelaidIsStraight ==
  ASSUME NEW f, NEW g, Straight(f), Relaid(f, g),
         g.fmt = "nv12" => \A b \in 0 .. (f.w * f.h) \div 4 - 1 :
                             g.chr[b] # {} /\ g.chr[b] \subseteq BlockPixels(f.w, b),
         g.fmt = "rgb24" => \A p \in Pixels(f.w, f.h) : Coloured(g.chr[p], f.w, p),
         g.fmt \in {"nv12", "rgb24"}
  PROVE  Straight(g)
<1>1. g.w = f.w /\ g.h = f.h /\ g.lum = f.lum /\ g.fmt \notin {"yuyv", "mjpeg"} /\ g.fmt \in PixelFormats
  BY DEF Relaid, PixelFormats
<1> QED BY <1>1 DEF Straight

LEMMA ConversionsKeep ==
  ASSUME NEW f, Shaped(f), Straight(f),
         f.w \in Nat \ {0}, f.h \in Nat \ {0}, IsEven(f.w), IsEven(f.h)
  PROVE  /\ f.fmt = "yuyv" => /\ Relaid(f, YuyvToNv12(f)) /\ YuyvToNv12(f).fmt = "nv12"
                              /\ Straight(YuyvToNv12(f))
                              /\ Relaid(f, YuyvToRgb24(f)) /\ YuyvToRgb24(f).fmt = "rgb24"
                              /\ Straight(YuyvToRgb24(f))
         /\ f.fmt = "nv12" => /\ Relaid(f, Nv12ToRgb24(f)) /\ Nv12ToRgb24(f).fmt = "rgb24"
                              /\ Straight(Nv12ToRgb24(f))
         /\ f.fmt = "rgb24" => /\ Relaid(f, Rgb24ToNv12(f)) /\ Rgb24ToNv12(f).fmt = "nv12"
                               /\ Straight(Rgb24ToNv12(f))
         /\ f.fmt = "mjpeg" => /\ Relaid(f, MjpegToRgb24(f)) /\ MjpegToRgb24(f).fmt = "rgb24"
                               /\ Straight(MjpegToRgb24(f))
<1> DEFINE blocks == 0 .. (f.w * f.h) \div 4 - 1
           pairs == 0 .. (f.w * f.h) \div 2 - 1
           pixels == Pixels(f.w, f.h)
<1>1. /\ \A b \in blocks :
           LET q == (b \div (f.w \div 2)) * f.w + (b % (f.w \div 2))
           IN  q \in pairs /\ {2 * q, 2 * q + 1} \subseteq BlockPixels(f.w, b)
      /\ \A b \in blocks : \A p \in BlockPixels(f.w, b) : p \in pixels /\ BlockOf(f.w, p) = b
      /\ \A p \in pixels :
           /\ BlockOf(f.w, p) \in blocks /\ p \div 2 \in pairs
           /\ {2 * (p \div 2), 2 * (p \div 2) + 1} \subseteq BlockPixels(f.w, BlockOf(f.w, p))
  BY Blocks, ZenonT(60)
<1>2. CASE f.fmt = "yuyv"
  <2>1. \A q \in pairs : f.chr[q] = {2 * q, 2 * q + 1}
    BY <1>2 DEF Straight
  <2> DEFINE nv == [b \in blocks |-> f.chr[(b \div (f.w \div 2)) * f.w + (b % (f.w \div 2))]]
             rgb == [p \in pixels |-> f.chr[p \div 2]]
  <2>2. /\ YuyvToNv12(f) = Picture("nv12", f.w, f.h, f.scene, f.lum, nv)
        /\ YuyvToRgb24(f) = Picture("rgb24", f.w, f.h, f.scene, f.lum, rgb)
    <3>1. /\ YuyvToNv12(f) = WithChr(WithFmt(f, "nv12"), nv)
          /\ YuyvToRgb24(f) = WithChr(WithFmt(f, "rgb24"), rgb)
      BY Zenon DEF YuyvToNv12, YuyvToRgb24, WithFmt, WithChr
    <3> HIDE DEF nv, rgb
    <3> QED BY <3>1, Changed
  <2>3. ASSUME NEW b \in blocks
        PROVE  nv[b] # {} /\ nv[b] \subseteq BlockPixels(f.w, b)
    <3>1. PICK q \in pairs : /\ q = (b \div (f.w \div 2)) * f.w + (b % (f.w \div 2))
                            /\ {2 * q, 2 * q + 1} \subseteq BlockPixels(f.w, b)
      BY <1>1
    <3>2. nv[b] = {2 * q, 2 * q + 1}
      BY <2>1, <3>1
    <3> QED BY <3>1, <3>2
  <2>4. ASSUME NEW p \in pixels
        PROVE  Coloured(rgb[p], f.w, p)
    <3>1. PICK q \in pairs : q = p \div 2 /\ {2 * q, 2 * q + 1} \subseteq BlockPixels(f.w, BlockOf(f.w, p))
      BY <1>1
    <3>2. rgb[p] = {2 * q, 2 * q + 1}
      BY <2>1, <3>1
    <3> QED BY <3>1, <3>2 DEF Coloured
  <2> HIDE DEF nv, rgb
  <2>5. /\ Relaid(f, YuyvToNv12(f)) /\ YuyvToNv12(f).fmt = "nv12" /\ YuyvToNv12(f).chr = nv
        /\ Relaid(f, YuyvToRgb24(f)) /\ YuyvToRgb24(f).fmt = "rgb24" /\ YuyvToRgb24(f).chr = rgb
    BY <2>2, Fields DEF Relaid
  <2>6. Straight(YuyvToNv12(f))
    BY <2>3, <2>5, RelaidIsStraight
  <2>7. Straight(YuyvToRgb24(f))
    BY <2>4, <2>5, RelaidIsStraight
  <2> QED BY <1>2, <2>5, <2>6, <2>7
<1>3. CASE f.fmt = "nv12"
  <2>1. \A b \in blocks : f.chr[b] # {} /\ f.chr[b] \subseteq BlockPixels(f.w, b)
    BY <1>3 DEF Straight
  <2> DEFINE rgb == [p \in pixels |-> f.chr[BlockOf(f.w, p)]]
  <2>2. Nv12ToRgb24(f) = Picture("rgb24", f.w, f.h, f.scene, f.lum, rgb)
    <3>1. Nv12ToRgb24(f) = WithChr(WithFmt(f, "rgb24"), rgb)
      BY Zenon DEF Nv12ToRgb24, WithFmt, WithChr
    <3> HIDE DEF rgb
    <3> QED BY <3>1, Changed
  <2>3. \A p \in pixels : Coloured(rgb[p], f.w, p)
    BY <1>1, <2>1 DEF Coloured
  <2> HIDE DEF rgb
  <2>4. /\ Relaid(f, Nv12ToRgb24(f)) /\ Nv12ToRgb24(f).fmt = "rgb24" /\ Nv12ToRgb24(f).chr = rgb
    BY <2>2, Fields DEF Relaid
  <2>5. Straight(Nv12ToRgb24(f))
    BY <2>3, <2>4, RelaidIsStraight
  <2> QED BY <1>3, <2>4, <2>5
<1>4. CASE f.fmt = "rgb24"
  <2>1. \A p \in pixels : Coloured(f.chr[p], f.w, p)
    BY <1>4 DEF Straight
  <2> DEFINE nv == [b \in blocks |-> UNION {f.chr[p] : p \in BlockPixels(f.w, b)}]
  <2>2. Rgb24ToNv12(f) = Picture("nv12", f.w, f.h, f.scene, f.lum, nv)
    <3>1. Rgb24ToNv12(f) = WithChr(WithFmt(f, "nv12"), nv)
      BY Zenon DEF Rgb24ToNv12, WithFmt, WithChr
    <3> HIDE DEF nv
    <3> QED BY <3>1, Changed
  <2>3. ASSUME NEW b \in blocks
        PROVE  nv[b] # {} /\ nv[b] \subseteq BlockPixels(f.w, b)
    <3>1. \A p \in BlockPixels(f.w, b) : f.chr[p] # {} /\ f.chr[p] \subseteq BlockPixels(f.w, b)
      BY <1>1, <2>1 DEF Coloured
    <3>2. BlockPixels(f.w, b) # {}
      BY DEF BlockPixels
    <3>3. nv[b] = UNION {f.chr[p] : p \in BlockPixels(f.w, b)}
      OBVIOUS
    <3> HIDE DEF nv, blocks, pixels
    <3> QED BY <3>1, <3>2, <3>3
  <2> HIDE DEF nv
  <2>4. /\ Relaid(f, Rgb24ToNv12(f)) /\ Rgb24ToNv12(f).fmt = "nv12" /\ Rgb24ToNv12(f).chr = nv
    BY <2>2, Fields DEF Relaid
  <2>5. Straight(Rgb24ToNv12(f))
    BY <2>3, <2>4, RelaidIsStraight
  <2> QED BY <1>4, <2>4, <2>5
<1>5. CASE f.fmt = "mjpeg"
  <2>1. MjpegToRgb24(f) = Picture("rgb24", f.w, f.h, f.scene, f.lum, f.chr)
    BY Changed DEF MjpegToRgb24, WithFmt
  <2>2. /\ Relaid(f, MjpegToRgb24(f)) /\ MjpegToRgb24(f).fmt = "rgb24"
        /\ MjpegToRgb24(f).chr = f.chr
    BY <2>1, Fields DEF Relaid
  <2>3. \A p \in pixels : Coloured(f.chr[p], f.w, p)
    BY <1>5 DEF Straight
  <2>4. Straight(MjpegToRgb24(f))
    BY <2>2, <2>3, RelaidIsStraight
  <2> QED BY <1>5, <2>2, <2>4
<1> QED BY <1>2, <1>3, <1>4, <1>5

-----------------------------------------------------------------------------
(* The square the model sees.                                              *)
Square == Pixels(InputSize, InputSize)

(* What is at place t of the square is a pixel that maps back to t, in the *)
(* colour of its block, or padding.                                        *)
Seen(pixel, marks, t, w, h) ==
  pixel # Pad =>
    /\ NearUnprojected(t % InputSize, pixel % w, w, Longer(w, h))
    /\ NearUnprojected(t \div InputSize, pixel \div w, h, Longer(w, h))
    /\ Coloured(marks, w, pixel)

From(f, t) ==
  LET x == Under(t % InputSize, f.w, Longer(f.w, f.h))
      y == Under(t \div InputSize, f.h, Longer(f.w, f.h))
  IN  IF Pad \in {x, y} THEN Pad ELSE y * f.w + x

LEMMA PlaceInSquare ==
  ASSUME NEW t \in Square
  PROVE  /\ t % InputSize \in 0 .. InputSize - 1
         /\ t \div InputSize \in 0 .. InputSize - 1
  BY InputSizeAssumption, GridPlace DEF Square, Pixels

LEMMA LongerSide ==
  ASSUME NEW w \in Nat \ {0}, NEW h \in Nat \ {0}
  PROVE  Longer(w, h) \in Nat \ {0} /\ w \in 1 .. Longer(w, h) /\ h \in 1 .. Longer(w, h)
  BY DEF Longer

LEMMA FromIsSeen ==
  ASSUME NEW f, f.w \in Nat \ {0}, f.h \in Nat \ {0}, NEW t \in Square, From(f, t) # Pad
  PROVE  /\ From(f, t) \in Pixels(f.w, f.h)
         /\ NearUnprojected(t % InputSize, From(f, t) % f.w, f.w, Longer(f.w, f.h))
         /\ NearUnprojected(t \div InputSize, From(f, t) \div f.w, f.h, Longer(f.w, f.h))
<1>1. PICK w \in Nat \ {0}, h \in Nat \ {0}, m \in Nat \ {0} :
        w = f.w /\ h = f.h /\ m = Longer(f.w, f.h) /\ w \in 1 .. m /\ h \in 1 .. m
  BY LongerSide
<1>2. PICK a, b : /\ a = t % InputSize /\ a \in 0 .. InputSize - 1
                  /\ b = t \div InputSize /\ b \in 0 .. InputSize - 1
  BY PlaceInSquare
<1>3. PICK x, y : x = Under(a, w, m) /\ y = Under(b, h, m)
  OBVIOUS
<1>4. x # Pad /\ y # Pad /\ From(f, t) = y * w + x
  BY <1>1, <1>2, <1>3 DEF From
<1>5. /\ x \in 0 .. w - 1 /\ NearUnprojected(a, x, w, m)
      /\ y \in 0 .. h - 1 /\ NearUnprojected(b, y, h, m)
  BY <1>1, <1>2, <1>3, <1>4, AxisReturns
<1>6. y * w + x \in Pixels(w, h) /\ (y * w + x) \div w = y /\ (y * w + x) % w = x
  BY <1>5, InGrid DEF Pixels
<1> QED BY <1>1, <1>2, <1>4, <1>5, <1>6

LEMMA LetterboxKeeps ==
  ASSUME NEW f, Shaped(f), f.fmt = "rgb24",
         f.w \in Nat \ {0}, f.h \in Nat \ {0}
  PROVE  /\ Shaped(Letterbox(f)) /\ Letterbox(f).fmt = "rgb24"
         /\ Letterbox(f).w = f.w /\ Letterbox(f).h = f.h /\ Letterbox(f).scene = f.scene
         /\ DOMAIN Letterbox(f).lum = Square
         /\ Straight(f) =>
              \A t \in Square : Seen(Letterbox(f).lum[t], Letterbox(f).chr[t], t, f.w, f.h)
<1> DEFINE lum == [t \in Square |-> IF From(f, t) = Pad THEN Pad ELSE f.lum[From(f, t)]]
           chr == [t \in Square |-> IF From(f, t) = Pad THEN {} ELSE f.chr[From(f, t)]]
<1>1. Letterbox(f) = WithChr(WithLum(f, lum), chr)
  BY Zenon DEF Letterbox, From, Square, WithLum, WithChr
<1>2. ASSUME Straight(f), NEW t \in Square
      PROVE  Seen(lum[t], chr[t], t, f.w, f.h)
  <2>1. CASE From(f, t) = Pad
    <3>1. lum[t] = Pad
      BY <2>1
    <3> QED BY <3>1 DEF Seen
  <2>2. CASE From(f, t) # Pad
    <3>1. /\ From(f, t) \in Pixels(f.w, f.h)
          /\ NearUnprojected(t % InputSize, From(f, t) % f.w, f.w, Longer(f.w, f.h))
          /\ NearUnprojected(t \div InputSize, From(f, t) \div f.w, f.h, Longer(f.w, f.h))
      BY <2>2, FromIsSeen
    <3>2. lum[t] = From(f, t) /\ chr[t] = f.chr[From(f, t)]
      BY <1>2, <2>2, <3>1 DEF Straight
    <3>3. Coloured(f.chr[From(f, t)], f.w, From(f, t))
      BY <1>2, <3>1 DEF Straight
    <3> HIDE DEF lum, chr
    <3> QED BY <3>1, <3>2, <3>3 DEF Seen
  <2> QED BY <2>1, <2>2
<1>3. DOMAIN lum = Square
  OBVIOUS
<1> HIDE DEF lum, chr
<1>4. Letterbox(f) = Picture(f.fmt, f.w, f.h, f.scene, lum, chr)
  BY <1>1, Changed
<1> QED BY <1>2, <1>3, <1>4, Fields

Planes == 0 .. 3 * (InputSize * InputSize) - 1

LEMMA PlanesKeep ==
  ASSUME NEW f, Shaped(f)
  PROVE  /\ Shaped(ToNchw(f)) /\ ToNchw(f).fmt = "nchw"
         /\ ToNchw(f).w = f.w /\ ToNchw(f).h = f.h /\ ToNchw(f).scene = f.scene
         /\ DOMAIN ToNchw(f).lum = Planes
         /\ (\A t \in Square : Seen(f.lum[t], f.chr[t], t, f.w, f.h)) =>
              \A i \in Planes :
                Seen(ToNchw(f).lum[i], ToNchw(f).chr[i], i % (InputSize * InputSize), f.w, f.h)
<1> DEFINE n == InputSize * InputSize
           lum == [i \in 0 .. 3 * n - 1 |-> f.lum[i % n]]
           chr == [i \in 0 .. 3 * n - 1 |-> f.chr[i % n]]
<1>1. ToNchw(f) = WithChr(WithLum(WithFmt(f, "nchw"), lum), chr)
  BY Zenon DEF ToNchw, WithFmt, WithLum, WithChr
<1>2. PICK k \in Nat \ {0} : k = n
  <2>1. InputSize * InputSize \in Nat \ {0}
    BY InputSizeAssumption
  <2> QED BY <2>1
<1>3. Square = 0 .. k - 1 /\ Planes = 0 .. 3 * k - 1
  BY <1>2 DEF Square, Pixels, Planes
<1>4. /\ \A i \in Planes : lum[i] = f.lum[i % k] /\ chr[i] = f.chr[i % k]
      /\ DOMAIN lum = Planes
  BY <1>2, <1>3
<1>5. \A i \in Planes : i % k \in Square
  BY <1>3
<1> HIDE DEF lum, chr, n
<1>6. ToNchw(f) = Picture("nchw", f.w, f.h, f.scene, lum, chr)
  BY <1>1, Changed
<1>7. (\A t \in Square : Seen(f.lum[t], f.chr[t], t, f.w, f.h)) =>
        \A i \in Planes : Seen(lum[i], chr[i], i % k, f.w, f.h)
  BY <1>4, <1>5
<1>8. k = InputSize * InputSize
  BY <1>2 DEF n
<1> QED BY <1>4, <1>6, <1>7, <1>8, Fields

-----------------------------------------------------------------------------
(* The invariant of a picture on its way.                                  *)
Even(f) == IsEven(f.w) /\ IsEven(f.h)
Own(f) == f.scene = <<f.w, f.h>>

InSquare(f) == /\ DOMAIN f.lum = Square
               /\ \A t \in Square : Seen(f.lum[t], f.chr[t], t, f.w, f.h)
InPlanes(f) == /\ DOMAIN f.lum = Planes
               /\ \A i \in Planes :
                    Seen(f.lum[i], f.chr[i], i % (InputSize * InputSize), f.w, f.h)

(* What a stage says of its picture.                                       *)
Fits(s, f) ==
  /\ Shaped(f) /\ f.w \in Nat \ {0} /\ f.h \in Nat \ {0}
  /\ s \in {"captured", "nv12", "library"} => Own(f) /\ Even(f)
  /\ s = "captured" => f.fmt \in {"yuyv", "mjpeg"}
  /\ s = "nv12" => f.fmt = "nv12"
  /\ s = "slot" => f.fmt \in {"nv12", "rgb24"} /\ (f.fmt = "nv12" => Even(f))
  /\ Own(f) => CASE s = "boxed" -> InSquare(f)
                 [] s = "tensor" -> InPlanes(f)
                 [] OTHER -> Straight(f)

PixelInv == Fits(stage, frame)

LEMMA PixelInvInit == PixelInit => PixelInv
<1> SUFFICES ASSUME PixelInit
             PROVE  PixelInv
  OBVIOUS
<1>1. CASE Capture
  <2>1. PICK fmt \in {"yuyv", "mjpeg"}, w \in Sides, h \in Sides :
          IsEven(w) /\ IsEven(h) /\ frame = Scene(fmt, w, h) /\ stage = "captured"
    BY <1>1 DEF Capture
  <2>2. w \in Nat \ {0} /\ h \in Nat \ {0} /\ fmt \in PixelFormats
    BY PipelineAssumption DEF PixelFormats
  <2>3. /\ Shaped(frame) /\ Straight(frame) /\ frame.w = w /\ frame.h = h
        /\ frame.fmt = fmt /\ frame.scene = <<w, h>>
    BY <2>1, <2>2, SceneIsStraight
  <2> QED BY <2>1, <2>2, <2>3 DEF PixelInv, Fits, Own, Even
<1>2. CASE Paint
  <2>1. PICK fmt \in {"nv12", "rgb24"}, w \in Sides, h \in Sides :
          RingTakes(fmt, w, h) /\ frame = Scene(fmt, w, h) /\ stage = "slot"
    BY <1>2 DEF Paint
  <2>2. /\ w \in Nat \ {0} /\ h \in Nat \ {0} /\ fmt \in PixelFormats
        /\ fmt = "nv12" => IsEven(w) /\ IsEven(h)
    BY <2>1, PipelineAssumption DEF PixelFormats, RingTakes
  <2>3. /\ Shaped(frame) /\ Straight(frame) /\ frame.w = w /\ frame.h = h
        /\ frame.fmt = fmt /\ frame.scene = <<w, h>>
    BY <2>1, <2>2, SceneIsStraight
  <2> QED BY <2>1, <2>2, <2>3 DEF PixelInv, Fits, Own, Even
<1> QED BY <1>1, <1>2 DEF PixelInit

(* A picture of even sides after any conversion the library has.           *)
LEMMA ConvertKeeps ==
  ASSUME NEW f, Shaped(f), Straight(f), f.w \in Nat \ {0}, f.h \in Nat \ {0}, Even(f), Own(f),
         NEW fmt, fmt = f.fmt \/ <<f.fmt, fmt>> \in Supported
  PROVE  LET g == ConvertTo(f, fmt)
         IN  /\ Shaped(g) /\ Straight(g) /\ g.w \in Nat \ {0} /\ g.h \in Nat \ {0}
             /\ Even(g) /\ Own(g) /\ g.fmt = fmt
<1>1. ASSUME NEW g, Relaid(f, g)
      PROVE  Shaped(g) /\ g.w \in Nat \ {0} /\ g.h \in Nat \ {0} /\ Even(g) /\ Own(g)
  BY <1>1 DEF Relaid, Even, Own
<1>2. CASE fmt = f.fmt
  <2>1. ConvertTo(f, fmt) = f
    BY <1>2 DEF ConvertTo
  <2> QED BY <1>2, <2>1
<1>3. CASE f.fmt = "mjpeg" /\ fmt = "rgb24"
  <2>1. ConvertTo(f, fmt) = MjpegToRgb24(f)
    BY <1>3 DEF ConvertTo
  <2> QED BY <1>1, <1>3, <2>1, ConversionsKeep DEF Even
<1>4. CASE f.fmt = "mjpeg" /\ fmt = "nv12"
  <2>1. ConvertTo(f, fmt) = Rgb24ToNv12(MjpegToRgb24(f))
    BY <1>4 DEF ConvertTo, MjpegToNv12
  <2>2. PICK g : g = MjpegToRgb24(f)
    OBVIOUS
  <2>3. Relaid(f, g) /\ g.fmt = "rgb24" /\ Straight(g)
    BY <1>4, <2>2, ConversionsKeep DEF Even
  <2>4. Shaped(g) /\ g.w \in Nat \ {0} /\ g.h \in Nat \ {0} /\ Even(g) /\ Own(g)
    BY <1>1, <2>3
  <2>5. Relaid(g, Rgb24ToNv12(g)) /\ Rgb24ToNv12(g).fmt = "nv12" /\ Straight(Rgb24ToNv12(g))
    BY <2>3, <2>4, ConversionsKeep DEF Even
  <2>6. Relaid(f, Rgb24ToNv12(g))
    BY <2>3, <2>5 DEF Relaid
  <2> QED BY <1>1, <1>4, <2>1, <2>2, <2>5, <2>6
<1>5. CASE f.fmt = "yuyv" /\ fmt = "nv12"
  <2>1. ConvertTo(f, fmt) = YuyvToNv12(f)
    BY <1>5 DEF ConvertTo
  <2> QED BY <1>1, <1>5, <2>1, ConversionsKeep DEF Even
<1>6. CASE f.fmt = "yuyv" /\ fmt = "rgb24"
  <2>1. ConvertTo(f, fmt) = YuyvToRgb24(f)
    BY <1>6 DEF ConvertTo
  <2> QED BY <1>1, <1>6, <2>1, ConversionsKeep DEF Even
<1>7. CASE f.fmt = "rgb24" /\ fmt = "nv12"
  <2>1. ConvertTo(f, fmt) = Rgb24ToNv12(f)
    BY <1>7 DEF ConvertTo
  <2> QED BY <1>1, <1>7, <2>1, ConversionsKeep DEF Even
<1>8. CASE f.fmt = "nv12" /\ fmt = "rgb24"
  <2>1. ConvertTo(f, fmt) = Nv12ToRgb24(f)
    BY <1>8 DEF ConvertTo
  <2> QED BY <1>1, <1>8, <2>1, ConversionsKeep DEF Even
<1>9. \/ fmt = f.fmt
      \/ f.fmt = "mjpeg" /\ fmt = "rgb24"
      \/ f.fmt = "mjpeg" /\ fmt = "nv12"
      \/ f.fmt = "yuyv" /\ fmt = "nv12"
      \/ f.fmt = "yuyv" /\ fmt = "rgb24"
      \/ f.fmt = "rgb24" /\ fmt = "nv12"
      \/ f.fmt = "nv12" /\ fmt = "rgb24"
  BY DEF Supported
<1> QED BY <1>2, <1>3, <1>4, <1>5, <1>6, <1>7, <1>8, <1>9

(* The slot's picture in RGB, whose own picture is laid out still.         *)
LEMMA SlotInRgb ==
  ASSUME NEW f, Fits("slot", f),
         NEW g, g = IF f.fmt = "nv12" THEN Nv12ToRgb24(f) ELSE f
  PROVE  /\ Shaped(g) /\ g.w = f.w /\ g.h = f.h /\ g.scene = f.scene
         /\ g.fmt = "rgb24"
         /\ Own(f) => Straight(g)
<1>1. CASE f.fmt = "nv12"
  <2> DEFINE rgb == [p \in Pixels(f.w, f.h) |-> f.chr[BlockOf(f.w, p)]]
  <2>1. Nv12ToRgb24(f) = WithChr(WithFmt(f, "rgb24"), rgb)
    BY Zenon DEF Nv12ToRgb24, WithFmt, WithChr
  <2> HIDE DEF rgb
  <2>2. Nv12ToRgb24(f) = Picture("rgb24", f.w, f.h, f.scene, f.lum, rgb)
    BY <2>1, Changed DEF Fits
  <2>3. Own(f) => Straight(Nv12ToRgb24(f))
    BY <1>1, ConversionsKeep DEF Fits, Even
  <2> QED BY <1>1, <2>2, <2>3, Fields
<1>2. CASE f.fmt # "nv12"
  <2>1. g = f /\ f.fmt = "rgb24"
    BY <1>2 DEF Fits
  <2> QED BY <2>1 DEF Fits
<1> QED BY <1>1, <1>2

LEMMA PixelInvStep == PixelInv /\ [PixelNext]_pixelVars => PixelInv'
<1> SUFFICES ASSUME PixelInv, [PixelNext]_pixelVars
             PROVE  PixelInv'
  OBVIOUS
<1>1. /\ Shaped(frame) /\ frame.w \in Nat \ {0} /\ frame.h \in Nat \ {0}
      /\ stage \in {"captured", "nv12", "library"} => Own(frame) /\ Even(frame) /\ Straight(frame)
      /\ stage = "captured" => frame.fmt \in {"yuyv", "mjpeg"}
      /\ stage = "nv12" => frame.fmt = "nv12"
  BY DEF PixelInv, Fits
<1>2. PixelInv' <=> Fits(stage', frame')
  BY DEF PixelInv
<1>3. CASE ConvertFails
  BY <1>1, <1>2, <1>3 DEF ConvertFails, Fits
<1>4. CASE ToStorage
  <2>1. frame' = ConvertTo(frame, "nv12") /\ stage' = "nv12"
        /\ <<frame.fmt, "nv12">> \in Supported
    BY <1>1, <1>4 DEF ToStorage, ConvertTo, Supported
  <2>2. stage = "captured"
    BY <1>4 DEF ToStorage
  <2>3. PICK g : g = ConvertTo(frame, "nv12")
    OBVIOUS
  <2>4. /\ Shaped(g) /\ Straight(g) /\ g.w \in Nat \ {0} /\ g.h \in Nat \ {0}
        /\ Even(g) /\ Own(g) /\ g.fmt = "nv12"
    BY <1>1, <2>1, <2>2, <2>3, ConvertKeeps
  <2> QED BY <1>2, <2>1, <2>3, <2>4 DEF Fits
<1>5. CASE \E w, h \in Sides : Publish(w, h)
  <2>1. PICK w \in Sides, h \in Sides : Publish(w, h)
    BY <1>5
  <2>2. stage = "nv12" /\ w \in Nat \ {0} /\ h \in Nat \ {0} /\ IsEven(w) /\ IsEven(h)
    BY <2>1, PipelineAssumption DEF Publish, RingTakes
  <2>3. CASE stage' = "slot" /\ frame' = [frame EXCEPT !.w = w, !.h = h]
    <3>1. frame' = WithH(WithW(frame, w), h)
      BY <2>3, Zenon DEF WithW, WithH
    <3>2. frame' = Picture(frame.fmt, w, h, frame.scene, frame.lum, frame.chr)
      BY <1>1, <3>1, Changed
    <3>3. PICK g : g = frame'
      OBVIOUS
    <3>4. Shaped(g) /\ g.w = w /\ g.h = h /\ g.fmt = "nv12" /\ g.scene = frame.scene
      BY <1>1, <2>2, <3>2, <3>3, Fields
    <3>5. Own(g) => g = frame
      <4>1. SUFFICES ASSUME Own(g)
                     PROVE  g = frame
        OBVIOUS
      <4>2. <<frame.w, frame.h>> = <<w, h>>
        BY <1>1, <2>2, <3>4, <4>1 DEF Own
      <4>3. frame.w = w /\ frame.h = h
        BY <4>2
      <4> QED BY <1>1, <3>2, <3>3, <4>3 DEF Shaped
    <3>6. Own(g) => Straight(g)
      BY <1>1, <2>2, <3>5
    <3> QED BY <1>2, <2>2, <2>3, <3>3, <3>4, <3>6 DEF Fits, Even
  <2>4. CASE stage' = "refused" /\ UNCHANGED frame
    BY <1>1, <1>2, <2>2, <2>4 DEF Fits
  <2> QED BY <2>1, <2>3, <2>4 DEF Publish
<1>6. stage = "slot" => Fits("slot", frame)
  BY DEF PixelInv
<1>7. CASE PreprocessForBridge
  <2>1. PICK g : g = IF frame.fmt = "nv12" THEN Nv12ToRgb24(frame) ELSE frame
    OBVIOUS
  <2>2. stage' = "boxed" /\ frame' = Letterbox(g) /\ stage = "slot"
    BY <1>7, <2>1 DEF PreprocessForBridge
  <2>3. /\ Shaped(g) /\ g.w = frame.w /\ g.h = frame.h /\ g.scene = frame.scene
        /\ g.fmt = "rgb24"
        /\ Own(frame) => Straight(g)
    BY <1>6, <2>1, <2>2, SlotInRgb
  <2>4. /\ Shaped(frame') /\ frame'.w = frame.w /\ frame'.h = frame.h
        /\ frame'.scene = frame.scene /\ frame'.fmt = "rgb24"
        /\ Straight(g) => InSquare(frame')
    BY <1>1, <2>2, <2>3, LetterboxKeeps DEF InSquare
  <2> QED BY <1>1, <1>2, <2>2, <2>3, <2>4 DEF Fits, Own
<1>8. CASE InferOnCpu
  <2>1. PICK g : g = IF frame.fmt = "nv12" THEN Nv12ToRgb24(frame) ELSE frame
    OBVIOUS
  <2>2. stage' = "tensor" /\ frame' = ToNchw(Letterbox(g)) /\ stage = "slot"
    BY <1>8, <2>1 DEF InferOnCpu, FrameToRgb24
  <2>3. /\ Shaped(g) /\ g.w = frame.w /\ g.h = frame.h /\ g.scene = frame.scene
        /\ g.fmt = "rgb24"
        /\ Own(frame) => Straight(g)
    BY <1>6, <2>1, <2>2, SlotInRgb
  <2>4. PICK b : b = Letterbox(g)
    OBVIOUS
  <2>5. /\ Shaped(b) /\ b.w = frame.w /\ b.h = frame.h
        /\ b.scene = frame.scene
        /\ Straight(g) => \A t \in Square : Seen(b.lum[t], b.chr[t], t, b.w, b.h)
    BY <1>1, <2>3, <2>4, LetterboxKeeps
  <2>6. /\ Shaped(frame') /\ frame'.w = frame.w /\ frame'.h = frame.h
        /\ frame'.scene = frame.scene
        /\ Straight(g) => InPlanes(frame')
    BY <2>2, <2>4, <2>5, PlanesKeep DEF InPlanes
  <2> QED BY <1>1, <1>2, <2>2, <2>3, <2>6 DEF Fits, Own
<1>9. CASE Record
  <2>1. PICK g : g = IF frame.fmt = "nv12" THEN Nv12ToRgb24(frame) ELSE frame
    OBVIOUS
  <2>2. stage' = "recorded" /\ frame' = g /\ stage = "slot"
    BY <1>9, <2>1 DEF Record
  <2>3. /\ Shaped(g) /\ g.w = frame.w /\ g.h = frame.h /\ g.scene = frame.scene
        /\ g.fmt = "rgb24"
        /\ Own(frame) => Straight(g)
    BY <1>6, <2>1, <2>2, SlotInRgb
  <2> QED BY <1>1, <1>2, <2>2, <2>3 DEF Fits, Own
<1>10. CASE \E fmt \in {"yuyv", "mjpeg", "nv12", "rgb24"} : Convert(fmt)
  <2>1. PICK fmt : Convert(fmt)
    BY <1>10
  <2>2. /\ stage \in {"captured", "library"} /\ frame' = ConvertTo(frame, fmt)
        /\ stage' = "library" /\ (fmt = frame.fmt \/ <<frame.fmt, fmt>> \in Supported)
    BY <2>1 DEF Convert
  <2>3. PICK g : g = ConvertTo(frame, fmt)
    OBVIOUS
  <2>4. /\ Shaped(g) /\ Straight(g) /\ g.w \in Nat \ {0} /\ g.h \in Nat \ {0}
        /\ Even(g) /\ Own(g)
    BY <1>1, <2>2, <2>3, ConvertKeeps
  <2> QED BY <1>2, <2>2, <2>3, <2>4 DEF Fits
<1>11. CASE UNCHANGED pixelVars
  BY <1>11 DEF pixelVars, PixelInv
<1> QED BY <1>3, <1>4, <1>5, <1>7, <1>8, <1>9, <1>10, <1>11 DEF PixelNext

\* A picture is laid out as its format has it until it is boxed, and boxed so
\* that every place of the square maps back to its pixel.
THEOREM PictureInvariant == PixelSpec => []PixelInv
  BY PixelInvInit, PixelInvStep, PTL DEF PixelSpec

\* On every way from the camera to the model and the encoder each sample of
\* brightness is its own pixel's, or seen where unproject_xy finds it, and
\* its chroma is of the pixel's block.
THEOREM SamplesStayInPlace == PixelSpec => []PixelsInPlace
<1>1. PixelInv => PixelsInPlace
  <2> SUFFICES ASSUME PixelInv, Own(frame)
               PROVE  InPlace(frame)
    BY DEF PixelsInPlace, Own
  <2>1. PICK f : f = frame
    OBVIOUS
  <2>2. /\ f.w \in Nat \ {0} /\ f.h \in Nat \ {0}
        /\ CASE stage = "boxed" -> InSquare(f)
             [] stage = "tensor" -> InPlanes(f)
             [] OTHER -> Straight(f)
    BY <2>1 DEF PixelInv, Fits
  <2>3. CASE stage \notin {"boxed", "tensor"}
    <3>1. Straight(f)
      BY <2>2, <2>3
    <3>2. \A p \in DOMAIN f.lum : f.lum[p] = p
      BY <3>1 DEF Straight
    <3>3. f.fmt \in {"rgb24", "nchw"} => \A p \in DOMAIN f.lum : Coloured(f.chr[p], f.w, p)
      BY <3>1 DEF Straight, PixelFormats
    <3> QED BY <2>1, <2>3, <3>2, <3>3 DEF InPlace, Coloured
  <2>4. CASE stage \in {"boxed", "tensor"}
    <3>1. \A n \in {f.w, f.h} : PadBefore(n, Longer(f.w, f.h)) + Visible(n, Longer(f.w, f.h))
                                  <= InputSize
      BY <2>2, AxisFits, LongerSide
    <3>2. \A i \in DOMAIN f.lum :
            Seen(f.lum[i], f.chr[i], i % (InputSize * InputSize), f.w, f.h)
      <4>1. CASE stage = "tensor"
        BY <2>2, <4>1 DEF InPlanes
      <4>2. CASE stage = "boxed"
        <5>1. PICK k \in Nat : k = InputSize * InputSize
          <6>1. InputSize * InputSize \in Nat
            BY InputSizeAssumption
          <6> QED BY <6>1
        <5>2. \A t \in Square : t % k = t
          BY <5>1 DEF Square, Pixels
        <5> QED BY <2>2, <4>2, <5>1, <5>2 DEF InSquare
      <4> QED BY <2>4, <4>1, <4>2
    <3> QED BY <2>1, <2>4, <3>1, <3>2 DEF InPlace, Seen, Coloured
  <2> QED BY <2>3, <2>4
<1> QED BY <1>1, PictureInvariant, PTL

-----------------------------------------------------------------------------
(* Frames as text.                                                         *)

(* After k characters of a chunk: how many of its bytes are out, and where *)
(* the next one begins in the word.                                        *)
BytesOut(k) == CASE k = 0 -> 0 [] k = 1 -> 0 [] k = 2 -> 1 [] k = 3 -> 2
BitsLeft(k) == CASE k = 0 -> -8 [] k = 1 -> -2 [] k = 2 -> -4 [] k = 3 -> -6

Lesser(a, b) == IF a < b THEN a ELSE b

(* The text that is left begins with character k of chunk q.               *)
LeftFrom(q, k) ==
  /\ text \in Seq(Int)
  /\ Len(text) = 4 * Chunks(payload) - (4*q + k)
  /\ \A i \in 1 .. Len(text) : text[i] = Encoded(payload)[4*q + k + i]

(* What a byte holds; a name, for the provers that count to 255.           *)
Octets == 0 .. 255

(* The bytes that the characters before make up are out, and, unless       *)
(* padding has begun, the word ends in the last character.                 *)
BytesTaken(q, k) ==
  LET n == Lesser(Len(payload), 3*q + BytesOut(k))
  IN  /\ decoder.out \in Seq(Octets) /\ Len(decoder.out) = n
      /\ \A i \in 1 .. n : decoder.out[i] = payload[i]

WordIsThere(q, k) ==
  3*q + k <= Len(payload) =>
    /\ decoder.valb = BitsLeft(k)
    /\ k > 0 => decoder.val % 64 = Sextet(payload, q, k - 1)

Words == [val : Nat, valb : Int, out : Seq(Octets)]

ReadAt(q, k) == LeftFrom(q, k) /\ BytesTaken(q, k) /\ WordIsThere(q, k)

InlineInv == /\ payload \in Payloads /\ decoder \in Words
             /\ \E q \in Nat, k \in 0 .. 3 : ReadAt(q, k)

LEMMA PayloadsAreBytes ==
  ASSUME NEW d \in Payloads
  PROVE  d \in Seq(Octets) /\ Len(d) \in Nat /\ (\A i \in 1 .. Len(d) : d[i] \in Octets)
<1>1. d \in Seq(Octets)
  BY PayloadsAssumption DEF Octets
<1>2. Len(d) \in Nat
  BY <1>1, LenProperties
<1>3. \A i \in 1 .. Len(d) : d[i] \in Octets
  BY <1>1, ElementOfSeq
<1> QED BY <1>1, <1>2, <1>3

(* Quotient and remainder are known by their sum.                          *)
LEMMA Parts ==
  ASSUME NEW a \in Nat, NEW b \in Nat \ {0}
  PROVE  \E q \in Nat, r \in 0 .. b - 1 : a = b * q + r /\ q = a \div b /\ r = a % b
<1>1. a \div b \in Nat /\ a % b \in 0 .. b - 1 /\ a = b * (a \div b) + (a % b)
  BY SMT
<1> QED BY <1>1

(* The character of six bits, and back.                                    *)
LEMMA CharsAreRead ==
  ASSUME NEW v \in 0 .. 63
  PROVE  Char(v) \in Int /\ Char(v) # Equals /\ CharValue(Char(v)) = v /\ ~Skipped(Char(v))
<1>1. Char(v) \in Int /\ Char(v) \notin Ignored /\ CharValue(Char(v)) = v
  <2>1. CASE v \in 0 .. 25
    <3>1. Char(v) = 65 + v
      BY <2>1, SMT DEF Char
    <3> QED BY <2>1, <3>1, SMT DEF CharValue, Ignored, Equals
  <2>2. CASE v \in 26 .. 51
    <3>1. Char(v) = 97 + v - 26
      BY <2>2, SMT DEF Char
    <3> QED BY <2>2, <3>1, SMT DEF CharValue, Ignored, Equals
  <2>3. CASE v \in 52 .. 61
    <3>1. Char(v) = 48 + v - 52
      BY <2>3, SMT DEF Char
    <3> QED BY <2>3, <3>1, SMT DEF CharValue, Ignored, Equals
  <2>4. CASE v = 62
    <3>1. Char(v) = 43
      BY <2>4, SMT DEF Char
    <3> QED BY <2>4, <3>1, SMT DEF CharValue, Ignored, Equals
  <2>5. CASE v = 63
    <3>1. Char(v) = 47
      BY <2>5, SMT DEF Char
    <3> QED BY <2>5, <3>1, SMT DEF CharValue, Ignored, Equals
  <2> QED BY <2>1, <2>2, <2>3, <2>4, <2>5, SMT
<1> QED BY <1>1, SMT DEF Skipped, Ignored, Equals

(* Which bits of its chunk a character has.                                *)
SixBits(d, q, b0, b1, b2) ==
  /\ Sextet(d, q, 0) = b0 \div 4
  /\ Sextet(d, q, 1) = 16 * (b0 % 4) + (b1 \div 16)
  /\ Sextet(d, q, 2) = 4 * (b1 % 16) + (b2 \div 64)
  /\ Sextet(d, q, 3) = b2 % 64

LEMMA SextetsOfTriple ==
  ASSUME NEW d, NEW q,
         NEW b0 \in Octets, NEW b1 \in Octets, NEW b2 \in Octets,
         Triple(d, q) = Packed(b0, b1, b2)
  PROVE  SixBits(d, q, b0, b1, b2)
<1> USE DEF Octets
<1>1. PICK T \in Nat : T = 65536 * b0 + 256 * b1 + b2
  BY SMT
<1>2. Triple(d, q) = T
  BY <1>1, SMT DEF Packed
<1>3. 64^3 = 262144 /\ 64^2 = 4096 /\ 64^1 = 64 /\ 64^0 = 1
  BY SMT
<1>4. 3 - 0 = 3 /\ 3 - 1 = 2 /\ 3 - 2 = 1 /\ 3 - 3 = 0
  BY SMT
<1>5. /\ Sextet(d, q, 0) = (T \div 262144) % 64
      /\ Sextet(d, q, 1) = (T \div 4096) % 64
      /\ Sextet(d, q, 2) = (T \div 64) % 64
      /\ Sextet(d, q, 3) = (T \div 1) % 64
  BY <1>2, <1>3, <1>4, SMT DEF Sextet
<1>6. (T \div 262144) % 64 = b0 \div 4
  BY <1>1, SMT
<1>7. (T \div 4096) % 64 = 16 * (b0 % 4) + (b1 \div 16)
  <2>1. PICK x0 \in 0 .. 63, y0 \in 0 .. 3 : b0 = 4 * x0 + y0
    BY SMT
  <2>2. PICK x1 \in 0 .. 15, y1 \in 0 .. 15 : b1 = 16 * x1 + y1
    BY SMT
  <2>3. T = 4096 * (64 * x0 + 16 * y0 + x1) + (256 * y1 + b2)
    BY <1>1, <2>1, <2>2, SMT
  <2>4. T \div 4096 = 64 * x0 + 16 * y0 + x1
    BY <2>3, SMT
  <2>5. (64 * x0 + 16 * y0 + x1) % 64 = 16 * y0 + x1
    BY SMT
  <2>6. b0 % 4 = y0 /\ b1 \div 16 = x1
    BY <2>1, <2>2, SMT
  <2> QED BY <2>4, <2>5, <2>6, SMT
<1>8. (T \div 64) % 64 = 4 * (b1 % 16) + (b2 \div 64)
  BY <1>1, SMT
<1>9. (T \div 1) % 64 = b2 % 64
  BY <1>1, SMT
<1> QED BY <1>5, <1>6, <1>7, <1>8, <1>9, SMT DEF SixBits

LEMMA BytesAreBytes ==
  ASSUME NEW d \in Seq(Octets), NEW i \in Nat \ {0}
  PROVE  Byte(d, i) \in Octets /\ (i <= Len(d) => Byte(d, i) = d[i])
<1>1. Len(d) \in Nat
  BY LenProperties, SMT
<1>2. CASE i <= Len(d)
  <2>1. d[i] \in Octets
    BY <1>1, <1>2, ElementOfSeq, SMT
  <2> QED BY <1>2, <2>1, SMT DEF Byte
<1>3. CASE ~(i <= Len(d))
  BY <1>3, SMT DEF Byte, Octets
<1> QED BY <1>2, <1>3, SMT

LEMMA ChunkHasBytes ==
  ASSUME NEW d \in Seq(Octets), NEW q \in Nat
  PROVE  \E b0 \in Octets, b1 \in Octets, b2 \in Octets :
           /\ b0 = Byte(d, 3*q + 1) /\ b1 = Byte(d, 3*q + 2) /\ b2 = Byte(d, 3*q + 3)
           /\ Triple(d, q) = Packed(b0, b1, b2)
<1>1. 3*q + 1 \in Nat \ {0} /\ 3*q + 2 \in Nat \ {0} /\ 3*q + 3 \in Nat \ {0}
  BY SMT
<1>2. Byte(d, 3*q + 1) \in Octets /\ Byte(d, 3*q + 2) \in Octets /\ Byte(d, 3*q + 3) \in Octets
  BY <1>1, BytesAreBytes, Zenon
<1>3. Triple(d, q) = Packed(Byte(d, 3*q + 1), Byte(d, 3*q + 2), Byte(d, 3*q + 3))
  BY Zenon DEF Triple
<1> QED BY <1>2, <1>3, Zenon

LEMMA SextetsAreSixBits ==
  ASSUME NEW d \in Seq(Octets), NEW q \in Nat, NEW k \in 0 .. 3
  PROVE  Sextet(d, q, k) \in 0 .. 63
<1>1. PICK b0 \in Octets, b1 \in Octets, b2 \in Octets : Triple(d, q) = Packed(b0, b1, b2)
  BY ChunkHasBytes
<1>2. /\ b0 \div 4 \in 0 .. 63 /\ b2 % 64 \in 0 .. 63
      /\ 16 * (b0 % 4) + (b1 \div 16) \in 0 .. 63
      /\ 4 * (b1 % 16) + (b2 \div 64) \in 0 .. 63
  <2> USE DEF Octets
  <2>1. b0 \div 4 \in 0 .. 63 /\ b2 % 64 \in 0 .. 63
    BY SMT
  <2>2. b0 % 4 \in 0 .. 3 /\ b1 \div 16 \in 0 .. 15
    BY SMT
  <2>3. b1 % 16 \in 0 .. 15 /\ b2 \div 64 \in 0 .. 3
    BY SMT
  <2> QED BY <2>1, <2>2, <2>3, SMT
<1>3. k = 0 \/ k = 1 \/ k = 2 \/ k = 3
  BY SMT
<1>4. SixBits(d, q, b0, b1, b2)
  BY <1>1, SextetsOfTriple, Zenon
<1>5. /\ Sextet(d, q, 0) \in 0 .. 63 /\ Sextet(d, q, 1) \in 0 .. 63
      /\ Sextet(d, q, 2) \in 0 .. 63 /\ Sextet(d, q, 3) \in 0 .. 63
  BY <1>2, <1>4, SMT DEF SixBits
<1> QED BY <1>3, <1>5, Zenon

(* The low bits of the word survive its running over.                      *)
EndsIn(word, val, v) ==
  /\ word \in Nat
  /\ word % 4096 = 64 * (val % 64) + v
  /\ word % 64 = v

LEMMA ShiftKeepsLowBits ==
  ASSUME NEW val \in Nat, NEW v \in 0 .. 63
  PROVE  EndsIn((64 * val + v) % Ints, val, v)
<1>1. PICK x \in Nat : x = 64 * val + v
  BY SMT
<1>2. 2^16 = 65536
  BY SMT
<1>3. PICK m \in Nat \ {0} : Ints = 4096 * m
  <2>1. Ints \in Nat \ {0} /\ Ints % 65536 = 0
    BY IntsAssumption, <1>2, SMT
  <2>2. PICK j \in Nat : j = Ints \div 65536
    BY <2>1, SMT
  <2>3. Ints = 65536 * j
    BY <2>1, <2>2, SMT
  <2>4. 16 * j \in Nat \ {0} /\ Ints = 4096 * (16 * j)
    BY <2>1, <2>3, SMT
  <2> QED BY <2>4, SMT
<1>4. PICK c \in Nat, r \in 0 .. Ints - 1 : x = Ints * c + r /\ c = x \div Ints /\ r = x % Ints
  <2>1. Ints \in Nat \ {0}
    BY IntsAssumption, SMT
  <2> QED BY <2>1, Parts, Zenon
<1>5. PICK g \in Nat : g = m * c
  BY SMT
<1>6. x = 4096 * g + r
  <2>1. Ints * c = 4096 * g
    BY <1>3, <1>5, SMT
  <2> QED BY <1>4, <2>1, SMT
<1>7. r % 4096 = x % 4096
  BY <1>6, SMT
<1>8. x % 4096 = 64 * (val % 64) + v /\ x % 64 = v
  BY <1>1, SMT
<1>9. r % 64 = (r % 4096) % 64 /\ x % 64 = (x % 4096) % 64
  BY SMT
<1>10. r = (64 * val + v) % Ints
  BY <1>1, <1>4, Zenon
<1>11. r % 4096 = 64 * (val % 64) + v
  BY <1>7, <1>8, SMT
<1>12. r % 64 = v
  BY <1>7, <1>8, <1>9, SMT
<1>13. r \in Nat
  BY <1>3, SMT
<1>14. EndsIn(r, val, v)
  BY <1>11, <1>12, <1>13, SMT DEF EndsIn
<1> QED BY <1>10, <1>14, Zenon

(* The bits of two characters in a row end a byte.                         *)
EndsByte(w, b0, b1, b2) ==
  /\ w % 4096 = 64 * (b0 \div 4) + (16 * (b0 % 4) + (b1 \div 16))
       => (w \div 16) % 256 = b0
  /\ w % 4096 = 64 * (16 * (b0 % 4) + (b1 \div 16)) + (4 * (b1 % 16) + (b2 \div 64))
       => (w \div 4) % 256 = b1
  /\ w % 4096 = 64 * (4 * (b1 % 16) + (b2 \div 64)) + (b2 % 64)
       => (w \div 1) % 256 = b2

LEMMA TwoCharactersEndAByte ==
  ASSUME NEW b0 \in Octets, NEW b1 \in Octets, NEW b2 \in Octets, NEW w \in Nat
  PROVE  EndsByte(w, b0, b1, b2)
<1> USE DEF Octets
<1>1. ASSUME w % 4096 = 64 * (b0 \div 4) + (16 * (b0 % 4) + (b1 \div 16))
      PROVE  (w \div 16) % 256 = b0
  <2>1. PICK b \in Nat \ {0} : b = 4096
    BY SMT
  <2>2. PICK g \in Nat, l \in 0 .. b - 1 : w = b * g + l /\ l = w % b
    BY Parts, ZenonT(60)
  <2>3. PICK x0 \in 0 .. 63, y0 \in 0 .. 3 : b0 = 4 * x0 + y0 /\ x0 = b0 \div 4 /\ y0 = b0 % 4
    BY SMT
  <2>4. PICK x1 \in 0 .. 15 : x1 = b1 \div 16
    BY SMT
  <2>5. l = 16 * b0 + x1
    BY <1>1, <2>1, <2>2, <2>3, <2>4, SMTT(30)
  <2>6. PICK n \in Nat : n = 256 * g + b0
    BY SMTT(30)
  <2>7. w = 4096 * g + l
    BY <2>1, <2>2, SMTT(30)
  <2>8. w = 16 * n + x1
    BY <2>5, <2>6, <2>7, SMT
  <2>9. w \div 16 = n
    BY <2>8, SMT
  <2>10. n % 256 = b0
    BY <2>6, SMT
  <2> QED BY <2>9, <2>10, SMT
<1>2. ASSUME w % 4096 = 64 * (16 * (b0 % 4) + (b1 \div 16)) + (4 * (b1 % 16) + (b2 \div 64))
      PROVE  (w \div 4) % 256 = b1
  BY <1>2, SMT
<1>3. ASSUME w % 4096 = 64 * (4 * (b1 % 16) + (b2 \div 64)) + (b2 % 64)
      PROVE  (w \div 1) % 256 = b2
  BY <1>3, SMT
<1> QED BY <1>1, <1>2, <1>3, SMT DEF EndsByte

(* The byte that a second, third and fourth character complete.            *)
Joined(w, s, t) == w % 4096 = 64 * s + t

Completes(d, q, w, b0, b1, b2) ==
  /\ Joined(w, Sextet(d, q, 0), Sextet(d, q, 1)) => ByteAt(w, 4) = b0
  /\ Joined(w, Sextet(d, q, 1), Sextet(d, q, 2)) => ByteAt(w, 2) = b1
  /\ Joined(w, Sextet(d, q, 2), Sextet(d, q, 3)) => ByteAt(w, 0) = b2

LEMMA BytesComplete ==
  ASSUME NEW d \in Seq(Octets), NEW q \in Nat, NEW w \in Nat
  PROVE  Completes(d, q, w, Byte(d, 3*q + 1), Byte(d, 3*q + 2), Byte(d, 3*q + 3))
<1>1. PICK b0 \in Octets, b1 \in Octets, b2 \in Octets :
         /\ b0 = Byte(d, 3*q + 1) /\ b1 = Byte(d, 3*q + 2) /\ b2 = Byte(d, 3*q + 3)
         /\ Triple(d, q) = Packed(b0, b1, b2)
  BY ChunkHasBytes
<1>2. 2^4 = 16 /\ 2^2 = 4 /\ 2^0 = 1
  BY SMTT(60)
<1>3. SixBits(d, q, b0, b1, b2)
  BY <1>1, SextetsOfTriple, Zenon
<1>4. EndsByte(w, b0, b1, b2)
  BY TwoCharactersEndAByte, Zenon
<1>5. Joined(w, Sextet(d, q, 0), Sextet(d, q, 1)) => ByteAt(w, 4) = b0
  BY <1>2, <1>3, <1>4, SMT DEF SixBits, EndsByte, Joined, ByteAt
<1>6. Joined(w, Sextet(d, q, 1), Sextet(d, q, 2)) => ByteAt(w, 2) = b1
  BY <1>2, <1>3, <1>4, SMT DEF SixBits, EndsByte, Joined, ByteAt
<1>7. Joined(w, Sextet(d, q, 2), Sextet(d, q, 3)) => ByteAt(w, 0) = b2
  BY <1>2, <1>3, <1>4, SMT DEF SixBits, EndsByte, Joined, ByteAt
<1>8. Completes(d, q, w, b0, b1, b2)
  BY <1>5, <1>6, <1>7, Zenon DEF Completes
<1> QED BY <1>1, <1>8, Zenon

(* A chunk that has been begun has a byte.                                 *)
LEMMA ChunksBegun ==
  ASSUME NEW d \in Seq(Octets), NEW q \in Nat
  PROVE  Chunks(d) \in Nat /\ (q < Chunks(d) <=> 3*q + 1 <= Len(d))
<1>1. PICK l \in Nat : l = Len(d)
  BY LenProperties, Zenon
<1>2. (l + 2) \div 3 \in Nat /\ (q < (l + 2) \div 3 <=> 3*q + 1 <= l)
  BY SMT
<1> QED BY <1>1, <1>2, Zenon DEF Chunks

LEMMA EncodedChars ==
  ASSUME NEW d \in Seq(Octets)
  PROVE  /\ Encoded(d) \in Seq(Int) /\ Len(Encoded(d)) = 4 * Chunks(d)
         /\ \A q \in Nat, k \in 0 .. 3 :
              q < Chunks(d) =>
                Encoded(d)[4*q + k + 1] =
                  IF 3*q + k > Len(d) THEN Equals ELSE Char(Sextet(d, q, k))
<1>1. PICK n \in Nat : n = Chunks(d)
  BY ChunksBegun, Zenon
<1>2. DOMAIN Encoded(d) = 1 .. 4 * n
  BY <1>1, SMT DEF Encoded
<1>3. ASSUME NEW q \in Nat, NEW k \in 0 .. 3, q < n
      PROVE  Encoded(d)[4*q + k + 1] =
               IF 3*q + k > Len(d) THEN Equals ELSE Char(Sextet(d, q, k))
  <2>1. PICK i \in 1 .. 4 * n : i = 4*q + k + 1
    BY <1>3, SMT
  <2>2. (i - 1) \div 4 = q /\ (i - 1) % 4 = k
    BY <2>1, SMT
  <2>3. Encoded(d)[i] = LET p == (i - 1) \div 4
                            j == (i - 1) % 4
                        IN  IF 3*p + j > Len(d) THEN Equals ELSE Char(Sextet(d, p, j))
    BY <1>1, SMT DEF Encoded
  <2> QED BY <2>1, <2>2, <2>3, Zenon
<1>4. \A i \in 1 .. 4 * n : Encoded(d)[i] \in Int
  <2> SUFFICES ASSUME NEW i \in 1 .. 4 * n PROVE Encoded(d)[i] \in Int
    OBVIOUS
  <2>1. PICK q \in Nat, k \in 0 .. 3 : i = 4*q + k + 1 /\ q < n
    <3>1. (i - 1) \div 4 \in Nat /\ (i - 1) % 4 \in 0 .. 3 /\ (i - 1) \div 4 < n
          /\ i = 4 * ((i - 1) \div 4) + ((i - 1) % 4) + 1
      BY SMT
    <3> QED BY <3>1, Zenon
  <2>2. Char(Sextet(d, q, k)) \in Int
    BY SextetsAreSixBits, CharsAreRead, Zenon
  <2>3. Equals \in Int
    BY SMT DEF Equals
  <2> QED BY <1>3, <2>1, <2>2, <2>3, Zenon
<1>5. Encoded(d) \in [1 .. 4 * n -> Int]
  <2>1. Encoded(d) = [i \in DOMAIN Encoded(d) |-> Encoded(d)[i]]
    BY Zenon DEF Encoded
  <2> QED BY <1>2, <1>4, <2>1, SMT
<1>6. 4 * n \in Nat
  BY SMT
<1>7. Encoded(d) \in Seq(Int) /\ Len(Encoded(d)) = 4 * n
  BY <1>5, <1>6, SMT
<1> QED BY <1>1, <1>3, <1>7, Zenon

(* The head of the text is character k of chunk q, the tail begins behind. *)
LEMMA TextAdvances ==
  ASSUME payload \in Payloads, NEW q \in Nat, NEW k \in 0 .. 3, LeftFrom(q, k), text # <<>>
  PROVE  /\ 3*q + 1 <= Len(payload)
         /\ Head(text) = IF 3*q + k > Len(payload) THEN Equals ELSE Char(Sextet(payload, q, k))
         /\ \A q2 \in Nat, k2 \in 0 .. 3 :
              4*q2 + k2 = 4*q + k + 1 =>
                /\ Tail(text) \in Seq(Int)
                /\ Len(Tail(text)) = 4 * Chunks(payload) - (4*q2 + k2)
                /\ \A i \in 1 .. Len(Tail(text)) : Tail(text)[i] = Encoded(payload)[4*q2 + k2 + i]
<1>1. payload \in Seq(Octets)
  BY PayloadsAreBytes
<1>2. PICK n \in Nat : n = Chunks(payload)
  BY <1>1, ChunksBegun, Zenon
<1>3. text \in Seq(Int) /\ Len(text) \in Nat /\ Len(text) # 0
  BY EmptySeq, LenProperties, SMT DEF LeftFrom
<1>4. Len(text) = 4 * n - (4*q + k)
  BY <1>2, Zenon DEF LeftFrom
<1>5. q < n
  BY <1>3, <1>4, SMT
<1>6. Head(text) = text[1] /\ text[1] = Encoded(payload)[4*q + k + 1]
  <2>1. 1 \in 1 .. Len(text)
    BY <1>3, SMT
  <2>2. Head(text) = text[1]
    BY <1>3, SMT
  <2> QED BY <2>1, <2>2, Zenon DEF LeftFrom
<1>7. 3*q + 1 <= Len(payload)
  BY <1>1, <1>2, <1>5, ChunksBegun, Zenon
<1>8. Head(text) = IF 3*q + k > Len(payload) THEN Equals ELSE Char(Sextet(payload, q, k))
  BY <1>1, <1>2, <1>5, <1>6, EncodedChars, Zenon
<1>9. ASSUME NEW q2 \in Nat, NEW k2 \in 0 .. 3, 4*q2 + k2 = 4*q + k + 1
      PROVE  /\ Tail(text) \in Seq(Int)
             /\ Len(Tail(text)) = 4 * Chunks(payload) - (4*q2 + k2)
             /\ \A i \in 1 .. Len(Tail(text)) : Tail(text)[i] = Encoded(payload)[4*q2 + k2 + i]
  <2>1. /\ Tail(text) \in Seq(Int) /\ Len(Tail(text)) = Len(text) - 1
        /\ \A i \in 1 .. Len(Tail(text)) : Tail(text)[i] = text[i + 1]
    BY <1>3, SMT
  <2>2. Len(Tail(text)) = 4 * n - (4*q2 + k2)
    BY <1>4, <1>9, <2>1, SMT
  <2>3. ASSUME NEW i \in 1 .. Len(Tail(text))
        PROVE  Tail(text)[i] = Encoded(payload)[4*q2 + k2 + i]
    <3>1. i + 1 \in 1 .. Len(text) /\ 4*q + k + (i + 1) = 4*q2 + k2 + i
      BY <1>3, <1>9, <2>1, SMT
    <3>2. text[i + 1] = Encoded(payload)[4*q + k + (i + 1)]
      BY <3>1, Zenon DEF LeftFrom
    <3> QED BY <2>1, <3>1, <3>2, Zenon
  <2> QED BY <1>2, <2>1, <2>2, <2>3, Zenon
<1> QED BY <1>7, <1>8, <1>9, Zenon

LEMMA InlineStarts == InlineInit => InlineInv
<1> SUFFICES ASSUME InlineInit PROVE InlineInv
  OBVIOUS
<1>1. payload \in Payloads /\ payload \in Seq(Octets)
  BY PayloadsAreBytes, SMT DEF InlineInit
<1>2. decoder \in Words
  BY SMT DEF InlineInit, Words
<1>3. LeftFrom(0, 0)
  <2>1. text = Encoded(payload) /\ text \in Seq(Int) /\ Len(text) = 4 * Chunks(payload)
    BY <1>1, EncodedChars, Zenon DEF InlineInit
  <2>2. PICK n \in Nat : n = Chunks(payload)
    BY <1>1, ChunksBegun, Zenon
  <2>3. 4 * n = 4 * n - (4 * 0 + 0) /\ \A i \in Nat : 4 * 0 + 0 + i = i
    BY SMT
  <2>4. ASSUME NEW i \in 1 .. Len(text) PROVE text[i] = Encoded(payload)[4 * 0 + 0 + i]
    <3>1. i \in Nat
      BY <2>1, <2>2, SMT
    <3> QED BY <2>1, <2>3, <3>1, Zenon
  <2> QED BY <2>1, <2>2, <2>3, <2>4, Zenon DEF LeftFrom
<1>4. PICK l \in Nat : l = Len(payload)
  BY <1>1, LenProperties, Zenon
<1>5. BytesTaken(0, 0)
  <2>1. Lesser(l, 3 * 0 + BytesOut(0)) = 0
    BY SMT DEF Lesser, BytesOut
  <2>2. decoder.out = <<>>
    BY SMT DEF InlineInit
  <2> QED BY <1>4, <2>1, <2>2, SMT DEF BytesTaken
<1>6. WordIsThere(0, 0)
  BY SMT DEF WordIsThere, InlineInit, BitsLeft
<1>7. 0 \in Nat /\ 0 \in 0 .. 3
  BY SMT
<1> QED BY <1>1, <1>2, <1>3, <1>5, <1>6, <1>7, Zenon DEF InlineInv, ReadAt

(* Where the place after character k of chunk q is.                        *)
LEMMA NextPlace ==
  ASSUME NEW q \in Nat, NEW k \in 0 .. 3
  PROVE  \E q2 \in Nat, k2 \in 0 .. 3 :
           /\ 4*q2 + k2 = 4*q + k + 1
           /\ (k < 3 /\ q2 = q /\ k2 = k + 1) \/ (k = 3 /\ q2 = q + 1 /\ k2 = 0)
<1>1. CASE k < 3
  <2>1. k + 1 \in 0 .. 3 /\ 4*q + (k + 1) = 4*q + k + 1
    BY <1>1, SMT
  <2> QED BY <1>1, <2>1, Zenon
<1>2. CASE k = 3
  <2>1. q + 1 \in Nat /\ 0 \in 0 .. 3 /\ 4 * (q + 1) + 0 = 4*q + k + 1
    BY <1>2, SMT
  <2> QED BY <1>2, <2>1, Zenon
<1> QED BY <1>1, <1>2, SMT

(* Padding and what is no character: nothing more comes out.               *)
LEMMA SkipKeeps ==
  ASSUME InlineInv, SkipChar
  PROVE  InlineInv'
<1>1. PICK q \in Nat, k \in 0 .. 3 : ReadAt(q, k)
  BY DEF InlineInv
<1>2. PICK q2 \in Nat, k2 \in 0 .. 3 :
        /\ 4*q2 + k2 = 4*q + k + 1
        /\ (k < 3 /\ q2 = q /\ k2 = k + 1) \/ (k = 3 /\ q2 = q + 1 /\ k2 = 0)
  BY NextPlace
<1>3. /\ payload \in Payloads /\ payload \in Seq(Octets)
      /\ payload' = payload /\ decoder' = decoder /\ text' = Tail(text) /\ text # <<>>
      /\ Skipped(Head(text))
  BY PayloadsAreBytes DEF InlineInv, SkipChar
<1>4. PICK l \in Nat : l = Len(payload)
  BY <1>3, LenProperties, Zenon
<1>5. /\ 3*q + 1 <= l
      /\ Head(text) = IF 3*q + k > l THEN Equals ELSE Char(Sextet(payload, q, k))
      /\ LeftFrom(q2, k2)'
  <2>1. LeftFrom(q, k)
    BY <1>1 DEF ReadAt
  <2>2. /\ 3*q + 1 <= l
        /\ Head(text) = IF 3*q + k > l THEN Equals ELSE Char(Sextet(payload, q, k))
    BY <1>3, <1>4, <2>1, TextAdvances, Zenon
  <2>3. /\ Tail(text) \in Seq(Int)
        /\ Len(Tail(text)) = 4 * Chunks(payload) - (4*q2 + k2)
        /\ \A i \in 1 .. Len(Tail(text)) : Tail(text)[i] = Encoded(payload)[4*q2 + k2 + i]
    BY <1>2, <1>3, <2>1, TextAdvances, ZenonT(60)
  <2>4. LeftFrom(q2, k2)'
    BY <1>3, <2>3, Zenon DEF LeftFrom
  <2> QED BY <2>2, <2>4
<1>6. 3*q + k > l
  BY <1>3, <1>5, SextetsAreSixBits, CharsAreRead, Zenon
<1>7. BytesTaken(q2, k2)'
  <2>1. Lesser(l, 3*q + BytesOut(k)) = l /\ Lesser(l, 3*q2 + BytesOut(k2)) = l
    BY <1>2, <1>5, <1>6, SMT DEF Lesser, BytesOut
  <2>2. BytesTaken(q, k)
    BY <1>1 DEF ReadAt
  <2> QED BY <1>3, <1>4, <2>1, <2>2, Zenon DEF BytesTaken
<1>8. WordIsThere(q2, k2)'
  <2>1. ~(3*q2 + k2 <= l)
    BY <1>2, <1>5, <1>6, SMT
  <2> QED BY <1>3, <1>4, <2>1, Zenon DEF WordIsThere
<1>9. decoder' \in Words
  BY <1>3 DEF InlineInv
<1> QED BY <1>3, <1>5, <1>7, <1>8, <1>9, Zenon DEF InlineInv, ReadAt

(* A character joins the word, and the byte it completes comes out.        *)
LEMMA DecodeKeeps ==
  ASSUME InlineInv, DecodeChar
  PROVE  InlineInv'
<1>1. PICK q \in Nat, k \in 0 .. 3 : ReadAt(q, k)
  BY DEF InlineInv
<1>2. PICK q2 \in Nat, k2 \in 0 .. 3 :
        /\ 4*q2 + k2 = 4*q + k + 1
        /\ (k < 3 /\ q2 = q /\ k2 = k + 1) \/ (k = 3 /\ q2 = q + 1 /\ k2 = 0)
  BY NextPlace
<1>3. /\ payload \in Payloads /\ payload \in Seq(Octets) /\ decoder \in Words
      /\ payload' = payload /\ text' = Tail(text) /\ text # <<>>
      /\ decoder' = Decoded(decoder, Head(text)) /\ ~Skipped(Head(text))
  BY PayloadsAreBytes DEF InlineInv, DecodeChar
<1>4. PICK l \in Nat : l = Len(payload)
  BY <1>3, LenProperties, Zenon
<1>5. /\ 3*q + 1 <= l
      /\ Head(text) = IF 3*q + k > l THEN Equals ELSE Char(Sextet(payload, q, k))
      /\ LeftFrom(q2, k2)'
  <2>1. LeftFrom(q, k)
    BY <1>1 DEF ReadAt
  <2>2. /\ 3*q + 1 <= l
        /\ Head(text) = IF 3*q + k > l THEN Equals ELSE Char(Sextet(payload, q, k))
    BY <1>3, <1>4, <2>1, TextAdvances, Zenon
  <2>3. /\ Tail(text) \in Seq(Int)
        /\ Len(Tail(text)) = 4 * Chunks(payload) - (4*q2 + k2)
        /\ \A i \in 1 .. Len(Tail(text)) : Tail(text)[i] = Encoded(payload)[4*q2 + k2 + i]
    BY <1>2, <1>3, <2>1, TextAdvances, ZenonT(60)
  <2>4. LeftFrom(q2, k2)'
    BY <1>3, <2>3, Zenon DEF LeftFrom
  <2> QED BY <2>2, <2>4
<1>6. 3*q + k <= l /\ Head(text) = Char(Sextet(payload, q, k))
  <2>1. Skipped(Equals)
    BY Zenon DEF Skipped, Ignored
  <2>2. ~(3*q + k > l)
    BY <1>3, <1>5, <2>1, Zenon
  <2> QED BY <1>5, <2>2, SMT
<1>7. PICK v \in 0 .. 63 : v = Sextet(payload, q, k) /\ CharValue(Head(text)) = v
  BY <1>3, <1>6, SextetsAreSixBits, CharsAreRead, Zenon
<1>8. PICK val \in Nat : val = decoder.val
  BY <1>3, SMT DEF Words
<1>9. PICK w \in Nat : w = Shifted(decoder, Head(text)) /\ EndsIn(w, val, v)
  <2>1. Shifted(decoder, Head(text)) = (64 * val + v) % Ints
    BY <1>7, <1>8, Zenon DEF Shifted
  <2>2. EndsIn((64 * val + v) % Ints, val, v)
    BY ShiftKeepsLowBits, Zenon
  <2>3. (64 * val + v) % Ints \in Nat
    BY <2>2, SMT DEF EndsIn
  <2> QED BY <2>1, <2>2, <2>3, Zenon
<1>10. w % 64 = v
  BY <1>9, SMT DEF EndsIn
<1>11. /\ decoder.valb = BitsLeft(k)
       /\ k > 0 => val % 64 = Sextet(payload, q, k - 1)
       /\ BytesTaken(q, k)
  BY <1>1, <1>4, <1>6, <1>8, Zenon DEF ReadAt, WordIsThere
<1>12. CASE k = 0
  <2>1. BitsLeft(k) = -8 /\ BitsLeft(k2) = -2 /\ q2 = q /\ k2 = 1 /\ BytesOut(k) = 0 /\ BytesOut(k2) = 0
    BY <1>2, <1>12, SMT DEF BitsLeft, BytesOut
  <2>2. PICK m \in Int : m = -2
    BY SMT
  <2>3. /\ decoder'.val = w /\ decoder'.valb = -2 /\ decoder'.out = decoder.out
        /\ decoder' \in Words
    <3>1. decoder.valb + 6 = m /\ ~(decoder.valb + 6 >= 0)
      BY <1>11, <2>1, <2>2, SMT
    <3>2. decoder' = [val |-> w, valb |-> m, out |-> decoder.out]
      BY <1>3, <1>9, <3>1, Zenon DEF Decoded
    <3>3. decoder.out \in Seq(Octets)
      BY <1>11, Zenon DEF BytesTaken
    <3> QED BY <2>2, <3>2, <3>3, Zenon DEF Words
  <2>4. BytesTaken(q2, k2)'
    BY <1>3, <1>11, <2>1, <2>3, Zenon DEF BytesTaken
  <2>5. WordIsThere(q2, k2)'
    <3>1. k2 - 1 = k
      BY <1>12, <2>1, SMT
    <3> QED BY <1>3, <1>7, <1>10, <2>1, <2>3, <3>1, Zenon DEF WordIsThere
  <2> QED BY <1>3, <1>5, <2>3, <2>4, <2>5, Zenon DEF InlineInv, ReadAt
<1>13. CASE k # 0
  <2>1. /\ BitsLeft(k) + 6 >= 0 /\ BitsLeft(k) \in Int /\ BitsLeft(k2) = BitsLeft(k) - 2
        /\ 3*q + BytesOut(k) = 3*q + k - 1 /\ 3*q2 + BytesOut(k2) = 3*q + k
        /\ k > 0
    BY <1>2, <1>13, SMT DEF BitsLeft, BytesOut
  <2>2. ByteAt(w, BitsLeft(k) + 6) = payload[3*q + k]
    <3>1. Completes(payload, q, w, Byte(payload, 3*q + 1), Byte(payload, 3*q + 2), Byte(payload, 3*q + 3))
      BY <1>3, BytesComplete, Zenon
    <3>2. 3*q + k \in Nat \ {0}
      BY <1>13, SMT
    <3>3. Byte(payload, 3*q + k) = payload[3*q + k]
      BY <1>3, <1>4, <1>6, <3>2, BytesAreBytes, Zenon
    <3>4. Joined(w, Sextet(payload, q, k - 1), Sextet(payload, q, k))
      BY <1>7, <1>9, <1>11, <2>1, SMT DEF EndsIn, Joined
    <3>5. k = 1 \/ k = 2 \/ k = 3
      BY <1>13, SMT
    <3>6. CASE k = 1
      <4>1. BitsLeft(k) + 6 = 4 /\ k - 1 = 0
        BY <3>6, SMT DEF BitsLeft
      <4> QED BY <3>1, <3>3, <3>4, <3>6, <4>1, Zenon DEF Completes
    <3>7. CASE k = 2
      <4>1. BitsLeft(k) + 6 = 2 /\ k - 1 = 1
        BY <3>7, SMT DEF BitsLeft
      <4> QED BY <3>1, <3>3, <3>4, <3>7, <4>1, Zenon DEF Completes
    <3>8. CASE k = 3
      <4>1. BitsLeft(k) + 6 = 0 /\ k - 1 = 2
        BY <3>8, SMT DEF BitsLeft
      <4> QED BY <3>1, <3>3, <3>4, <3>8, <4>1, Zenon DEF Completes
    <3> QED BY <3>5, <3>6, <3>7, <3>8
  <2>3. decoder' = [val |-> w, valb |-> BitsLeft(k) - 2, out |-> Append(decoder.out, payload[3*q + k])]
    <3>1. (decoder.valb + 6) - 8 = BitsLeft(k) - 2 /\ decoder.valb + 6 >= 0
      BY <1>11, <2>1, SMT
    <3>2. Decoded(decoder, Head(text)) =
            [val |-> w, valb |-> (decoder.valb + 6) - 8,
             out |-> Append(decoder.out, ByteAt(w, decoder.valb + 6))]
      BY <1>9, <3>1, Zenon DEF Decoded
    <3>3. ByteAt(w, decoder.valb + 6) = payload[3*q + k]
      BY <1>11, <2>2, Zenon
    <3> QED BY <1>3, <3>1, <3>2, <3>3, Zenon
  <2>4. /\ decoder'.val = w /\ decoder'.valb = BitsLeft(k2)
        /\ decoder'.out = Append(decoder.out, payload[3*q + k])
    BY <2>1, <2>3, Zenon
  <2>5. PICK n \in Nat : n = 3*q + k - 1
    BY <1>13, SMT
  <2>6. payload[n + 1] \in Octets /\ n + 1 = 3*q + k
    <3>1. n + 1 = 3*q + k /\ n + 1 \in 1 .. l
      BY <1>6, <2>5, SMT
    <3> QED BY <1>3, <1>4, <3>1, ElementOfSeq, Zenon
  <2>7. /\ decoder.out \in Seq(Octets) /\ Len(decoder.out) = n
        /\ \A i \in 1 .. n : decoder.out[i] = payload[i]
    <3>1. Lesser(l, 3*q + BytesOut(k)) = n
      BY <1>6, <2>1, <2>5, SMT DEF Lesser
    <3> QED BY <1>4, <1>11, <3>1, Zenon DEF BytesTaken
  <2>8. PICK o : o = decoder.out
    BY Zenon
  <2>9. /\ Append(o, payload[n + 1]) \in Seq(Octets) /\ Len(Append(o, payload[n + 1])) = n + 1
        /\ \A i \in 1 .. n : Append(o, payload[n + 1])[i] = o[i]
        /\ Append(o, payload[n + 1])[n + 1] = payload[n + 1]
    <3>1. o \in Seq(Octets) /\ Len(o) = n
      BY <2>7, <2>8, Zenon
    <3> QED BY <2>6, <3>1, AppendProperties, SMT
  <2>10. BytesTaken(q2, k2)'
    <3>1. Lesser(l, 3*q2 + BytesOut(k2)) = n + 1
      BY <1>6, <2>1, <2>5, SMT DEF Lesser
    <3>2. decoder'.out = Append(o, payload[n + 1])
      BY <2>4, <2>6, <2>8, Zenon
    <3>3. \A i \in 1 .. n + 1 : decoder'.out[i] = payload[i]
      <4> SUFFICES ASSUME NEW i \in 1 .. n + 1 PROVE decoder'.out[i] = payload[i]
        OBVIOUS
      <4>1. i \in 1 .. n \/ i = n + 1
        BY SMT
      <4> QED BY <2>7, <2>8, <2>9, <3>2, <4>1, Zenon
    <3> QED BY <1>3, <1>4, <2>9, <3>1, <3>2, <3>3, Zenon DEF BytesTaken
  <2>11. WordIsThere(q2, k2)'
    <3>1. k2 > 0 => k2 - 1 = k /\ q2 = q
      BY <1>2, SMT
    <3> QED BY <1>3, <1>7, <1>10, <2>4, <3>1, Zenon DEF WordIsThere
  <2>12. decoder' \in Words
    <3>1. BitsLeft(k) - 2 \in Int
      BY <2>1, SMT
    <3>2. Append(decoder.out, payload[3*q + k]) \in Seq(Octets)
      BY <2>6, <2>8, <2>9, Zenon
    <3> QED BY <2>3, <3>1, <3>2, Zenon DEF Words
  <2> QED BY <1>3, <1>5, <2>10, <2>11, <2>12, Zenon DEF InlineInv, ReadAt
<1> QED BY <1>12, <1>13

(* The inductive invariant: the text is read from the front, the bytes it  *)
(* stands for so far are out, and the word holds the bits of the next one. *)
THEOREM InlineInvariant == InlineSpec => []InlineInv
<1>1. InlineInv /\ [InlineNext]_inlineVars => InlineInv'
  <2> SUFFICES ASSUME InlineInv, [InlineNext]_inlineVars PROVE InlineInv'
    OBVIOUS
  <2>1. CASE UNCHANGED inlineVars
    <3>1. payload' = payload /\ text' = text /\ decoder' = decoder
      BY <2>1 DEF inlineVars
    <3> QED BY <3>1 DEF InlineInv, ReadAt, LeftFrom, BytesTaken, WordIsThere
  <2> QED BY <2>1, SkipKeeps, DecodeKeeps DEF InlineNext
<1> QED BY <1>1, InlineStarts, PTL DEF InlineSpec

(* However long a frame and whatever its bytes, the decoder of the bridge  *)
(* gets back what the client encoded, for every word of 16 bits or more.   *)
THEOREM InlineArrives == InlineSpec => []InlineFramesArrive
<1>1. InlineInv => InlineFramesArrive
  <2> SUFFICES ASSUME InlineInv, text = <<>> PROVE decoder.out = payload
    BY DEF InlineFramesArrive
  <2>1. PICK q \in Nat, k \in 0 .. 3 : ReadAt(q, k)
    BY DEF InlineInv
  <2>2. payload \in Seq(Octets)
    BY PayloadsAreBytes DEF InlineInv
  <2>3. PICK l \in Nat : l = Len(payload)
    BY <2>2, LenProperties, Zenon
  <2>4. PICK c \in Nat : c = Chunks(payload)
    BY <2>2, ChunksBegun, Zenon
  <2>5. q = c /\ k = 0
    <3>1. Len(text) = 4 * c - (4*q + k)
      BY <2>1, <2>4, Zenon DEF ReadAt, LeftFrom
    <3>2. 4 * c - (4*q + k) = 0
      BY <3>1, EmptySeq, Zenon
    <3> QED BY <3>2, SMT
  <2>6. 3*q >= l
    <3>1. ~(3*q + 1 <= l)
      <4>1. ~(q < c)
        BY <2>5, SMT
      <4> QED BY <2>2, <2>3, <2>4, <4>1, ChunksBegun, Zenon
    <3> QED BY <3>1, SMT
  <2>7. Lesser(l, 3*q + BytesOut(k)) = l
    BY <2>5, <2>6, SMT DEF Lesser, BytesOut
  <2>8. /\ decoder.out \in Seq(Octets) /\ Len(decoder.out) = l
        /\ \A i \in 1 .. l : decoder.out[i] = payload[i]
    BY <2>1, <2>3, <2>7, Zenon DEF ReadAt, BytesTaken
  <2> QED BY <2>2, <2>3, <2>8, SeqEqual, Zenon
<1> QED BY <1>1, InlineInvariant, PTL
=============================================================================
