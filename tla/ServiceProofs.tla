---------------------------- MODULE ServiceProofs ----------------------------
(***************************************************************************)
(* Proofs about the two ends of the frame path: that a reader which got    *)
(* through attach_shared reads a finished header (FrameServices), and that *)
(* a receiver gets its frames in order (CaptureSource).                    *)
(***************************************************************************)
EXTENDS CaptureSource, FrameServices, SequenceTheorems, TLAPS

-----------------------------------------------------------------------------
(* The segment and its readers.                                            *)
Segments == [sized : BOOLEAN, fields : BOOLEAN, magic : BOOLEAN, newest : Nat]
PublisherPcs == {"down", "remove", "create", "size", "map", "fields", "magic",
                 "run", "unlink", "gone"}
ReaderPcs == {"down", "opened", "wait", "setup", "read"}

ServicesTyped == /\ link \in Publishers \cup {NoSegment}
                 /\ publisher \in [Publishers -> PublisherPcs]
                 /\ segment \in [Publishers -> Segments]
                 /\ reader \in [Readers -> ReaderPcs]
                 /\ mapped \in [Readers -> Publishers \cup {NoSegment}]

(* The magic is written last, and an attached reader has seen it.          *)
HeaderInOrder ==
  \A p \in Publishers :
    /\ publisher[p] \in {"map", "fields", "magic", "run", "unlink"} => segment[p].sized
    /\ publisher[p] \in {"magic", "run", "unlink"} => segment[p].fields
    /\ segment[p].magic => segment[p].fields
HasOpened ==
  \A r \in Readers :
    /\ reader[r] # "down" => mapped[r] \in Publishers
    /\ reader[r] \in {"wait", "setup", "read"} =>
         segment[mapped[r]].sized /\ segment[mapped[r]].magic

SInv == ServicesTyped /\ HeaderInOrder /\ HasOpened

LEMMA ServicesStart == ServicesInit => SInv
<1> SUFFICES ASSUME ServicesInit PROVE SInv
  OBVIOUS
<1>1. Raw \in Segments /\ ~Raw.magic
  BY DEF Raw, Segments
<1>2. ServicesTyped
  BY <1>1 DEF ServicesInit, ServicesTyped, PublisherPcs, ReaderPcs
<1>3. HeaderInOrder /\ HasOpened
  BY <1>1 DEF ServicesInit, HeaderInOrder, HasOpened
<1> QED
  BY <1>2, <1>3 DEF SInv

(* A publisher's step, with what it does to its segment.                   *)
LEMMA PublisherKeeps ==
  ASSUME SInv, NEW p \in Publishers, PublisherNext(p)
  PROVE  SInv'
<1>0. /\ ServicesTyped /\ HeaderInOrder /\ HasOpened
      /\ publisher \in [Publishers -> PublisherPcs] /\ segment \in [Publishers -> Segments]
      /\ segment[p] \in Segments
  BY DEF SInv, ServicesTyped
<1>1. UNCHANGED <<reader, mapped>>
  BY DEF PublisherNext, StartPublisher, RemoveSegment, CreateName, SetSize, MapSegment,
         WriteFields, WriteMagic, PublishFrame, EndOfStream, Unlink, KillPublisher,
         PublisherStep, readerVars
<1>2. link' \in Publishers \cup {NoSegment}
  BY <1>0 DEF ServicesTyped, PublisherNext, StartPublisher, RemoveSegment, CreateName,
         SetSize, MapSegment, WriteFields, WriteMagic, PublishFrame, EndOfStream, Unlink,
         KillPublisher
<1>3. ASSUME NEW to \in PublisherPcs, NEW seg \in Segments,
             publisher' = [publisher EXCEPT ![p] = to],
             segment' = [segment EXCEPT ![p] = seg],
             segment[p].sized => seg.sized, segment[p].magic => seg.magic,
             to \in {"map", "fields", "magic", "run", "unlink"} => seg.sized,
             to \in {"magic", "run", "unlink"} => seg.fields,
             seg.magic => seg.fields
      PROVE  SInv'
  <2>1. ServicesTyped'
    BY <1>0, <1>1, <1>2, <1>3 DEF ServicesTyped
  <2>2. HeaderInOrder'
    BY <1>0, <1>3 DEF HeaderInOrder
  <2>3. HasOpened'
    BY <1>0, <1>1, <1>3 DEF HasOpened
  <2> QED
    BY <2>1, <2>2, <2>3 DEF SInv
<1>4. ASSUME NEW to \in PublisherPcs,
             publisher' = [publisher EXCEPT ![p] = to], UNCHANGED segment,
             to \in {"map", "fields", "magic", "run", "unlink"} => segment[p].sized,
             to \in {"magic", "run", "unlink"} => segment[p].fields
      PROVE  SInv'
  <2>1. segment' = [segment EXCEPT ![p] = segment[p]]
    BY <1>0, <1>4
  <2>2. segment[p].magic => segment[p].fields
    BY <1>0 DEF HeaderInOrder
  <2>3. PICK seg \in Segments : seg = segment[p]
    BY <1>0
  <2> QED
    BY <1>3, <1>4, <2>1, <2>2, <2>3
<1>5. CASE SetSize(p) /\ segment' # segment
  <2>1. PICK seg : seg = [segment[p] EXCEPT !.sized = TRUE]
    OBVIOUS
  <2>2. /\ seg \in Segments /\ seg.sized /\ seg.magic = segment[p].magic
        /\ seg.fields = segment[p].fields
    BY <1>0, <2>1 DEF Segments
  <2>3. /\ publisher' = [publisher EXCEPT ![p] = "map"]
        /\ segment' = [segment EXCEPT ![p] = seg]
    BY <1>0, <1>5, <2>1 DEF SetSize, PublisherStep
  <2>4. "map" \in PublisherPcs
    BY DEF PublisherPcs
  <2> QED
    BY <1>0, <1>3, <2>2, <2>3, <2>4 DEF HeaderInOrder
<1>6. CASE WriteFields(p)
  <2>1. PICK seg : seg = [segment[p] EXCEPT !.fields = TRUE]
    OBVIOUS
  <2>2. /\ seg \in Segments /\ seg.fields /\ seg.magic = segment[p].magic
        /\ seg.sized = segment[p].sized
    BY <1>0, <2>1 DEF Segments
  <2>3. /\ publisher' = [publisher EXCEPT ![p] = "magic"] /\ publisher[p] = "fields"
        /\ segment' = [segment EXCEPT ![p] = seg]
    BY <1>0, <1>6, <2>1 DEF WriteFields, PublisherStep
  <2>4. "magic" \in PublisherPcs /\ segment[p].sized
    BY <1>0, <2>3 DEF PublisherPcs, HeaderInOrder
  <2> QED
    BY <1>0, <1>3, <2>2, <2>3, <2>4
<1>7. CASE WriteMagic(p)
  <2>1. PICK seg : seg = [segment[p] EXCEPT !.magic = TRUE]
    OBVIOUS
  <2>2. /\ seg \in Segments /\ seg.magic /\ seg.fields = segment[p].fields
        /\ seg.sized = segment[p].sized
    BY <1>0, <2>1 DEF Segments
  <2>3. /\ publisher' = [publisher EXCEPT ![p] = "run"] /\ publisher[p] = "magic"
        /\ segment' = [segment EXCEPT ![p] = seg]
    BY <1>0, <1>7, <2>1 DEF WriteMagic, PublisherStep
  <2>4. "run" \in PublisherPcs /\ segment[p].sized /\ segment[p].fields
    BY <1>0, <2>3 DEF PublisherPcs, HeaderInOrder
  <2> QED
    BY <1>0, <1>3, <2>2, <2>3, <2>4
<1>8. CASE PublishFrame(p)
  <2>1. PICK seg : seg = [segment[p] EXCEPT !.newest = @ + 1]
    OBVIOUS
  <2>2. /\ seg \in Segments /\ seg.magic = segment[p].magic
        /\ seg.fields = segment[p].fields /\ seg.sized = segment[p].sized
    BY <1>0, <2>1 DEF Segments
  <2>3. /\ publisher' = [publisher EXCEPT ![p] = "run"] /\ publisher[p] = "run"
        /\ segment' = [segment EXCEPT ![p] = seg]
    BY <1>0, <1>8, <2>1 DEF PublishFrame, PublisherStep
  <2>4. "run" \in PublisherPcs /\ segment[p].sized /\ segment[p].fields
    BY <1>0, <2>3 DEF PublisherPcs, HeaderInOrder
  <2> QED
    BY <1>0, <1>3, <2>2, <2>3, <2>4 DEF HeaderInOrder
<1>9. CASE UNCHANGED segment
  <2>1. PICK to \in PublisherPcs :
          /\ publisher' = [publisher EXCEPT ![p] = to]
          /\ to \in {"map", "fields", "magic", "run", "unlink"} => segment[p].sized
          /\ to \in {"magic", "run", "unlink"} => segment[p].fields
    <3>1. CASE StartPublisher(p) \/ RemoveSegment(p) \/ CreateName(p) \/ KillPublisher(p)
               \/ Unlink(p)
      BY <3>1 DEF StartPublisher, RemoveSegment, CreateName, KillPublisher, Unlink,
                  PublisherStep, PublisherPcs
    <3>2. CASE MapSegment(p) \/ EndOfStream(p)
      BY <1>0, <3>2 DEF MapSegment, EndOfStream, PublisherStep, PublisherPcs, HeaderInOrder
    <3>3. CASE SetSize(p)
      <4>1. CASE publisher' = [publisher EXCEPT ![p] = "gone"]
        BY <4>1 DEF PublisherPcs
      <4>2. CASE PublisherStep(p, "size", "map")
                 /\ segment' = [segment EXCEPT ![p].sized = TRUE]
        <5>1. segment[p].sized
          BY <1>0, <1>9, <4>2 DEF Segments
        <5> QED
          BY <4>2, <5>1 DEF PublisherStep, PublisherPcs
      <4> QED
        BY <3>3, <4>1, <4>2 DEF SetSize, PublisherStep
    <3>4. CASE WriteFields(p) \/ WriteMagic(p) \/ PublishFrame(p)
      <4>1. WriteFields(p) => segment[p].fields
        BY <1>0, <1>9 DEF WriteFields, Segments
      <4>2. /\ publisher[p] \in {"fields", "magic", "run"}
            /\ publisher[p] # "fields" \/ WriteFields(p)
            /\ \E to \in {"magic", "run"} : publisher' = [publisher EXCEPT ![p] = to]
        BY <3>4 DEF WriteFields, WriteMagic, PublishFrame, PublisherStep
      <4> QED
        BY <1>0, <4>1, <4>2 DEF HeaderInOrder, PublisherPcs
    <3> QED
      BY <3>1, <3>2, <3>3, <3>4 DEF PublisherNext
  <2> QED
    BY <1>4, <1>9, <2>1
<1> QED
  BY <1>5, <1>6, <1>7, <1>8, <1>9
     DEF PublisherNext, StartPublisher, RemoveSegment, CreateName, SetSize, MapSegment,
         EndOfStream, Unlink, KillPublisher

(* A reader's step leaves the publishers alone.                            *)
LEMMA ReaderKeeps ==
  ASSUME SInv, NEW r \in Readers, OpenSegment(r) \/ ReaderRuns(r) \/ TimeIsUp(r)
  PROVE  SInv'
<1>0. /\ ServicesTyped /\ HeaderInOrder /\ HasOpened
      /\ reader \in [Readers -> ReaderPcs] /\ mapped \in [Readers -> Publishers \cup {NoSegment}]
  BY DEF SInv, ServicesTyped
<1>1. UNCHANGED nameVars
  BY DEF ReaderRuns, OpenSegment, AttachOk, AttachFails, Jump, NoFrames, KeepFirst,
         SpawnEncoder, SpawnFails, RecorderLoop, MeasureFirst, BuildBackend, BuildFails,
         DetectorLoop, TakePending, TakeFrame, ThrottleFrame, QuietTimeout, TimeIsUp,
         EncoderDies, Leave, ReaderStep
<1>2. UNCHANGED <<link, publisher, segment>>
  BY <1>1 DEF nameVars
<1>3. HeaderInOrder'
  BY <1>0, <1>2 DEF HeaderInOrder
<1>4. ASSUME NEW to \in ReaderPcs, NEW seg \in Publishers \cup {NoSegment},
             reader' = [reader EXCEPT ![r] = to], mapped' = [mapped EXCEPT ![r] = seg],
             to # "down" => seg \in Publishers,
             to \in {"wait", "setup", "read"} => segment[seg].sized /\ segment[seg].magic
      PROVE  SInv'
  <2>1. ServicesTyped'
    BY <1>0, <1>2, <1>4 DEF ServicesTyped
  <2>2. HasOpened'
    BY <1>0, <1>2, <1>4 DEF HasOpened
  <2> QED
    BY <1>3, <2>1, <2>2 DEF SInv
<1>5. CASE OpenSegment(r)
  <2>1. link \in Publishers /\ "opened" \in ReaderPcs
    BY <1>0, <1>5 DEF OpenSegment, ServicesTyped, ReaderPcs
  <2> QED
    BY <1>4, <1>5, <2>1 DEF OpenSegment, ReaderStep
<1>6. ASSUME NEW from, NEW file, Leave(r, from, file)
      PROVE  SInv'
  <2>1. "down" \in ReaderPcs /\ NoSegment \in Publishers \cup {NoSegment}
    BY DEF ReaderPcs
  <2> QED
    BY <1>4, <1>6, <2>1 DEF Leave, ReaderStep
<1>7. ASSUME NEW to \in {"wait", "setup", "read"}, UNCHANGED mapped,
             reader[r] \in {"opened", "wait", "setup", "read"},
             reader' = [reader EXCEPT ![r] = to],
             reader[r] = "opened" => segment[mapped[r]].sized /\ segment[mapped[r]].magic
      PROVE  SInv'
  <2>1. mapped' = [mapped EXCEPT ![r] = mapped[r]]
    BY <1>0, <1>7
  <2>2. /\ mapped[r] \in Publishers
        /\ segment[mapped[r]].sized /\ segment[mapped[r]].magic
    BY <1>0, <1>7 DEF HasOpened
  <2>3. to \in ReaderPcs
    BY DEF ReaderPcs
  <2>4. PICK seg \in Publishers : seg = mapped[r]
    BY <2>2
  <2> QED
    BY <1>4, <1>7, <2>1, <2>2, <2>3, <2>4
<1>8. CASE UNCHANGED <<reader, mapped>>
  BY <1>0, <1>2, <1>3, <1>8 DEF SInv, ServicesTyped, HasOpened
<1>9. CASE AttachOk(r)
  <2>1. /\ reader[r] = "opened" /\ UNCHANGED mapped /\ "wait" \in {"wait", "setup", "read"}
        /\ reader' = [reader EXCEPT ![r] = "wait"]
        /\ segment[mapped[r]].sized /\ segment[mapped[r]].magic
    BY <1>9 DEF AttachOk, ReaderStep
  <2> QED
    BY <1>7, <2>1
<1>10. CASE \/ KeepFirst(r) \/ MeasureFirst(r) \/ SpawnEncoder(r) \/ BuildBackend(r)
            \/ TakePending(r) \/ TakeFrame(r) \/ ThrottleFrame(r)
  <2>1. PICK to \in {"setup", "read"} :
          /\ reader' = [reader EXCEPT ![r] = to] /\ UNCHANGED mapped
          /\ reader[r] \in {"wait", "setup", "read"}
    BY <1>10 DEF KeepFirst, MeasureFirst, SpawnEncoder, BuildBackend, TakePending, TakeFrame,
                ThrottleFrame, ReaderStep
  <2> QED
    BY <1>7, <2>1
<1>11. CASE \/ AttachFails(r) \/ NoFrames(r) \/ SpawnFails(r) \/ BuildFails(r)
            \/ QuietTimeout(r) \/ EncoderDies(r) \/ TimeIsUp(r)
  BY <1>6, <1>11 DEF AttachFails, NoFrames, SpawnFails, BuildFails, QuietTimeout,
                EncoderDies, TimeIsUp
<1>12. CASE Jump(r)
  BY <1>8, <1>12 DEF Jump
<1> QED
  BY <1>5, <1>9, <1>10, <1>11, <1>12 DEF ReaderRuns, RecorderLoop, DetectorLoop

(* Where the name points, who has it mapped, and the header written in     *)
(* order with the magic last (create_shared, attach_raw): the inductive    *)
(* invariant of the services.                                              *)
THEOREM ServicesInvariant == ServicesSpec => []SInv
<1>1. ServicesInit => SInv
  BY ServicesStart
<1>2. SInv /\ [ServicesNext]_servicesVars => SInv'
  <2> SUFFICES ASSUME SInv, [ServicesNext]_servicesVars PROVE SInv'
    OBVIOUS
  <2>1. CASE ServicesNext
    BY <2>1, PublisherKeeps, ReaderKeeps DEF ServicesNext
  <2>2. CASE UNCHANGED servicesVars
    BY <2>2 DEF servicesVars, nameVars, readerVars, SInv, ServicesTyped, HeaderInOrder,
                HasOpened
  <2> QED
    BY <2>1, <2>2
<1> QED
  BY <1>1, <1>2, PTL DEF ServicesSpec

(* A reader that got through attach_shared reads a finished header,        *)
(* whatever the publisher was doing when it attached, and however often    *)
(* the name moved on since (attach_raw, create_shared).                    *)
THEOREM ReadersSeeAHeader == ServicesSpec => []AttachedIsReady
<1>1. SInv => AttachedIsReady
  BY DEF SInv, HeaderInOrder, HasOpened, AttachedIsReady
<1> QED
  BY <1>1, ServicesInvariant, PTL

-----------------------------------------------------------------------------
(* The frames of a session, in a line: the last one received, then those   *)
(* in the channel. Each follows the one before it as DeliveredInOrder      *)
(* wants, and the next one to be sent will follow the last.                *)
Frames == [seq : Int, shot : Int]

Follows(k, n, a, b) ==
  IF k = "replay" THEN b.seq = (IF Endless /\ a.seq = n - 1 THEN 0 ELSE a.seq + 1)
  ELSE b.seq > a.seq /\ b.shot > a.shot

Before(g, c, i)  == IF i = 1 THEN g ELSE c[i - 1]
Newer(g, c)      == Before(g, c, Len(c) + 1)
InLine(k, n, g, c) == \A i \in 1..Len(c) : Follows(k, n, Before(g, c, i), c[i])

\* The next frame has number q; sh and f are the camera's shots.
Ahead(k, n, a, q, sh, f) ==
  IF k = "replay" THEN q <= n /\ (q = a.seq + 1 \/ (Endless /\ a.seq = n - 1 /\ q = 0))
  ELSE /\ a.seq < q
       /\ IF k = "synthetic" THEN a.shot < q
          ELSE a.shot < sh /\ \A i \in 1..Len(f) : a.shot < f[i]

CaptureTyped == /\ shot \in Nat /\ full \in Seq(Nat) /\ started \in Nat
                /\ open \in [Sessions -> BOOLEAN]
                /\ seq \in [Sessions -> Nat] /\ count \in [Sessions -> -1..MaxShots]
                /\ chan \in [Sessions -> Seq(Frames)] /\ got \in [Sessions -> Frames]
                /\ disk \in [0..(MaxShots - 1) -> Nat] /\ listed \in -1..MaxShots
                /\ take \in Nat /\ written \in -1..MaxShots
Rising(f, n) == \A i \in 1..Len(f) : /\ f[i] < n
                                     /\ \A j \in 1..Len(f) : i < j => f[i] < f[j]
Lines == \A s \in Sessions : open[s] =>
           /\ InLine(kind, count[s], got[s], chan[s])
           /\ Ahead(kind, count[s], Newer(got[s], chan[s]), seq[s], shot, full)
Fresh == \A s \in Sessions : s > started =>
           ~open[s] /\ seq[s] = 0 /\ chan[s] = <<>> /\ got[s] = Nothing
CInv == CaptureTyped /\ Rising(full, shot) /\ Lines /\ Fresh

(* Receiving takes the head of the line away, and the rest is in line.     *)
LEMMA LineHead ==
  ASSUME NEW k, NEW n, NEW g, NEW c \in Seq(Frames), c # <<>>, InLine(k, n, g, c)
  PROVE  /\ Follows(k, n, g, Head(c)) /\ InLine(k, n, Head(c), Tail(c))
         /\ Newer(Head(c), Tail(c)) = Newer(g, c)
<1>1. /\ Len(c) \in Nat /\ Len(c) > 0 /\ Head(c) = c[1]
      /\ Len(Tail(c)) = Len(c) - 1
      /\ \A i \in 1..Len(Tail(c)) : Tail(c)[i] = c[i + 1]
  OBVIOUS
<1>2. Follows(k, n, g, Head(c))
  BY <1>1 DEF InLine, Before
<1>3. ASSUME NEW i \in 1..Len(Tail(c))
      PROVE  Follows(k, n, Before(Head(c), Tail(c), i), Tail(c)[i])
  <2>1. i + 1 \in 1..Len(c) /\ Tail(c)[i] = c[i + 1] /\ i + 1 # 1 /\ (i + 1) - 1 = i
    BY <1>1
  <2>2. Before(Head(c), Tail(c), i) = c[i]
    <3>1. CASE i = 1
      BY <1>1, <3>1 DEF Before
    <3>2. CASE i # 1
      <4>1. i - 1 \in 1..Len(Tail(c)) /\ (i - 1) + 1 = i
        BY <1>1, <3>2
      <4> QED
        BY <1>1, <3>2, <4>1 DEF Before
    <3> QED
      BY <3>1, <3>2
  <2> QED
    BY <2>1, <2>2 DEF InLine, Before
<1>4. Newer(Head(c), Tail(c)) = Newer(g, c)
  <2>1. CASE Len(c) = 1
    BY <1>1, <2>1 DEF Newer, Before
  <2>2. CASE Len(c) # 1
    <3>1. /\ Len(Tail(c)) + 1 # 1 /\ Len(c) + 1 # 1
          /\ (Len(Tail(c)) + 1) - 1 = Len(Tail(c)) /\ (Len(c) + 1) - 1 = Len(c)
          /\ Len(Tail(c)) \in 1..Len(Tail(c)) /\ Len(Tail(c)) + 1 = Len(c)
      BY <1>1, <2>2
    <3> QED
      BY <1>1, <3>1 DEF Newer, Before
  <2> QED
    BY <2>1, <2>2
<1> QED
  BY <1>2, <1>3, <1>4 DEF InLine

(* A frame that follows the newest one may join the line.                  *)
LEMMA LineAppend ==
  ASSUME NEW k, NEW n, NEW g, NEW c \in Seq(Frames), NEW e \in Frames,
         InLine(k, n, g, c), Follows(k, n, Newer(g, c), e)
  PROVE  InLine(k, n, g, Append(c, e)) /\ Newer(g, Append(c, e)) = e
<1>1. /\ Len(c) \in Nat /\ Len(Append(c, e)) = Len(c) + 1 /\ Append(c, e)[Len(c) + 1] = e
      /\ \A i \in 1..Len(c) : Append(c, e)[i] = c[i]
  OBVIOUS
<1>2. ASSUME NEW i \in 1..(Len(c) + 1)
      PROVE  Follows(k, n, Before(g, Append(c, e), i), Append(c, e)[i])
  <2>1. Before(g, Append(c, e), i) = Before(g, c, i)
    <3>1. CASE i = 1
      BY <3>1 DEF Before
    <3>2. CASE i # 1
      <4>1. i - 1 \in 1..Len(c)
        BY <1>1, <3>2
      <4> QED
        BY <1>1, <3>2, <4>1 DEF Before
    <3> QED
      BY <3>1, <3>2
  <2>2. CASE i = Len(c) + 1
    BY <1>1, <2>1, <2>2 DEF Newer
  <2>3. CASE i # Len(c) + 1
    <3>1. i \in 1..Len(c)
      BY <1>1, <2>3
    <3> QED
      BY <1>1, <2>1, <3>1 DEF InLine
  <2> QED
    BY <2>2, <2>3
<1>3. Newer(g, Append(c, e)) = e
  <2>1. (Len(c) + 1) + 1 # 1 /\ ((Len(c) + 1) + 1) - 1 = Len(c) + 1
    BY <1>1
  <2> QED
    BY <1>1, <2>1 DEF Newer, Before
<1> QED
  BY <1>1, <1>2, <1>3 DEF InLine

(* The newest frame of a line is a frame.                                  *)
LEMMA NewerIsAFrame ==
  ASSUME NEW g \in Frames, NEW c \in Seq(Frames)
  PROVE  Newer(g, c) \in Frames
<1>1. CASE Len(c) = 0
  BY <1>1 DEF Newer, Before
<1>2. CASE Len(c) # 0
  <2>1. Len(c) \in 1..Len(c) /\ Len(c) + 1 # 1 /\ (Len(c) + 1) - 1 = Len(c)
    BY <1>2
  <2>2. c[Len(c)] \in Frames
    BY <2>1
  <2> QED
    BY <2>1, <2>2 DEF Newer, Before
<1> QED
  BY <1>1, <1>2

(* What is ahead of a frame stays ahead when the driver's buffers change:  *)
(* what they hold was there before, or was exposed since.                  *)
LEMMA StaysAhead ==
  ASSUME NEW k, NEW n, NEW a \in Frames, NEW q, NEW sh \in Nat, NEW sh2 \in Nat,
         NEW f \in Seq(Nat), NEW f2 \in Seq(Nat), sh2 >= sh, Ahead(k, n, a, q, sh, f),
         \A i \in 1..Len(f2) : f2[i] >= sh \/ \E j \in 1..Len(f) : f2[i] = f[j]
  PROVE  Ahead(k, n, a, q, sh2, f2)
<1>1. a.shot \in Int
  BY DEF Frames
<1>2. CASE k = "replay" \/ k = "synthetic"
  BY <1>2 DEF Ahead
<1>3. CASE k # "replay" /\ k # "synthetic"
  <2>1. a.seq < q /\ a.shot < sh /\ \A j \in 1..Len(f) : a.shot < f[j]
    BY <1>3 DEF Ahead
  <2>2. ASSUME NEW i \in 1..Len(f2) PROVE a.shot < f2[i]
    <3>1. f2[i] \in Nat
      OBVIOUS
    <3> QED
      BY <1>1, <2>1, <3>1, SMTT(30)
  <2>3. a.shot < sh2
    BY <1>1, <2>1
  <2> QED
    BY <1>3, <2>1, <2>2, <2>3 DEF Ahead
<1> QED
  BY <1>2, <1>3

(* One session's line and number change, the driver's buffers may.         *)
LEMMA LineStep ==
  ASSUME CInv, CaptureTyped', UNCHANGED <<kind, started, open, count>>, NEW s \in Sessions,
         NEW c \in Seq(Frames), NEW g \in Frames, NEW q \in Nat, s <= started,
         chan' = [chan EXCEPT ![s] = c], got' = [got EXCEPT ![s] = g],
         seq' = [seq EXCEPT ![s] = q],
         open[s] => /\ InLine(kind, count[s], g, c)
                    /\ Ahead(kind, count[s], Newer(g, c), q, shot', full'),
         Rising(full', shot'), shot' >= shot,
         \A i \in 1..Len(full') :
           full'[i] >= shot \/ \E j \in 1..Len(full) : full'[i] = full[j]
  PROVE  CInv'
<1>0. CaptureTyped /\ Lines /\ Fresh
  BY DEF CInv
<1>1. PICK sh \in Nat : sh = shot'
  BY DEF CaptureTyped
<1>2. PICK f \in Seq(Nat) : f = full'
  BY DEF CaptureTyped
<1>3. Fresh'
  <2> SUFFICES ASSUME NEW t \in Sessions, t > started
               PROVE  ~open[t] /\ seq'[t] = 0 /\ chan'[t] = <<>> /\ got'[t] = Nothing
    BY DEF Fresh
  <2>1. t # s
    BY <1>0 DEF CaptureTyped, Sessions
  <2> QED
    BY <1>0, <2>1 DEF CaptureTyped, Fresh
<1>4. ASSUME NEW t \in Sessions, open[t]
      PROVE  /\ InLine(kind, count[t], got'[t], chan'[t])
             /\ Ahead(kind, count[t], Newer(got'[t], chan'[t]), seq'[t], sh, f)
  <2>1. CASE t = s
    BY <1>0, <1>1, <1>2, <1>4, <2>1 DEF CaptureTyped
  <2>2. CASE t # s
    <3>1. got'[t] = got[t] /\ chan'[t] = chan[t] /\ seq'[t] = seq[t]
      BY <1>0, <2>2 DEF CaptureTyped
    <3>2. Newer(got[t], chan[t]) \in Frames
      BY <1>0, NewerIsAFrame DEF CaptureTyped
    <3>3. InLine(kind, count[t], got[t], chan[t])
      BY <1>0, <1>4 DEF Lines
    <3>4. Ahead(kind, count[t], Newer(got[t], chan[t]), seq[t], shot, full)
      BY <1>0, <1>4 DEF Lines
    <3>5. \A i \in 1..Len(f) : f[i] >= shot \/ \E j \in 1..Len(full) : f[i] = full[j]
      BY <1>2
    <3>6. shot \in Nat /\ full \in Seq(Nat) /\ sh >= shot
      BY <1>0, <1>1 DEF CaptureTyped
    <3>7. Ahead(kind, count[t], Newer(got[t], chan[t]), seq[t], sh, f)
      BY <3>2, <3>4, <3>5, <3>6, StaysAhead
    <3> QED
      BY <3>1, <3>3, <3>7
  <2> QED
    BY <2>1, <2>2
<1>5. ASSUME NEW t \in Sessions, open'[t]
      PROVE  /\ InLine(kind', count'[t], got'[t], chan'[t])
             /\ Ahead(kind', count'[t], Newer(got'[t], chan'[t]), seq'[t], shot', full')
  BY <1>1, <1>2, <1>4, <1>5
<1>6. Lines'
  BY <1>5 DEF Lines
<1>7. Rising(full, shot)'
  BY DEF Rising
<1> QED
  BY <1>3, <1>6, <1>7 DEF CInv

(* The driver's buffers change, or nothing the lines speak of.             *)
LEMMA DriverStep ==
  ASSUME CInv, UNCHANGED <<kind, sessionVars, diskVars>> \/
               UNCHANGED <<kind, started, open, count, chan, seq, got, diskVars>>,
         shot' \in Nat, full' \in Seq(Nat), Rising(full', shot'), shot' >= shot,
         \A i \in 1..Len(full') :
           full'[i] >= shot \/ \E j \in 1..Len(full) : full'[i] = full[j]
  PROVE  CInv'
<1>0. CaptureTyped /\ Lines /\ Fresh
  BY DEF CInv
<1>1. UNCHANGED <<kind, started, open, count, chan, seq, got, disk, listed, take, written>>
  BY DEF sessionVars, diskVars
<1>2. CaptureTyped'
  BY <1>0, <1>1 DEF CaptureTyped
<1>3. ASSUME NEW t \in Sessions, open[t]
      PROVE  /\ InLine(kind, count[t], got[t], chan[t])
             /\ Ahead(kind, count[t], Newer(got[t], chan[t]), seq[t], shot', full')
  <2>1. PICK sh \in Nat : sh = shot'
    OBVIOUS
  <2>2. PICK f \in Seq(Nat) : f = full'
    OBVIOUS
  <2>3. Newer(got[t], chan[t]) \in Frames
    BY <1>0, NewerIsAFrame DEF CaptureTyped
  <2>4. /\ InLine(kind, count[t], got[t], chan[t])
        /\ Ahead(kind, count[t], Newer(got[t], chan[t]), seq[t], shot, full)
    BY <1>0, <1>3 DEF Lines
  <2>5. /\ shot \in Nat /\ full \in Seq(Nat) /\ sh >= shot
        /\ \A i \in 1..Len(f) : f[i] >= shot \/ \E j \in 1..Len(full) : f[i] = full[j]
    BY <1>0, <2>1, <2>2 DEF CaptureTyped
  <2>6. Ahead(kind, count[t], Newer(got[t], chan[t]), seq[t], sh, f)
    BY <2>3, <2>4, <2>5, StaysAhead
  <2> QED
    BY <2>1, <2>2, <2>4, <2>6
<1>4. Lines'
  BY <1>1, <1>3 DEF Lines
<1>5. Fresh'
  BY <1>0, <1>1 DEF Fresh
<1>6. Rising(full, shot)'
  BY DEF Rising
<1> QED
  BY <1>2, <1>4, <1>5, <1>6 DEF CInv

(* Sending a frame the session is about to send, or dropping it: either    *)
(* way the next number is still ahead of the line.                         *)
LEMMA SendStep ==
  ASSUME CInv, UNCHANGED <<kind, started, open, count, got, diskVars>>,
         NEW s \in Sessions, open[s], NEW x \in Nat, NEW f \in Seq(Nat),
         seq' = [seq EXCEPT ![s] = seq[s] + 1],
         \/ chan' = [chan EXCEPT ![s] = Append(chan[s], [seq |-> seq[s], shot |-> x])]
         \/ chan' = chan /\ kind # "replay",
         shot' = shot, full' = f, Rising(f, shot),
         \A i \in 1..Len(f) : \E j \in 1..Len(full) : f[i] = full[j],
         kind = "replay" => seq[s] < count[s],
         kind = "synthetic" => x = seq[s],
         kind \notin {"replay", "synthetic"} =>
           \E j \in 1..Len(full) : x = full[j] /\ \A i \in 1..Len(f) : x < f[i]
  PROVE  CInv'
<1>0. /\ CaptureTyped /\ Lines /\ Fresh /\ Rising(full, shot)
      /\ seq \in [Sessions -> Nat] /\ chan \in [Sessions -> Seq(Frames)]
      /\ got \in [Sessions -> Frames] /\ shot \in Nat /\ full \in Seq(Nat)
      /\ count \in [Sessions -> -1..MaxShots] /\ started \in Nat
  BY DEF CInv, CaptureTyped
<1>1. PICK q \in Nat : q = seq[s]
  BY <1>0
<1>2. PICK n \in Int : n = count[s]
  BY <1>0
<1>3. PICK e \in Frames : e = [seq |-> q, shot |-> x]
  <2>1. q \in Int /\ x \in Int
    OBVIOUS
  <2> QED
    BY <2>1 DEF Frames
<1>4. e.seq = q /\ e.shot = x
  BY <1>3
<1>5. PICK a \in Frames : a = Newer(got[s], chan[s])
  BY <1>0, NewerIsAFrame
<1>6. a.seq \in Int /\ a.shot \in Int
  BY DEF Frames
<1>7. /\ InLine(kind, n, got[s], chan[s]) /\ Ahead(kind, n, a, q, shot, full)
  BY <1>0, <1>1, <1>2, <1>5 DEF Lines
<1>8. Follows(kind, n, a, e) /\ Ahead(kind, n, e, q + 1, shot, f)
  <2>1. CASE kind = "replay"
    BY <1>1, <1>2, <1>4, <1>6, <1>7, <2>1, SMTT(30) DEF Follows, Ahead
  <2>2. CASE kind = "synthetic"
    BY <1>1, <1>4, <1>6, <1>7, <2>2 DEF Follows, Ahead
  <2>3. CASE kind # "replay" /\ kind # "synthetic"
    <3>1. PICK j \in 1..Len(full) : x = full[j] /\ \A i \in 1..Len(f) : x < f[i]
      BY <2>3
    <3>2. a.shot < x /\ a.seq < q
      BY <1>7, <2>3, <3>1 DEF Ahead
    <3>3. x < shot
      BY <1>0, <3>1 DEF Rising
    <3>4. q < q + 1
      BY <1>1
    <3> QED
      BY <1>4, <2>3, <3>1, <3>2, <3>3, <3>4 DEF Follows, Ahead
  <2> QED
    BY <2>1, <2>2, <2>3
<1>9. kind # "replay" => Ahead(kind, n, a, q + 1, shot, f)
  <2>1. CASE kind = "synthetic"
    BY <1>1, <1>6, <1>7, <2>1 DEF Ahead
  <2>2. CASE kind # "replay" /\ kind # "synthetic"
    <3>1. a.seq < q + 1 /\ a.shot < shot
      BY <1>1, <1>6, <1>7, <2>2 DEF Ahead
    <3>2. ASSUME NEW i \in 1..Len(f) PROVE a.shot < f[i]
      BY <1>7, <2>2 DEF Ahead
    <3> QED
      BY <2>2, <3>1, <3>2 DEF Ahead
  <2> QED
    BY <2>1, <2>2
<1>10. got' = [got EXCEPT ![s] = got[s]] /\ seq' = [seq EXCEPT ![s] = q + 1]
  BY <1>0, <1>1
<1>11. s <= started
  BY <1>0 DEF Fresh, Sessions
<1>12. PICK g \in Frames : g = got[s]
  BY <1>0
<1>13. PICK old \in Seq(Frames) : old = chan[s]
  BY <1>0
<1>14. ASSUME NEW c \in Seq(Frames), chan' = [chan EXCEPT ![s] = c],
              InLine(kind, n, g, c), Ahead(kind, n, Newer(g, c), q + 1, shot, f)
       PROVE  CInv'
  <2>1. CaptureTyped'
    <3>0. q + 1 \in Nat
      OBVIOUS
    <3>1. seq' \in [Sessions -> Nat]
      BY <1>0, <1>10, <3>0
    <3>2. chan' \in [Sessions -> Seq(Frames)]
      BY <1>0, <1>14
    <3> QED
      BY <1>0, <3>1, <3>2 DEF CaptureTyped, diskVars
  <2>2. \A i \in 1..Len(full') : \E j \in 1..Len(full) : full'[i] = full[j]
    OBVIOUS
  <2>3. shot' >= shot /\ Rising(full', shot')
    BY <1>0
  <2>4. got' = [got EXCEPT ![s] = g] /\ q + 1 \in Nat
    <3>1. got' = [got EXCEPT ![s] = g]
      BY <1>10, <1>12
    <3>2. q + 1 \in Nat
      OBVIOUS
    <3> QED
      BY <3>1, <3>2
  <2>5. /\ InLine(kind, count[s], g, c)
        /\ Ahead(kind, count[s], Newer(g, c), q + 1, shot', full')
    BY <1>2, <1>14
  <2>6. UNCHANGED <<kind, started, open, count>> /\ seq' = [seq EXCEPT ![s] = q + 1]
    BY <1>10
  <2>7. \A i \in 1..Len(full') :
          full'[i] >= shot \/ \E j \in 1..Len(full) : full'[i] = full[j]
    BY <2>2
  <2> QED
    BY <1>11, <1>14, <2>1, <2>3, <2>4, <2>5, <2>6, <2>7, LineStep
<1>15. CASE chan' = [chan EXCEPT ![s] = Append(chan[s], [seq |-> seq[s], shot |-> x])]
  <2>1. Append(old, e) \in Seq(Frames) /\ chan' = [chan EXCEPT ![s] = Append(old, e)]
    BY <1>1, <1>3, <1>13, <1>15
  <2>2. InLine(kind, n, g, Append(old, e)) /\ Newer(g, Append(old, e)) = e
    BY <1>5, <1>7, <1>8, <1>12, <1>13, LineAppend
  <2> QED
    BY <1>8, <1>14, <2>1, <2>2
<1>16. CASE chan' = chan /\ kind # "replay"
  <2>1. chan' = [chan EXCEPT ![s] = old]
    BY <1>0, <1>13, <1>16
  <2> QED
    BY <1>5, <1>7, <1>9, <1>12, <1>13, <1>14, <1>16, <2>1
<1> QED
  BY <1>15, <1>16

(* The calls: start, stop, receive, drop.                                  *)
LEMMA CallsKeep ==
  ASSUME CInv, \/ StartDirect \/ StartV4l \/ StartSynthetic \/ StartReplay
               \/ StopThread \/ StopTask
               \/ \E s \in Sessions : Receive(s) \/ DropReceiver(s)
  PROVE  CInv'
<1>0. /\ CaptureTyped /\ Lines /\ Fresh /\ Rising(full, shot)
      /\ seq \in [Sessions -> Nat] /\ chan \in [Sessions -> Seq(Frames)]
      /\ got \in [Sessions -> Frames] /\ shot \in Nat /\ full \in Seq(Nat)
      /\ count \in [Sessions -> -1..MaxShots] /\ started \in Nat
      /\ open \in [Sessions -> BOOLEAN] /\ listed \in -1..MaxShots
  BY DEF CInv, CaptureTyped
<1>1. CASE StopThread \/ StopTask
  <2>1. UNCHANGED <<kind, shot, full, started, open, count, chan, seq, got, diskVars>>
    BY <1>1 DEF StopThread, StopTask, driverVars
  <2>2. /\ shot' \in Nat /\ full' \in Seq(Nat) /\ Rising(full', shot') /\ shot' >= shot
        /\ \A i \in 1..Len(full') :
             full'[i] >= shot \/ \E j \in 1..Len(full) : full'[i] = full[j]
    BY <1>0, <2>1
  <2>3. UNCHANGED <<kind, started, open, count, chan, seq, got, diskVars>>
    BY <2>1
  <2> QED
    BY <2>2, <2>3, DriverStep
<1>2. ASSUME NEW s \in Sessions, NEW at, Begin(s, at),
             kind = "replay" => listed >= 0
      PROVE  CInv'
  <2>1. /\ s = started + 1 /\ started' = s
        /\ open' = [open EXCEPT ![s] = TRUE] /\ count' = [count EXCEPT ![s] = listed]
        /\ UNCHANGED <<kind, shot, full, chan, seq, got, disk, listed, take, written>>
    BY <1>2 DEF Begin, driverVars, diskVars
  <2>2. CaptureTyped'
    <3>1. started' \in Nat /\ open' \in [Sessions -> BOOLEAN]
          /\ count' \in [Sessions -> -1..MaxShots]
      BY <1>0, <2>1, SMTT(30)
    <3> QED
      BY <1>0, <2>1, <3>1 DEF CaptureTyped
  <2>3. Fresh'
    BY <1>0, <2>1 DEF Fresh, Sessions
  <2>4. seq[s] = 0 /\ chan[s] = <<>> /\ got[s] = Nothing /\ s > started
    BY <1>0, <2>1 DEF Fresh
  <2>5. InLine(kind, listed, Nothing, <<>>) /\ Ahead(kind, listed, Newer(Nothing, <<>>), 0, shot, full)
    <3>1. Newer(Nothing, <<>>) = Nothing /\ Nothing.seq = -1 /\ Nothing.shot = -1
      BY DEF Newer, Before, Nothing
    <3>2. InLine(kind, listed, Nothing, <<>>)
      BY DEF InLine
    <3>3. ASSUME NEW i \in 1..Len(full) PROVE -1 < full[i]
      <4>1. full[i] \in Nat
        BY <1>0, SMTT(30)
      <4> QED
        BY <4>1
    <3>4. kind = "replay" => 0 <= listed
      BY <1>0, <1>2
    <3> QED
      BY <1>0, <3>1, <3>2, <3>3, <3>4, SMTT(30) DEF Ahead
  <2>6. ASSUME NEW t \in Sessions, open'[t]
        PROVE  /\ InLine(kind, count'[t], got[t], chan[t])
               /\ Ahead(kind, count'[t], Newer(got[t], chan[t]), seq[t], shot, full)
    <3>1. CASE t = s
      BY <1>0, <2>1, <2>4, <2>5, <3>1
    <3>2. CASE t # s
      <4>1. open[t] /\ count'[t] = count[t]
        BY <1>0, <2>1, <2>6, <3>2
      <4> QED
        BY <1>0, <4>1 DEF Lines
    <3> QED
      BY <3>1, <3>2
  <2>7. Lines'
    BY <2>1, <2>6 DEF Lines
  <2>8. Rising(full, shot)'
    BY <1>0, <2>1 DEF Rising
  <2> QED
    BY <2>2, <2>3, <2>7, <2>8 DEF CInv
<1>3. CASE StartDirect \/ StartV4l \/ StartSynthetic \/ StartReplay
  BY <1>2, <1>3 DEF StartDirect, StartV4l, StartSynthetic, StartReplay
<1>4. ASSUME NEW s \in Sessions, Receive(s)
      PROVE  CInv'
  <2>1. PICK c \in Seq(Frames) : c = chan[s]
    BY <1>0
  <2>2. /\ open[s] /\ c # <<>>
        /\ got' = [got EXCEPT ![s] = Head(c)] /\ chan' = [chan EXCEPT ![s] = Tail(c)]
        /\ UNCHANGED <<kind, shot, full, started, open, seq, count, disk, listed, take, written>>
    BY <1>0, <1>4, <2>1 DEF Receive, driverVars, diskVars
  <2>3. PICK g \in Frames : g = got[s]
    BY <1>0
  <2>4. InLine(kind, count[s], g, c) /\ Ahead(kind, count[s], Newer(g, c), seq[s], shot, full)
    BY <1>0, <2>1, <2>2, <2>3 DEF Lines
  <2>5. Head(c) \in Frames /\ Tail(c) \in Seq(Frames)
    BY <2>2
  <2>6. /\ InLine(kind, count[s], Head(c), Tail(c))
        /\ Newer(Head(c), Tail(c)) = Newer(g, c)
    BY <2>2, <2>4, LineHead
  <2>7. CaptureTyped'
    <3>1. got' \in [Sessions -> Frames] /\ chan' \in [Sessions -> Seq(Frames)]
      BY <1>0, <2>2, <2>5
    <3> QED
      BY <1>0, <2>2, <3>1 DEF CaptureTyped
  <2>8. PICK q \in Nat : q = seq[s]
    BY <1>0
  <2>9. seq' = [seq EXCEPT ![s] = q] /\ s <= started
    BY <1>0, <2>2, <2>8 DEF Fresh, Sessions
  <2>10. /\ Rising(full', shot') /\ shot' >= shot
         /\ \A i \in 1..Len(full') :
              full'[i] >= shot \/ \E j \in 1..Len(full) : full'[i] = full[j]
         /\ Ahead(kind, count[s], Newer(Head(c), Tail(c)), q, shot', full')
    BY <1>0, <2>2, <2>4, <2>6, <2>8
  <2>11. UNCHANGED <<kind, started, open, count>>
    BY <2>2
  <2> QED
    BY <2>2, <2>5, <2>6, <2>7, <2>9, <2>10, <2>11, LineStep
<1>5. ASSUME NEW s \in Sessions, DropReceiver(s)
      PROVE  CInv'
  <2>1. /\ open[s] /\ open' = [open EXCEPT ![s] = FALSE] /\ chan' = [chan EXCEPT ![s] = <<>>]
        /\ UNCHANGED <<kind, shot, full, started, seq, count, got, disk, listed, take, written>>
    BY <1>5 DEF DropReceiver, driverVars, diskVars
  <2>2. CaptureTyped'
    <3>0. <<>> \in Seq(Frames)
      OBVIOUS
    <3>1. open' \in [Sessions -> BOOLEAN] /\ chan' \in [Sessions -> Seq(Frames)]
      BY <1>0, <2>1, <3>0
    <3> QED
      BY <1>0, <2>1, <3>1 DEF CaptureTyped
  <2>3. Fresh'
    BY <1>0, <2>1 DEF Fresh
  <2>4. ASSUME NEW t \in Sessions, open'[t]
        PROVE  /\ InLine(kind, count[t], got[t], chan'[t])
               /\ Ahead(kind, count[t], Newer(got[t], chan'[t]), seq[t], shot, full)
    <3>1. open[t] /\ chan'[t] = chan[t]
      BY <1>0, <2>1, <2>4
    <3> QED
      BY <1>0, <3>1 DEF Lines
  <2>5. Lines'
    BY <2>1, <2>4 DEF Lines
  <2>6. Rising(full, shot)'
    BY <1>0, <2>1 DEF Rising
  <2> QED
    BY <2>2, <2>3, <2>5, <2>6 DEF CInv
<1> QED
  BY <1>1, <1>3, <1>4, <1>5

(* The camera fills a buffer with a later shot than every one before.      *)
LEMMA CameraKeeps ==
  ASSUME CInv, Camera
  PROVE  CInv'
<1>0. CaptureTyped /\ Rising(full, shot) /\ shot \in Nat /\ full \in Seq(Nat)
  BY DEF CInv, CaptureTyped
<1>1. UNCHANGED <<kind, sessionVars, diskVars>> /\ shot' \in Nat /\ shot' >= shot
  BY <1>0 DEF Camera, Shoot, Unplug
<1>2. CASE full' = full
  <2>1. Rising(full', shot')
    <3>1. PICK sh \in Nat : sh = shot'
      BY <1>1
    <3>2. ASSUME NEW i \in 1..Len(full) PROVE full[i] < sh
      <4>1. full[i] \in Nat /\ full[i] < shot
        BY <1>0 DEF Rising
      <4> QED
        BY <1>0, <1>1, <3>1, <4>1
    <3> QED
      BY <1>0, <1>2, <3>1, <3>2 DEF Rising
  <2> QED
    BY <1>0, <1>1, <1>2, <2>1, DriverStep
<1>3. CASE shot' = shot + 1 /\ full' = Append(full, shot)
  <2>1. /\ Len(full) \in Nat /\ full' \in Seq(Nat) /\ Len(full') = Len(full) + 1
        /\ full'[Len(full) + 1] = shot
        /\ \A i \in 1..Len(full) : full'[i] = full[i] /\ full[i] \in Nat
    BY <1>0, <1>3
  <2>2. Rising(full', shot')
    <3>1. ASSUME NEW i \in 1..Len(full')
          PROVE  full'[i] < shot + 1
      <4>1. i = Len(full) + 1 \/ i \in 1..Len(full)
        BY <2>1
      <4>2. full'[i] \in Nat /\ full'[i] <= shot
        BY <1>0, <2>1, <4>1, SMTT(30) DEF Rising
      <4> QED
        BY <1>0, <4>2
    <3>2. ASSUME NEW i \in 1..Len(full'), NEW j \in 1..Len(full'), i < j
          PROVE  full'[i] < full'[j]
      <4>1. i \in 1..Len(full) /\ (j = Len(full) + 1 \/ j \in 1..Len(full))
        BY <2>1, <3>2, SMTT(30)
      <4> QED
        BY <1>0, <2>1, <3>2, <4>1 DEF Rising
    <3> QED
      BY <1>3, <3>1, <3>2 DEF Rising
  <2>3. \A i \in 1..Len(full') :
          full'[i] >= shot \/ \E j \in 1..Len(full) : full'[i] = full[j]
    <3>1. ASSUME NEW i \in 1..Len(full')
          PROVE  full'[i] >= shot \/ \E j \in 1..Len(full) : full'[i] = full[j]
      <4>1. i = Len(full) + 1 \/ i \in 1..Len(full)
        BY <2>1
      <4> QED
        BY <1>0, <2>1, <4>1, SMTT(30)
    <3> QED
      BY <3>1
  <2> QED
    BY <1>1, <2>1, <2>2, <2>3, DriverStep
<1> QED
  BY <1>2, <1>3 DEF Camera, Shoot, Unplug

(* A capture thread: every step but a send leaves the lines alone.         *)
LEMMA ThreadKeeps ==
  ASSUME CInv, NEW s \in Sessions, Thread(s)
  PROVE  CInv'
<1>0. /\ CaptureTyped /\ Rising(full, shot) /\ shot \in Nat /\ full \in Seq(Nat)
      /\ kind \notin {"replay", "synthetic"}
  BY DEF CInv, CaptureTyped, Thread, DirectThread, V4lThread
<1>1. \/ OpenDevice(s) \/ RequestBuffers(s) \/ MapBuffers(s)
      \/ CheckStop(s) \/ Dequeue(s) \/ DequeueFails(s)
  BY DEF Thread, DirectThread, V4lThread, Steps
<1>2. ASSUME UNCHANGED <<kind, started, open, count, chan, seq, got, diskVars>>,
             shot' = shot, full' = full \/ full' = <<>>
      PROVE  CInv'
  <2>1. full' \in Seq(Nat) /\ (full' = full \/ Len(full') = 0)
    <3>1. <<>> \in Seq(Nat) /\ Len(<<>>) = 0
      OBVIOUS
    <3> QED
      BY <1>0, <1>2, <3>1, Zenon
  <2>2. Rising(full', shot')
    BY <1>0, <1>2, <2>1 DEF Rising
  <2>3. /\ shot' \in Nat /\ shot' >= shot
        /\ \A i \in 1..Len(full') :
             full'[i] >= shot \/ \E j \in 1..Len(full) : full'[i] = full[j]
    BY <1>0, <1>2, <2>1
  <2> QED
    BY <1>2, <2>1, <2>2, <2>3, DriverStep
<1>3. CASE \/ OpenDevice(s) \/ RequestBuffers(s) \/ MapBuffers(s)
           \/ CheckStop(s) \/ DequeueFails(s) \/ (Dequeue(s) /\ ~open[s])
  BY <1>2, <1>3 DEF OpenDevice, RequestBuffers, MapBuffers, CheckStop, DequeueFails, Dequeue,
                    EndStream, Goto, driverVars
<1>4. CASE Dequeue(s) /\ open[s]
  <2>1. /\ full # <<>> /\ full' = Tail(full) /\ shot' = shot
        /\ TrySend(s, [seq |-> seq[s], shot |-> Head(full)])
        /\ UNCHANGED <<kind, started, open, count, got, diskVars>>
    BY <1>4 DEF Dequeue, Goto
  <2>2. /\ Len(full) \in Nat /\ Len(full) > 0 /\ Head(full) = full[1] /\ full[1] \in Nat
        /\ Tail(full) \in Seq(Nat) /\ Len(Tail(full)) = Len(full) - 1
        /\ \A i \in 1..Len(Tail(full)) : Tail(full)[i] = full[i + 1] /\ i + 1 \in 1..Len(full)
    BY <1>0, <2>1
  <2>3. PICK x \in Nat : x = Head(full)
    BY <2>2
  <2>4. PICK f \in Seq(Nat) : f = Tail(full)
    BY <2>2
  <2>5. seq' = [seq EXCEPT ![s] = seq[s] + 1]
    BY <2>1 DEF TrySend
  <2>6. \/ chan' = [chan EXCEPT ![s] = Append(chan[s], [seq |-> seq[s], shot |-> x])]
        \/ chan' = chan /\ kind # "replay"
    BY <1>0, <2>1, <2>3 DEF TrySend
  <2>7. \A i \in 1..Len(f) : \E j \in 1..Len(full) : f[i] = full[j]
    BY <2>2, <2>4
  <2>8. \A i \in 1..Len(f) : x < f[i]
    <3>1. ASSUME NEW i \in 1..Len(f) PROVE x < f[i]
      <4>1. i + 1 \in 1..Len(full) /\ f[i] = full[i + 1] /\ 1 < i + 1 /\ 1 \in 1..Len(full)
        BY <2>2, <2>4
      <4> QED
        BY <1>0, <2>2, <2>3, <4>1 DEF Rising
    <3> QED
      BY <3>1
  <2>9. Rising(f, shot)
    <3>1. ASSUME NEW i \in 1..Len(f) PROVE f[i] < shot
      BY <1>0, <2>2, <2>4 DEF Rising
    <3>2. ASSUME NEW i \in 1..Len(f), NEW j \in 1..Len(f), i < j PROVE f[i] < f[j]
      <4>1. /\ i + 1 \in 1..Len(full) /\ j + 1 \in 1..Len(full) /\ i + 1 < j + 1
            /\ f[i] = full[i + 1] /\ f[j] = full[j + 1]
        BY <2>2, <2>4, <3>2
      <4> QED
        BY <1>0, <4>1 DEF Rising
    <3> QED
      BY <3>1, <3>2 DEF Rising
  <2>10. \E j \in 1..Len(full) : x = full[j] /\ \A i \in 1..Len(f) : x < f[i]
    <3>1. 1 \in 1..Len(full) /\ x = full[1]
      BY <2>2, <2>3
    <3> QED
      BY <2>8, <3>1
  <2>11. /\ UNCHANGED <<kind, started, open, count, got, diskVars>>
         /\ shot' = shot /\ full' = f
    BY <2>1, <2>4
  <2>12. /\ kind = "replay" => seq[s] < count[s]
         /\ kind = "synthetic" => x = seq[s]
         /\ kind \notin {"replay", "synthetic"} =>
              \E j \in 1..Len(full) : x = full[j] /\ \A i \in 1..Len(f) : x < f[i]
    BY <1>0, <2>10
  <2> QED
    BY <1>4, <2>5, <2>6, <2>7, <2>9, <2>11, <2>12, SendStep
<1> QED
  BY <1>1, <1>3, <1>4

(* The tasks of the synthetic and of the replay source.                    *)
LEMMA TasksKeep ==
  ASSUME CInv, NEW s \in Sessions, Task(s)
  PROVE  CInv'
<1>0. /\ CaptureTyped /\ Lines /\ Fresh /\ Rising(full, shot)
      /\ seq \in [Sessions -> Nat] /\ chan \in [Sessions -> Seq(Frames)]
      /\ got \in [Sessions -> Frames] /\ shot \in Nat /\ full \in Seq(Nat)
      /\ count \in [Sessions -> -1..MaxShots] /\ started \in Nat
      /\ disk \in [0..(MaxShots - 1) -> Nat] /\ MaxShots \in Nat
  BY CaptureAssumption DEF CInv, CaptureTyped
<1>1. /\ UNCHANGED <<kind, shot, full, started, open, count, got, disk, listed, take, written>>
      /\ shot' = shot /\ full' = full /\ UNCHANGED diskVars
  BY DEF Task, Render, SendFile, SkipFile, EndOfRecording, TaskStep, Goto, driverVars, diskVars
<1>2. UNCHANGED <<kind, started, open, count, got, diskVars>>
  BY <1>1
<1>3. /\ Rising(full', shot') /\ shot' \in Nat /\ full' \in Seq(Nat) /\ shot' >= shot
      /\ \A i \in 1..Len(full') :
           full'[i] >= shot \/ \E j \in 1..Len(full) : full'[i] = full[j]
  BY <1>0, <1>1
<1>4. ASSUME chan' = chan, seq' = seq
      PROVE  CInv'
  <2>1. UNCHANGED <<kind, started, open, count, chan, seq, got, diskVars>>
    BY <1>1, <1>4
  <2> QED
    BY <1>3, <2>1, DriverStep
<1>5. CASE Render(s) /\ open[s]
  <2>1. kind = "synthetic" /\ TrySend(s, [seq |-> seq[s], shot |-> seq[s]])
    BY <1>5 DEF Render, TaskStep
  <2>2. PICK x \in Nat : x = seq[s]
    BY <1>0
  <2>3. seq' = [seq EXCEPT ![s] = seq[s] + 1]
    BY <2>1 DEF TrySend
  <2>4. \/ chan' = [chan EXCEPT ![s] = Append(chan[s], [seq |-> seq[s], shot |-> x])]
        \/ chan' = chan /\ kind # "replay"
    BY <1>0, <2>1, <2>2 DEF TrySend
  <2>5. \A i \in 1..Len(full) : \E j \in 1..Len(full) : full[i] = full[j]
    OBVIOUS
  <2>6. /\ kind = "replay" => seq[s] < count[s]
        /\ kind = "synthetic" => x = seq[s]
        /\ kind \notin {"replay", "synthetic"} =>
             \E j \in 1..Len(full) : x = full[j] /\ \A i \in 1..Len(full) : x < full[i]
    BY <2>1, <2>2
  <2> QED
    BY <1>0, <1>1, <1>2, <1>5, <2>3, <2>4, <2>5, <2>6, SendStep
<1>6. CASE SendFile(s) /\ open[s]
  <2>1. /\ kind = "replay" /\ seq[s] < count[s]
        /\ chan' = [chan EXCEPT ![s] = Append(chan[s], [seq |-> seq[s], shot |-> disk[seq[s]]])]
        /\ seq' = [seq EXCEPT ![s] = seq[s] + 1]
    BY <1>0, <1>6 DEF SendFile, TaskStep
  <2>2. seq[s] \in 0..(MaxShots - 1)
    <3>1. seq[s] \in Nat /\ count[s] \in -1..MaxShots
      BY <1>0
    <3> QED
      BY <1>0, <2>1, <3>1
  <2>3. PICK x \in Nat : x = disk[seq[s]]
    BY <1>0, <2>2
  <2>4. \/ chan' = [chan EXCEPT ![s] = Append(chan[s], [seq |-> seq[s], shot |-> x])]
        \/ chan' = chan /\ kind # "replay"
    BY <2>1, <2>3
  <2>5. \A i \in 1..Len(full) : \E j \in 1..Len(full) : full[i] = full[j]
    OBVIOUS
  <2>6. /\ kind = "replay" => seq[s] < count[s]
        /\ kind = "synthetic" => x = seq[s]
        /\ kind \notin {"replay", "synthetic"} =>
             \E j \in 1..Len(full) : x = full[j] /\ \A i \in 1..Len(full) : x < full[i]
    BY <2>1
  <2>7. seq' = [seq EXCEPT ![s] = seq[s] + 1] /\ Rising(full, shot)
    BY <1>0, <2>1
  <2> QED
    BY <1>0, <1>1, <1>2, <1>6, <2>4, <2>5, <2>6, <2>7, SendStep
<1>7. CASE EndOfRecording(s) /\ seq' = [seq EXCEPT ![s] = 0] /\ chan' = chan /\ Endless
           /\ kind = "replay" /\ count[s] > 0 /\ seq[s] >= count[s]
  <2>1. PICK q \in Nat, n \in Int : q = seq[s] /\ n = count[s]
    BY <1>0
  <2>2. PICK g \in Frames, c \in Seq(Frames) : g = got[s] /\ c = chan[s]
    BY <1>0
  <2>3. got' = [got EXCEPT ![s] = g] /\ chan' = [chan EXCEPT ![s] = c]
    BY <1>0, <1>1, <1>7, <2>2
  <2>4. CaptureTyped'
    <3>1. seq' \in [Sessions -> Nat] /\ chan' \in [Sessions -> Seq(Frames)]
      BY <1>0, <1>7
    <3> QED
      BY <1>0, <1>1, <3>1 DEF CaptureTyped
  <2>5. CASE s > started
    <3>1. seq[s] = 0
      BY <1>0, <2>5 DEF Fresh
    <3>2. seq' = seq
      BY <1>0, <1>7, <3>1
    <3> QED
      BY <1>4, <1>7, <3>2
  <2>6. CASE s <= started
    <3>1. ASSUME open[s]
          PROVE  /\ InLine(kind, count[s], g, c)
                 /\ Ahead(kind, count[s], Newer(g, c), 0, shot', full')
      <4>1. InLine(kind, n, g, c) /\ Ahead(kind, n, Newer(g, c), q, shot, full)
        BY <1>0, <2>1, <2>2, <3>1 DEF Lines
      <4>2. PICK a \in Frames : a = Newer(g, c)
        BY NewerIsAFrame
      <4>3. a.seq \in Int
        BY DEF Frames
      <4>4. q <= n /\ (q = a.seq + 1 \/ (a.seq = n - 1 /\ q = 0)) /\ q >= n /\ n > 0
        BY <1>7, <2>1, <4>1, <4>2 DEF Ahead
      <4>5. a.seq = n - 1 /\ 0 <= n
        BY <4>3, <4>4
      <4>6. Ahead(kind, n, a, 0, shot', full')
        BY <1>7, <4>5 DEF Ahead
      <4> QED
        BY <2>1, <4>1, <4>2, <4>6
    <3>2. UNCHANGED <<kind, started, open, count>> /\ 0 \in Nat
      BY <1>1
    <3>3. seq' = [seq EXCEPT ![s] = 0]
      BY <1>7
    <3> QED
      BY <1>3, <2>3, <2>4, <2>6, <3>1, <3>2, <3>3, LineStep
  <2>7. s > started \/ s <= started
    BY <1>0 DEF Sessions
  <2> QED
    BY <2>5, <2>6, <2>7
<1>8. CASE chan' = chan /\ seq' = seq
  BY <1>4, <1>8
<1> QED
  BY <1>5, <1>6, <1>7, <1>8 DEF Task, Render, SendFile, SkipFile, EndOfRecording, TaskStep

(* Making a recording changes the directory, not what was read from it.    *)
LEMMA RecordingKeeps ==
  ASSUME CInv, CreateRecording \/ AppendFrame \/ Finalize
  PROVE  CInv'
<1>0. CaptureTyped /\ Lines /\ Fresh /\ Rising(full, shot) /\ MaxShots \in Nat
  BY CaptureAssumption DEF CInv
<1>1. UNCHANGED <<kind, shot, full, started, open, count, chan, seq, got>>
  BY DEF CreateRecording, AppendFrame, Finalize, driverVars, sessionVars
<1>2. /\ disk' \in [0..(MaxShots - 1) -> Nat] /\ listed' \in -1..MaxShots
      /\ take' \in Nat /\ written' \in -1..MaxShots
  <2>1. /\ disk \in [0..(MaxShots - 1) -> Nat] /\ listed \in -1..MaxShots
        /\ take \in Nat /\ written \in -1..MaxShots
    BY <1>0 DEF CaptureTyped
  <2>2. CASE CreateRecording
    BY <1>0, <2>1, <2>2 DEF CreateRecording
  <2>3. CASE AppendFrame
    <3>1. /\ written \in 0..(MaxShots - 1) /\ disk' = [disk EXCEPT ![written] = take]
          /\ listed' = listed /\ take' = take /\ written' = written + 1
      BY <2>3 DEF AppendFrame
    <3>2. written + 1 \in -1..MaxShots
      BY <1>0, <3>1
    <3>3. disk' \in [0..(MaxShots - 1) -> Nat]
      BY <2>1, <3>1
    <3> QED
      BY <2>1, <3>1, <3>2, <3>3
  <2>4. CASE Finalize
    BY <1>0, <2>1, <2>4 DEF Finalize
  <2> QED
    BY <2>2, <2>3, <2>4
<1>3. CaptureTyped'
  BY <1>0, <1>1, <1>2 DEF CaptureTyped
<1>4. Lines' /\ Fresh' /\ Rising(full, shot)'
  BY <1>0, <1>1 DEF Lines, Fresh, Rising
<1> QED
  BY <1>3, <1>4 DEF CInv

(* Every session's frames are in a line, the driver's buffers in the order *)
(* of exposure, and what a session sends next is ahead of its line: the    *)
(* inductive invariant of the sources.                                     *)
THEOREM CaptureInvariant == CaptureSpec => []CInv
<1>1. CaptureInit => CInv
  <2> SUFFICES ASSUME CaptureInit PROVE CInv
    OBVIOUS
  <2>1. /\ <<>> \in Seq(Nat) /\ <<>> \in Seq(Frames) /\ Len(<<>>) = 0
        /\ -1 \in Int /\ 0 \in -1..MaxShots /\ -1 \in -1..MaxShots
    BY CaptureAssumption
  <2>2. Nothing \in Frames
    BY <2>1 DEF Nothing, Frames
  <2>3. /\ chan \in [Sessions -> Seq(Frames)] /\ got \in [Sessions -> Frames]
        /\ full \in Seq(Nat)
    BY <2>1, <2>2 DEF CaptureInit
  <2>4. count \in [Sessions -> -1..MaxShots] /\ listed \in -1..MaxShots /\ written \in -1..MaxShots
    BY <2>1 DEF CaptureInit
  <2>5. CaptureTyped
    BY <2>3, <2>4 DEF CaptureInit, CaptureTyped, NoFile
  <2>6. Rising(full, shot) /\ Lines /\ Fresh
    BY <2>1 DEF CaptureInit, Rising, Lines, Fresh
  <2> QED
    BY <2>5, <2>6 DEF CInv
<1>2. CInv /\ [CaptureNext]_captureVars => CInv'
  <2> SUFFICES ASSUME CInv, [CaptureNext]_captureVars PROVE CInv'
    OBVIOUS
  <2>1. CASE CaptureNext
    BY <2>1, CallsKeep, CameraKeeps, ThreadKeeps, TasksKeep, RecordingKeeps DEF CaptureNext
  <2>2. CASE UNCHANGED captureVars
    BY <2>2 DEF captureVars, driverVars, sessionVars, diskVars, CInv, CaptureTyped, Rising,
                Lines, Fresh
  <2> QED
    BY <2>1, <2>2
<1> QED
  BY <1>1, <1>2, PTL DEF CaptureSpec

(* A receiver gets its frames in the order they were exposed, none twice,  *)
(* and a replay without a gap, however sessions of one source overlap      *)
(* (V4l2DirectSource, V4l2Source, SyntheticSource, ReplaySource).          *)
THEOREM ReceiversGetFramesInOrder == CaptureSpec => DeliveredInOrder
<1>1. ASSUME CInv, [CaptureNext]_captureVars, NEW s \in Sessions, got'[s] # got[s]
      PROVE  IF kind = "replay"
             THEN got'[s].seq = IF Endless /\ got[s].seq = count[s] - 1
                                THEN 0 ELSE got[s].seq + 1
             ELSE got'[s].seq > got[s].seq /\ got'[s].shot > got[s].shot
  <2>0. got \in [Sessions -> Frames] /\ chan \in [Sessions -> Seq(Frames)] /\ Lines
    BY <1>1 DEF CInv, CaptureTyped
  <2>1. PICK t \in Sessions : Receive(t)
    <3>1. got' # got
      BY <1>1
    <3>2. ~(StartDirect \/ StartV4l \/ StartSynthetic \/ StartReplay)
      BY <3>1, Zenon DEF StartDirect, StartV4l, StartSynthetic, StartReplay, Begin
    <3>3. ~(StopThread \/ StopTask \/ CreateRecording \/ AppendFrame \/ Finalize \/ Camera)
      BY <3>1, Zenon DEF StopThread, StopTask, CreateRecording, AppendFrame, Finalize, Camera,
                         Shoot, Unplug, sessionVars
    <3>4. \A t \in Sessions : ~(DropReceiver(t) \/ Thread(t) \/ Task(t))
      <4> SUFFICES ASSUME NEW t \in Sessions PROVE ~(DropReceiver(t) \/ Thread(t) \/ Task(t))
        OBVIOUS
      <4>1. \A pc : ~Goto(t, pc)
        BY <3>1, Zenon DEF Goto
      <4>2. ~Thread(t)
        BY <4>1, Zenon DEF Thread, DirectThread, V4lThread, Steps, OpenDevice, RequestBuffers,
                           MapBuffers, CheckStop, Dequeue, DequeueFails, EndStream
      <4>3. ~Task(t)
        BY <4>1, Zenon DEF Task, Render, SendFile, SkipFile, EndOfRecording
      <4>4. ~DropReceiver(t)
        BY <3>1, Zenon DEF DropReceiver
      <4> QED BY <4>2, <4>3, <4>4, Zenon
    <3>5. CaptureNext
      BY <1>1, <3>1 DEF captureVars, sessionVars
    <3> QED BY <3>2, <3>3, <3>4, <3>5, Zenon DEF CaptureNext
  <2>2. t = s /\ open[s] /\ chan[s] # <<>> /\ got'[s] = Head(chan[s])
    BY <1>1, <2>0, <2>1 DEF Receive
  <2>3. InLine(kind, count[s], got[s], chan[s])
    BY <2>0, <2>2 DEF Lines
  <2>4. Follows(kind, count[s], got[s], Head(chan[s]))
    BY <2>0, <2>2, <2>3, LineHead
  <2> QED
    BY <2>2, <2>4 DEF Follows
<1>2. CInv /\ [CaptureNext]_captureVars =>
        [\A s \in Sessions : got'[s] # got[s] =>
           IF kind = "replay"
           THEN got'[s].seq = IF Endless /\ got[s].seq = count[s] - 1
                              THEN 0 ELSE got[s].seq + 1
           ELSE got'[s].seq > got[s].seq /\ got'[s].shot > got[s].shot]_captureVars
  BY <1>1
<1> QED
  BY <1>2, CaptureInvariant, PTL DEF CaptureSpec, DeliveredInOrder
=============================================================================
