---------------------------- MODULE FrameLayout -----------------------------
(***************************************************************************)
(* Where the frames of a ring lie (shmem-buffer: layout.rs, and Region of  *)
(* ring.rs): a header, one record per slot, then one picture per slot. A   *)
(* producer maps a segment of the length its configuration asks for; a     *)
(* reader maps whatever the name points at, at the length of that file,    *)
(* and takes the numbers from the header it finds there. Every slot and    *)
(* every picture is reached by unchecked pointers from these numbers.      *)
(*                                                                         *)
(* The integers of the code are bounded by Word, their products by Wide.   *)
(***************************************************************************)
EXTENDS Integers

CONSTANTS
  HeaderSize,     \* size_of::<BufferHeader>(), 64
  SlotSize,       \* size_of::<SlotMeta>(), 64
  Word, Wide,     \* 2^32 and 2^64, the bounds of u32 and of u64
  MaxCapacity,    \* 4096
  MaxSegment,     \* 256 MiB
  Sizes,          \* bound of the model on widths, heights and capacities
  Lengths         \* bound of the model on the lengths of other files

ASSUME LayoutAssumption ==
  /\ HeaderSize \in Nat \ {0} /\ SlotSize \in Nat /\ Word \in Nat /\ Wide \in Nat
  /\ MaxCapacity \in Nat /\ MaxSegment \in Nat
  /\ Sizes \subseteq 0 .. (Word - 1) /\ Lengths \subseteq Nat

Formats == {"nv12", "rgb24"}

VARIABLES
  file,  \* what the name points at: its length and its header, or NoFile
  ring,  \* the region of the producer, or Unmapped
  view   \* the region of a reader, or Unmapped

layoutVars == <<file, ring, view>>

\* "picture" is what the pictures written into a segment take, 0 where
\* another program wrote them; no code keeps it.
NoFile   == [len |-> 0, header |-> FALSE, capacity |-> 0, frameSize |-> 0, picture |-> 0]
Unmapped == [backing |-> "none", len |-> 0, capacity |-> 0, frameSize |-> 0, picture |-> 0]

-----------------------------------------------------------------------------
(* The arithmetic of layout.rs.                                            *)

\* The bytes a picture takes, as people count them.
PictureBytes(format, w, h) == IF format = "nv12" THEN (w * h * 3) \div 2 ELSE w * h * 3

\* Mutant: the result is cut to u32 ("as u32") where it is checked.
HasFrameSizeCut(format, w, h) ==
  /\ w # 0 /\ h # 0
  /\ format = "nv12" => w % 2 = 0 /\ h % 2 = 0
  /\ w * h * 3 < Wide

\* Whether frame_size gives an answer: no side is 0, NV12 has even ones, and
\* checked_mul and try_from find the product and the result in range.
HasFrameSize(format, w, h) ==
  /\ w # 0 /\ h # 0
  /\ format = "nv12" => w % 2 = 0 /\ h % 2 = 0
  /\ w * h * 3 < Wide
  /\ PictureBytes(format, w, h) < Word

FrameSizeOf(format, w, h) == PictureBytes(format, w, h) % Word

DataAreaOffset(capacity) == HeaderSize + capacity * SlotSize
SegmentSize(capacity, size) == DataAreaOffset(capacity) + capacity * size

\* Where Region's pointers of slot i begin: slot, data_ptr.
SlotAt(i) == HeaderSize + i * SlotSize
DataAt(region, i) == DataAreaOffset(region.capacity) + i * region.frameSize

-----------------------------------------------------------------------------
(* Producers and readers.                                                  *)

LayoutInit == file = NoFile /\ ring = Unmapped /\ view = Unmapped

CapacityOk(capacity) == 1 <= capacity /\ capacity <= MaxCapacity

\* RingConfig::validate.
Validates(capacity, format, w, h) ==
  /\ CapacityOk(capacity)
  /\ HasFrameSize(format, w, h)
  /\ SegmentSize(capacity, FrameSizeOf(format, w, h)) <= MaxSegment

\* Region, as init_raw makes it.
Configured(backing, capacity, format, w, h) ==
  LET size == FrameSizeOf(format, w, h) IN
  [backing |-> backing, len |-> SegmentSize(capacity, size), capacity |-> capacity,
   frameSize |-> size, picture |-> PictureBytes(format, w, h)]

\* create_shared: O_EXCL, ftruncate to the size of the segment, mmap,
\* init_raw. The order of these steps is in FrameServices.
CreateShared(capacity, format, w, h) ==
  /\ ring = Unmapped /\ file = NoFile
  /\ Validates(capacity, format, w, h)
  /\ ring' = Configured("created", capacity, format, w, h)
  /\ file' = [len |-> ring'.len, header |-> TRUE, capacity |-> ring'.capacity,
              frameSize |-> ring'.frameSize, picture |-> ring'.picture]
  /\ UNCHANGED view

\* create_in_process: init_heap, and consumer() shares the region.
CreateInProcess(capacity, format, w, h) ==
  /\ ring = Unmapped /\ view = Unmapped
  /\ Validates(capacity, format, w, h)
  /\ ring' = Configured("heap", capacity, format, w, h)
  /\ view' = ring'
  /\ UNCHANGED file

\* Another program, or another build of this one, leaves a file of this
\* name: with a header of this layout or without, cut short or not.
OtherFile(len, header, capacity, size) ==
  /\ file = NoFile
  /\ file' = [len |-> len, header |-> header, capacity |-> capacity,
              frameSize |-> size, picture |-> 0]
  /\ UNCHANGED <<ring, view>>

\* attach_shared and attach_raw. The header is read only from a mapping that
\* is long enough for it.
AttachShared ==
  /\ view = Unmapped
  /\ file.len >= HeaderSize /\ file.header
  /\ CapacityOk(file.capacity)
  /\ file.len = SegmentSize(file.capacity, file.frameSize)
  /\ view' = [backing |-> "attached", len |-> file.len, capacity |-> file.capacity,
              frameSize |-> file.frameSize, picture |-> file.picture]
  /\ UNCHANGED <<file, ring>>

\* Region::drop of a producer that made a file unlinks the name, whatever it
\* points at by then; who has the segment mapped keeps it.
DropProducer ==
  /\ ring # Unmapped
  /\ ring' = Unmapped
  /\ file' = IF ring.backing = "created" THEN NoFile ELSE file
  /\ UNCHANGED view

DropReader ==
  /\ view # Unmapped
  /\ view' = Unmapped
  /\ UNCHANGED <<file, ring>>

\* remove_segment.
RemoveFile ==
  /\ file # NoFile
  /\ file' = NoFile
  /\ UNCHANGED <<ring, view>>

LayoutNext ==
  \/ \E capacity, w, h \in Sizes, format \in Formats :
       CreateShared(capacity, format, w, h) \/ CreateInProcess(capacity, format, w, h)
  \/ \E len \in Lengths, header \in BOOLEAN, capacity, size \in Sizes :
       OtherFile(len, header, capacity, size)
  \/ AttachShared
  \/ DropProducer \/ DropReader \/ RemoveFile

LayoutSpec == LayoutInit /\ [][LayoutNext]_layoutVars
-----------------------------------------------------------------------------
(* The properties.                                                         *)

\* The header, every slot record and every picture of a region lie inside it
\* and apart from each other, and the pictures of a producer of this program
\* fill their places exactly.
KeptApart(region) ==
  LET slots == 0 .. (region.capacity - 1) IN
  /\ \A i \in slots : /\ HeaderSize <= SlotAt(i)
                      /\ SlotAt(i) + SlotSize <= DataAt(region, 0)
                      /\ DataAt(region, 0) <= DataAt(region, i)
                      /\ DataAt(region, i) + region.frameSize <= region.len
  /\ \A i, j \in slots :
       i < j => /\ SlotAt(i) + SlotSize <= SlotAt(j)
                /\ DataAt(region, i) + region.frameSize <= DataAt(region, j)
  /\ region.picture # 0 => region.frameSize = region.picture

\* Whatever a producer was configured with and whatever file a reader found
\* under the name, the unchecked pointers of slot, data_ptr and
\* FrameGuard::deref stay inside the mapping, and no two of them overlap.
FramesApart == KeptApart(ring) /\ KeptApart(view)
=============================================================================
