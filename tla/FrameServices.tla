---------------------------- MODULE FrameServices ----------------------------
(***************************************************************************)
(* The life of a frame segment and of the services around it: a publisher  *)
(* (camera_publisher, or the shmem_producer that never clears the name)    *)
(* creates it, the recorder and the detector attach to whatever the name   *)
(* points at, systemd starts every one of them again after it ends. A      *)
(* segment outlives its name: who has it mapped goes on reading.           *)
(*                                                                         *)
(* Publishers are numbered in the order they start, and a segment has the  *)
(* number of its publisher. The slots of the ring are in FrameRing; here a *)
(* frame is there while it is one of the last Capacity ones.               *)
(***************************************************************************)
EXTENDS Integers, FiniteSets

CONSTANTS
  Detectors, Recorders, LatestRecorders,  \* readers, by service and read mode
  Capacity,       \* of the ring
  Overlap,        \* whether a publisher may start before the last one is gone
  MaxPublishers,  \* bound of the model on runs of the publisher
  MaxFrames       \* bound of the model on frames of one publisher

ASSUME ServicesAssumption == /\ Capacity \in Nat \ {0} /\ Overlap \in BOOLEAN
                             /\ MaxPublishers \in Nat /\ MaxFrames \in Nat

Readers    == Detectors \cup Recorders \cup LatestRecorders
Publishers == 1..MaxPublishers
NoSegment  == 0

VARIABLES
  link,      \* the segment /dev/shm/<name> points at
  publisher, \* where each publisher is
  segment,   \* of each publisher: size set, header fields, magic, newest frame
  reader,    \* where each reader is
  mapped,    \* the segment it has open
  last,      \* the frame id it asks to go on from
  held,      \* the frame whose guard it keeps, 0 for none
  taken,     \* frames_received, frames_processed
  output     \* the file of a recorder

nameVars     == <<link, publisher, segment>>
readerVars   == <<reader, mapped, last, held, taken, output>>
servicesVars == <<nameVars, readerVars>>

Raw == [sized |-> FALSE, fields |-> FALSE, magic |-> FALSE, newest |-> 0]

ServicesInit ==
  /\ link = NoSegment
  /\ publisher = [p \in Publishers |-> "down"]
  /\ segment = [p \in Publishers |-> Raw]
  /\ reader = [r \in Readers |-> "down"]
  /\ mapped = [r \in Readers |-> NoSegment]
  /\ last = [r \in Readers |-> 0]
  /\ held = [r \in Readers |-> 0]
  /\ taken = [r \in Readers |-> 0]
  /\ output = [r \in Readers |-> "none"]

-----------------------------------------------------------------------------
(* The publisher: remove_segment, create_shared, publish, drop.            *)

PublisherStep(p, from, to) == /\ publisher[p] = from
                              /\ publisher' = [publisher EXCEPT ![p] = to]
                              /\ UNCHANGED readerVars

\* Only camera_publisher begins with remove_segment.
StartPublisher(p) ==
  /\ \A q \in 1..(p - 1) : publisher[q] # "down" /\ (Overlap \/ publisher[q] = "gone")
  /\ \E first \in {"remove", "create"} : PublisherStep(p, "down", first)
  /\ UNCHANGED <<link, segment>>

RemoveSegment(p) ==
  /\ PublisherStep(p, "remove", "create")
  /\ link' = NoSegment
  /\ UNCHANGED segment

\* O_CREAT | O_EXCL, or SegmentExists and exit.
CreateName(p) ==
  \/ /\ link = NoSegment
     /\ PublisherStep(p, "create", "size")
     /\ link' = p
     /\ UNCHANGED segment
  \/ /\ link # NoSegment
     /\ PublisherStep(p, "create", "gone")
     /\ UNCHANGED <<link, segment>>

\* ftruncate; a failure takes the name away again.
SetSize(p) ==
  \/ /\ PublisherStep(p, "size", "map")
     /\ segment' = [segment EXCEPT ![p].sized = TRUE]
     /\ UNCHANGED link
  \/ /\ PublisherStep(p, "size", "gone")
     /\ link' = NoSegment
     /\ UNCHANGED segment

\* mmap; a failure closes the descriptor and leaves the name.
MapSegment(p) ==
  /\ \/ PublisherStep(p, "map", "fields")
     \/ PublisherStep(p, "map", "gone")
  /\ UNCHANGED <<link, segment>>

\* write_header_init: the fields, then the magic with Release.
WriteFields(p) ==
  /\ PublisherStep(p, "fields", "magic")
  /\ segment' = [segment EXCEPT ![p].fields = TRUE]
  /\ UNCHANGED link

WriteMagic(p) ==
  /\ PublisherStep(p, "magic", "run")
  /\ segment' = [segment EXCEPT ![p].magic = TRUE]
  /\ UNCHANGED link

\* Publish, or drop the frame when its slot is held; a frame that cannot be
\* converted is skipped.
PublishFrame(p) ==
  /\ PublisherStep(p, "run", "run")
  /\ segment[p].newest < MaxFrames
  /\ ~\E r \in Readers : /\ mapped[r] = p /\ held[r] > 0
                         /\ held[r] = segment[p].newest + 1 - Capacity
  /\ segment' = [segment EXCEPT ![p].newest = @ + 1]
  /\ UNCHANGED link

\* The capture ends, or the time is up: the producer is dropped, which
\* unmaps and closes and then removes the NAME, whatever it points at.
EndOfStream(p) == PublisherStep(p, "run", "unlink") /\ UNCHANGED <<link, segment>>

Unlink(p) ==
  /\ PublisherStep(p, "unlink", "gone")
  /\ link' = NoSegment
  /\ UNCHANGED segment

KillPublisher(p) ==
  /\ publisher[p] \notin {"down", "gone"}
  /\ PublisherStep(p, publisher[p], "gone")
  /\ UNCHANGED <<link, segment>>

-----------------------------------------------------------------------------
(* A reader: attach_shared, wait_first, its loop, and its end.             *)

ReaderStep(r, from, to) == /\ reader[r] = from
                           /\ reader' = [reader EXCEPT ![r] = to]
                           /\ UNCHANGED nameVars

Newest(r)  == segment[mapped[r]].newest
Gone(r, n) == n + Capacity <= Newest(r)

\* The open of attach_shared: without a name the process exits.
OpenSegment(r) ==
  /\ link # NoSegment
  /\ ReaderStep(r, "down", "opened")
  /\ mapped' = [mapped EXCEPT ![r] = link]
  /\ last' = [last EXCEPT ![r] = 0]
  /\ taken' = [taken EXCEPT ![r] = 0]
  /\ UNCHANGED <<held, output>>

\* Mutant: the length is taken for enough.
AttachSized(r) ==
  /\ ReaderStep(r, "opened", "wait")
  /\ segment[mapped[r]].sized
  /\ UNCHANGED <<mapped, last, held, taken, output>>

\* attach_raw takes a segment of its full length that carries the magic.
AttachOk(r) ==
  /\ ReaderStep(r, "opened", "wait")
  /\ segment[mapped[r]].sized /\ segment[mapped[r]].magic
  /\ UNCHANGED <<mapped, last, held, taken, output>>

\* The process ends: what it mapped and held goes with it.
Leave(r, from, file) ==
  /\ ReaderStep(r, from, "down")
  /\ mapped' = [mapped EXCEPT ![r] = NoSegment]
  /\ held' = [held EXCEPT ![r] = 0]
  /\ output' = [output EXCEPT ![r] = file]
  /\ UNCHANGED <<last, taken>>

AttachFails(r) ==
  /\ reader[r] = "opened"
  /\ ~(segment[mapped[r]].sized /\ segment[mapped[r]].magic)
  /\ Leave(r, "opened", output[r])

\* next_after: the next frame, nothing yet, or too far behind; acquire then
\* jumps to the newest id and asks for the one AFTER it.
NextFrame(r) == IF Newest(r) = 0 \/ last[r] >= Newest(r) THEN 0
                ELSE IF Gone(r, last[r] + 1) THEN 0 ELSE last[r] + 1
Jump(r) ==
  /\ reader[r] \in {"wait", "read"} /\ r \notin LatestRecorders
  /\ last[r] < Newest(r) /\ Gone(r, last[r] + 1)
  /\ last' = [last EXCEPT ![r] = Newest(r)]
  /\ UNCHANGED <<nameVars, reader, mapped, held, taken, output>>

\* What acquire returns: latest() gives the newest frame however often asked.
Acquired(r) == IF r \in LatestRecorders THEN Newest(r) ELSE NextFrame(r)

\* The first frame gives the geometry. The recorder keeps its guard over
\* the set-up, and starts again from id 0.
KeepFirst(r) ==
  /\ r \notin Detectors
  /\ ReaderStep(r, "wait", "setup")
  /\ Acquired(r) # 0
  /\ held' = [held EXCEPT ![r] = Acquired(r)]
  /\ last' = [last EXCEPT ![r] = 0]
  /\ UNCHANGED <<mapped, taken, output>>

\* The detector lets it go before it loads a model, and goes on after it.
MeasureFirst(r) ==
  /\ r \in Detectors
  /\ ReaderStep(r, "wait", "setup")
  /\ Acquired(r) # 0
  /\ last' = [last EXCEPT ![r] = Acquired(r)]
  /\ UNCHANGED <<mapped, held, taken, output>>

\* quiet_timeout without a frame: attach failed, as far as main is concerned.
NoFrames(r) == reader[r] = "wait" /\ Acquired(r) = 0 /\ Leave(r, "wait", output[r])

\* ffmpeg -y over the file of the run before; no ffmpeg, or a format it
\* does not take, and the run ends with the guard.
SpawnEncoder(r) ==
  /\ r \notin Detectors
  /\ ReaderStep(r, "setup", "read")
  /\ output' = [output EXCEPT ![r] = "open"]
  /\ UNCHANGED <<mapped, last, held, taken>>

SpawnFails(r) == r \notin Detectors /\ Leave(r, "setup", output[r])

\* build_backend for the geometry, and backend.init.
BuildBackend(r) ==
  /\ r \in Detectors
  /\ ReaderStep(r, "setup", "read")
  /\ UNCHANGED <<mapped, last, held, taken, output>>

BuildFails(r) == r \in Detectors /\ Leave(r, "setup", output[r])

\* One turn of the loop on the frame kept from the start, or on a new one:
\* copy, let go, convert and write or infer. A failed inference is counted
\* and skipped. last_frame_at is now.
Count(r) == taken' = [taken EXCEPT ![r] = IF @ < 2 THEN @ + 1 ELSE @]

TakePending(r) ==
  /\ held[r] # 0
  /\ ReaderStep(r, "read", "read")
  /\ held' = [held EXCEPT ![r] = 0]
  /\ Count(r)
  /\ UNCHANGED <<mapped, last, output>>

TakeFrame(r) ==
  /\ ReaderStep(r, "read", "read")
  /\ held[r] = 0 /\ Acquired(r) # 0
  /\ last' = [last EXCEPT ![r] = Acquired(r)]
  /\ Count(r)
  /\ UNCHANGED <<mapped, held, output>>

\* A hot NPU: the frame is taken and skipped, uncounted.
ThrottleFrame(r) ==
  /\ ReaderStep(r, "read", "read")
  /\ Acquired(r) # 0
  /\ last' = [last EXCEPT ![r] = Acquired(r)]
  /\ UNCHANGED <<mapped, held, taken, output>>

\* Mutant: the frame kept from the start does not count.
QuietAfterSecond(r) ==
  /\ reader[r] = "read" /\ held[r] = 0 /\ taken[r] > 1
  /\ Leave(r, "read", IF r \in Detectors THEN output[r] ELSE "whole")

\* quiet_timeout since the last counted frame, whether or not the next one is
\* there by now: the loop looks at the time first. The recorder closes the
\* pipe and waits for the encoder: the file is whole.
QuietTimeout(r) ==
  /\ reader[r] = "read" /\ held[r] = 0 /\ taken[r] > 0
  /\ Leave(r, "read", IF r \in Detectors THEN output[r] ELSE "whole")

\* max_duration: the run ends as after a silence, frames or no frames.
TimeIsUp(r) ==
  Leave(r, "read", IF r \in Detectors THEN output[r] ELSE "whole")

\* The encoder died, as the write of a frame finds out, the first one
\* included: abort kills it, the file has no index.
EncoderDies(r) ==
  /\ reader[r] = "read" /\ (held[r] # 0 \/ Acquired(r) # 0)
  /\ Leave(r, "read", "broken")

-----------------------------------------------------------------------------
PublisherNext(p) ==
  \/ StartPublisher(p) \/ RemoveSegment(p) \/ CreateName(p) \/ SetSize(p)
  \/ MapSegment(p) \/ WriteFields(p) \/ WriteMagic(p) \/ PublishFrame(p)
  \/ EndOfStream(p) \/ Unlink(p) \/ KillPublisher(p)

\* The loops of Recorder::run and of Detector::run.
RecorderLoop(r) ==
  /\ r \notin Detectors
  /\ TakePending(r) \/ TakeFrame(r) \/ QuietTimeout(r) \/ EncoderDies(r)
DetectorLoop(r) ==
  /\ r \in Detectors
  /\ TakeFrame(r) \/ ThrottleFrame(r) \/ QuietTimeout(r)

ReaderRuns(r) ==
  \/ AttachOk(r) \/ AttachFails(r) \/ Jump(r) \/ NoFrames(r)
  \/ KeepFirst(r) \/ SpawnEncoder(r) \/ SpawnFails(r) \/ RecorderLoop(r)
  \/ MeasureFirst(r) \/ BuildBackend(r) \/ BuildFails(r) \/ DetectorLoop(r)

ServicesNext == \/ \E p \in Publishers : PublisherNext(p)
                \/ \E r \in Readers : OpenSegment(r) \/ ReaderRuns(r) \/ TimeIsUp(r)

\* A running reader is scheduled, and its timers run; max_duration is unset
\* unless the command line asks for it.
ServicesFairness == \A r \in Readers : WF_servicesVars(ReaderRuns(r))

ServicesSpec == ServicesInit /\ [][ServicesNext]_servicesVars /\ ServicesFairness

-----------------------------------------------------------------------------
(* A reader that got through attach_shared reads a finished header: what   *)
(* attach_raw checks is enough against a publisher that is still in        *)
(* create_shared or died there, and against the name moving on meanwhile.  *)
AttachedIsReady ==
  \A r \in Readers : reader[r] \in {"wait", "setup", "read"} =>
                       segment[mapped[r]].sized /\ segment[mapped[r]].fields

(* A segment whose publisher is gone does not keep a service for ever: one *)
(* that reads in sequence and has counted a frame ends by its quiet        *)
(* timeout (recorder run loop, detector run loop), and systemd's next run  *)
(* of it opens the name anew.                                              *)
Deserted(r) == reader[r] = "read" /\ publisher[mapped[r]] = "gone"

OrphanIsLeft ==
  \A r \in Readers \ LatestRecorders :
    (Deserted(r) /\ (taken[r] > 0 \/ held[r] > 0)) ~> reader[r] = "down"

(* DetectorConfig.quiet_timeout: the detector ends when the ring is silent *)
(* (detector/src/lib.rs:77).                                               *)
DetectorLeavesSilentRing ==
  \A r \in Detectors : Deserted(r) ~> reader[r] = "down"
=============================================================================
