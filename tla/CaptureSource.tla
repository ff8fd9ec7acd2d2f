---------------------------- MODULE CaptureSource ----------------------------
(***************************************************************************)
(* The video sources of the video-capture crate behind one trait: start    *)
(* returns the receiving end of a bounded channel, stop asks the capture   *)
(* to end. A V4L2 source starts a thread of its own that takes buffers     *)
(* from the driver; the synthetic and the replay source start a task that  *)
(* stop aborts. Every start is a session: sessions of one source can       *)
(* overlap, for start does not wait for what stop asked.                   *)
(*                                                                         *)
(* A frame is what the camera exposed (shot) under the number the source   *)
(* gave it (seq). Pixels are in PixelPipeline.                             *)
(***************************************************************************)
EXTENDS Integers, Sequences

CONSTANTS
  Kinds,        \* of "direct", "v4l", "synthetic", "replay"
  NumBuffers,   \* V4l2DirectSource::num_buffers, and its channel's depth
  Depth,        \* depth of the other channels (queue_depth, fps, 8)
  Endless,      \* SyntheticConfig::infinite, loop_playback
  MaxSessions,  \* bound of the model on calls of start
  MaxShots      \* bound of the model on exposures and on recorded frames

ASSUME CaptureAssumption == /\ NumBuffers \in Nat \ {0} /\ Depth \in Nat \ {0}
                            /\ MaxSessions \in Nat /\ MaxShots \in Nat
                            /\ Endless \in BOOLEAN

Sessions == 1..MaxSessions
NoFile   == 0

VARIABLES
  kind,     \* which source this is
  plugged,  \* the camera is there
  shot,     \* exposures so far
  owner,    \* the session whose descriptor holds the driver's buffers, or 0
  free,     \* buffers queued with the driver, empty
  full,     \* buffers the driver has filled, oldest first
  started,  \* sessions begun
  capture,  \* where each session's thread or task is
  flag,     \* its stop_flag
  stopper,  \* the session stop() reaches: stop_flag or capture_task, or 0
  chan,     \* frames in each channel
  open,     \* receivers not dropped
  seq,      \* the number each session gives its next frame
  count,    \* frame_count each replay read when it was opened
  got,      \* the last frame received from each session
  disk,     \* which take wrote each frame file of the recording
  listed,   \* frame_count of meta.json, or -1 when there is none
  take,     \* recordings begun in that directory
  written   \* next_seq of the recording being made, -1 when none is

driverVars  == <<plugged, shot, owner, free, full>>
sessionVars == <<started, capture, flag, stopper, chan, open, seq, count, got>>
diskVars    == <<disk, listed, take, written>>
captureVars == <<kind, driverVars, sessionVars, diskVars>>

Nothing == [seq |-> -1, shot |-> -1]

CaptureInit ==
  /\ kind \in Kinds
  /\ plugged = TRUE /\ shot = 0 /\ owner = 0 /\ free = 0 /\ full = <<>>
  /\ started = 0 /\ stopper = 0
  /\ capture = [s \in Sessions |-> "none"]
  /\ flag = [s \in Sessions |-> FALSE]
  /\ chan = [s \in Sessions |-> <<>>]
  /\ open = [s \in Sessions |-> FALSE]
  /\ seq = [s \in Sessions |-> 0]
  /\ count = [s \in Sessions |-> 0]
  /\ got = [s \in Sessions |-> Nothing]
  /\ disk = [i \in 0..(MaxShots - 1) |-> NoFile]
  /\ listed = -1 /\ take = 0 /\ written = -1

ChannelDepth == IF kind = "direct" THEN NumBuffers ELSE Depth

-----------------------------------------------------------------------------
(* The caller: start, stop, recv, and dropping the receiver.               *)

\* A second start forgets the handle of the first session.
Begin(s, at) ==
  /\ s = started + 1 /\ s \in Sessions
  /\ started' = s /\ stopper' = s
  /\ capture' = [capture EXCEPT ![s] = at]
  /\ open' = [open EXCEPT ![s] = TRUE]
  /\ count' = [count EXCEPT ![s] = listed]
  /\ UNCHANGED <<kind, driverVars, flag, chan, seq, got, diskVars>>

StartDirect == kind = "direct" /\ \E s \in Sessions : Begin(s, "open")

\* V4l2Source probes the device before it starts the thread.
StartV4l == kind = "v4l" /\ plugged /\ \E s \in Sessions : Begin(s, "open")

StartSynthetic == kind = "synthetic" /\ \E s \in Sessions : Begin(s, "stream")

\* ReplaySource::open needs the recording's meta.json.
StartReplay == kind = "replay" /\ listed >= 0 /\ \E s \in Sessions : Begin(s, "stream")

\* The thread sources are only told; the direct one keeps its flag.
StopThread ==
  /\ kind \in {"direct", "v4l"} /\ stopper # 0
  /\ flag' = [flag EXCEPT ![stopper] = TRUE]
  /\ stopper' = IF kind = "direct" THEN stopper ELSE 0
  /\ UNCHANGED <<kind, driverVars, started, capture, chan, open, seq, count, got, diskVars>>

\* The tasks are aborted, with the sending end they hold.
StopTask ==
  /\ kind \in {"synthetic", "replay"} /\ stopper # 0
  /\ capture' = [capture EXCEPT ![stopper] = "done"]
  /\ stopper' = 0
  /\ UNCHANGED <<kind, driverVars, started, flag, chan, open, seq, count, got, diskVars>>

Receive(s) ==
  /\ open[s] /\ chan[s] # <<>>
  /\ got' = [got EXCEPT ![s] = Head(chan[s])]
  /\ chan' = [chan EXCEPT ![s] = Tail(@)]
  /\ UNCHANGED <<kind, driverVars, started, capture, flag, stopper, open, seq, count, diskVars>>

DropReceiver(s) ==
  /\ open[s]
  /\ open' = [open EXCEPT ![s] = FALSE]
  /\ chan' = [chan EXCEPT ![s] = <<>>]
  /\ UNCHANGED <<kind, driverVars, started, capture, flag, stopper, seq, count, got, diskVars>>

-----------------------------------------------------------------------------
(* The V4L2 driver (external), as its ioctls show it.                      *)

Shoot ==
  /\ kind \in {"direct", "v4l"} /\ plugged /\ shot < MaxShots
  /\ shot' = shot + 1
  /\ \/ /\ free > 0
        /\ free' = free - 1
        /\ full' = Append(full, shot)
     \/ free = 0 /\ UNCHANGED <<free, full>>
  /\ UNCHANGED <<kind, plugged, owner, sessionVars, diskVars>>

Unplug ==
  /\ kind \in {"direct", "v4l"} /\ plugged
  /\ plugged' = FALSE
  /\ UNCHANGED <<kind, shot, owner, free, full, sessionVars, diskVars>>

-----------------------------------------------------------------------------
(* A capture thread: run_direct_capture and run_capture_loop.              *)

At(s, pc) == kind \in {"direct", "v4l"} /\ capture[s] = pc
Goto(s, pc) == /\ capture' = [capture EXCEPT ![s] = pc]
               /\ UNCHANGED <<kind, started, flag, stopper, open, count, got, diskVars>>

OpenDevice(s) ==
  /\ At(s, "open")
  /\ \/ plugged /\ Goto(s, "setup")
     \/ ~plugged /\ Goto(s, "failed")
  /\ UNCHANGED <<driverVars, chan, seq>>

\* S_FMT, S_PARM and REQBUFS: the driver serves one descriptor at a time.
RequestBuffers(s) ==
  /\ At(s, "setup")
  /\ \/ plugged /\ owner = 0 /\ owner' = s /\ Goto(s, "map")
     \/ (~plugged \/ owner # 0) /\ UNCHANGED owner /\ Goto(s, "failed")
  /\ UNCHANGED <<plugged, shot, free, full, chan, seq>>

\* QUERYBUF, mmap and QBUF of every buffer, STREAMON. The direct source
\* leaves without closing its descriptor when one of them fails.
MapBuffers(s) ==
  /\ At(s, "map")
  /\ \/ /\ plugged /\ free' = NumBuffers /\ full' = <<>>
        /\ UNCHANGED owner
        /\ Goto(s, "stream")
     \/ /\ owner' = IF kind = "direct" THEN owner ELSE 0
        /\ UNCHANGED <<free, full>>
        /\ Goto(s, "failed")
  /\ UNCHANGED <<plugged, shot, chan, seq>>

\* Mutant: the descriptor is forgotten at the end as well.
EndStreamLeaks(s) == UNCHANGED <<owner, free, full>> /\ Goto(s, "done")

\* STREAMOFF, munmap, close; the channel's sending end goes with the thread.
EndStream(s) == /\ owner' = 0 /\ free' = 0 /\ full' = <<>>
                /\ Goto(s, "done")

\* The flag is read once per frame, before the call that waits for one.
CheckStop(s) ==
  /\ At(s, "stream")
  /\ \/ flag[s] /\ EndStream(s)
     \/ ~flag[s] /\ Goto(s, "dequeue") /\ UNCHANGED <<owner, free, full>>
  /\ UNCHANGED <<plugged, shot, chan, seq>>

\* try_send drops the NEW frame when the channel is full; the number counts on.
TrySend(s, frame) ==
  /\ chan' = IF Len(chan[s]) < ChannelDepth
             THEN [chan EXCEPT ![s] = Append(@, frame)] ELSE chan
  /\ seq' = [seq EXCEPT ![s] = @ + 1]

\* DQBUF, copy, QBUF, try_send; a dropped receiver ends the loop.
Dequeue(s) ==
  /\ At(s, "dequeue") /\ plugged /\ full # <<>>
  /\ \/ /\ open[s]
        /\ TrySend(s, [seq |-> seq[s], shot |-> Head(full)])
        /\ full' = Tail(full) /\ free' = free + 1
        /\ UNCHANGED owner
        /\ Goto(s, "stream")
     \/ ~open[s] /\ UNCHANGED <<chan, seq>> /\ EndStream(s)
  /\ UNCHANGED <<plugged, shot>>

\* DQBUF fails: stop, or sleep and try again for as long as it takes.
DequeueFails(s) ==
  /\ At(s, "dequeue") /\ ~plugged
  /\ \/ flag[s] /\ EndStream(s)
     \/ ~flag[s] /\ Goto(s, "stream") /\ UNCHANGED <<owner, free, full>>
  /\ UNCHANGED <<plugged, shot, chan, seq>>

-----------------------------------------------------------------------------
(* The tasks of the synthetic and of the replay source.                    *)

TaskStep(s, k) == kind = k /\ capture[s] = "stream" /\ UNCHANGED <<driverVars>>

\* One tick: the pattern of number seq, dropped when the channel is full.
Render(s) ==
  /\ TaskStep(s, "synthetic") /\ seq[s] < MaxShots
  /\ \/ /\ open[s]
        /\ TrySend(s, [seq |-> seq[s], shot |-> seq[s]])
        /\ Goto(s, IF ~Endless /\ seq[s] + 1 = MaxShots THEN "done" ELSE "stream")
     \/ ~open[s] /\ UNCHANGED <<chan, seq>> /\ Goto(s, "done")

\* Mutant: the replay drops frames like the live sources.
SendFileNoWait(s) ==
  /\ TaskStep(s, "replay") /\ seq[s] < count[s] /\ open[s]
  /\ TrySend(s, [seq |-> seq[s], shot |-> disk[seq[s]]])
  /\ Goto(s, "stream")

\* One file, sent with backpressure: a slow receiver delays the replay.
SendFile(s) ==
  /\ TaskStep(s, "replay") /\ seq[s] < count[s]
  /\ \/ /\ open[s] /\ Len(chan[s]) < ChannelDepth
        /\ chan' = [chan EXCEPT ![s] = Append(@, [seq |-> seq[s], shot |-> disk[seq[s]]])]
        /\ seq' = [seq EXCEPT ![s] = @ + 1]
        /\ Goto(s, "stream")
     \/ ~open[s] /\ UNCHANGED <<chan, seq>> /\ Goto(s, "done")

\* A file that cannot be read ends the replay.
SkipFile(s) ==
  /\ TaskStep(s, "replay") /\ seq[s] < count[s]
  /\ UNCHANGED <<chan, seq>> /\ Goto(s, "done")

EndOfRecording(s) ==
  /\ TaskStep(s, "replay") /\ seq[s] >= count[s]
  /\ UNCHANGED chan
  /\ \/ Endless /\ count[s] > 0 /\ seq' = [seq EXCEPT ![s] = 0] /\ Goto(s, "stream")
     \/ ~(Endless /\ count[s] > 0) /\ UNCHANGED seq /\ Goto(s, "done")

-----------------------------------------------------------------------------
(* Recording: create, append, finalize. Nothing clears the directory.      *)

CreateRecording ==
  /\ kind = "replay" /\ take < MaxSessions
  /\ take' = take + 1 /\ written' = 0
  /\ UNCHANGED <<kind, driverVars, sessionVars, disk, listed>>

AppendFrame ==
  /\ kind = "replay" /\ written \in 0..(MaxShots - 1)
  /\ disk' = [disk EXCEPT ![written] = take]
  /\ written' = written + 1
  /\ UNCHANGED <<kind, driverVars, sessionVars, listed, take>>

Finalize ==
  /\ kind = "replay" /\ written >= 0
  /\ listed' = written /\ written' = -1
  /\ UNCHANGED <<kind, driverVars, sessionVars, disk, take>>

-----------------------------------------------------------------------------
\* The same steps are those of run_direct_capture and of run_capture_loop.
Steps(s)  == \/ OpenDevice(s) \/ RequestBuffers(s) \/ MapBuffers(s)
             \/ CheckStop(s) \/ Dequeue(s) \/ DequeueFails(s)
DirectThread(s) == kind = "direct" /\ Steps(s)
V4lThread(s)    == kind = "v4l" /\ Steps(s)

Thread(s) == DirectThread(s) \/ V4lThread(s)
Task(s)   == Render(s) \/ SendFile(s) \/ SkipFile(s) \/ EndOfRecording(s)
Camera    == Shoot \/ Unplug

CaptureNext ==
  \/ StartDirect \/ StartV4l \/ StartSynthetic \/ StartReplay
  \/ StopThread \/ StopTask
  \/ CreateRecording \/ AppendFrame \/ Finalize
  \/ Camera
  \/ \E s \in Sessions : Receive(s) \/ DropReceiver(s) \/ Thread(s) \/ Task(s)

\* A thread is never starved, and a camera goes on until it is unplugged.
CaptureFairness == /\ WF_captureVars(Camera)
                   /\ \A s \in Sessions : WF_captureVars(Thread(s))

CaptureSpec == CaptureInit /\ [][CaptureNext]_captureVars /\ CaptureFairness

-----------------------------------------------------------------------------
(* What a receiver may count on, however sessions of one source overlap:   *)
(* frames arrive in the order they were exposed, none comes twice, a gap   *)
(* in seq is a frame that try_send dropped, and a replay, which awaits its *)
(* send, delivers the recording it opened without a gap.                   *)
DeliveredInOrder ==
  [][\A s \in Sessions : got'[s] # got[s] =>
       IF kind = "replay"
       THEN got'[s].seq = IF Endless /\ got[s].seq = count[s] - 1
                          THEN 0 ELSE got[s].seq + 1
       ELSE got'[s].seq > got[s].seq /\ got'[s].shot > got[s].shot]_captureVars

(* A stopped capture gives the camera back: once the flag of a session is  *)
(* set (V4l2DirectSource::stop, V4l2Source::stop) its thread leaves the    *)
(* loop, the camera unplugged or not, and the next start can have it.      *)
StoppedSourceLetsGo ==
  \A s \in Sessions :
    (flag[s] /\ owner = s /\ capture[s] \in {"stream", "dequeue"}) ~> (owner # s)
=============================================================================
