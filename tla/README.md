# Verification of the auto-targeting companion computer

The repository is the software of a companion computer on a fixed-wing aircraft. A camera
process publishes frames into a shared memory ring; a detector, a recorder and other consumers
read them; a tracker turns detections into tracks; the commander turns tracks into correction
commands for the flight controller (FC) and is the only part that decides to engage, degrade or
abort. The services run as separate processes and talk over an event bus (zenoh); frames never
leave shared memory.

This directory holds TLA+ models of the parts whose correctness depends on orders of events or on
arithmetic that two implementations must agree on, the TLC runs that check them on small
instances, and TLAPS proofs for every value of the constants.

All paths below are relative to `src/auto-targeting/crates/` unless they begin with `docs/` or
`rknn-bridge/` (`src/auto-targeting/docs/`, `src/auto-targeting/rknn-bridge/`).

## 1. Inventory

| Component | State | Operations | Talks to | What is hard | What makes it correct |
|---|---|---|---|---|---|
| Frame ring `shmem-buffer/src/ring.rs`, `layout.rs` | header (`write_seq`), per slot `ref_count`, `holder_pid`, `frame_id`, metadata, bytes | `publish`, `latest`, `next_after`, `FrameGuard::drop` | camera process writes, consumers read, by shared memory | lock-free interleaving; death of a process between two atomic accesses; one word that is lock and counter; window arithmetic | no torn read, exact counts, no needless skip, consumers catch up |
| Layout of a segment `shmem-buffer/src/layout.rs`, `Region` in `ring.rs` | lengths and offsets | make, attach, remove, drop | every ring process | products of u32 values; a file somebody else left under the name | header, slots and pictures lie inside the mapping and apart |
| Reaper `recover_stale_slots` | none of its own; a verdict per scan | one scan | runs next to the ring | judges by stale data (`holder_pid`) while the ring moves | slots of the dead come back, slots of the living stay |
| Shared segment `shmem-buffer/src/shm.rs` | name, mapping, header | create, attach, remove, drop | every ring process | a crash between linking and initialising; two publishers of one name | no reader sees an uninitialised ring; a deserted segment is left |
| Video capture `video-capture/src/*.rs` | device or file, driver queue, capture thread, bounded channel | start, stop, grab, send, convert | camera driver, publisher | thread against stop and restart; a full channel; an unplugged camera; odd sizes and short buffers | frames in order, the camera let go, every sample in its place |
| Detector `detector/src/lib.rs` | cursor `last`, throttle clock, counters, window of measurements | attach, wait_first, acquire, infer, publish, report | ring, inference bridge, bus | catching up after a jump; when to end; a window that is to stay bounded | every accepted frame is new; ends on a silent ring |
| Recorder `video-recorder/src/lib.rs` | cursor, encoder process | attach, acquire in two modes, write, finish | ring, ffmpeg | as the detector; the encoder may die | as the detector |
| Inference bridge client `cv-inference/src/bridge_client.rs` and its C++ peer `rknn-bridge` | socket, frame segment, cursor; on the other side the connection served, the mapping, the last init | connect, init, infer, health check, shutdown; accept, receive, handle, reply, hang up | Unix socket, a second shared segment | late replies after a timeout; state that outlives a client; one connection at a time | an answer is to the kind of request that awaits it; a new client gets its turn; inline frames arrive |
| Inference back ends `yolov8/src/lib.rs`, `cv-inference/src/*.rs`, `rknn-bridge/src/rknn_model.cpp` | none between frames | letterbox, parse, suppress, map back | detector | two parsers that must agree; ties, chains of overlaps, boxes over the edge | the greedy suppression, boxes in the frame, the same boxes on both paths |
| Multi-target tracker `target-tracker/src/multi_tracker.rs`, service `tracker/src/lib.rs` | tracks with misses and confirmations, `next_id` | update (bootstrap, match, age, create, prune), remove, clear | detections in, tracks out | order of prune and cap; tracks begin and end in one frame | a detection serves one track, the cap holds, lost tracks leave |
| Assignment `target-tracker/src/hungarian.rs` | matrix, duals, matching, alternating tree | solve | the tracker | two loops without a bound, ties, padding | the least total cost, always an end |
| Commander `commander/src/commander.rs`, `state_machine.rs`, `watchdogs.rs` | state, active target, connection, watchdog ages, rate limiter | connect, arm, scan, select, update, abort, reset, ... | FC adapter, anti-loop guard | every call of the FC may fail halfway; two fields that must change together | target and state agree; nothing is sent outside an engagement |
| Anti-loop guard `commander/src/anti_loop.rs` | sign history, freeze, triggers | process | commander | three windows of time over one command stream | silent after a trip, escalates when trips repeat |
| Commander service `commander/src/bus_runner.rs` | loop position, drained tracks | one pass of `run` | bus, commander | feeds and expiries of five watchdogs against services that die | silence degrades or aborts; an abort is final |
| Event bus `event-bus/src/lib.rs` | per topic, what was put and not taken | publish, recv, with timeouts | every service | a late subscriber misses what was put | order, at most once |
| FC bridge `fc-bridge/src/lib.rs` | adapter, last published edges | telemetry, status, dispatch of commands | bus, FC adapter | republishes a cache | commands in order; a dead link is told |
| FC adapters `fc-adapter/src/*.rs` | link, cached telemetry, reader thread | connect, disconnect, arm, set_mode, send | FC | a reader thread next to the caller; a wall clock | no stale link |
| Operator console `cli/src/repl.rs`, `bus_console.rs`, scenario runner `cli/src/scenario_runner.rs` | script position, a state machine of its own | one command at a time | commander, bus | any legal order of calls; actions due between frames | scheduled actions are taken; grounded means disarmed |
| Safety monitor `commander/src/safety.rs` | geofence, battery readings | set home, readings, check | nobody calls it in the services | two streams in any order, unknown values | the worst reading decides |
| OTA `commander/src/ota.rs` | version, download, files | check, download, install | disk, network | failure and loss of power between steps | never a half installed image |
| Picture log `cv-visualizer/src/lib.rs` | counters, files | save, log, restart | disk | partial failure between picture and log | a logged frame has its picture |
| Kalman filters, PID, transform, health, system telemetry | numbers | numeric | - | arithmetic | left out, see section 8 |

The full list, with what is modelled of each, is `components` in `PROJECT.json`; the places in the
code where an ordinary test would hardly reach are `hazards`.

## 2. Modules

| Module | What it is |
|---|---|
| `FrameChannel` | abstract: an unbounded channel of frames, readers hold whole published frames |
| `FrameRing` | the ring, one step per atomic access; crashes of readers and producer |
| `FrameReaper` | extends `FrameRing` with the recovery scan |
| `FrameRingProofs` | proofs about `FrameRing` |
| `FrameLayout` | where header, slots and pictures lie in a segment, who makes it and who maps it |
| `FrameServices` | the life of a segment and the loops of the recorder and the detector around it |
| `CaptureSource` | the four video sources: start, capture threads, stop, channel |
| `ServiceProofs` | proofs about `FrameServices` and `CaptureSource` |
| `DetectorMetrics` | the window of measurements behind the detector's status |
| `LetterboxGeometry`, `PixelPipeline` | where each sample of a picture goes, from the camera to the model and the encoder |
| `Detections` | from the model's output to the boxes of a frame, on both back ends and the stub |
| `InlineFrames` | a frame as base64, from the Rust encoder to the C++ decoder |
| `PictureProofs` | proofs about `FrameLayout`, `PixelPipeline`, `Detections` and `InlineFrames` |
| `InferenceBridge` | the detector's calls of the inference bridge: client, bridge, socket and frame segment |
| `InferenceBridgeProofs` | proofs about `InferenceBridge` |
| `Assignment` | the Hungarian algorithm, one step per row, pass and edge |
| `TrackTable` | extends `Assignment` with the tracker's table and service loop |
| `Tracking` | abstract: what a tracker promises of a frame: as many sightings as can be, at the least cost |
| `AssignmentProofs` | proofs about `Assignment` and `TrackTable`, and that they implement `Tracking` |
| `GuardContract` | abstract: what the commander relies on in the anti-loop guard |
| `AntiLoop` | the guard, over discrete time |
| `Engagement` | abstract: what the commander promises about steering the aircraft |
| `Commander` | the commander: operator calls, `update`, watchdogs, FC calls that fail |
| `OperatorSession` | extends `Commander` with who drives it on the ground: any caller, the scenario runner; and the console beside it |
| `EventBus` | a topic as its subscriber sees it; extended by the two modules below |
| `CommanderBus` | extends `Commander` with the service loop and the services around it |
| `CommanderProofs` | proofs about `Commander`, `CommanderBus` and `OperatorSession` |
| `FcLink` | the console on the bus, the FC bridge, its adapter and reader thread, the FC |
| `FcLinkProofs` | proofs about `FcLink` |
| `SafetyMonitor` | battery and geofence readings, and the action they ask for |
| `OtaUpdate` | an update step by step, with failures and losses of power |
| `FrameWriter` | annotated pictures and their log |
| `UnitProofs` | proofs about `OtaUpdate`, `FrameWriter`, `SafetyMonitor` and `AntiLoop` |
| `MCCommander` | for TLC: `OperatorSession` and `CommanderBus` under every driver |
| `MCCaptureToRing` | for TLC: `CaptureSource` and `FrameRing`, side by side |
| `MCServices` | for TLC: `FrameServices` and `FcLink`, side by side |
| `MCFrameReaper`, `MCInferenceBridge`, `MCDetections` | for TLC: the module of that name |
| `MCStandalone` | for TLC: the nine components that need no other, side by side |

In `MCCaptureToRing`, `MCServices` and `MCStandalone` a behaviour is one of one of the components named (in
`MCStandalone` pictures, detections, inline frames, picture log, updates, safety monitor, layout, anti-loop
guard, tracker): they share no state, and the others stay as they began. In `MCCommander` the driver of a
behaviour is one of the three of `OperatorSession` or the service loop of `CommanderBus`, all over the one
`Commander`.

Definitions marked `\* Mutant:` stand beside the definition they alter. They are plausible slips in
that code (a dropped guard, an off-by-one, a missing reset); no specification uses them. Each
property is known to be violated when one of them takes the place of its original, so no property
holds by the shape of the model alone.

### From the code to the ring

`publish` is the sequence `ClaimSlot` (the CAS 0 to `WRITER_LOCK`) or `ClaimFails` and `ReportDrop`,
then `CopyLo`, `CopyHi`, `WriteSlotMeta`, `StoreFrameId`, `ReleaseSlot` (the release store of 0) and
`StoreWriteSeq`. A frame is its id, present in four places (id, metadata, two halves of the bytes),
so "torn" is a state in which they differ. `ReleaseSlot` precedes `StoreWriteSeq` as it does in the
code; a reader can hold the newest frame one step before it is announced.

A reader starts with `Latest` or `NextAfter`, loads `ref_count`, tries its CAS, stores its pid,
compares `frame_id`, and then holds a guard or undoes its share. `Jump` is what the detector and the
recorder do on `TooFarBehind`. The bounded spinning of `try_acquire` is the choice between another
`LoadRef` and `SpinsExhausted`. Counts have the width of the code's u32 in this sense: subtracting
from zero gives `WriterLock`, its largest value.

A process that dies just stops (`panic=abort`), holding what it holds.

`FrameReaper` adds the one scan of `recover_stale_slots`: its verdict on the producer, taken once, then
per slot the look, the judgement and the store or decrement, with any step of the ring between two of
them. The age test of the verdict is left open: a frame may be old enough or not.

### From the code to the layout of a segment

`FrameLayout` is about the numbers the unchecked pointers of `Region` are made from. `ring` and `view`
are the regions of a producer and of a reader, `file` what the name points at. A producer takes the
numbers from its configuration after `validate`; a reader takes them from the header in the file, which
another program or another build may have left (`OtherFile`: any length, any header; of the pictures in
it nothing is known). u32 and u64 are bounded by `Word` and `Wide`; `frame_size` multiplies with
`checked_mul` in the one and narrows with `try_from` to the other, so both bounds are guards, and a
result that is too large is refused. The steps of `create_shared`, between which a process may die, are in
`FrameServices`.

### From the code to sources, segments and services

`CaptureSource`: a source is started once or again before the last stop has been obeyed; each start
is a session with its own channel and, for V4L2, its own thread. A frame is the number of its
exposure (`shot`) under the number the source gave it (`seq`). `Camera` fills the driver's buffers,
`Thread(s)` is a capture thread or task step by step: take a buffer, `try_send` or, for a recording,
await the send, give the buffer back, look at the stop flag. The camera may be unplugged.

`FrameServices`: publishers are numbered in the order they start, and a segment has the number of its
publisher; `link` is what the name points at, `publisher` the system call of `create_shared` it has
reached. A reader has `mapped` what it attached to, `last` its cursor, `held` the first guard of
`wait_first`, `taken` what it counted, `output` the encoder or back end it started. The slots are
those of `FrameRing`: here a frame is there while it is one of the last `Capacity`. systemd starts
every service again after it ended, so all of them run in a loop of sessions.

`DetectorMetrics` is the pair of vectors and the counter of the detector's `Metrics`: `push` calls
`rotate`, which sets the counter to zero when the vectors are full and leaves them as they are.

### From the code to pictures, detections and files

`PixelPipeline` says for every sample of a buffer which pixels of the scene it stands for, and moves
it as `convert.rs`, the detector's preprocessing, the CPU back end and the recorder do; the arithmetic
on the value itself is left out. `LetterboxGeometry` holds scale and padding as exact rationals where
the code has f32, rounding and truncating where the code does. `Detections` is the parser of the
output tensor in Rust and in C++, with confidence filter, clamping and suppression, and the stub's
boxes, in percent. The candidates a parser works on are those proposals that pass its filters, in an
order of decreasing confidence; Rust's sort is stable, C++'s may break ties either way. Rust divides by
the scale, which is rounded to f32; C++ multiplies by its inverse, which is rounded once more
(`rknn-bridge/src/rknn_model.cpp:372`). What is exactly a half may therefore round up or down, and
differently in the two: `Roundings` has both, and `CpuSpans` and `NpuSpans` are the sets of what an end and
an extent can come out as. `InlineFrames` is both ends
of the base64: each character of the text by its index, as the loop of the encoder computes it, and the
decoder one character at a time, whose `int` counts modulo `Ints`.

`FrameWriter` and `OtaUpdate` have a step per system call, each of which may fail, and a process that
may die (a power that may go) between any two: what was written and not synced is then torn. The mode of
the new binary is set after its sync (`commander/src/ota.rs:175`, `:167`) and may be lost with the power as
long as the rename has not been made.
`SafetyMonitor` has its readings on a line instead of a sphere, the unknown charge -1 and the unknown
voltage 0 included.

### From the code to the commander

`state`, `activeTarget`, `connected` are the fields of `Commander`; `age[w]` is the time since
watchdog `w` was fed, in ticks, saturating one past its timeout; `limiterOpen` abstracts the rate
limiter (open again after an unspecified time); `linked`, `armed`, `fcMode` are the flight
controller behind the adapter. `Edges` is the table of `is_transition_allowed`. Every call of the FC
has a failing alternative that leaves behind what the code leaves behind at that point: `Connect`
may fail before or after the link, `AbortNow` forces the state, and clears the target only if the
RTL was sent.

`AntiLoop` keeps of the guard's history the last signs, and of its triggers the set of their times: two
trips in one instant are impossible, because a trip freezes the guard.

`update` is split by its outcome: `UpdateIdle` (nothing to steer), `UpdateSent`, `UpdateSendFails`,
`UpdateHeldBack` (rate limiter or guard), `UpdateDegrades`, `UpdateAborts`. Which one is possible is
decided by `GuardContract`'s actions, and `AntiLoop` is shown to implement that contract, so the
commander is checked against every guard that keeps it.

`corrections` counts corrections sent and exists only so that properties can say "a correction was
sent"; it saturates the model at `MaxCorrections`.

### From the code to console and scenario

`OperatorSession` gives the commander one of three drivers for a whole session. The `caller` takes any
action of `Commander` in any order. The `scenario` plays a script of actions with frame numbers: before
each frame the runner takes what is due, then updates; a script is in order (`InOrder`) when no action
is scheduled before one that stands in front of it. The `console` is `repl.rs`, which has a state
machine and a mock adapter of its own and no `Commander` between them; the smoke test of `--mock-all`
calls the same operations in one fixed order.

### From the code to the service loop

`bpc` is the position in `CommanderBus::run`: telemetry, drain (at most `TrackBudget` tracks), for
each track select, steer and feed; then the tick's feeds, the expiries, and abort and reset if an
abort watchdog expired. Time (`BusTick`) may pass between any two steps. The environment publishes
telemetry and tracks, and each of the services in `Mortal` (FC, FC bridge, tracker) may die at any
time (`Dies`).

### From the code to the flight controller link

`EventBus` is a topic as its one subscriber sees it: `Put` appends or loses (no subscriber known yet, a
put that timed out), `Received` and `Rest` take in order. In `FcLink` the console types commands under
growing ids (a message is a record of `cmd`, `mode` and `id`), `FcBridge::run` drains them, hands each
to the adapter, publishes the cache and a status; `SendCommandLong` puts COMMAND_LONGs on the `wire`,
which nobody acknowledges and which may be lost. The adapter is the mock or MAVLink. The reader thread
refreshes `cache` on any HEARTBEAT, that of the flight controller (`Hear`) or of another station on the
link (`HearOther`), and ends on its first error, which nobody notices; `age` is measured by the wall
clock, which may be set. Restarting the bridge loses its subscription, its cache and its connection.

### From the code to the inference bridge

A client is one run of the detector; `client` numbers them, because `RknnBridgeClient` connects once
and never again, and systemd starts the next one. `cpc` is its place in `init`, `infer` and `drop`;
`Write` and `Read` are the two halves of `send_recv`, `ReadFails` is its timeout or end of file.
`requests` and `replies` are the bytes of each connection, `clientEnd` and `serverEnd` which ends are
open, `backlog` is the queue of `listen(fd, 1)`. A frame is its number; a buffer of the segment holds
one, and an answer carries the number of the frame the inference looked at (`about`), which the code
cannot see and the properties can. `HealthCheck` opens a second connection without a read timeout; the
bridge serves one at a time, so it waits until the bridge has hung up on the idle first one.

The bridge is `run_bridge`: `Accept`, `Receive`, `HangUp` are `receive_message`; `HandleInit`,
`HandleInfer`, `HandleHealth`, `HandleShutdown` and `Reply` the dispatch. `mapped` and `declared` are
`frame_source` and `init_req.frame_shm_size`, which live as long as the process and not as long as the
connection. Init may fail on either side, the mapping may fail without failing init. Either process may
be killed at any step. The detector's unit requires the bridge's, so systemd may restart both together;
the model leaves free whether and when the detector ends.

### From the code to the tracker

`tracks` is the table, of each track `missed_frames` and `confirmation_count` (up to the lock).
`Bootstrap`, `AgeAll` and `StartUpdate`...`Apply` are the three branches of `update`, `RemoveTrack` and
`Clear` what a caller may do between two frames; `order` is the map's arbitrary order of keys. Boxes are
left out: a frame comes with any matrix of integer costs in place of 1 - IoU, `AcceptCost` is the
threshold. Time is left out: a track that was not seen in this frame may be over its age. In between
runs `Assignment`, with the arrays of `hungarian` as its variables: `EnterRow` starts a row, `Scan` is a
pass of the search (relax, pick the least slack, shift the duals, as the code does all three before it
looks at anything else), `Augment` flips one edge. `Forget` drops the call's vectors when it returns or
its process dies.

## 3. Runs

| Run | Question | Result |
|---|---|---|
| `commander` | every order of operator calls, updates, time and FC failures, every script of up to two actions, the console, and the service loop with a bridge and a tracker free to die: do target and state agree (`TargetMatchesState`), are due actions taken (`ScheduledActionsRun`), is the engagement specification implemented (`ImplementsEngagement`); is an abort of the service final (`AbortIsFinal`); does silence of the bridge abort, and silence of the tracker degrade (`SilenceIsNoticed`) | holds |
| `reset_over_armed` | is ABORT left over a disarmed vehicle only (`ResetAfterDisarm`) | **violated** |
| `bus_lost_heartbeat` | does a dead FC abort (`LostHeartbeatAborts`) | **violated** |
| `capture_to_ring` | sources with overlapping sessions and an unplugged camera: `DeliveredInOrder`, `StoppedSourceLetsGo`; every interleaving of a producer, a sequential reader and one in latest mode that may die: `RefCountExact`, `HeldFrameIntact`, `WindowIntact`, `SkipOnlyIfGone`, `ImplementsChannel`; and do live consumers reach the last frame (`ConsumersCatchUp`) | holds |
| `reaper_recovery` | the scan next to a sequential reader, a reader in latest mode and a producer, the latter two free to die: do slots of the dead come back (`DeadAreReaped`) | holds |
| `reaper_live_share` | does the scan leave the share of a living reader alone (`LiveShareKept`) | **violated** |
| `services` | a segment under two publishers that may die anywhere: `AttachedIsReady`, `OrphanIsLeft`; lost commands, a reader thread that ends, another station, a bridge that restarts, a clock that is set: `CommandsInOrder`, `AbortArrives`, `DeadLinkTold` | holds |
| `detector_silent_ring` | does the detector leave a ring that fell silent (`DetectorLeavesSilentRing`) | **violated** |
| `detector_metrics` | does the detector's window of measurements stay within its 512 samples (`WindowIsBounded`) | **violated** |
| `bridge_calls` | three clients, two buffers, a health check, timeouts, refusals and deaths anywhere: `AnswersAreAwaited`, `UnreadFramesIntact`, `LagIsExact`, `NewClientIsAccepted` | holds |
| `standalone_units` | every way of a picture (`PixelsInPlace`), of boxes (`NmsIsGreedy`, `PathsAgree`), of an inline frame (`InlineFramesArrive`), of a picture log (`LoggedFramesHavePictures`), of an update (`BinaryIsWhole`), of safety readings (`WorstReadingDecides`), of a segment's name and numbers (`FramesApart`), every stream of yaw rates through the anti-loop guard (`EscalatesOnlyIfRepeated`, `StreamIsCalm`, `ImplementsContract`: silence after a trip is in the contract); and every cost matrix for two tracks and three detections, tracks removed and cleared in between: `SearchExact` (feasible duals, tight edges, exact slacks), `SolvedOptimal`, `ImplementsTracking` (the whole pairs as `Tracking` does in one step), `UpdateEnds` | holds |
| `paths_identical` | do the two back ends make the same box of the same proposal (`PathsIdentical`) | **violated** |

### Bounds, and why they are enough

- Ring: capacity 2 is the smallest ring in which slot and id differ, and `MaxId` 4 takes the
  producer twice around it. The reaper's run has capacity 1, in which every slot is contended, and
  `MaxId` 3: its question is what becomes of a slot whose holder died, not of the window. Two readers
  are needed for counts above one, for the CAS of one reader against the other, and for a stale
  `holder_pid`. `WriterLock` is 4, larger than the number of readers; the proofs need only that. What
  TLC shows for two readers the theorems below show for any number.
- Anti-loop: a window of 5 signs, 3 trips, a freeze of 2 ticks and a trigger window of 10 over 12
  ticks, so that the sign history slides, a burst escalates, and old triggers are forgotten. Yaw
  rates are zero, weak and strong in each direction.
- Commander and its drivers: two targets, so that one could be exchanged for the other; every watchdog
  but the heartbeat's is late as soon as time passes, and that one a tick later, which gives all
  combinations of late and fed watchdogs and lets each kind expire first; one correction, for the
  properties ask whether one is sent. Scripts of up to two actions over two frames: both in one frame, one
  each, one never, and out of order. The service loop has one waiting track and a budget of one. The order
  of tracks is free, so a longer queue repeats the same passes.
- FC link: two commands, which may overtake each other or not; a heartbeat stale after one tick; one
  death of the bridge, one setting of the clock or HEARTBEAT of another station, either adapter.
- Inference bridge: two buffers, four frames, three runs of the detector and one health check. Four
  frames are two more than buffers, so that the round robin comes back to a buffer twice and the lag
  exceeds the buffers; three runs are one served, one waiting and one that follows a client that died
  in the queue.
- Sources: each of the four kinds, one driver buffer and a channel of one place, so that both are full
  at once; two sessions that may overlap; three exposures, so that a frame is dropped between two that
  arrive; recordings of up to three frames, overwritten while one is replayed.
- Segment: two publishers, so that one can remove what the other made; two frames in a ring of one, so
  that one is missed; a recorder in sequence and a detector. The recorder in latest mode never reaches
  its quiet timeout and is left out of `OrphanIsLeft` for that reason (section 6).
- Tracker: up to two tracks and three detections, so that the matrix is square, wide and tall with
  padding (1 x 1 to 2 x 3, solved as 3 x 3); costs 0 to 2 with ties, the threshold between them; ids
  up to 3, so that one track ends and another takes its place; a miss more than allowed ends a track.
  Once the third id is out, frames have at most two detections (`WideAtFirst` in `MCStandalone`).
- Pictures: sides 2, 3, 4, 6 and 7 to a square of 8: wide, tall, square, larger and smaller than the
  half, and odd sums of padding. Detections: three frame sizes, one with a side beyond the square's;
  one box anywhere, over the edges too; up to three of five boxes that overlap in
  chains (A over B over C) with scores that tie.
- Inline frames: up to five bytes give every remainder of three and go twice around an `int` of
  `Ints` = 2^24 values; the code's has 2^32, and the theorem covers every multiple of 2^16, because the
  decoder reads 8 of its lowest 14 bits at a time. That a set sign bit is shifted left is undefined
  before C++20; the compilers in use wrap, which is what the model does.
- Log and updates: every second frame saved, three saves, two runs; three versions, of which "9" comes
  after "10" as a string, and three calls. Safety: readings on both sides of every threshold, the
  unknown charge -1 and voltage 0 included.
- Layout: headers and slots of two bytes, words of 16 and double words of 100 values, segments of up to
  40 bytes, so that products leave both widths and some do not fit; capacities up to 3 (`MaxCapacity`),
  pictures of 0 to 6 bytes, and foreign files of 1, 7 and 20 bytes under any header.
- Detector's window: 3 samples (`Room`) where the code has 512, over 8 frames, so that it is full twice.

Deadlock is checked in `commander`, `reset_over_armed`, `bus_lost_heartbeat`, `reaper_recovery`,
`reaper_live_share` and `bridge_calls`: readers poll, time passes. The other six have parts that end: a
recording, a last command, a last frame, a last call.

### Fairness, and why the code justifies it

- `FrameRing!Fairness`: weak fairness of the producer's and of each reader's next step. The camera
  loop calls `publish` for every frame and each consumer polls in a loop; the OS schedules them. And
  strong fairness of a reader's CAS: a reader in latest mode takes and drops the same slot again and
  again, and its CAS could make another's fail for ever; but it works on a frame after it has dropped
  the guard and sleeps when there is none (`video-recorder/src/lib.rs:344`), so it does not contend
  all the time.
- `FrameReaper!ReapFairSpec`: the operator repeats the scan, and a frame that is not replaced grows
  older than `max_age` (strong fairness of the verdict "dead and stale", whose age test is otherwise
  left open).
- `CommanderBus!BusFairSpec`: the loop and the clock go on; a service that is alive publishes. The
  loop has no lock to wait for and its receives have a timeout of zero.
- `FcLink!LinkFairness`: the bridge's loop and the clock go on, the FC works its queue off, and the status,
  which is due every second, is not lost for ever (strong fairness of a publish that arrives). Nothing
  is assumed of the reader thread, of the wire or of the operator.
- `InferenceBridge!BridgeSpec`: weak fairness of the bridge's loop alone. It never waits for a client
  without bound: `SO_RCVTIMEO` is 30 s, and a client that dies closes its end.
- `CaptureSource!CaptureFairness`: a capture thread is never starved, and a camera exposes until it is
  unplugged. The receiver may never receive.
- `FrameServices!ServicesFairness`: a running reader is scheduled and its timers run. Publishers may
  stop anywhere. `max_duration`, which is unset by default, is not relied on.
- `TrackTable!TableSpec`: weak fairness of the steps of an update and of the sends behind it, which
  one task runs without waiting for anybody. Nothing is assumed of frames.

## 4. What is proved

Every safety property the passing runs check, the refinements included, is also a theorem of the
component's specification, for every value of its constants that meets the named assumption, which each
module states beside its constants and TLC evaluates in its run. What is assumed of a constant is its
type and no more, with five exceptions that come from the code: `WRITER_LOCK` is larger than the
number of readers (`RingAssumption`), a cost of the matrix is less than the padding's
(`AssignmentAssumption`), the threshold is a cost (`TableAssumption`), an `int` of the decoder has a
multiple of 2^16 values (`IntsAssumption`), and buffers, places of a channel, slots, tracks, the sides of a
picture and the times of the guard are at least one.

Hardly any of the properties is inductive. For each component the proof names an invariant that is,
shows that it holds at the start, that each action keeps it (one lemma per action or group of actions),
and that it implies the property. Action properties and refinements follow from the same invariant, step
by step. The library's induction theorems take a predicate as a parameter, which the provers here cannot
instantiate; where a proof needs induction over data, the set of the values that satisfy the predicate
takes its place (`CountUp`, `GrowUp` in `AssignmentProofs`).

### Ring: `FrameRingProofs`

For any finite set of readers, any capacity, any set of processes that may die (`RingAssumption`).

`RingInvariant` (`IndInv`), `TypeCorrect`, `CountsExact` (`RefCountExact`), `NoTornRead`
(`HeldFrameIntact`), `NoLapping` (`HeldInWindow`), `WindowExact` (`WindowIntact`), `LockReleased`
(`NoStuckLock`), `NoNeedlessSkip` (`SkipOnlyIfGone`), `RingImplementsChannel`. `HeldInWindow` and
`NoStuckLock` are part of no run. "A held frame is intact" speaks of a slot that a reader holds; that the
producer cannot be in it follows from exact reference counts, which must be known of all slots; that the
frame behind a matching `frame_id` is whole needs that every slot outside the producer's hands is whole
(`SlotsWhole`), which after the last step of a copy needs how far the copy has got (`CopyProgress`); and
that slot numbers and ids agree (`IdsPlaced`) needs the arithmetic of `n % Capacity`, proved as lemmas
(`RemainderUnique`, `NextTurn`, `SameSlot`). `RefCountExact` is kept by cardinality facts on the set of
readers inside a slot; without finiteness and `Cardinality(Readers) < WriterLock` a count could be
mistaken for a lock.

### Commander and drivers: `CommanderProofs`

For any set of targets, timeouts, scripts, queue length and budget (`CommanderAssumption`,
`BusAssumption`, `SessionAssumption`).

- `Commander` alone: `CommanderInvariant` (`CInv`), `CommanderTypes`, `TargetNeverDangles`
  (`TargetMatchesState`), `CommanderImplementsEngagement`. Which states are ever entered (`Entered`)
  decides which moves of the table can fail and leave a target behind. The refinement maps states to the
  phases grounded, ready, engaged and aborted; a step is one step of `Engagement` or a stutter, one lemma
  per kind of step.
- The service loop: `ServiceInvariant` (`BusInv`: `CInv`, typed tracks, `AbortHolds`),
  `ServiceAbortIsFinal` (`AbortIsFinal`), `ServiceImplementsEngagement`. That an abort is final needs where the
  loop is: after it the machine is in ABORT or IDLE, and the two steps that connect and scan lie behind.
- The sessions: `SessionInvariant` (`SessionInv`: `CInv`, `ConsoleHasNoTarget`, `Scheduled`),
  `SessionTargets`, `SessionRunsActions` (`ScheduledActionsRun`), `SessionImplementsEngagement`
  (`ImplementsEngagement`), for every driver. For scripts,
  the runner has taken the actions of all frames before this one, and of this one from the update on.

### Anti-loop guard, safety monitor, updates, picture log: `UnitProofs`

- `GuardInvariant` (`GInv`), `GuardEscalates` (`EscalatesOnlyIfRepeated`), `GuardIsCalm` (`StreamIsCalm`),
  `GuardKeepsContract` (`ImplementsContract`), for every window, threshold, freeze and limit
  (`GuardAssumption`). The calm of the history is inductive with its types, because a sign more adds a
  change at most and the check comes before it, and the sign that leaves takes a change with it at most;
  the escalation needs that right after a trip every trigger counts (`FreshTriggers`).
- `WorstDecides` (`WorstReadingDecides`).
- `UpdateInvariant` (`OtaInv`), `UpdateIsWhole` (`BinaryIsWhole`): what is about to replace the binary is
  whole, synced and executable as far as its writing is, and the backup precedes it.
- `WriterInvariant` (`WriterInv`), `LogHasItsPictures` (`LoggedFramesHavePictures`), by `WriterAssumption`:
  pictures of a run are numbered in the order of its frames, and what is about to be noted is drawn.

### Flight controller link: `FcLinkProofs`

`LinkInvariant` (`LInv`), `LinkInOrder` (`CommandsInOrder`), `OnlyTypedExecuted`, for any number of commands,
deaths and clock settings (`LinkAssumption`): ids rise along the wire and along the topic, those on the wire
are below those in the topic, and all above what was executed.

### Inference bridge: `InferenceBridgeProofs`

`BridgeInvariant` (`BInv`), `ClientReadsItsAnswers` (`AnswersAreAwaited`), `BuffersOutliveCalls`
(`UnreadFramesIntact`), `RepliesLagByTheirCalls` (`LagIsExact`), for any number of buffers, clients, frames
and health checks (`BridgeAssumption`). `BInv` follows a call through the socket: connections are in one
place each (`Wired`), those not made yet have left no trace (`Fresh`), before the init nothing is under
way (`Silent`), during it that one call (`Handshake`); from then on what is under way are the calls of the
last frames in order, each in its buffer as long as fewer than `Buffers` frames have followed
(`Streaming`), also behind a shutdown (`Leaving`). Once the round robin has come back to a buffer it holds
one of the frames written since (`Placed`, `IsAbout`), so that even with more calls unanswered than there
are buffers an event is never about a frame older than its call, and inline frames are not affected at all.

### Segment and sources: `ServiceProofs`

- `ServicesInvariant` (`SInv`), `ReadersSeeAHeader` (`AttachedIsReady`), for any number of publishers and
  readers (`ServicesAssumption`): header fields are there before the magic, and a reader past the attach has
  seen the magic of what it mapped, wherever the name points now.
- `CaptureInvariant` (`CInv`), `ReceiversGetFramesInOrder` (`DeliveredInOrder`), for any number of sessions,
  buffers and places in a channel (`CaptureAssumption`): what a session has delivered and what is in its
  channel form one line, the driver's buffers are in order of exposure, and the next frame is ahead of both.

### Tracker and assignment: `AssignmentProofs`

`TableInvariant` (`TableInv`), `DetectionsServeOnce` (`SightingsAddUp`, part of no run since `Tracking`
says more), `SearchIsExact` (`SearchExact`), `AssignmentIsLeast` (`SolvedOptimal`),
`TrackerImplementsTracking` (`ImplementsTracking`), for every matrix, cap and threshold
(`AssignmentAssumption`, `TableAssumption`). The invariant of a call (`CallInv`) is the correctness argument of the algorithm:
entered rows are matched one to one with a hole where the path is being flipped (`OneToOne`), duals are
feasible, matched edges tight, slacks those of the tree (`Tree`), and every column of the tree was reached
by a tight edge from one before it (`Path`, by a rank). A free column exists by the pigeonhole principle,
which also bounds the duals, so that no slack reaches `Infinity`.

That the result is the least of all assignments is weak duality. Each assignment costs at least the sum of
the duals, the matching found costs exactly that (`CostsAtLeastDuals`, `MatchingIsTight`). The sums are the
fold of the community modules: its recursive function is shown to exist (`SumsExist`), any element may be
taken out of a sum (`SumLess`), and counting the terms in another order or under other names changes
nothing (`SumMoved`).

`Tracking` has no rows, duals or padding: a frame is paired in one step, with as many tracks and detections
as there can be pairs, at the least cost. The table implements it by the mapping `Promise` in `TrackTable`
(counts, ids just seen, last id given out, costs by id); the passes of the search are stutters. `MatrixInv`
adds to `TableInv` what is in the matrix of a frame under way. The core is that the padding is fair: each
pairing extends to an assignment of all rows whose other cells are padding (`PairingExtends`), each
assignment without its padding is a pairing of full length (`RealPartPairs`), and between the two lies the
price of the padding, the same for all (`SumWithin`, `PaddedPrice`). So the matching found, whose total is
least, stands for a pairing whose price is least (`FoundIsCheapest`). That padding costs more than any
real cell is needed for the bound of the slacks only, not here.

### Layout, pictures, inline frames, detections: `PictureProofs`

- `LayoutInvariant` (`LayoutInv`), `LayoutKeepsFramesApart` (`FramesApart`), for every width of words and
  every geometry (`LayoutAssumption`): a region is as long as its numbers ask for.
- `PictureInvariant` (`PixelInv`), `SamplesStayInPlace` (`PixelsInPlace`), for every size of picture and of
  the model's square (`InputSizeAssumption`, `PipelineAssumption`): at each stage the shape of the buffer, and
  which sample is where. The step that is not bookkeeping is the letterbox: the picture fits into the
  square on both axes (`AxisFits`), and what the inverse map makes of a place of the square is the pixel
  it was taken from (`AxisReturns`).
- `InlineInvariant` (`InlineInv`), `InlineArrives` (`InlineFramesArrive`), for every payload of bytes and every
  multiple of 2^16 values of an `int` (`PayloadsAssumption`, `IntsAssumption`): what is left of the text
  begins at a character of a chunk, the bytes that the characters before make up are out, and the low six
  bits of the word are the last character.
- `SuppressionInvariant` (`NmsInv`), `SuppressionIsGreedy` (`NmsIsGreedy`), `PathsMeet` (`PathsAgree`), for
  every set of proposals, thresholds and frame sizes (`DetectionsAssumption`): of the candidates before
  `place` each is kept or overlapped by one kept before it, and what a kept one overlaps behind it is
  suppressed. The two parsers' boxes begin at most a pixel apart, differ in extent by at most one, are
  never empty and end at most a pixel beyond the frame, because rounding, either way at a half, is off by
  half a unit at most and keeps a value between whole bounds between them (`RoundingsNear`,
  `ClampKeepsRounding`, `SpansClose`).

## 5. Only model-checked

Liveness under fairness is outside what the prover does: `ConsumersCatchUp`, `DeadAreReaped`,
`SilenceIsNoticed`, `AbortArrives`, `DeadLinkTold`, `NewClientIsAccepted`, `StoppedSourceLetsGo`,
`OrphanIsLeft` and `UpdateEnds` are shown by TLC on the instances of section 3 and no further. Of the
safety properties that hold none is only model-checked. The six violations of section 6 are counterexamples
that TLC found.

The proofs trust the modelling of section 2 (and its limits, section 8), the assumptions named above, and
the provers behind `tlapm`.

## 6. Where the code and what is said of it part

Shown by runs (the lines are in `findings`):

1. `bus_lost_heartbeat`: `fc-bridge` republishes cached telemetry and the loop takes any sample for
   a heartbeat; a dead FC is never noticed by the commander while the bridge lives. (The status of
   `fc-bridge` does tell the operator: `DeadLinkTold`, unless another station is heard for ever.)
2. `detector_silent_ring`: the first frame, which `wait_first` takes and lets go, is never counted,
   and the quiet timeout needs a counted frame; a ring that falls silent right after it is polled for
   ever.
3. `detector_metrics`: `Metrics::rotate` sets the counters to zero and keeps the two vectors
  (`detector/src/lib.rs:161`), so from the 513th frame on every frame rotates again and the vectors
  grow as long as the process lives; `detector/src/lib.rs:136` promises a window without allocations.
4. `reset_over_armed`: `reset` does not look at `armed` (`commander/src/commander.rs:420`), whereas its
   comment (`commander/src/commander.rs:417`) and `docs/SAFETY.md:53` ask for a disarmed vehicle; nor does
   the console's (`cli/src/repl.rs:16`).
5. `reaper_live_share`: the reaper frees a slot that a living reader holds when `holder_pid` names a dead
   one that took the slot after it and dropped its share (`shmem-buffer/src/ring.rs:856`). The comment
   above it (`:852`) recovers single slots only, so as not to wipe a live reader: but the one share left
   need not be the dead one's. The age test makes it rare.
6. `paths_identical`: the two back ends give the same box sizes that differ by a pixel, because the bridge
   rounds an extent and Rust two corners; `yolov8/src/lib.rs:16-18` says "identical results". That they
   differ by no more than that is `PathsAgree`.

Met while reading and modelling, without a run of their own.

Ring, reaper, segment:

- One dead consumer stops the stream, not one slot: a dropped frame does not advance `write_seq`, so
  `publish` aims at the same slot for ever (`shmem-buffer/src/ring.rs:467`;
  `docs/DEV_NOTES/shmem_ring_buffer.md:48-49` says one slot).
- Freeing the lock of a producer that died in the copy leaves half a new frame under the old
  `frame_id` (`shmem-buffer/src/ring.rs:845`).
- The reaper also takes the share of a reader whose CAS has succeeded and whose pid is not yet stored, if
  the pid of a dead one is still there (`shmem-buffer/src/ring.rs:831-833`, which means to make that rare).
- After `TooFarBehind` a consumer asks for the frame after the latest one and skips the freshest
  frame it could have had (`video-recorder/src/lib.rs:475`, `detector/src/lib.rs:489`).
- A failed `mmap` leaves the name behind; a dropped publisher unlinks by name and so removes its
  successor's segment. `camera_publisher` removes a stale name first, `shmem_producer` exits.

Sources, recorder, detector:

- A full channel drops the new frame and keeps the oldest, whereas `video-capture/src/v4l2_real.rs:266`
  promises the freshest. A camera that is unplugged is never reported: DQBUF is retried for ever. The
  direct source leaks its buffers when the set-up fails after REQBUFS, and asks for YUYV but labels
  its frames Rgb24 when Rgb24 is configured (`video-capture/src/v4l2_direct.rs:207`).
- `Recording::create` does not look for a `meta.json` (`video-capture/src/replay.rs:62` says it fails).
- The recorder's cursor starts at 0 after `wait_first`, so a sequential recorder writes the first frame
  twice or jumps. In latest mode it takes the same frame again and never reaches its quiet timeout.
  With OSD on, the loop continues past the status and never counts `osd_frames`
  (`video-recorder/src/lib.rs:391`). A conversion error leaves ffmpeg neither finished nor aborted, and
  a restart overwrites the last file (`-y`).

Inference:

- After a timeout the late reply is the answer to the next call, and from then on every event carries
  the detections of an earlier frame (`cv-inference/src/bridge_client.rs:575`, `:589`). `LagIsExact`
  says how far: by the number of calls left unanswered, for the rest of the connection, and less far
  only where a segment's buffer has been written again since.
- A segment that a dead client left mapped hides the inline frames of a client that declared none
  (`rknn-bridge/src/bridge_main.cpp:323`). "Falling back to base64" after a failed mapping
  (`rknn-bridge/src/bridge_main.cpp:284`) is empty: nobody tells the client.
- `health_check`, used by no service, waits without a timeout behind the client's own idle connection
  until the bridge has hung up on it; every later call of that client then fails.
- `yolov8/src/lib.rs:16` names `rknn-bridge/src/yolov8_post.cpp`, which is not there; the C++
  parser is in `rknn_model.cpp`. Where the CPU back end returns an error the bridge answers an empty list.
- A string literal of `rknn-bridge/src/rknn_model.cpp:319` holds a line break, so a build with
  `HAVE_RKNN` does not compile; a second `load_model` drops the first context.

Commander and its drivers:

- `commander/src/bus_runner.rs:204-205` resets right after the abort, whereas `docs/SAFETY.md:39`
  wants the operator to. `AbortIsFinal` holds nevertheless, because nothing in the loop arms or
  scans a second time.
- `commander/src/commander.rs:302` steers in TRACKING_DEGRADED; `docs/SAFETY.md:25` says corrections
  stop. No code calls the transition back to TRACKING (`docs/SAFETY.md:29`), or any transition to LOST
  or RTH (`docs/SAFETY.md:30`).
- `disarm` ignores a refused transition to IDLE (`commander/src/commander.rs:236`).
- A target whose track ended is never given up by the loop, which then ignores all other tracks.
- A yaw rate of exactly zero counts as a negative sign, and one remembered sign is enough for a rate
  of one (`commander/src/anti_loop.rs:174`), so "right, zero" trips the guard.
- The scenario runner checks the final state and never `expected_events`
  (`cli/src/scenario_runner.rs:5`); the console shows expired watchdogs and processes none.

FC link:

- Commands are fire and forget; the reader thread ends on its first error and nobody restarts it; the
  mock's heartbeat never ages; any HEARTBEAT on the link, of a ground station too, counts as the flight
  controller's and sets its mode and armed flag (`fc-adapter/src/mavlink_core.rs:135`); AltHold is named
  by the dispatcher and supported by no MAVLink adapter; a message that does not parse ends the drain of
  that pass.

Tracker:

- `confirmation_count` is never reset by a miss, so "consecutive detections"
  (`common/src/config.rs:110`) are any detections; `TrackMsg.age` is the number of misses.
- A restarted tracker gives out ids from 1 again, while the commander keeps its target by id.

Code no service uses (modelled all the same, but for the last three):

- Safety monitor: the default switches both monitors off; its doc calls `check_violations`, which does
  not exist (`commander/src/safety.rs:18`); the unknown charge -1 asks to land; readings never expire;
  `set_home` moves the fence.
- OTA: versions are compared as strings ("10" before "9"); `current_version` is never updated, so a
  client that was not restarted installs again and overwrites the backup with the new binary; the
  status of the download is not looked at, and the checksum is a stub; there is neither the health
  check nor the rollback of `commander/src/ota.rs:19`.
- Picture log: `should_save` answers for the frame just counted and not for "the next call"
  (`cv-visualizer/src/lib.rs:325`); a restart numbers pictures from one again and overwrites them while
  the log grows; a failed newline glues two records.
- Health server: a `shutdown` before `run` has subscribed is lost, for the channel has no receiver and
  keeps its value; READY is sent before the port is bound; the watchdog is fed by a task of its own,
  which a hung main loop does not stop.
- PID: the correction after saturation can push the integral to the opposite limit. `TargetTracker`:
  confirmations need not be consecutive.

## 7. Plan

Done: all components of the inventory but those of section 8, in the order of the harm done by a fault:
shared memory first, then what steers the aircraft, then what feeds it, then what keeps to itself; and a
proof of every safety property.

Next:

- For the service loop and the FC link, the safety half of their liveness: that a step which noticed
  silence can only go on to the abort (`SilenceIsNoticed`), and that an id put on the topic is executed or
  lost (`AbortArrives`), as action properties with proofs.
- An abstract specification of the inference bridge (a queue of calls, of which the oldest is answered),
  with `BInv` as the invariant of the refinement.
- The hazards without a property, or with a part that none covers: each has a note in `PROJECT.json` that
  says why.

## 8. Not modelled, and why

- Kalman filters, PID and coordinate transforms are real arithmetic on one caller's values, with nothing
  to interleave or to fail. `TargetTracker` calls itself scaffolding; no service builds one.
- Of pictures: the arithmetic of colours, the MJPEG decoder, the synthetic scene, the drawing of boxes
  and of the OSD; the tails of odd sizes in conversions whose result the ring refuses anyway.
- Health server and system telemetry read `/proc` and `/sys` and answer with a snapshot; their one effect,
  the throttling of the detector, is a free choice in `FrameServices`. Configuration files are I/O.
- The transport of the event bus is zenoh's; the layout of messages and malformed messages between
  services of one build are left out.
- Of the inference bridge: a message cut in two by the one second write timeout, which breaks the framing
  for good. Of the tracker: boxes, velocities and rounding.
- A composition of `TrackTable` with `CommanderBus`, in which ids start again after a restart of the
  tracker: which object an id stands for is in neither model, because boxes are left out, so the
  composition could say nothing of it that the two do not say alone. The hazard is listed without a
  property.
- f32: scales, ends of boxes and overlaps are exact rationals; what the rounding of f32 can do is modelled
  only where a value is exactly a half (`Roundings`).
- File systems: what was not synced is torn by a loss of power, and a mode that was set before a rename is
  on the medium when the rename is, as a journal has it (`OtaUpdate`).
- The memory model is sequentially consistent: the ring's orderings (acquire and release on `ref_count`
  and `write_seq`) are taken to do what the comments in `ring.rs` say they are for. Pids are not reused
  while they are stored in a slot.
