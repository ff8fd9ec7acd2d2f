------------------------------ MODULE TrackTable ------------------------------
(***************************************************************************)
(* The tracker service: Tracker::run of crates/tracker around the          *)
(* MultiTargetTracker of target-tracker. A frame of detections comes in,   *)
(* update() assigns them to the tracks with the Hungarian algorithm        *)
(* (Assignment), ages the others, opens tracks for what is left over, and  *)
(* drops the lost; then every track goes out.                              *)
(*                                                                         *)
(* Boxes are left out: a frame brings any matrix of costs 1 - IoU between  *)
(* tracks and detections, on a scale of which AcceptCost is the threshold. *)
(* Time is left out: a track without a detection may be too old at once.   *)
(***************************************************************************)
EXTENDS Assignment

CONSTANTS
  AcceptCost,  \* 1 - match_iou_threshold
  MaxTracks,   \* max_tracks
  MaxMissed,   \* max_missed_frames
  LockFrames,  \* lock_confirmation_frames
  LockedOnly,  \* locked_only
  MaxDets,     \* bound of the model on detections in a frame
  MaxTrackId   \* bound of the model on track ids

ASSUME TableAssumption == /\ AcceptCost \in 0..MaxCost
                          /\ MaxTracks \in Nat \ {0} /\ MaxMissed \in Nat
                          /\ LockFrames \in Nat \ {0} /\ LockedOnly \in BOOLEAN
                          /\ MaxDets \in Nat /\ MaxTrackId \in Nat

VARIABLES
  tracks,    \* the table: id -> missed_frames and confirmation_count
  nextId,    \* next_id
  dets,      \* detections in the frame under way
  order,     \* track_ids: the rows of the matrix, in the map's order
  published, \* at/tracks: the tracks sent for the last frame
  tpc        \* where the loop is

tableVars  == <<tracks, nextId, dets, order, published, tpc>>
updateVars == <<assignVars, tableVars>>

Ids  == DOMAIN tracks
Seen == [missed |-> 0, count |-> 1]

TableInit == /\ Idle
             /\ tracks = <<>> /\ nextId = 1 /\ dets = 0 /\ order = <<>>
             /\ published = {} /\ tpc = "wait"

\* confirmation_count matters only up to the lock.
Match(t)   == [missed |-> 0,
               count |-> IF t.count < LockFrames THEN t.count + 1 ELSE t.count]
Predict(t) == [t EXCEPT !.missed = @ + 1]

IsLost(t) == t.missed > MaxMissed

\* remove_lost_tracks: too many misses, or in tooOld by the clock.
Survivors(t, tooOld) ==
  Restrict(t, {id \in DOMAIN t : ~IsLost(t[id]) /\ id \notin tooOld})

\* Mutant: every detection opens a track, matched or not.
RoomForAll(n, found, matched) ==
  IF found <= MaxTracks - n THEN found ELSE MaxTracks - n

\* How many of the unmatched detections get a track in a table of n.
RoomFor(n, found, matched) ==
  IF found - matched <= MaxTracks - n THEN found - matched ELSE MaxTracks - n

\* create_track, k times; the bound on ids is the model's.
WithNew(t, k) == [id \in DOMAIN t \cup nextId..(nextId + k - 1) |->
                    IF id \in DOMAIN t THEN t[id] ELSE Seen]

-----------------------------------------------------------------------------
Frame(m) == /\ tpc = "wait"
            /\ nextId + RoomFor(Cardinality(Ids), m, 0) <= MaxTrackId + 1
            /\ dets' = m

\* No tracks: every detection opens one, up to the cap.
Bootstrap(m) ==
  LET k == RoomFor(0, m, 0) IN
  /\ Frame(m) /\ tracks = <<>>
  /\ tracks' = WithNew(tracks, k) /\ nextId' = nextId + k
  /\ tpc' = "publish"
  /\ UNCHANGED <<assignVars, order, published>>

\* No detections: all tracks age.
AgeAll ==
  /\ Frame(0) /\ tracks # <<>>
  /\ \E tooOld \in SUBSET Ids :
       tracks' = Survivors([id \in Ids |-> Predict(tracks[id])], tooOld)
  /\ tpc' = "publish"
  /\ UNCHANGED <<assignVars, nextId, order, published>>

StartUpdate(m) ==
  LET n == Cardinality(Ids) IN
  /\ Frame(m) /\ tracks # <<>> /\ m > 0
  /\ order' \in Bijection(1..n, Ids)
  /\ \E c \in [1..n -> [1..m -> 0..MaxCost]] : Solve(n, m, c)
  /\ tpc' = "solve"
  /\ UNCHANGED <<tracks, nextId, published>>

SolveStep == tpc = "solve" /\ AssignStep /\ UNCHANGED tableVars

\* Rows whose assigned detection overlaps enough.
MatchedRows == {i \in DOMAIN order : /\ ColumnOf(i) <= dets
                                     /\ cost[i][ColumnOf(i)] <= AcceptCost}

\* Match, age, create - against the cap, before the lost are dropped - and
\* drop. A track seen or opened in this frame is not too old.
Apply ==
  LET matched == {order[i] : i \in MatchedRows}
      aged    == [id \in Ids |-> IF id \in matched THEN Match(tracks[id])
                                 ELSE Predict(tracks[id])]
      k       == RoomFor(Cardinality(Ids), dets, Cardinality(MatchedRows))
  IN
  /\ tpc = "solve" /\ tpc' = "publish"
  /\ Solved /\ Forget
  /\ \E tooOld \in SUBSET (Ids \ matched) :
       tracks' = Survivors(WithNew(aged, k), tooOld)
  /\ nextId' = nextId + k
  /\ order' = <<>>
  /\ UNCHANGED <<dets, published>>

\* Every track of the table goes out, or every locked one.
PublishTracks ==
  /\ tpc = "publish" /\ tpc' = "wait"
  /\ published' = {id \in Ids : LockedOnly => tracks[id].count >= LockFrames}
  /\ dets' = 0
  /\ UNCHANGED <<assignVars, tracks, nextId, order>>

\* Offered by the table, though not called by the service: a track, or all of
\* them, taken out between two frames. Ids are not given out again.
Drop(gone) == /\ tpc = "wait"
              /\ tracks' = Restrict(tracks, Ids \ gone)
              /\ UNCHANGED <<assignVars, nextId, dets, order, published, tpc>>
RemoveTrack(id) == id \in Ids /\ Drop({id})
Clear == Drop(Ids)

\* The loop ends or the process dies, in the middle of an update too; systemd
\* starts it again with an empty table.
Restart ==
  /\ Forget /\ tpc' = "wait"
  /\ tracks' = <<>> /\ nextId' = 1 /\ dets' = 0 /\ order' = <<>>
  /\ UNCHANGED published

TableStep == AgeAll \/ SolveStep \/ Apply \/ PublishTracks
TableNext == \/ TableStep \/ Restart \/ Clear
             \/ \E id \in Ids : RemoveTrack(id)
             \/ \E m \in 0..MaxDets : Bootstrap(m) \/ StartUpdate(m)

\* One task runs update and the sends to their end, unless it dies.
TableSpec == TableInit /\ [][TableNext]_updateVars /\ WF_updateVars(SolveStep \/ Apply \/ PublishTracks)

-----------------------------------------------------------------------------
\* A detection serves one track: after a frame, no more tracks are freshly
\* seen - matched or opened - than the frame had detections.
SightingsAddUp ==
  tpc = "publish" => Cardinality({id \in Ids : tracks[id].missed = 0}) <= dets

\* The whole of it keeps what a tracker promises of a frame: the search with
\* all its passes is one least-cost pairing of tracks with detections.
RowOf(id) == CHOOSE i \in DOMAIN order : order[i] = id
Counts    == [id \in Ids |-> tracks[id].count]
Fresh     == {id \in Ids : tracks[id].missed = 0}
Given     == nextId - 1
Costs     == IF tpc = "solve"
             THEN [id \in Ids |-> [d \in 1..dets |-> cost[RowOf(id)][d]]]
             ELSE <<>>
Promise == INSTANCE Tracking WITH
  Accept <- AcceptCost, Room <- MaxTracks, Enough <- LockFrames,
  sighted <- Counts, fresh <- Fresh, given <- Given, found <- dets,
  costs <- Costs, out <- published, phase <- tpc
ImplementsTracking == Promise!TrackingSpec

\* The update of every frame ends and the tracks go out.
UpdateEnds == tpc = "solve" ~> tpc = "wait"
=============================================================================
