------------------------------- MODULE Tracking -------------------------------
(***************************************************************************)
(* What the tracker promises for a frame of detections, without rows,      *)
(* duals, padding or misses: one step pairs as many tracks as it can with  *)
(* a detection each, at the least total cost; a pair that costs too much   *)
(* is no sighting; a track that was not sighted may go, one that was stays *)
(* and counts it; detections without a track open new ones, under ids not  *)
(* given out before, while there is room. Then the tracks go out, or those *)
(* sighted often enough.                                                   *)
(***************************************************************************)
EXTENDS Integers, FiniteSets, Functions

CONSTANTS
  Accept,     \* the highest cost of a sighting
  Room,       \* how many tracks there may be
  Enough,     \* sightings that make a track locked
  LockedOnly  \* whether only locked tracks go out

VARIABLES
  sighted,  \* how often each track was seen, up to Enough
  fresh,    \* the tracks seen in the last frame
  given,    \* the last id given out
  found,    \* detections in the frame under way
  costs,    \* of each track and detection, while they are to be paired
  out,      \* the tracks sent last
  phase     \* "wait" for a frame, "solve" or "publish" it

trackingVars == <<sighted, fresh, given, found, costs, out, phase>>

Live == DOMAIN sighted
New(k) == (given + 1)..(given + k)
Smaller(a, b) == IF a <= b THEN a ELSE b

\* As many tracks as possible with a detection each; of these pairings, those
\* than which none costs less.
Pairings == {f \in UNION {[D -> 1..found] : D \in SUBSET Live} :
               /\ IsInjective(f)
               /\ Cardinality(DOMAIN f) = Smaller(Cardinality(Live), found)}
Price(f) == SumFunctionOnSet([t \in DOMAIN f |-> costs[t][f[t]]], DOMAIN f)
Cheapest(f) == f \in Pairings /\ \A g \in Pairings : Price(f) <= Price(g)

Sightings(f) == {t \in DOMAIN f : costs[t][f[t]] <= Accept}

\* One sighting more, of which only so many matter.
More(n) == IF n < Enough THEN n + 1 ELSE n

\* How many detections without a track get one.
Opened(f) == Smaller(found - Cardinality(Sightings(f)), Room - Cardinality(Live))

-----------------------------------------------------------------------------
TrackingInit == /\ sighted = <<>> /\ fresh = {} /\ given = 0
                /\ found = 0 /\ costs = <<>> /\ out = {} /\ phase = "wait"

\* A frame, when there is no track.
Open == LET k == Smaller(found', Room) IN
        /\ phase = "wait" /\ phase' = "publish"
        /\ Live = {} /\ found' \in Nat
        /\ sighted' = [t \in New(k) |-> 1] /\ fresh' = New(k)
        /\ given' = given + k
        /\ UNCHANGED <<costs, out>>

\* A frame without detections.
Miss == /\ phase = "wait" /\ phase' = "publish"
        /\ found' = 0 /\ fresh' = {}
        /\ \E kept \in SUBSET Live : sighted' = Restrict(sighted, kept)
        /\ UNCHANGED <<given, costs, out>>

\* A frame whose detections are to be paired with the tracks.
Take == /\ phase = "wait" /\ phase' = "solve"
        /\ found' \in Nat \ {0} /\ costs' \in [Live -> [1..found' -> Nat]]
        /\ UNCHANGED <<sighted, fresh, given, out>>

Update ==
  /\ phase = "solve" /\ phase' = "publish"
  /\ \E f \in Pairings, lost \in SUBSET Live :
       LET seen == Sightings(f)
           k    == Opened(f)
       IN  /\ Cheapest(f)
           /\ seen \cap lost = {}
           /\ sighted' = [t \in (Live \ lost) \cup New(k) |->
                            IF t \notin Live THEN 1
                            ELSE IF t \in seen THEN More(sighted[t])
                            ELSE sighted[t]]
           /\ fresh' = seen \cup New(k)
           /\ given' = given + k
  /\ costs' = <<>>
  /\ UNCHANGED <<found, out>>

Tell == /\ phase = "publish" /\ phase' = "wait"
        /\ out' = {t \in Live : LockedOnly => sighted[t] >= Enough}
        /\ found' = 0
        /\ UNCHANGED <<sighted, fresh, given, costs>>

\* Tracks are taken out between two frames.
TakeOut == /\ phase = "wait"
           /\ \E gone \in SUBSET Live :
                /\ sighted' = Restrict(sighted, Live \ gone)
                /\ fresh' = fresh \ gone
           /\ UNCHANGED <<given, found, costs, out, phase>>

StartAnew == /\ sighted' = <<>> /\ fresh' = {} /\ given' = 0
             /\ found' = 0 /\ costs' = <<>> /\ phase' = "wait"
             /\ UNCHANGED out

TrackingNext == Open \/ Miss \/ Take \/ Update \/ Tell \/ TakeOut \/ StartAnew

TrackingSpec == TrackingInit /\ [][TrackingNext]_trackingVars
=============================================================================
