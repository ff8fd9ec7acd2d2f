----------------------------- MODULE CommanderBus -----------------------------
(***************************************************************************)
(* The commander as a service: the loop of bus_runner.rs drives one        *)
(* Commander from the telemetry that fc-bridge publishes and the tracks    *)
(* the tracker publishes. Nobody else calls the commander, there is no     *)
(* operator in this loop, and the loop itself is the only place where an   *)
(* expired watchdog turns into an abort.                                   *)
(*                                                                         *)
(* Around it: the flight controller, whose heartbeat may stop for good;    *)
(* fc-bridge, which keeps publishing the telemetry it has cached for as    *)
(* long as it runs; the tracker, which publishes tracks while it runs.     *)
(***************************************************************************)
EXTENDS Commander, EventBus

CONSTANTS
  QueueLen,     \* bound of the model on tracks waiting for the loop
  TrackBudget,  \* TRACK_BUDGET: tracks drained per pass
  Mortal        \* which of the services around the loop may stop for good

Services == {"fc", "bridge", "tracker"}

ASSUME BusAssumption == /\ QueueLen \in Nat
                        /\ TrackBudget \in Nat \ {0}
                        /\ Mortal \subseteq Services

VARIABLES
  bpc,          \* where the loop is
  drained,      \* tracks drained in this pass
  track,        \* the track being processed
  tracks,       \* tracks waiting in the subscription
  telemetry,    \* a telemetry sample is waiting
  alive         \* the flight controller sends heartbeats, fc-bridge runs,
                \* the camera, the detector and the tracker all run

loopVars == <<bpc, drained, track>>
busVars  == <<tracks, telemetry>>
allVars  == <<vars, loopVars, busVars, alive>>

\* fresh: misses <= max_track_misses.
TrackMsgs == [id : Targets, fresh : BOOLEAN]
NoTrack   == [id |-> NoTarget, fresh |-> FALSE]

BusPc == {"start", "scan", "telemetry", "drain", "select", "steer", "fed",
          "tick", "expiries", "abort", "reset", "sleep", "failed"}

BusInit == /\ Init
           /\ bpc = "start" /\ drained = 0 /\ track = NoTrack
           /\ tracks = Subscription /\ telemetry = FALSE
           /\ alive = Services

At(pc, next) == bpc = pc /\ bpc' = next

\* The rest of a step of the loop that only feeds watchdogs.
OnlyFeed(ws) == /\ Feed(ws)
                /\ UNCHANGED <<cmdVars, connected, limiterOpen, fcVars,
                               abortResult, guardVars>>

-----------------------------------------------------------------------------
\* connect() of the commander; an error ends the service.
LoopConnect ==
  /\ bpc = "start"
  /\ \/ Connect /\ bpc' = "scan"
     \/ UNCHANGED vars /\ bpc' = "failed"
  /\ UNCHANGED <<drained, track, busVars, alive>>

LoopScan ==
  /\ At("scan", "telemetry")
  /\ StartScanning
  /\ UNCHANGED <<drained, track, busVars, alive>>

\* Mutant: every pass counts as a heartbeat.
LoopTelemetryAlways ==
  /\ At("telemetry", "drain")
  /\ OnlyFeed({"FcHeartbeat"})
  /\ telemetry' = FALSE
  /\ UNCHANGED <<drained, track, tracks, alive>>

\* At most one sample a pass, and any sample counts as a heartbeat.
LoopTelemetry ==
  /\ At("telemetry", "drain")
  /\ IF telemetry THEN OnlyFeed({"FcHeartbeat"}) ELSE UNCHANGED vars
  /\ telemetry' = FALSE
  /\ UNCHANGED <<drained, track, tracks, alive>>

LoopTake ==
  /\ At("drain", "select")
  /\ drained < TrackBudget /\ Pending(tracks)
  /\ track' = Received(tracks) /\ tracks' = Rest(tracks)
  /\ drained' = drained + 1
  /\ OnlyFeed({"CommandLoop", "VideoLoop"})
  /\ UNCHANGED <<telemetry, alive>>

LoopDrained ==
  /\ At("drain", "tick")
  /\ drained = TrackBudget \/ ~Pending(tracks)
  /\ drained' = 0
  /\ UNCHANGED <<vars, track, busVars, alive>>

\* The first track seen becomes the target, if the state allows it.
LoopSelect ==
  /\ At("select", "steer")
  /\ IF activeTarget = NoTarget /\ state = "Scanning"
     THEN SelectTarget(track.id) ELSE UNCHANGED vars
  /\ UNCHANGED <<drained, track, busVars, alive>>

\* Only a fresh sighting of the target is steered to. The offset is there,
\* so update goes idle only in a state that does not steer.
LoopSteer ==
  /\ At("steer", "fed")
  /\ IF track.fresh /\ activeTarget = track.id
     THEN Steering \/ (~MaySteer /\ UpdateIdle)
     ELSE UNCHANGED vars
  /\ UNCHANGED <<drained, track, busVars, alive>>

LoopFed ==
  /\ At("fed", "drain")
  /\ OnlyFeed({"TrackingLoop", "InferenceLoop", "VideoLoop"})
  /\ track' = NoTrack
  /\ UNCHANGED <<drained, busVars, alive>>

\* Every pass feeds the command and the video watchdog.
LoopTick ==
  /\ At("tick", "expiries")
  /\ OnlyFeed({"CommandLoop", "VideoLoop"})
  /\ UNCHANGED <<drained, track, busVars, alive>>

LoopExpiries ==
  /\ bpc = "expiries"
  /\ bpc' = IF Late \cap AbortDogs # {} THEN "abort" ELSE "sleep"
  /\ IF Late # {} THEN ProcessExpiries ELSE UNCHANGED vars
  /\ UNCHANGED <<drained, track, busVars, alive>>

LoopAbort ==
  /\ At("abort", "reset")
  /\ Abort
  /\ UNCHANGED <<drained, track, busVars, alive>>

\* Mutant: the loop reconnects after the reset.
LoopResetReconnects ==
  /\ At("reset", "start")
  /\ Reset
  /\ UNCHANGED <<drained, track, busVars, alive>>

\* The loop resets by itself what it has just aborted.
LoopReset ==
  /\ At("reset", "sleep")
  /\ Reset
  /\ UNCHANGED <<drained, track, busVars, alive>>

LoopSleep ==
  /\ At("sleep", "telemetry")
  /\ UNCHANGED <<vars, drained, track, busVars, alive>>

LoopStep == \/ LoopConnect \/ LoopScan \/ LoopTelemetry
            \/ LoopTake \/ LoopDrained \/ LoopSelect \/ LoopSteer \/ LoopFed
            \/ LoopTick \/ LoopExpiries \/ LoopAbort \/ LoopReset \/ LoopSleep

-----------------------------------------------------------------------------
\* fc-bridge publishes what its adapter has cached, heartbeat or not.
BridgePublish ==
  /\ "bridge" \in alive /\ ~telemetry
  /\ telemetry' = TRUE
  /\ UNCHANGED <<vars, loopVars, tracks, alive>>

TrackerPublish ==
  /\ "tracker" \in alive /\ Len(tracks) < QueueLen
  /\ \E t \in TrackMsgs : tracks' \in Put(tracks, TRUE, t)
  /\ UNCHANGED <<vars, loopVars, telemetry, alive>>

Dies(service) ==
  /\ service \in alive \cap Mortal
  /\ alive' = alive \ {service}
  /\ UNCHANGED <<vars, loopVars, busVars>>

\* Time passes anywhere in the loop: the tasks share the machine.
BusTick == Tick /\ UNCHANGED <<loopVars, busVars, alive>>

BusNext == \/ LoopStep \/ BusTick
           \/ BridgePublish \/ TrackerPublish
           \/ \E service \in Services : Dies(service)

BusSpec == BusInit /\ [][BusNext]_allVars

(* The loop is scheduled, time passes, and a service that runs publishes:   *)
(* fc-bridge at telemetry_hz, the tracker for every frame.                  *)
BusFairSpec == /\ BusSpec
               /\ WF_allVars(LoopStep) /\ WF_allVars(BusTick)
               /\ WF_allVars(BridgePublish) /\ WF_allVars(TrackerPublish)

-----------------------------------------------------------------------------
(* After an abort - by watchdog or by the guard - the service never steers *)
(* again: nothing in the loop connects or scans a second time.             *)
AbortIsFinal == [][bpc # "start" /\ abortResult # "none" =>
                     corrections' = corrections /\ abortResult' # "none"]_allVars

(* Silence is noticed: when fc-bridge dies, that of the telemetry ends in  *)
(* an abort, or has been preceded by one, unless the service never got its *)
(* connection; when the tracker dies, the loop does not stay in TRACKING.  *)
SilenceIsNoticed ==
  /\ "bridge" \notin alive ~> (abortResult # "none" \/ bpc = "failed")
  /\ "tracker" \notin alive ~> state # "Tracking"

-----------------------------------------------------------------------------
(* What the documents promise and the code does not deliver.               *)

(* The loss of the FC's heartbeat ends in an abort.                        *)
LostHeartbeatAborts ==
  "fc" \notin alive ~> (abortResult # "none" \/ bpc = "failed")
=============================================================================
