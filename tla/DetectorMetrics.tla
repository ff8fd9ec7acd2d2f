--------------------------- MODULE DetectorMetrics ---------------------------
(***************************************************************************)
(* The measuring window of the detector (Metrics of crates/detector): the  *)
(* times of inference and of the whole way go into two vectors with room   *)
(* for Room samples, which the percentiles of a status are taken from; its *)
(* frame rate is taken from a counter that every status sets to zero.      *)
(* The vectors grow together; samples are told by their number only.       *)
(***************************************************************************)
EXTENDS Naturals

CONSTANTS
  Room,       \* the capacity of the vectors, 512
  MaxFrames   \* bound of the model on frames

VARIABLES
  kept,     \* infer_us.len(), e2e_us.len()
  counted,  \* window_frames: what fps divides by the time since window_start
  rated     \* the frames the rate of the last status is taken over

metricsVars == <<kept, counted, rated>>

MetricsInit == kept = 0 /\ counted = 0 /\ rated = 0

\* rotate: the window starts anew, the samples stay.
Rotated == IF kept >= Room THEN 0 ELSE counted

MetricsPush ==
  /\ kept < MaxFrames
  /\ counted' = Rotated + 1
  /\ kept' = kept + 1
  /\ UNCHANGED rated

\* snapshot.
MetricsSnapshot ==
  /\ rated' = counted
  /\ counted' = 0
  /\ UNCHANGED kept

MetricsNext == MetricsPush \/ MetricsSnapshot

MetricsSpec == MetricsInit /\ [][MetricsNext]_metricsVars

-----------------------------------------------------------------------------
(* The window is one: the samples never outgrow the room made for them, so *)
(* a frame allocates nothing and a percentile is one of recent frames.     *)
WindowIsBounded == kept <= Room
=============================================================================
