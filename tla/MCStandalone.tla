---------------------------- MODULE MCStandalone ----------------------------
(* Small instances of the components that keep to themselves, for TLC: a   *)
(* behaviour is one of PixelPipeline, of Detections, of InlineFrames, of   *)
(* FrameWriter, of OtaUpdate, of SafetyMonitor, of FrameLayout, of         *)
(* AntiLoop or of TrackTable. They share no state.                         *)
EXTENDS PixelPipeline, MCDetections, InlineFrames, FrameWriter, OtaUpdate,
        SafetyMonitor, FrameLayout, AntiLoop, TrackTable

\* Every kind of character, every way a chunk can end, and more than the
\* decoder's word of 24 bits.
ShortPayloads == UNION {[1 .. n -> {0, 135, 211, 251, 255}] : n \in 0 .. 5}

\* "9" comes after "10" as a string.
ShortVersions == {<<1, 0>>, <<9>>, <<9, 1>>}

SomeCharges == {-1, 15, 30, 31}
BelowHome == -1

\* On either side of 0.1 deg/s, to the left and to the right.
AllYaws == {-2, -1, 0, 1, 2}

VARIABLE part

allVars == <<part, pixelVars, callVars, inlineVars, writerVars, otaVars, monitorVars,
             layoutVars, guardState, updateVars>>

PixelsIdle  == part # "pixels" =>
                 /\ frame.w = 2 /\ frame.h = 2 /\ frame.fmt = "nv12" /\ stage = "slot"
CallIdle    == part # "call" => backend = "cpu" /\ dims = <<3, 2>>
InlineIdle  == part # "inline" => payload = <<>>
OtaIdle     == part # "ota" => current = <<9>> /\ binary # None
MonitorIdle == part # "monitor" => enabled = {}

UnitInit == /\ part \in {"pixels", "call", "inline", "writer", "ota", "monitor", "layout",
                        "guard", "tracks"}
            /\ PixelInit /\ PixelsIdle
            /\ CallInit /\ CallIdle
            /\ InlineInit /\ InlineIdle
            /\ WriterInit
            /\ OtaInit /\ OtaIdle
            /\ MonitorInit /\ MonitorIdle
            /\ LayoutInit
            /\ Init
            /\ TableInit

Stay == UNCHANGED part
Pixel   == part = "pixels" /\ PixelNext /\ Stay
           /\ UNCHANGED <<callVars, inlineVars, writerVars, otaVars,
                        monitorVars, layoutVars, guardState, updateVars>>
Call    == part = "call" /\ CallNext /\ Stay
           /\ UNCHANGED <<pixelVars, inlineVars, writerVars, otaVars,
                        monitorVars, layoutVars, guardState, updateVars>>
Inline  == part = "inline" /\ InlineNext /\ Stay
           /\ UNCHANGED <<pixelVars, callVars, writerVars, otaVars,
                        monitorVars, layoutVars, guardState, updateVars>>
Writer  == part = "writer" /\ WriterNext /\ Stay
           /\ UNCHANGED <<pixelVars, callVars, inlineVars, otaVars,
                        monitorVars, layoutVars, guardState, updateVars>>
Ota     == part = "ota" /\ OtaNext /\ Stay
           /\ UNCHANGED <<pixelVars, callVars, inlineVars, writerVars,
                        monitorVars, layoutVars, guardState, updateVars>>
Monitor == part = "monitor" /\ MonitorNext /\ Stay
           /\ UNCHANGED <<pixelVars, callVars, inlineVars, writerVars,
                        otaVars, layoutVars, guardState, updateVars>>
Layout  == part = "layout" /\ LayoutNext /\ Stay
           /\ UNCHANGED <<pixelVars, callVars, inlineVars, writerVars,
                        otaVars, monitorVars, guardState, updateVars>>
Guard   == part = "guard" /\ Next /\ Stay
           /\ UNCHANGED <<pixelVars, callVars, inlineVars, writerVars,
                        otaVars, monitorVars, layoutVars, updateVars>>

\* A bound of this run: once the last id is given out, a frame has fewer than
\* MaxDets detections. The widest matrices come up before that.
WideAtFirst == tpc = "wait" /\ nextId > MaxTrackId => dets' < MaxDets

Track(A) == part = "tracks" /\ A /\ Stay
            /\ UNCHANGED <<pixelVars, callVars, inlineVars, writerVars,
                         otaVars, monitorVars, layoutVars, guardState>>

UnitNext == \/ Pixel \/ Call \/ Inline \/ Writer \/ Ota \/ Monitor \/ Layout \/ Guard
            \/ Track(TableNext) /\ WideAtFirst

\* Of the fairness only TrackTable's is asked for.
UnitSpec == /\ UnitInit /\ [][UnitNext]_allVars
            /\ WF_allVars(Track(SolveStep \/ Apply \/ PublishTracks))
=============================================================================
