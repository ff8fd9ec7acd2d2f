--------------------------- MODULE MCCaptureToRing ---------------------------
(* Small instances of CaptureSource and of FrameRing for TLC. A behaviour is *)
(* one of the first or one of the second: they share no state.              *)
EXTENDS CaptureSource, FrameRing

VARIABLE part

partVars == <<part, captureVars, vars>>

PartInit == /\ part \in {"capture", "ring"}
            /\ CaptureInit /\ Init
            /\ part = "ring" => kind = "direct"

Capture(A) == part = "capture" /\ A /\ UNCHANGED <<part, vars>>
Ring(A)    == part = "ring" /\ A /\ UNCHANGED <<part, captureVars>>

PartNext == Capture(CaptureNext) \/ Ring(Next)

\* CaptureFairness, and Fairness of FrameRing.
PartFairness ==
  /\ WF_partVars(Capture(Camera))
  /\ \A s \in Sessions : WF_partVars(Capture(Thread(s)))
  /\ WF_partVars(Ring(PublishStep))
  /\ \A r \in Readers : WF_partVars(Ring(ReaderStep(r))) /\ SF_partVars(Ring(CasSucceeds(r)))

PartSpec == PartInit /\ [][PartNext]_partVars /\ PartFairness
=============================================================================
