------------------------------ MODULE MCServices ------------------------------
(* Small instances of FrameServices and of FcLink for TLC. A behaviour is   *)
(* one of the first or one of the second: they share no state.              *)
EXTENDS FrameServices, FcLink

VARIABLE part

partVars == <<part, servicesVars, linkVars>>

PartInit == /\ part \in {"frames", "link"}
            /\ ServicesInit /\ LinkInit
            /\ part = "frames" => adapter = CHOOSE a \in Adapters : TRUE

Frames(A)  == part = "frames" /\ A /\ UNCHANGED <<part, linkVars>>
Vehicle(A) == part = "link" /\ A /\ UNCHANGED <<part, servicesVars>>

PartNext == Frames(ServicesNext) \/ Vehicle(LinkNext)

\* ServicesFairness and LinkFairness.
PartFairness ==
  /\ \A r \in Readers : WF_partVars(Frames(ReaderRuns(r)))
  /\ WF_partVars(Vehicle(BridgeStep))
  /\ SF_partVars(Vehicle(PublishStatus /\ status' = Link))
  /\ WF_partVars(Vehicle(FcTakes)) /\ WF_partVars(Vehicle(Tick))

PartSpec == PartInit /\ [][PartNext]_partVars /\ PartFairness
=============================================================================
