----------------------------- MODULE MCCommander -----------------------------
(* Small instances of the commander for TLC, under every driver: the ones  *)
(* of OperatorSession take its steps, the service those of CommanderBus.   *)
EXTENDS OperatorSession, CommanderBus

\* Every watchdog but the heartbeat's is late as soon as time passes.
ShortTimeouts == [w \in Watchdogs |-> IF w = "FcHeartbeat" THEN 1 ELSE 0]

\* Up to two actions at three frames, in order and out of order.
Entries == [at : 0..2, action : {"select_target", "abort", "scan", "land"}]
ShortScripts == UNION {[1..n -> Entries] : n \in 0..2}

drivenVars == <<vars, sessionVars, loopVars, busVars, alive>>

DrivenInit == SessionInit /\ BusInit

Session == /\ driver # "service" /\ SessionNext
           /\ UNCHANGED <<loopVars, busVars, alive>>
Service(A) == driver = "service" /\ A /\ UNCHANGED sessionVars

DrivenNext == Session \/ Service(BusNext)

\* The fairness of BusFairSpec.
DrivenFairness ==
  /\ WF_drivenVars(Service(LoopStep)) /\ WF_drivenVars(Service(BusTick))
  /\ WF_drivenVars(Service(BridgePublish)) /\ WF_drivenVars(Service(TrackerPublish))

DrivenSpec == DrivenInit /\ [][DrivenNext]_drivenVars /\ DrivenFairness
=============================================================================
