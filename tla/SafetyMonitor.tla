--------------------------- MODULE SafetyMonitor ---------------------------
(***************************************************************************)
(* SafetyMonitor of crates/commander: a geofence around home and a watch   *)
(* on the battery, each of which may be switched off, fed by two streams   *)
(* of readings and asked for the worst thing to be done. Positions are on  *)
(* a line: the distance is that of the great circle in the code.           *)
(***************************************************************************)
EXTENDS Integers

CONSTANTS Places,         \* coordinates, for home and the vehicle
          Heights,        \* altitudes above the sea
          Charges,        \* percent; -1 is what the autopilot says for unknown
          Voltages,       \* decivolts; 0 is unknown
          MaxDistance, MaxAltitude, MinAltitude,
          RthThreshold, LandThreshold, MinVoltage

VARIABLES enabled,        \* which of the two monitors are switched on
          home,           \* the set of homes: empty, or one place
          position,       \* the set of last positions
          battery,        \* the set of last readings of the battery
          verdict         \* what the last check answered

monitorVars == <<enabled, home, position, battery, verdict>>

MonitorInit == /\ enabled \in SUBSET {"geofence", "battery"}
               /\ home = {} /\ position = {} /\ battery = {} /\ verdict = "none"

Distance(a, b) == IF a < b THEN b - a ELSE a - b

\* The first limit that is broken, of the three the fence has.
FenceBroken == \E h \in home, p \in position :
                 \/ Distance(h.x, p.x) > MaxDistance
                 \/ p.z - h.z > MaxAltitude
                 \/ p.z - h.z < MinAltitude

\* Unknown voltage is ignored, unknown charge is not.
BatteryVerdict == { IF b.charge <= LandThreshold THEN "Land"
                    ELSE IF \/ b.charge <= RthThreshold
                            \/ b.volts > 0 /\ b.volts <= MinVoltage THEN "Rth"
                    ELSE "none" : b \in battery }

\* Home may be set again while the vehicle is anywhere.
SetHome(h) == home' = {h} /\ UNCHANGED <<enabled, position, battery, verdict>>

\* Readings are dropped at the door of a monitor that is switched off.
UpdatePosition(p) == /\ position' = IF "geofence" \in enabled THEN {p} ELSE position
                     /\ UNCHANGED <<enabled, home, battery, verdict>>
UpdateBattery(b) == /\ battery' = IF "battery" \in enabled THEN {b} ELSE battery
                    /\ UNCHANGED <<enabled, home, position, verdict>>

\* Mutant: the fence is looked at first.
CheckFenceFirst ==
  /\ verdict' = IF "geofence" \in enabled /\ FenceBroken THEN "Rth"
                ELSE IF "battery" \in enabled /\ BatteryVerdict \cap {"Rth", "Land"} # {}
                THEN CHOOSE v \in BatteryVerdict : TRUE
                ELSE "none"
  /\ UNCHANGED <<enabled, home, position, battery>>

\* The battery goes before the fence.
Check == /\ verdict' = IF "battery" \in enabled /\ BatteryVerdict \cap {"Rth", "Land"} # {}
                       THEN CHOOSE v \in BatteryVerdict : TRUE
                       ELSE IF "geofence" \in enabled /\ FenceBroken THEN "Rth"
                       ELSE "none"
         /\ UNCHANGED <<enabled, home, position, battery>>

MonitorNext == \/ \E x \in Places, z \in Heights : SetHome([x |-> x, z |-> z])
               \/ \E x \in Places, z \in Heights : UpdatePosition([x |-> x, z |-> z])
               \/ \E c \in Charges, v \in Voltages : UpdateBattery([charge |-> c, volts |-> v])
               \/ Check

MonitorSpec == MonitorInit /\ [][MonitorNext]_monitorVars

-----------------------------------------------------------------------------
\* The worst reading decides, in whatever order the readings came: a charge
\* at the limit lands although the vehicle is out of its fence and would be
\* sent home for that, and silence means that nothing known is broken.
WorstReadingDecides == [][ Check =>
  LET critical == \E b \in battery : b.charge <= LandThreshold
      low == \E b \in battery : b.charge <= RthThreshold \/ (b.volts > 0 /\ b.volts <= MinVoltage)
  IN  verdict' = IF critical THEN "Land" ELSE IF low \/ FenceBroken THEN "Rth" ELSE "none"
  ]_monitorVars
=============================================================================
