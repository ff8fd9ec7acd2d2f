------------------------------ MODULE Engagement ------------------------------
(***************************************************************************)
(* What the commander promises the operator about steering the aircraft,   *)
(* without watchdogs, guards, links or the state table:                    *)
(*   - corrections are sent only while one target is engaged;              *)
(*   - a target is engaged only after the operator made the system ready,  *)
(*     and is never exchanged for another without standing down first;     *)
(*   - an abort ends the engagement from anywhere, and the only way on     *)
(*     from it is to the ground state, from where everything starts anew.  *)
(***************************************************************************)
EXTENDS Naturals

CONSTANTS Targets, NoTarget

VARIABLES phase, target, steered

engagementVars == <<phase, target, steered>>

EngagementInit == phase = "grounded" /\ target = NoTarget /\ steered = 0

Prepare == /\ phase = "grounded" /\ phase' = "ready"
           /\ UNCHANGED <<target, steered>>

Engage(t) == /\ phase = "ready" /\ phase' = "engaged"
             /\ target' = t
             /\ UNCHANGED steered

Steer == /\ phase = "engaged"
         /\ steered' = steered + 1
         /\ UNCHANGED <<phase, target>>

StandDown == /\ phase \in {"ready", "engaged"}
             /\ phase' \in {"grounded", "ready"}
             /\ target' = NoTarget
             /\ UNCHANGED steered

\* The target may outlive the abort, but nothing is steered towards it.
AbortEngagement == /\ phase' = "aborted"
                   /\ target' \in {target, NoTarget}
                   /\ UNCHANGED steered

ClearAbort == /\ phase = "aborted" /\ phase' = "grounded"
              /\ target' = NoTarget
              /\ UNCHANGED steered

EngagementNext == \/ Prepare \/ Steer \/ StandDown \/ AbortEngagement
                  \/ ClearAbort
                  \/ \E t \in Targets : Engage(t)

EngagementSpec == EngagementInit /\ [][EngagementNext]_engagementVars
=============================================================================
