---------------------------- MODULE GuardContract ----------------------------
(***************************************************************************)
(* What the commander may count on from the anti-loop guard: a verdict for *)
(* every candidate correction, and a cooling period after every detected   *)
(* oscillation during which nothing passes.                                *)
(***************************************************************************)
VARIABLES
  cooling,    \* a freeze is in force
  decision    \* the guard's last verdict, "none" once time has passed

guardVars == <<cooling, decision>>

Trips     == {"Degrade", "Abort"}
Decisions == {"Allow", "Suppress"} \cup Trips

GuardInit == cooling = FALSE /\ decision = "none"

Decide(d) == /\ d \in Decisions
             /\ cooling => d = "Suppress"
             /\ cooling' = (cooling \/ d \in Trips)
             /\ decision' = d

\* Time passes; a freeze may end, and never starts by itself.
GuardElapse == /\ cooling' \in {cooling, FALSE}
               /\ decision' = "none"

GuardNext == GuardElapse \/ \E d \in Decisions : Decide(d)

GuardSpec == GuardInit /\ [][GuardNext]_guardVars
=============================================================================
