------------------------------ MODULE Commander ------------------------------
(***************************************************************************)
(* crates/commander: the Commander object with its state machine, watchdog *)
(* registry and rate limiter, on top of the anti-loop guard's contract and *)
(* of a flight-controller adapter that may fail any call. One action per   *)
(* public operation; its callers (the REPL, the scenario runner, the bus   *)
(* loop) may call them in any order, and time passes between calls.        *)
(* A call that returns an error and changes nothing is a stuttering step.  *)
(***************************************************************************)
EXTENDS Integers, GuardContract

CONSTANTS
  Targets, NoTarget,  \* track ids, and None
  Timeout,            \* timeout of every watchdog, in ticks
  MaxCorrections      \* bound of the model on corrections sent

Watchdogs   == {"VideoLoop", "InferenceLoop", "TrackingLoop",
                "CommandLoop", "FcHeartbeat"}
DegradeDogs == {"VideoLoop", "InferenceLoop", "TrackingLoop"}
AbortDogs   == {"CommandLoop", "FcHeartbeat"}

ASSUME CommanderAssumption ==
  /\ NoTarget \notin Targets
  /\ Timeout \in [Watchdogs -> Nat]
  /\ MaxCorrections \in Nat

VARIABLES
  state,         \* StateMachine.state
  activeTarget,  \* active_target_id
  connected,     \* Commander.connected
  hbRegistered,  \* whether FcHeartbeat is in the registry
  age,           \* ticks since each watchdog was fed, up to Timeout + 1
  limiterOpen,   \* the rate limiter's interval has passed
  linked,        \* the adapter holds a connection
  armed,         \* the last arm / disarm command the FC was sent
  fcMode,        \* the last flight mode the FC was sent
  corrections,   \* position targets the FC was sent
  abortResult    \* whether the RTL of the last abort could be sent

cmdVars == <<state, activeTarget>>
dogVars == <<hbRegistered, age>>
fcVars  == <<linked, armed, fcMode, corrections>>
vars    == <<cmdVars, connected, dogVars, limiterOpen, fcVars, abortResult,
             guardVars>>

-----------------------------------------------------------------------------
(* state_machine.rs *)

States == {"Idle", "Armed", "Scanning", "TargetSelected", "Tracking",
           "TrackingDegraded", "Lost", "Rth", "Abort"}

Edges == {<<"Idle", "Armed">>, <<"Armed", "Scanning">>,
          <<"Scanning", "TargetSelected">>,
          <<"TargetSelected", "Tracking">>,
          <<"TargetSelected", "TrackingDegraded">>,
          <<"Tracking", "TrackingDegraded">>, <<"TrackingDegraded", "Tracking">>,
          <<"Tracking", "Lost">>, <<"TrackingDegraded", "Lost">>,
          <<"Lost", "Tracking">>, <<"Lost", "Rth">>, <<"Rth", "Idle">>,
          <<"Scanning", "Idle">>,
          <<"Tracking", "Scanning">>, <<"TrackingDegraded", "Scanning">>,
          <<"Lost", "Scanning">>, <<"TargetSelected", "Scanning">>,
          <<"Abort", "Idle">>}
         \cup (States \X {"Abort"})

CanGo(from, to) == from = to \/ <<from, to>> \in Edges

\* try_transition with its result ignored.
TryGo(to) == state' = IF CanGo(state, to) THEN to ELSE state

-----------------------------------------------------------------------------
(* watchdogs.rs *)

Registered == IF hbRegistered THEN Watchdogs ELSE Watchdogs \ {"FcHeartbeat"}
Late       == {w \in Registered : age[w] > Timeout[w]}

Feed(ws) == /\ age' = [w \in Watchdogs |-> IF w \in ws \cap Registered
                                           THEN 0 ELSE age[w]]
            /\ UNCHANGED hbRegistered

OlderBy1(w) == IF w \in Registered /\ age[w] <= Timeout[w]
               THEN age[w] + 1 ELSE age[w]

-----------------------------------------------------------------------------
Init ==
  /\ state = "Idle" /\ activeTarget = NoTarget
  /\ connected = FALSE /\ hbRegistered = FALSE
  /\ age = [w \in Watchdogs |-> 0]
  /\ limiterOpen = TRUE
  /\ linked = FALSE /\ armed = FALSE /\ fcMode = "Other" /\ corrections = 0
  /\ abortResult = "none"
  /\ GuardInit

\* The adapter connects; a state other than Idle makes the call fail late,
\* with the link up and the heartbeat watchdog running.
Connect ==
  /\ linked' = TRUE /\ connected' = TRUE /\ hbRegistered' = TRUE
  /\ age' = [age EXCEPT !["FcHeartbeat"] = 0]
  /\ TryGo("Armed")
  /\ UNCHANGED <<activeTarget, limiterOpen, armed, fcMode, corrections,
                 abortResult, guardVars>>

Disconnect ==
  /\ linked' = FALSE /\ connected' = FALSE
  /\ UNCHANGED <<cmdVars, dogVars, limiterOpen, armed, fcMode, corrections,
                 abortResult, guardVars>>

\* A call of the adapter can succeed only over a connection.
Arm == /\ connected /\ linked
       /\ armed' = TRUE
       /\ UNCHANGED <<cmdVars, connected, dogVars, limiterOpen, linked, fcMode,
                      corrections, abortResult, guardVars>>

Disarm == /\ connected /\ linked
          /\ armed' = FALSE
          /\ TryGo("Idle")
          /\ activeTarget' = NoTarget
          /\ UNCHANGED <<connected, dogVars, limiterOpen, linked, fcMode,
                         corrections, abortResult, guardVars>>

\* Mutant: the old target survives a new scan.
StartScanningKeepsTarget ==
  /\ CanGo(state, "Scanning")
  /\ state' = "Scanning"
  /\ UNCHANGED <<activeTarget, connected, dogVars, limiterOpen, fcVars,
                 abortResult, guardVars>>

StartScanning ==
  /\ CanGo(state, "Scanning")
  /\ state' = "Scanning" /\ activeTarget' = NoTarget
  /\ UNCHANGED <<connected, dogVars, limiterOpen, fcVars, abortResult, guardVars>>

\* Two transitions in one call: TargetSelected is never seen from outside.
SelectTarget(t) ==
  /\ state \in {"Scanning", "Tracking", "TrackingDegraded", "Lost"}
  /\ CanGo(state, "TargetSelected") /\ CanGo("TargetSelected", "Tracking")
  /\ state' = "Tracking" /\ activeTarget' = t
  /\ UNCHANGED <<connected, dogVars, limiterOpen, fcVars, abortResult, guardVars>>

SetMode(m) == /\ connected /\ linked
              /\ fcMode' = m
              /\ UNCHANGED <<cmdVars, connected, dogVars, limiterOpen, linked,
                             armed, corrections, abortResult, guardVars>>

\* abort_internal; sent says whether set_mode(Rtl) returned Ok.
AbortNow(sent) ==
  /\ sent => linked
  /\ state' = "Abort"
  /\ limiterOpen' = FALSE
  /\ IF sent THEN fcMode' = "Rtl" /\ activeTarget' = NoTarget
             ELSE UNCHANGED <<fcMode, activeTarget>>
  /\ abortResult' = IF sent THEN "sent" ELSE "failed"
  /\ UNCHANGED <<connected, linked, armed, corrections>>

Abort == \E sent \in BOOLEAN :
           AbortNow(sent) /\ UNCHANGED <<dogVars, guardVars>>

Reset == /\ state = "Abort" /\ CanGo(state, "Idle")
         /\ state' = "Idle" /\ activeTarget' = NoTarget
         /\ UNCHANGED <<connected, dogVars, limiterOpen, fcVars, abortResult,
                        guardVars>>

FeedVideo == Feed({"VideoLoop"})
             /\ UNCHANGED <<cmdVars, connected, limiterOpen, fcVars, abortResult,
                            guardVars>>

-----------------------------------------------------------------------------
(* update: one frame. It feeds the command loop's watchdog only when it    *)
(* gets to its end.                                                        *)

DetectionDogs == {"InferenceLoop", "TrackingLoop"}
AllUpdateDogs == DetectionDogs \cup {"CommandLoop"}

\* Mutant: update steers to any target without looking at the state.
MaySteerAnyState == activeTarget # NoTarget

MaySteer == activeTarget # NoTarget /\ state \in {"Tracking", "TrackingDegraded"}

\* No target, no offset, or a state that does not steer.
UpdateIdle ==
  /\ Feed(AllUpdateDogs)
  /\ UNCHANGED <<cmdVars, connected, limiterOpen, fcVars, abortResult, guardVars>>

\* send_correction_to_fc.
UpdateSent ==
  /\ MaySteer /\ Decide("Allow")
  /\ limiterOpen /\ linked /\ corrections < MaxCorrections
  /\ limiterOpen' = FALSE
  /\ corrections' = corrections + 1
  /\ Feed(AllUpdateDogs)
  /\ UNCHANGED <<cmdVars, connected, linked, armed, fcMode, abortResult>>

UpdateSendFails ==
  /\ MaySteer /\ Decide("Allow")
  /\ limiterOpen
  /\ limiterOpen' = FALSE
  /\ Feed(DetectionDogs)
  /\ UNCHANGED <<cmdVars, connected, fcVars, abortResult>>

UpdateHeldBack ==
  /\ MaySteer
  /\ \/ Decide("Allow") /\ ~limiterOpen
     \/ Decide("Suppress")
  /\ Feed(AllUpdateDogs)
  /\ UNCHANGED <<cmdVars, connected, limiterOpen, fcVars, abortResult>>

UpdateDegrades ==
  /\ MaySteer /\ Decide("Degrade")
  /\ TryGo("TrackingDegraded")
  /\ Feed(AllUpdateDogs)
  /\ UNCHANGED <<activeTarget, connected, limiterOpen, fcVars, abortResult>>

UpdateAborts ==
  /\ MaySteer /\ Decide("Abort")
  /\ \E sent \in BOOLEAN : AbortNow(sent)
  /\ Feed(DetectionDogs)

Steering == UpdateSent \/ UpdateSendFails \/ UpdateHeldBack
            \/ UpdateDegrades \/ UpdateAborts

Update == UpdateIdle \/ Steering

\* process_watchdog_expiries: the Abort entries of its result are for the
\* caller to act on.
ProcessExpiries ==
  /\ Late # {}
  /\ IF Late \cap DegradeDogs # {} /\ state = "Tracking"
     THEN TryGo("TrackingDegraded") ELSE UNCHANGED state
  /\ UNCHANGED <<activeTarget, connected, dogVars, limiterOpen, fcVars,
                 abortResult, guardVars>>

-----------------------------------------------------------------------------
\* Time passes: watchdogs grow older, the limiter and the guard may open.
Tick == /\ age' = [w \in Watchdogs |-> OlderBy1(w)]
        /\ limiterOpen' \in {limiterOpen, TRUE}
        /\ GuardElapse
        /\ UNCHANGED <<cmdVars, connected, hbRegistered, fcVars, abortResult>>

Operator == \/ Connect \/ Disconnect \/ Arm \/ Disarm \/ StartScanning
            \/ Abort \/ Reset
            \/ \E t \in Targets : SelectTarget(t)
            \/ \E m \in {"Rtl", "Other"} : SetMode(m)

Next == Operator \/ FeedVideo \/ Update \/ ProcessExpiries \/ Tick

Spec == Init /\ [][Next]_vars

-----------------------------------------------------------------------------
(* Every variable stays in its type; of the nine states of the state       *)
(* machine three are never entered from any sequence of calls.             *)
TypeOK ==
  /\ state \in States \ {"TargetSelected", "Lost", "Rth"}
  /\ activeTarget \in Targets \cup {NoTarget}
  /\ connected \in BOOLEAN /\ hbRegistered \in BOOLEAN
  /\ age \in [Watchdogs -> Nat]
  /\ \A w \in Watchdogs : age[w] <= Timeout[w] + 1
  /\ limiterOpen \in BOOLEAN
  /\ linked \in BOOLEAN /\ armed \in BOOLEAN
  /\ fcMode \in {"Rtl", "Other"}
  /\ corrections \in 0..MaxCorrections
  /\ abortResult \in {"none", "sent", "failed"}
  /\ cooling \in BOOLEAN /\ decision \in Decisions \cup {"none"}

(* active_target_id and the state machine are two fields that every        *)
(* operation has to change together: there is a target only while it may   *)
(* be steered to, or left over from an abort whose RTL could not be sent.  *)
TargetMatchesState ==
  activeTarget # NoTarget =>
    \/ state \in {"Tracking", "TrackingDegraded"}
    \/ state = "Abort" /\ abortResult = "failed"

(* The commander keeps the engagement promise: one target at a time, no    *)
(* correction outside an engagement, no way from an abort to a correction  *)
(* but over the ground state.                                              *)
Phase == IF state = "Abort" THEN "aborted"
         ELSE IF activeTarget # NoTarget THEN "engaged"
         ELSE IF state = "Idle" THEN "grounded" ELSE "ready"
Engaged == INSTANCE Engagement
             WITH phase <- Phase, target <- activeTarget, steered <- corrections
ImplementsEngagement == Engaged!EngagementSpec

=============================================================================
