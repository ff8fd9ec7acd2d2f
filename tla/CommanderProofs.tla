--------------------------- MODULE CommanderProofs ---------------------------
(***************************************************************************)
(* Proofs about Commander, for every set of targets, every assignment of   *)
(* timeouts and every bound on corrections; and about who drives it: the   *)
(* loop of the service (CommanderBus) and the drivers of a session on the  *)
(* ground (OperatorSession). Both keep what Commander proves of any        *)
(* sequence of calls, and each adds a property of its own order of calls.  *)
(***************************************************************************)
EXTENDS CommanderBus, OperatorSession, TLAPS

(* The two facts that are inductive together: which states are entered     *)
(* decides when a target may exist.                                        *)
CInv == TypeOK /\ TargetMatchesState

-----------------------------------------------------------------------------
(* Watchdog ages stay below their saturation point when they are fed, when *)
(* one is re-registered and when time passes.                              *)
AgesOK(a) == /\ a \in [Watchdogs -> Nat]
             /\ \A w \in Watchdogs : a[w] <= Timeout[w] + 1

LEMMA FeedKeepsAges ==
  ASSUME AgesOK(age), NEW ws, Feed(ws)
  PROVE  AgesOK(age') /\ hbRegistered' = hbRegistered
BY CommanderAssumption DEF AgesOK, Feed

LEMMA RegisterKeepsAges ==
  ASSUME AgesOK(age), age' = [age EXCEPT !["FcHeartbeat"] = 0]
  PROVE  AgesOK(age')
BY CommanderAssumption DEF AgesOK, Watchdogs

LEMMA TickKeepsAges ==
  ASSUME AgesOK(age), age' = [w \in Watchdogs |-> OlderBy1(w)]
  PROVE  AgesOK(age')
BY CommanderAssumption DEF AgesOK, OlderBy1

-----------------------------------------------------------------------------
(* The transition table as far as the operations use it.                   *)
Entered == {"Idle", "Armed", "Scanning", "Tracking", "TrackingDegraded", "Abort"}

LEMMA EnteredStates == Entered = States \ {"TargetSelected", "Lost", "Rth"}
BY DEF Entered, States

LEMMA ArmedOnlyFromIdle ==
  ASSUME state \in Entered, CanGo(state, "Armed")
  PROVE  state \in {"Idle", "Armed"}
BY DEF Entered, CanGo, Edges, States

LEMMA IdleNotFromTracking ==
  ASSUME state \in Entered, CanGo(state, "Idle")
  PROVE  state \in {"Idle", "Scanning", "Abort"}
BY DEF Entered, CanGo, Edges, States

LEMMA SelectionOnlyFromScanning ==
  ASSUME state \in Entered, CanGo(state, "TargetSelected")
  PROVE  state = "Scanning"
BY DEF Entered, CanGo, Edges, States

LEMMA ScanningNotFromIdle ==
  ASSUME state \in Entered, CanGo(state, "Scanning")
  PROVE  state \in {"Armed", "Scanning", "Tracking", "TrackingDegraded"}
BY DEF Entered, CanGo, Edges, States

-----------------------------------------------------------------------------
(* What TypeOK says of everything but the ages, in two parts: the flags,   *)
(* and the variables that range over larger sets.                          *)
Flags == /\ connected \in BOOLEAN /\ hbRegistered \in BOOLEAN
         /\ limiterOpen \in BOOLEAN
         /\ linked \in BOOLEAN /\ armed \in BOOLEAN
         /\ cooling \in BOOLEAN
Values == /\ state \in Entered
          /\ activeTarget \in Targets \cup {NoTarget}
          /\ fcMode \in {"Rtl", "Other"}
          /\ corrections \in 0..MaxCorrections
          /\ abortResult \in {"none", "sent", "failed"}
          /\ decision \in Decisions \cup {"none"}

LEMMA TypeOKParts == TypeOK <=> Flags /\ Values /\ AgesOK(age)
BY EnteredStates DEF TypeOK, Flags, Values, AgesOK

LEMMA TypeOKPartsPrimed == TypeOK' <=> Flags' /\ Values' /\ AgesOK(age')
BY EnteredStates DEF TypeOK, Flags, Values, AgesOK

LEMMA InitEstablishes == Init => CInv
<1> SUFFICES ASSUME Init PROVE CInv
  OBVIOUS
<1>1. Flags
  BY Zenon DEF Init, GuardInit, Flags
<1>2. Values
  BY CommanderAssumption DEF Init, GuardInit, Values, Entered
<1>3. AgesOK(age)
  BY CommanderAssumption DEF Init, AgesOK
<1>4. TargetMatchesState
  BY DEF Init, TargetMatchesState
<1> QED
  BY <1>1, <1>2, <1>3, <1>4, TypeOKParts DEF CInv

LEMMA DecideTyped ==
  ASSUME cooling \in BOOLEAN, NEW d, Decide(d)
  PROVE  cooling' \in BOOLEAN /\ decision' \in Decisions \cup {"none"}
BY Zenon DEF Decide

(* What a step has to show of itself: the flags it sets, the values it     *)
(* sets, the ages, and that target and state still match.                  *)
Kept == Flags' /\ Values' /\ AgesOK(age') /\ TargetMatchesState'

(* Operations that leave ages and guard alone only need the values.        *)
LEMMA OperatorKeeps == CInv /\ Operator => Kept
<1> SUFFICES ASSUME CInv, Operator PROVE Kept
  OBVIOUS
<1>0. Flags /\ Values /\ AgesOK(age) /\ TargetMatchesState
  BY TypeOKParts DEF CInv
<1>1. CASE Connect
  <2>1. Flags'
    BY <1>0, <1>1, Zenon DEF Connect, Flags, guardVars
  <2>2. AgesOK(age')
    BY <1>0, <1>1, RegisterKeepsAges DEF Connect
  <2>3. Values' /\ TargetMatchesState'
    BY <1>0, <1>1, ArmedOnlyFromIdle
       DEF Connect, TryGo, Values, TargetMatchesState, Entered, guardVars
  <2> QED
    BY <2>1, <2>2, <2>3 DEF Kept
<1>2. CASE Disconnect
  <2>1. Flags'
    BY <1>0, <1>2, Zenon DEF Disconnect, Flags, dogVars, guardVars
  <2>2. AgesOK(age') /\ Values' /\ TargetMatchesState'
    BY <1>0, <1>2
       DEF Disconnect, Values, TargetMatchesState, cmdVars, dogVars, guardVars
  <2> QED
    BY <2>1, <2>2 DEF Kept
<1>3. CASE Arm
  <2>1. Flags'
    BY <1>0, <1>3, Zenon DEF Arm, Flags, dogVars, guardVars
  <2>2. AgesOK(age') /\ Values' /\ TargetMatchesState'
    BY <1>0, <1>3
       DEF Arm, Values, TargetMatchesState, cmdVars, dogVars, guardVars
  <2> QED
    BY <2>1, <2>2 DEF Kept
<1>4. CASE Disarm
  <2>1. Flags'
    BY <1>0, <1>4, Zenon DEF Disarm, Flags, dogVars, guardVars
  <2>2. AgesOK(age') /\ Values' /\ TargetMatchesState'
    BY <1>0, <1>4
       DEF Disarm, TryGo, Values, TargetMatchesState, Entered, dogVars, guardVars
  <2> QED
    BY <2>1, <2>2 DEF Kept
<1>5. CASE StartScanning
  <2>1. Flags'
    BY <1>0, <1>5, Zenon DEF StartScanning, Flags, dogVars, fcVars, guardVars
  <2>2. AgesOK(age') /\ Values' /\ TargetMatchesState'
    BY <1>0, <1>5 DEF StartScanning, Values, TargetMatchesState, Entered,
                      dogVars, fcVars, guardVars
  <2> QED
    BY <2>1, <2>2 DEF Kept
<1>6. CASE Abort
  <2>1. Flags'
    BY <1>0, <1>6, Zenon DEF Abort, AbortNow, Flags, dogVars, guardVars
  <2>2. AgesOK(age')
    BY <1>0, <1>6 DEF Abort, dogVars
  <2>3. Values' /\ TargetMatchesState'
    BY <1>0, <1>6 DEF Abort, AbortNow, Values, TargetMatchesState, Entered,
                      guardVars
  <2> QED
    BY <2>1, <2>2, <2>3 DEF Kept
<1>7. CASE Reset
  <2>1. Flags'
    BY <1>0, <1>7, Zenon DEF Reset, Flags, dogVars, fcVars, guardVars
  <2>2. AgesOK(age') /\ Values' /\ TargetMatchesState'
    BY <1>0, <1>7 DEF Reset, Values, TargetMatchesState, Entered,
                      dogVars, fcVars, guardVars
  <2> QED
    BY <2>1, <2>2 DEF Kept
<1>8. CASE \E t \in Targets : SelectTarget(t)
  <2>1. Flags'
    BY <1>0, <1>8, Zenon DEF SelectTarget, Flags, dogVars, fcVars, guardVars
  <2>2. AgesOK(age') /\ Values' /\ TargetMatchesState'
    BY <1>0, <1>8 DEF SelectTarget, Values, TargetMatchesState, Entered,
                      dogVars, fcVars, guardVars
  <2> QED
    BY <2>1, <2>2 DEF Kept
<1>9. CASE \E m \in {"Rtl", "Other"} : SetMode(m)
  <2>1. Flags'
    BY <1>0, <1>9, Zenon DEF SetMode, Flags, dogVars, guardVars
  <2>2. AgesOK(age') /\ Values' /\ TargetMatchesState'
    BY <1>0, <1>9 DEF SetMode, Values, TargetMatchesState, cmdVars, dogVars,
                      guardVars
  <2> QED
    BY <2>1, <2>2 DEF Kept
<1> QED
  BY <1>1, <1>2, <1>3, <1>4, <1>5, <1>6, <1>7, <1>8, <1>9 DEF Operator

(* A frame: every branch of update feeds watchdogs and asks the guard.     *)
LEMMA UpdateKeeps == CInv /\ Update => Kept
<1> SUFFICES ASSUME CInv, Update PROVE Kept
  OBVIOUS
<1>0. Flags /\ Values /\ AgesOK(age) /\ TargetMatchesState
  BY TypeOKParts DEF CInv
<1>a. cooling \in BOOLEAN
  BY <1>0 DEF Flags
<1>b. AgesOK(age') /\ hbRegistered' = hbRegistered
  BY <1>0, FeedKeepsAges
     DEF Update, UpdateIdle, Steering, UpdateSent, UpdateSendFails,
         UpdateHeldBack, UpdateDegrades, UpdateAborts
<1>1. CASE UpdateIdle
  <2>1. Flags'
    BY <1>0, <1>b, <1>1, Zenon DEF UpdateIdle, Flags, fcVars, guardVars
  <2>2. Values' /\ TargetMatchesState'
    BY <1>0, <1>1 DEF UpdateIdle, Values, TargetMatchesState, cmdVars, fcVars,
                      guardVars
  <2> QED
    BY <1>b, <2>1, <2>2 DEF Kept
<1>2. ASSUME Steering PROVE Kept
  <2>0. cooling' \in BOOLEAN /\ decision' \in Decisions \cup {"none"}
    BY <1>a, <1>2, DecideTyped
       DEF Steering, UpdateSent, UpdateSendFails, UpdateHeldBack,
           UpdateDegrades, UpdateAborts
  <2>1. CASE UpdateSent
    <3>1. Flags'
      BY <1>0, <1>b, <2>0, <2>1, Zenon DEF UpdateSent, Flags
    <3>2. Values' /\ TargetMatchesState'
      BY <1>0, <2>0, <2>1, CommanderAssumption
         DEF UpdateSent, Values, TargetMatchesState, cmdVars
    <3> QED
      BY <1>b, <3>1, <3>2 DEF Kept
  <2>2. CASE UpdateSendFails
    <3>1. Flags'
      BY <1>0, <1>b, <2>0, <2>2, Zenon DEF UpdateSendFails, Flags, fcVars
    <3>2. Values' /\ TargetMatchesState'
      BY <1>0, <2>0, <2>2
         DEF UpdateSendFails, Values, TargetMatchesState, cmdVars, fcVars
    <3> QED
      BY <1>b, <3>1, <3>2 DEF Kept
  <2>3. CASE UpdateHeldBack
    <3>1. Flags'
      BY <1>0, <1>b, <2>0, <2>3, Zenon DEF UpdateHeldBack, Flags, fcVars
    <3>2. Values' /\ TargetMatchesState'
      BY <1>0, <2>0, <2>3
         DEF UpdateHeldBack, Values, TargetMatchesState, cmdVars, fcVars
    <3> QED
      BY <1>b, <3>1, <3>2 DEF Kept
  <2>4. CASE UpdateDegrades
    <3>1. Flags'
      BY <1>0, <1>b, <2>0, <2>4, Zenon DEF UpdateDegrades, Flags, fcVars
    <3>2. Values' /\ TargetMatchesState'
      BY <1>0, <2>0, <2>4
         DEF UpdateDegrades, TryGo, MaySteer, Values, TargetMatchesState,
             Entered, fcVars
    <3> QED
      BY <1>b, <3>1, <3>2 DEF Kept
  <2>5. CASE UpdateAborts
    <3>1. Flags'
      BY <1>0, <1>b, <2>0, <2>5, Zenon DEF UpdateAborts, AbortNow, Flags
    <3>2. Values' /\ TargetMatchesState'
      BY <1>0, <2>0, <2>5
         DEF UpdateAborts, AbortNow, Values, TargetMatchesState, Entered
    <3> QED
      BY <1>b, <3>1, <3>2 DEF Kept
  <2> QED
    BY <1>2, <2>1, <2>2, <2>3, <2>4, <2>5 DEF Steering
<1> QED
  BY <1>1, <1>2 DEF Update

LEMMA VideoKeeps == CInv /\ FeedVideo => Kept
<1> SUFFICES ASSUME CInv, FeedVideo PROVE Kept
  OBVIOUS
<1>0. Flags /\ Values /\ AgesOK(age) /\ TargetMatchesState
  BY TypeOKParts DEF CInv
<1>1. AgesOK(age') /\ hbRegistered' = hbRegistered
  BY <1>0, FeedKeepsAges DEF FeedVideo
<1>2. Flags'
  BY <1>0, <1>1, Zenon DEF FeedVideo, Flags, fcVars, guardVars
<1>3. Values' /\ TargetMatchesState'
  BY <1>0 DEF FeedVideo, Values, TargetMatchesState, cmdVars, fcVars, guardVars
<1> QED
  BY <1>1, <1>2, <1>3 DEF Kept

LEMMA ExpiriesKeep == CInv /\ ProcessExpiries => Kept
<1> SUFFICES ASSUME CInv, ProcessExpiries PROVE Kept
  OBVIOUS
<1>0. Flags /\ Values /\ AgesOK(age) /\ TargetMatchesState
  BY TypeOKParts DEF CInv
<1>1. Flags'
  BY <1>0, Zenon DEF ProcessExpiries, Flags, dogVars, fcVars, guardVars
<1>2. AgesOK(age') /\ Values' /\ TargetMatchesState'
  BY <1>0 DEF ProcessExpiries, TryGo, Values, TargetMatchesState, Entered,
              dogVars, fcVars, guardVars
<1> QED
  BY <1>1, <1>2 DEF Kept

LEMMA TickKeeps == CInv /\ Tick => Kept
<1> SUFFICES ASSUME CInv, Tick PROVE Kept
  OBVIOUS
<1>0. Flags /\ Values /\ AgesOK(age) /\ TargetMatchesState
  BY TypeOKParts DEF CInv
<1>1. AgesOK(age')
  BY <1>0, TickKeepsAges DEF Tick
<1>2. Flags'
  <2>1. cooling' \in BOOLEAN /\ limiterOpen' \in BOOLEAN
    BY <1>0, Zenon DEF Tick, GuardElapse, Flags
  <2> QED
    BY <1>0, <2>1, Zenon DEF Tick, Flags, fcVars
<1>3. Values' /\ TargetMatchesState'
  BY <1>0 DEF Tick, GuardElapse, Values, TargetMatchesState, cmdVars, fcVars
<1> QED
  BY <1>1, <1>2, <1>3 DEF Kept

LEMMA NextKeeps == CInv /\ [Next]_vars => CInv'
<1> SUFFICES ASSUME CInv, [Next]_vars PROVE CInv'
  OBVIOUS
<1>1. CASE Next
  <2>1. Kept
    BY <1>1, OperatorKeeps, UpdateKeeps, VideoKeeps, ExpiriesKeep, TickKeeps
       DEF Next
  <2> QED
    BY <2>1, TypeOKPartsPrimed DEF Kept, CInv
<1>2. CASE UNCHANGED vars
  BY <1>2 DEF vars, cmdVars, dogVars, fcVars, guardVars, CInv, TypeOK,
              TargetMatchesState
<1> QED
  BY <1>1, <1>2

(* Every reachable state of a commander satisfies both.                    *)
THEOREM CommanderInvariant == Spec => []CInv
<1> QED
  BY InitEstablishes, NextKeeps, PTL DEF Spec

(* Type correctness, with the states the state machine never enters.       *)
THEOREM CommanderTypes == Spec => []TypeOK
<1>1. CInv => TypeOK
  BY DEF CInv
<1> QED
  BY <1>1, CommanderInvariant, PTL

(* A target exists only where it may be steered to, or after a failed RTL. *)
THEOREM TargetNeverDangles == Spec => []TargetMatchesState
<1>1. CInv => TargetMatchesState
  BY DEF CInv
<1> QED
  BY <1>1, CommanderInvariant, PTL

-----------------------------------------------------------------------------
(* The refinement. The lemmas below say what each kind of step does to the *)
(* phase of the engagement.                                                *)
EStep == [Engaged!EngagementNext]_(Engaged!engagementVars)

LEMMA InitMaps == Init => Engaged!EngagementInit
BY DEF Init, Engaged!EngagementInit, Phase

\* A step that leaves target and corrections alone and does not move the
\* state across a phase.
LEMMA SamePhaseStutters ==
  ASSUME UNCHANGED <<activeTarget, corrections>>, Phase' = Phase
  PROVE  EStep
BY DEF EStep, Engaged!engagementVars

LEMMA DegradingKeepsPhase ==
  ASSUME UNCHANGED activeTarget, state' # state,
         state \in {"Tracking", "TrackingDegraded"}, state' = "TrackingDegraded"
  PROVE  Phase' = Phase
BY DEF Phase

LEMMA AbortMaps ==
  ASSUME NEW sent, AbortNow(sent)
  PROVE  EStep
<1>1. Engaged!AbortEngagement
  BY DEF AbortNow, Engaged!AbortEngagement, Phase
<1> QED
  BY <1>1 DEF EStep, Engaged!EngagementNext

LEMMA OperatorMaps == CInv /\ Operator => EStep
<1> SUFFICES ASSUME CInv, Operator PROVE EStep
  OBVIOUS
<1>0. state \in Entered /\ TargetMatchesState
  BY TypeOKParts DEF CInv, Values
<1>1. CASE Connect
  <2>1. CASE state = "Idle"
    <3>1. Engaged!Prepare
      BY <1>0, <1>1, <2>1 DEF Connect, TryGo, CanGo, Edges, Engaged!Prepare,
                              Phase, TargetMatchesState
    <3> QED
      BY <3>1 DEF EStep, Engaged!EngagementNext
  <2>2. CASE state # "Idle"
    <3>1. state' = state
      BY <1>0, <1>1, <2>2, ArmedOnlyFromIdle DEF Connect, TryGo
    <3> QED
      BY <1>1, <3>1, SamePhaseStutters DEF Connect, Phase
  <2> QED
    BY <2>1, <2>2
<1>2. CASE Disconnect
  BY <1>2, SamePhaseStutters DEF Disconnect, Phase, cmdVars
<1>3. CASE Arm
  BY <1>3, SamePhaseStutters DEF Arm, Phase, cmdVars
<1>4. CASE Disarm
  <2>1. corrections' = corrections /\ activeTarget' = NoTarget
    BY <1>4 DEF Disarm
  <2>2. CASE state = "Abort"
    <3>1. Engaged!ClearAbort
      BY <1>4, <2>1, <2>2 DEF Disarm, TryGo, CanGo, Edges, Engaged!ClearAbort,
                              Phase
    <3> QED
      BY <3>1 DEF EStep, Engaged!EngagementNext
  <2>3. CASE state = "Idle"
    <3>1. state' = state /\ activeTarget = NoTarget
      BY <1>0, <1>4, <2>3 DEF Disarm, TryGo, CanGo, TargetMatchesState
    <3> QED
      BY <2>1, <3>1, SamePhaseStutters DEF Phase
  <2>4. CASE state \notin {"Abort", "Idle"}
    <3>1. state' # "Abort"
      BY <1>4, <2>4 DEF Disarm, TryGo
    <3>2. Engaged!StandDown
      BY <2>1, <2>4, <3>1 DEF Engaged!StandDown, Phase
    <3> QED
      BY <3>2 DEF EStep, Engaged!EngagementNext
  <2> QED
    BY <2>2, <2>3, <2>4
<1>5. CASE StartScanning
  <2>1. state \notin {"Abort", "Idle"} /\ state' = "Scanning"
    BY <1>0, <1>5, ScanningNotFromIdle DEF StartScanning
  <2>2. Engaged!StandDown
    BY <1>5, <2>1 DEF StartScanning, Engaged!StandDown, Phase, fcVars
  <2> QED
    BY <2>2 DEF EStep, Engaged!EngagementNext
<1>6. CASE Abort
  BY <1>6, AbortMaps DEF Abort
<1>7. CASE Reset
  <2>1. Engaged!ClearAbort
    BY <1>7 DEF Reset, Engaged!ClearAbort, Phase, fcVars
  <2> QED
    BY <2>1 DEF EStep, Engaged!EngagementNext
<1>8. ASSUME NEW t \in Targets, SelectTarget(t) PROVE EStep
  <2>1. state = "Scanning" /\ activeTarget = NoTarget
    BY <1>0, <1>8, SelectionOnlyFromScanning DEF SelectTarget, TargetMatchesState
  <2>2. Engaged!Engage(t)
    BY <1>8, <2>1, CommanderAssumption
       DEF SelectTarget, Engaged!Engage, Phase, fcVars
  <2> QED
    BY <2>2 DEF EStep, Engaged!EngagementNext
<1>9. ASSUME NEW m, SetMode(m) PROVE EStep
  BY <1>9, SamePhaseStutters DEF SetMode, Phase, cmdVars
<1> QED
  BY <1>1, <1>2, <1>3, <1>4, <1>5, <1>6, <1>7, <1>8, <1>9 DEF Operator

LEMMA UpdateMaps == Update => EStep
<1> SUFFICES ASSUME Update PROVE EStep
  OBVIOUS
<1>1. CASE UpdateIdle
  BY <1>1, SamePhaseStutters DEF UpdateIdle, Phase, cmdVars, fcVars
<1>2. CASE UpdateSent
  <2>1. Engaged!Steer
    BY <1>2 DEF UpdateSent, MaySteer, Engaged!Steer, Phase, cmdVars
  <2> QED
    BY <2>1 DEF EStep, Engaged!EngagementNext
<1>3. CASE UpdateSendFails
  BY <1>3, SamePhaseStutters DEF UpdateSendFails, Phase, cmdVars, fcVars
<1>4. CASE UpdateHeldBack
  BY <1>4, SamePhaseStutters DEF UpdateHeldBack, Phase, cmdVars, fcVars
<1>5. CASE UpdateDegrades
  <2>1. Phase' = Phase
    BY <1>5, DegradingKeepsPhase DEF UpdateDegrades, MaySteer, TryGo, Phase
  <2> QED
    BY <1>5, <2>1, SamePhaseStutters DEF UpdateDegrades, fcVars
<1>6. CASE UpdateAborts
  BY <1>6, AbortMaps DEF UpdateAborts
<1> QED
  BY <1>1, <1>2, <1>3, <1>4, <1>5, <1>6 DEF Update, Steering

LEMMA ExpiriesMap == ProcessExpiries => EStep
<1> SUFFICES ASSUME ProcessExpiries PROVE EStep
  OBVIOUS
<1>1. Phase' = Phase
  BY DegradingKeepsPhase DEF ProcessExpiries, TryGo, Phase
<1> QED
  BY <1>1, SamePhaseStutters DEF ProcessExpiries, fcVars

LEMMA StepMaps == CInv /\ [Next]_vars => EStep
<1> SUFFICES ASSUME CInv, [Next]_vars PROVE EStep
  OBVIOUS
<1>1. CASE FeedVideo
  BY <1>1, SamePhaseStutters DEF FeedVideo, Phase, cmdVars, fcVars
<1>2. CASE Tick
  BY <1>2, SamePhaseStutters DEF Tick, Phase, cmdVars, fcVars
<1>3. CASE UNCHANGED vars
  BY <1>3, SamePhaseStutters DEF vars, Phase, cmdVars, fcVars
<1> QED
  BY <1>1, <1>2, <1>3, OperatorMaps, UpdateMaps, ExpiriesMap DEF Next

(* The commander implements the engagement it promises the operator.       *)
THEOREM CommanderImplementsEngagement == Spec => ImplementsEngagement
<1>1. Spec => []CInv
  BY CommanderInvariant
<1>2. CInv /\ [Next]_vars => [Engaged!EngagementNext]_(Engaged!engagementVars)
  BY StepMaps DEF EStep
<1> QED
  BY InitMaps, <1>1, <1>2, PTL
     DEF Spec, ImplementsEngagement, Engaged!EngagementSpec

-----------------------------------------------------------------------------
(* A step of a loop that only feeds watchdogs is a step of no operation of *)
(* the commander: it keeps the invariant and the engagement as they are.   *)
LEMMA OnlyFeedKeeps ==
  ASSUME CInv, NEW ws, OnlyFeed(ws)
  PROVE  CInv' /\ EStep
<1>0. Flags /\ Values /\ AgesOK(age) /\ TargetMatchesState
  BY TypeOKParts DEF CInv
<1>1. AgesOK(age') /\ hbRegistered' = hbRegistered
  BY <1>0, FeedKeepsAges DEF OnlyFeed
<1>2. Flags'
  BY <1>0, <1>1, Zenon DEF OnlyFeed, Flags, fcVars, guardVars
<1>3. Values' /\ TargetMatchesState'
  BY <1>0 DEF OnlyFeed, Values, TargetMatchesState, cmdVars, fcVars, guardVars
<1>4. EStep
  BY SamePhaseStutters DEF OnlyFeed, cmdVars, fcVars, Phase
<1> QED
  BY <1>1, <1>2, <1>3, <1>4, TypeOKPartsPrimed DEF CInv

(* What a step of a driver may be, as the commander sees it.               *)
CommanderSees == [Next]_vars \/ \E ws \in SUBSET Watchdogs : OnlyFeed(ws)

LEMMA DrivenKeeps == CInv /\ CommanderSees => CInv' /\ EStep
BY OnlyFeedKeeps, NextKeeps, StepMaps DEF CommanderSees

-----------------------------------------------------------------------------
(* The loop of the service.                                                *)

LEMMA SubsetsOfWatchdogs ==
  /\ {"FcHeartbeat"} \in SUBSET Watchdogs
  /\ {"CommandLoop", "VideoLoop"} \in SUBSET Watchdogs
  /\ {"TrackingLoop", "InferenceLoop", "VideoLoop"} \in SUBSET Watchdogs
BY DEF Watchdogs

(* What the loop selects are tracks the tracker has published.             *)
TracksOK == tracks \in Seq(TrackMsgs) /\ track \in TrackMsgs \cup {NoTrack}
            /\ (bpc \in {"select", "steer", "fed"} => track \in TrackMsgs)

LEMMA LoopStepSeen == TracksOK /\ LoopStep => CommanderSees
<1> SUFFICES ASSUME TracksOK, LoopStep PROVE CommanderSees
  OBVIOUS
<1>1. CASE LoopConnect \/ LoopScan \/ LoopAbort \/ LoopReset
  BY <1>1 DEF LoopConnect, LoopScan, LoopAbort, LoopReset, CommanderSees, Next,
              Operator
<1>2. CASE LoopDrained \/ LoopSleep
  BY <1>2 DEF LoopDrained, LoopSleep, CommanderSees
<1>3. CASE LoopTelemetry \/ LoopTake \/ LoopFed \/ LoopTick
  BY <1>3, SubsetsOfWatchdogs
     DEF LoopTelemetry, LoopTake, LoopFed, LoopTick, CommanderSees
<1>4. CASE LoopSelect
  <2>1. track.id \in Targets
    BY <1>4 DEF TracksOK, LoopSelect, At, TrackMsgs
  <2> QED
    BY <1>4, <2>1 DEF LoopSelect, CommanderSees, Next, Operator
<1>5. CASE LoopSteer
  BY <1>5 DEF LoopSteer, CommanderSees, Next, Update
<1>6. CASE LoopExpiries
  BY <1>6 DEF LoopExpiries, CommanderSees, Next
<1> QED
  BY <1>1, <1>2, <1>3, <1>4, <1>5, <1>6 DEF LoopStep

(* An abort leaves the machine in ABORT or IDLE, past the two steps that    *)
(* connect and start to scan, and nothing else leads out of these states.  *)
AbortHolds == abortResult # "none" =>
                state \in {"Abort", "Idle"} /\ bpc \notin {"start", "scan"}

BusInv == CInv /\ TracksOK /\ AbortHolds

LEMMA BusInitInv == BusInit => BusInv
<1> SUFFICES ASSUME BusInit PROVE BusInv
  OBVIOUS
<1>1. CInv /\ AbortHolds
  BY InitEstablishes DEF BusInit, Init, AbortHolds
<1>2. TracksOK
  BY DEF BusInit, TracksOK, Subscription
<1> QED
  BY <1>1, <1>2 DEF BusInv

LEMMA TracksStayTyped == TracksOK /\ BusNext => TracksOK'
<1> SUFFICES ASSUME TracksOK, BusNext PROVE TracksOK'
  OBVIOUS
<1>1. CASE LoopTake
  <2>1. tracks # <<>> /\ track' = Head(tracks) /\ tracks' = Tail(tracks)
    BY <1>1 DEF LoopTake, Pending, Received, Rest
  <2>2. Head(tracks) \in TrackMsgs /\ Tail(tracks) \in Seq(TrackMsgs)
    BY <2>1 DEF TracksOK
  <2> QED
    BY <2>1, <2>2 DEF TracksOK
<1>2. CASE LoopConnect \/ LoopScan \/ LoopTelemetry \/ LoopDrained \/ LoopSelect
           \/ LoopSteer \/ LoopFed
  BY <1>2 DEF LoopConnect, LoopScan, LoopTelemetry, LoopDrained, LoopSelect,
              LoopSteer, LoopFed, At, TracksOK, busVars
<1>3. CASE LoopTick \/ LoopExpiries \/ LoopAbort \/ LoopReset \/ LoopSleep
  BY <1>3 DEF LoopTick, LoopExpiries, LoopAbort, LoopReset, LoopSleep, At,
              TracksOK, busVars
<1>4. CASE BusTick \/ BridgePublish \/ \E service \in Services : Dies(service)
  BY <1>4 DEF BusTick, BridgePublish, Dies, TracksOK, busVars, loopVars
<1>5. CASE TrackerPublish
  <2>1. PICK t \in TrackMsgs : tracks' \in Put(tracks, TRUE, t)
    BY <1>5 DEF TrackerPublish
  <2>2. tracks' \in {tracks, Append(tracks, t)}
    BY <2>1 DEF Put
  <2>3. Append(tracks, t) \in Seq(TrackMsgs)
    BY DEF TracksOK
  <2> QED
    BY <1>5, <2>2, <2>3 DEF TrackerPublish, TracksOK, loopVars
<1> QED
  BY <1>1, <1>2, <1>3, <1>4, <1>5 DEF BusNext, LoopStep

(* After an abort the engagement cannot go on: no target may be selected   *)
(* and no correction made in ABORT or IDLE.                                *)
LEMMA NoSteeringAfterAbort ==
  ASSUME state \in {"Abort", "Idle"}
  PROVE  ~MaySteer /\ ~Steering
BY DEF MaySteer, Steering, UpdateSent, UpdateSendFails, UpdateHeldBack,
       UpdateDegrades, UpdateAborts

(* What a step of the loop does to an abort, before and after it happened. *)
LEMMA LoopStepHoldsAbort ==
  ASSUME AbortHolds, LoopStep
  PROVE  /\ AbortHolds'
         /\ abortResult # "none" => /\ corrections' = corrections
                                    /\ abortResult' # "none"
<1>1. CASE LoopConnect
  BY <1>1 DEF LoopConnect, Connect, AbortHolds, vars, fcVars
<1>2. CASE LoopScan
  BY <1>2 DEF LoopScan, At, StartScanning, AbortHolds, fcVars
<1>3. CASE LoopTelemetry
  BY <1>3 DEF LoopTelemetry, At, OnlyFeed, AbortHolds, vars, fcVars, cmdVars
<1>4. CASE LoopTake \/ LoopFed \/ LoopTick
  BY <1>4 DEF LoopTake, LoopFed, LoopTick, At, OnlyFeed, AbortHolds, fcVars,
              cmdVars
<1>5. CASE LoopDrained \/ LoopSleep
  BY <1>5 DEF LoopDrained, LoopSleep, At, AbortHolds, vars, fcVars, cmdVars
<1>6. CASE LoopSelect
  BY <1>6 DEF LoopSelect, At, SelectTarget, AbortHolds, vars, fcVars, cmdVars
<1>7. CASE LoopSteer
  <2>1. CASE abortResult # "none"
    <3>1. ~Steering
      BY <2>1, NoSteeringAfterAbort DEF AbortHolds
    <3> QED
      BY <1>7, <2>1, <3>1 DEF LoopSteer, At, UpdateIdle, AbortHolds, vars,
                              fcVars, cmdVars
  <2>2. CASE abortResult = "none"
    <3>1. abortResult' # "none" => state' = "Abort"
      BY <1>7, <2>2 DEF LoopSteer, UpdateIdle, Steering, UpdateSent,
         UpdateSendFails, UpdateHeldBack, UpdateDegrades, UpdateAborts,
         AbortNow, vars, fcVars
    <3> QED
      BY <1>7, <2>2, <3>1 DEF LoopSteer, At, AbortHolds
  <2> QED
    BY <2>1, <2>2
<1>8. CASE LoopExpiries
  BY <1>8 DEF LoopExpiries, ProcessExpiries, AbortHolds, vars, fcVars, cmdVars
<1>9. CASE LoopAbort
  BY <1>9 DEF LoopAbort, At, Abort, AbortNow, AbortHolds
<1>10. CASE LoopReset
  BY <1>10 DEF LoopReset, At, Reset, AbortHolds, fcVars
<1> QED
  BY <1>1, <1>2, <1>3, <1>4, <1>5, <1>6, <1>7, <1>8, <1>9, <1>10 DEF LoopStep

LEMMA BusStepHoldsAbort ==
  ASSUME AbortHolds, [BusNext]_allVars
  PROVE  /\ AbortHolds'
         /\ abortResult # "none" => /\ corrections' = corrections
                                    /\ abortResult' # "none"
<1>1. CASE LoopStep
  BY <1>1, LoopStepHoldsAbort
<1>2. CASE BusTick
  BY <1>2 DEF BusTick, Tick, AbortHolds, cmdVars, fcVars, loopVars
<1>3. CASE BridgePublish \/ TrackerPublish \/ \E service \in Services : Dies(service)
  BY <1>3 DEF BridgePublish, TrackerPublish, Dies, AbortHolds, vars, cmdVars,
              fcVars, loopVars
<1>4. CASE UNCHANGED allVars
  BY <1>4 DEF allVars, AbortHolds, vars, cmdVars, fcVars, loopVars
<1> QED
  BY <1>1, <1>2, <1>3, <1>4 DEF BusNext

LEMMA BusStepSeen == TracksOK /\ [BusNext]_allVars => CommanderSees
<1> SUFFICES ASSUME TracksOK, [BusNext]_allVars PROVE CommanderSees
  OBVIOUS
<1>1. CASE LoopStep
  BY <1>1, LoopStepSeen
<1>2. CASE BusTick
  BY <1>2 DEF BusTick, CommanderSees, Next
<1>3. CASE BridgePublish \/ TrackerPublish \/ \E service \in Services : Dies(service)
  BY <1>3 DEF BridgePublish, TrackerPublish, Dies, CommanderSees
<1>4. CASE UNCHANGED allVars
  BY <1>4 DEF allVars, CommanderSees
<1> QED
  BY <1>1, <1>2, <1>3, <1>4 DEF BusNext

(* The inductive invariant of the commander as a service: everything       *)
(* Commander keeps, typed tracks, and an abort that holds.                 *)
THEOREM ServiceInvariant == BusSpec => []BusInv
<1>1. BusInv /\ [BusNext]_allVars => BusInv'
  <2> SUFFICES ASSUME BusInv, [BusNext]_allVars PROVE BusInv'
    OBVIOUS
  <2>1. CInv'
    BY BusStepSeen, DrivenKeeps DEF BusInv
  <2>2. TracksOK'
    <3>1. CASE BusNext
      BY <3>1, TracksStayTyped DEF BusInv
    <3>2. CASE UNCHANGED allVars
      BY <3>2 DEF allVars, BusInv, TracksOK, loopVars, busVars
    <3> QED
      BY <3>1, <3>2
  <2>3. AbortHolds'
    BY BusStepHoldsAbort DEF BusInv
  <2> QED
    BY <2>1, <2>2, <2>3 DEF BusInv
<1> QED
  BY <1>1, BusInitInv, PTL DEF BusSpec

(* Once the service has aborted it never sends a correction again, and     *)
(* never forgets that it has: the loop of bus_runner.rs neither connects   *)
(* nor scans a second time, whatever the tracker sends.                    *)
THEOREM ServiceAbortIsFinal == BusSpec => AbortIsFinal
<1>1. BusInv /\ [BusNext]_allVars =>
        [bpc # "start" /\ abortResult # "none" =>
           corrections' = corrections /\ abortResult' # "none"]_allVars
  BY BusStepHoldsAbort DEF BusInv
<1> QED
  BY <1>1, ServiceInvariant, PTL DEF BusSpec, AbortIsFinal

(* The service keeps the engagement promise that Commander keeps.          *)
THEOREM ServiceImplementsEngagement == BusSpec => ImplementsEngagement
<1>1. BusInit => Engaged!EngagementInit
  BY InitMaps DEF BusInit
<1>2. BusInv /\ [BusNext]_allVars
        => [Engaged!EngagementNext]_(Engaged!engagementVars)
  BY BusStepSeen, DrivenKeeps DEF BusInv, EStep
<1> QED
  BY <1>1, <1>2, ServiceInvariant, PTL
     DEF BusSpec, ImplementsEngagement, Engaged!EngagementSpec

-----------------------------------------------------------------------------
(* The drivers of a session.                                               *)

(* The scenario runner only makes calls that Commander offers.             *)
LEMMA RunnerStepSeen == RunnerStep => [Next]_vars
<1> SUFFICES ASSUME RunnerStep PROVE [Next]_vars
  OBVIOUS
<1>1. CASE RunnerSetup
  BY <1>1 DEF RunnerSetup, Next, Operator
<1>2. CASE RunnerAction
  <2>1. AbortNow(TRUE) /\ UNCHANGED <<dogVars, guardVars>> => Abort
    BY DEF Abort
  <2> QED
    BY <1>2, <2>1 DEF RunnerAction, Next, Operator
<1>3. CASE RunnerLooks \/ RunnerJudges
  BY <1>3 DEF RunnerLooks, RunnerJudges
<1>4. CASE RunnerUpdate
  BY <1>4 DEF RunnerUpdate, Next, Update, Steering
<1>5. CASE RunnerWatches
  BY <1>5 DEF RunnerWatches, Next
<1>6. CASE RunnerExpires
  BY <1>6 DEF RunnerExpires, Next
<1> QED
  BY <1>1, <1>2, <1>3, <1>4, <1>5, <1>6 DEF RunnerStep

(* The console has no Commander, so no target; before it opens, its machine *)
(* is in IDLE.                                                             *)
ConsoleHasNoTarget ==
  driver = "console" => /\ activeTarget = NoTarget
                        /\ rpc \in {"setup", "prompt"}
                        /\ rpc = "setup" => state = "Idle"

(* What changes while the console is used, and to what.                    *)
LEMMA ConsoleStepKeeps ==
  ASSUME CInv, ConsoleHasNoTarget, ConsoleStep
  PROVE  CInv' /\ EStep /\ ConsoleHasNoTarget'
<1>0. Flags /\ Values /\ AgesOK(age) /\ TargetMatchesState
  BY TypeOKParts DEF CInv
<1>1. driver = "console" /\ activeTarget = NoTarget /\ driver' = driver
  BY DEF ConsoleStep, ConsoleOpens, ConsoleArm, ConsoleDisarm, ConsoleMode,
         ConsoleScan, ConsoleSelect, ConsoleAbort, ConsoleReset, ConsoleFeeds,
         AtConsole, ConsoleHasNoTarget, sessionVars, scriptVars
<1>2. CASE ConsoleFeeds
  <2>1. UNCHANGED sessionVars
    BY <1>2 DEF ConsoleFeeds, AtConsole
  <2>2. \E ws : OnlyFeed(ws)
    BY <1>2 DEF ConsoleFeeds, OnlyFeed
  <2>3. CInv' /\ EStep
    BY <2>2, OnlyFeedKeeps
  <2>4. UNCHANGED cmdVars
    BY <1>2 DEF ConsoleFeeds
  <2> QED
    BY <2>1, <2>3, <2>4
       DEF ConsoleHasNoTarget, sessionVars, scriptVars, runnerVars, cmdVars
<1>3. ASSUME ~ConsoleFeeds PROVE CInv' /\ EStep /\ ConsoleHasNoTarget'
  <2>1. ConsoleOpens \/ (AtConsole /\ BesideState)
    BY <1>3 DEF ConsoleStep, ConsoleArm, ConsoleDisarm, ConsoleMode,
                ConsoleScan, ConsoleSelect, ConsoleAbort, ConsoleReset
  <2>2. UNCHANGED <<activeTarget, connected, age, limiterOpen, corrections,
                    abortResult, guardVars>>
    BY <2>1 DEF ConsoleOpens, BesideState, dogVars
  <2>3. hbRegistered' \in BOOLEAN /\ linked' \in BOOLEAN /\ armed' \in BOOLEAN
    BY <1>0, <1>3, Zenon
       DEF Flags, ConsoleStep, ConsoleOpens, ConsoleArm, ConsoleDisarm,
           ConsoleMode, ConsoleScan, ConsoleSelect, ConsoleAbort, ConsoleReset,
           BesideState, dogVars
  <2>4. Flags'
    BY <1>0, <2>2, <2>3, Zenon DEF Flags, guardVars
  <2>5. state' \in Entered /\ fcMode' \in {"Rtl", "Other"}
    BY <1>0, <1>3
       DEF Values, Entered, TryGo, ConsoleStep, ConsoleOpens, ConsoleArm,
           ConsoleDisarm, ConsoleMode, ConsoleScan, ConsoleSelect,
           ConsoleAbort, ConsoleReset
  <2>6. Values' /\ AgesOK(age') /\ TargetMatchesState'
    BY <1>0, <1>1, <2>2, <2>5 DEF Values, TargetMatchesState, guardVars
  <2>7. CInv'
    BY <2>4, <2>6, TypeOKPartsPrimed DEF CInv
  <2>8. ConsoleHasNoTarget'
    BY <1>1, <2>1, <2>2
       DEF ConsoleHasNoTarget, ConsoleOpens, AtConsole, sessionVars, runnerVars
  <2>9. EStep
    <3>0. activeTarget' = NoTarget /\ corrections' = corrections
      BY <1>1, <2>2
    <3>1. CASE Phase' = Phase
      BY <2>2, <3>1, SamePhaseStutters
    <3>2. CASE state' = "Abort"
      <4>1. Engaged!AbortEngagement
        BY <1>1, <3>0, <3>2 DEF Engaged!AbortEngagement, Phase
      <4> QED
        BY <4>1 DEF EStep, Engaged!EngagementNext
    <3>3. CASE state = "Abort" /\ state' = "Idle"
      <4>1. Engaged!ClearAbort
        BY <1>1, <3>0, <3>3 DEF Engaged!ClearAbort, Phase
      <4> QED
        BY <4>1 DEF EStep, Engaged!EngagementNext
    <3>4. CASE state = "Idle" /\ state' \notin {"Idle", "Abort"}
      <4>1. Engaged!Prepare
        BY <1>1, <3>0, <3>4 DEF Engaged!Prepare, Phase
      <4> QED
        BY <4>1 DEF EStep, Engaged!EngagementNext
    <3>5. CASE state \notin {"Idle", "Abort"} /\ state' = "Idle"
      <4>1. Engaged!StandDown
        BY <1>1, <3>0, <3>5 DEF Engaged!StandDown, Phase
      <4> QED
        BY <4>1 DEF EStep, Engaged!EngagementNext
    <3>6. CASE state = "Abort" /\ state' \notin {"Abort", "Idle"}
      BY <1>0, <1>1, <1>3, <3>6
         DEF ConsoleStep, ConsoleOpens, ConsoleArm, ConsoleDisarm, ConsoleMode,
             ConsoleScan, ConsoleSelect, ConsoleAbort, ConsoleReset, MaySelect,
             ConsoleHasNoTarget, TryGo, CanGo, Edges, States
    <3>7. state' \notin {"Idle", "Abort"} /\ state \notin {"Idle", "Abort"}
            => Phase' = Phase
      BY <1>1, <3>0 DEF Phase
    <3>8. state' = state => Phase' = Phase
      BY <1>1, <3>0 DEF Phase
    <3> QED
      BY <3>1, <3>2, <3>3, <3>4, <3>5, <3>6, <3>7, <3>8
  <2> QED
    BY <2>7, <2>8, <2>9
<1> QED
  BY <1>2, <1>3

(* Where the runner is in its frame says which actions it has taken: all    *)
(* of the frames before while it takes this frame's, and this frame's too  *)
(* from the update on.                                                     *)
TakenSoFar == \A i \in 1..Len(script) : script[i].at < frame => i < due
TakenThisFrame == rpc \in {"update", "watch", "expiries"} =>
                    \A i \in 1..Len(script) : script[i].at <= frame => i < due

ScheduleTyped == /\ script \in Seq(ScriptEntries)
                 /\ frame \in Nat /\ due \in Nat \ {0}
Scheduled == driver = "scenario" =>
               /\ ScheduleTyped
               /\ InOrder => TakenSoFar /\ TakenThisFrame

SessionInv == CInv /\ ConsoleHasNoTarget /\ Scheduled

LEMMA EntriesTyped ==
  ASSUME ScheduleTyped
  PROVE  \A i \in 1..Len(script) : script[i].at \in Nat
<1> SUFFICES ASSUME NEW i \in 1..Len(script) PROVE script[i].at \in Nat
  OBVIOUS
<1>1. script[i] \in ScriptEntries
  BY DEF ScheduleTyped
<1> QED
  BY <1>1 DEF ScriptEntries

LEMMA SessionInitInv == SessionInit => SessionInv
<1> SUFFICES ASSUME SessionInit PROVE SessionInv
  OBVIOUS
<1>1. CInv /\ ConsoleHasNoTarget
  BY InitEstablishes DEF SessionInit, ConsoleHasNoTarget, Init
<1>2. Scheduled
  <2> SUFFICES ASSUME driver = "scenario"
               PROVE  ScheduleTyped /\ TakenSoFar /\ TakenThisFrame
    BY DEF Scheduled
  <2>1. ScheduleTyped
    BY SessionAssumption DEF SessionInit, ScheduleTyped
  <2>2. frame = 0 /\ rpc = "setup"
    BY DEF SessionInit
  <2>3. TakenThisFrame
    BY <2>2 DEF TakenThisFrame
  <2>4. TakenSoFar
    BY <2>1, <2>2, EntriesTyped DEF TakenSoFar
  <2> QED
    BY <2>1, <2>3, <2>4
<1> QED
  BY <1>1, <1>2 DEF SessionInv

(* Looking past the last action that is due: in a script in order, all of  *)
(* the others lie in later frames.                                         *)
LEMMA NothingDueIsLeft ==
  ASSUME ScheduleTyped, InOrder, TakenSoFar, ~IsDue
  PROVE  \A i \in 1..Len(script) : script[i].at <= frame => i < due
<1> SUFFICES ASSUME NEW i \in 1..Len(script), script[i].at <= frame, ~(i < due)
             PROVE  FALSE
  OBVIOUS
<1>1. due \in 1..Len(script) /\ due <= i
  BY DEF ScheduleTyped
<1>2. script[due].at <= script[i].at
  BY <1>1 DEF InOrder
<1>3. script[due].at \in Nat /\ script[i].at \in Nat
  BY <1>1, EntriesTyped
<1>4. ~(script[due].at < frame)
  BY <1>1 DEF TakenSoFar, ScheduleTyped
<1>5. script[due].at = frame
  BY <1>2, <1>3, <1>4, SMTT(30) DEF ScheduleTyped
<1> QED
  BY <1>1, <1>5 DEF IsDue

LEMMA RunnerKeepsSchedule == Scheduled /\ RunnerStep => Scheduled'
<1> SUFFICES ASSUME Scheduled, RunnerStep, driver' = "scenario"
             PROVE  /\ ScheduleTyped'
                    /\ InOrder' => TakenSoFar' /\ TakenThisFrame'
  BY DEF Scheduled
<1>1. driver = "scenario" /\ UNCHANGED script
  BY DEF RunnerStep, RunnerSetup, RunnerAction, RunnerLooks, RunnerUpdate,
         RunnerWatches, RunnerExpires, RunnerJudges, Running, scriptVars
<1>2. ScheduleTyped /\ (InOrder => TakenSoFar /\ TakenThisFrame)
  BY <1>1 DEF Scheduled
<1>3. InOrder' <=> InOrder
  BY <1>1 DEF InOrder
<1>4. CASE RunnerSetup \/ RunnerJudges
  <2>1. UNCHANGED <<frame, due>> /\ rpc' \in {rpc, "actions"}
    BY <1>4 DEF RunnerSetup, RunnerJudges
  <2>2. rpc' \in {"setup", "actions", "verdict"}
        /\ (rpc = "verdict" => rpc' = "verdict")
    BY <1>4 DEF RunnerSetup, RunnerJudges, Running
  <2> QED
    BY <1>1, <1>2, <1>3, <2>1, <2>2
       DEF ScheduleTyped, TakenSoFar, TakenThisFrame
<1>5. CASE RunnerAction
  <2>1. due' = due + 1 /\ UNCHANGED <<frame, rpc>> /\ rpc = "actions"
    BY <1>5 DEF RunnerAction, Running
  <2>2. ScheduleTyped'
    BY <1>1, <1>2, <2>1 DEF ScheduleTyped
  <2>3. ASSUME InOrder PROVE TakenSoFar' /\ TakenThisFrame'
    BY <1>1, <1>2, <2>1, <2>3 DEF ScheduleTyped, TakenSoFar, TakenThisFrame
  <2> QED
    BY <1>3, <2>2, <2>3
<1>6. CASE RunnerLooks
  <2>1. /\ UNCHANGED <<frame, due>> /\ rpc = "actions" /\ rpc' = "update"
        /\ ~IsDue
    BY <1>6 DEF RunnerLooks, Running
  <2>2. ScheduleTyped'
    BY <1>1, <1>2, <2>1 DEF ScheduleTyped
  <2>3. ASSUME InOrder PROVE TakenSoFar' /\ TakenThisFrame'
    <3>1. \A i \in 1..Len(script) : script[i].at <= frame => i < due
      BY <1>2, <2>1, <2>3, NothingDueIsLeft
    <3> QED
      BY <1>1, <1>2, <2>1, <2>3, <3>1
         DEF TakenSoFar, TakenThisFrame
  <2> QED
    BY <1>3, <2>2, <2>3
<1>7. CASE RunnerUpdate \/ RunnerWatches
  <2>1. /\ UNCHANGED <<frame, due>> /\ rpc \in {"update", "watch"}
        /\ rpc' \in {"watch", "expiries"}
    BY <1>7 DEF RunnerUpdate, RunnerWatches, Running
  <2> QED
    BY <1>1, <1>2, <1>3, <2>1 DEF ScheduleTyped, TakenSoFar, TakenThisFrame
<1>8. CASE RunnerExpires
  <2>1. /\ rpc = "expiries" /\ UNCHANGED due /\ frame' = frame + 1
        /\ rpc' \in {"actions", "verdict"}
    BY <1>8 DEF RunnerExpires, Running, NextFrame
  <2>2. ScheduleTyped'
    BY <1>1, <1>2, <2>1 DEF ScheduleTyped
  <2>3. ASSUME InOrder PROVE TakenSoFar' /\ TakenThisFrame'
    <3>1. \A i \in 1..Len(script) : script[i].at <= frame => i < due
      BY <1>2, <2>1, <2>3 DEF TakenThisFrame
    <3>2. \A i \in 1..Len(script) : script[i].at \in Nat
      BY <1>2, EntriesTyped
    <3>3. \A i \in 1..Len(script) : script[i].at < frame + 1 => i < due
      BY <1>2, <3>1, <3>2 DEF ScheduleTyped
    <3> QED
      BY <1>1, <2>1, <3>3 DEF TakenSoFar, TakenThisFrame
  <2> QED
    BY <1>3, <2>2, <2>3
<1> QED
  BY <1>4, <1>5, <1>6, <1>7, <1>8 DEF RunnerStep

LEMMA OthersKeepSchedule ==
  ASSUME Scheduled, CallerStep \/ ConsoleStep \/ TimePasses \/ UNCHANGED everyVar
  PROVE  Scheduled'
<1>1. CASE CallerStep \/ TimePasses \/ UNCHANGED everyVar
  BY <1>1 DEF CallerStep, TimePasses, everyVar, sessionVars, scriptVars,
              runnerVars, Scheduled, ScheduleTyped, InOrder, TakenSoFar,
              TakenThisFrame
<1>2. CASE ConsoleStep
  <2>1. driver' = "console"
    BY <1>2 DEF ConsoleStep, ConsoleOpens, ConsoleArm, ConsoleDisarm,
         ConsoleMode, ConsoleScan, ConsoleSelect, ConsoleAbort, ConsoleReset,
         ConsoleFeeds, AtConsole, sessionVars, scriptVars
  <2> QED
    BY <2>1 DEF Scheduled
<1> QED
  BY <1>1, <1>2

LEMMA SessionStepKeeps ==
  ASSUME SessionInv, [SessionNext]_everyVar
  PROVE  SessionInv' /\ EStep
<1>0. CInv /\ ConsoleHasNoTarget /\ Scheduled
  BY DEF SessionInv
<1>1. CASE ConsoleStep
  BY <1>0, <1>1, ConsoleStepKeeps, OthersKeepSchedule DEF SessionInv
<1>2. CASE RunnerStep
  <2>1. CInv' /\ EStep
    BY <1>0, <1>2, RunnerStepSeen, NextKeeps, StepMaps
  <2>2. driver = "scenario" /\ driver' = driver
    BY <1>2 DEF RunnerStep, RunnerSetup, RunnerAction, RunnerLooks, RunnerUpdate,
         RunnerWatches, RunnerExpires, RunnerJudges, Running, scriptVars
  <2>3. ConsoleHasNoTarget'
    BY <2>2 DEF ConsoleHasNoTarget
  <2> QED
    BY <1>0, <1>2, <2>1, <2>3, RunnerKeepsSchedule DEF SessionInv
<1>3. CASE CallerStep
  <2>1. CInv' /\ EStep
    BY <1>0, <1>3, NextKeeps, StepMaps DEF CallerStep
  <2>2. ConsoleHasNoTarget'
    BY <1>3 DEF CallerStep, sessionVars, scriptVars, ConsoleHasNoTarget
  <2> QED
    BY <1>0, <1>3, <2>1, <2>2, OthersKeepSchedule DEF SessionInv
<1>4. CASE TimePasses
  <2>1. CInv' /\ EStep
    BY <1>0, <1>4, NextKeeps, StepMaps DEF TimePasses, Next
  <2>2. ConsoleHasNoTarget'
    BY <1>0, <1>4 DEF TimePasses, Tick, cmdVars, sessionVars, scriptVars,
                      runnerVars, ConsoleHasNoTarget
  <2> QED
    BY <1>0, <1>4, <2>1, <2>2, OthersKeepSchedule DEF SessionInv
<1>5. CASE UNCHANGED everyVar
  <2>1. CInv' /\ EStep
    BY <1>0, <1>5, NextKeeps, StepMaps DEF everyVar
  <2>2. ConsoleHasNoTarget'
    BY <1>0, <1>5 DEF everyVar, vars, cmdVars, sessionVars, scriptVars,
                      runnerVars, ConsoleHasNoTarget
  <2> QED
    BY <1>0, <1>5, <2>1, <2>2, OthersKeepSchedule DEF SessionInv
<1> QED
  BY <1>1, <1>2, <1>3, <1>4, <1>5 DEF SessionNext

(* The inductive invariant of a session, whoever drives.                   *)
THEOREM SessionInvariant == SessionSpec => []SessionInv
<1>1. SessionInv /\ [SessionNext]_everyVar => SessionInv'
  BY SessionStepKeeps
<1> QED
  BY <1>1, SessionInitInv, PTL DEF SessionSpec

(* In no session does the commander keep a target outside an engagement.   *)
THEOREM SessionTargets == SessionSpec => []TargetMatchesState
<1>1. SessionInv => TargetMatchesState
  BY DEF SessionInv, CInv
<1> QED
  BY <1>1, SessionInvariant, PTL

(* The scenario runner leaves no action of an ordered script behind, for   *)
(* every script and number of frames: its loop over action_idx stops only  *)
(* at an action of a later frame.                                          *)
THEOREM SessionRunsActions == SessionSpec => []ScheduledActionsRun
<1>1. SessionInv => ScheduledActionsRun
  BY DEF SessionInv, Scheduled, TakenThisFrame, ScheduledActionsRun, Running
<1> QED
  BY <1>1, SessionInvariant, PTL

(* Every session keeps the engagement promise: caller, runner and console. *)
THEOREM SessionImplementsEngagement == SessionSpec => ImplementsEngagement
<1>1. SessionInit => Engaged!EngagementInit
  BY InitMaps DEF SessionInit
<1>2. SessionInv /\ [SessionNext]_everyVar
        => [Engaged!EngagementNext]_(Engaged!engagementVars)
  BY SessionStepKeeps DEF EStep
<1> QED
  BY <1>1, <1>2, SessionInvariant, PTL
     DEF SessionSpec, ImplementsEngagement, Engaged!EngagementSpec
=============================================================================
