-------------------------- MODULE OperatorSession --------------------------
(***************************************************************************)
(* crates/cli: who drives the commander on the ground.  A session is one   *)
(* process with one driver: the scenario runner, which plays a script      *)
(* frame by frame into a Commander over the mock adapter; the console      *)
(* (REPL), which has a state machine and a mock adapter of its own and no  *)
(* Commander between them; the smoke test of --mock-all; or, as in         *)
(* Commander, any caller in any order.  The driver may also be the         *)
(* service's loop, whose steps are in CommanderBus.                        *)
(***************************************************************************)
EXTENDS Commander, Sequences

CONSTANTS
  Drivers,      \* drivers of the run
  Scripts,      \* operator_actions a scenario may have
  Frames        \* duration_frames

\* OperatorAction; the action may be any text.
ScriptEntries == [at : Nat, action : STRING]

ASSUME SessionAssumption ==
  /\ Drivers \subseteq {"caller", "scenario", "console", "service"}
  /\ Scripts \subseteq Seq(ScriptEntries)
  /\ Frames \in Nat \ {0}

VARIABLES
  driver,    \* who drives
  script,    \* operator_actions: at_frame, action
  wanted,    \* expected_final_state, and which KPIs: a lock, no expired watchdog
  frame,     \* frame_seq
  due,       \* action_idx
  rpc,       \* where in its frame the driver is
  locked,    \* lock_acquired_at, and whether the lock was seen
  triggered, \* watchdog_triggers is not 0
  failures,  \* failures is not empty
  verdict    \* what the runner reports

scriptVars == <<driver, script, wanted>>
runnerVars == <<frame, due, rpc, locked, triggered, failures, verdict>>
sessionVars == <<scriptVars, runnerVars>>
everyVar == <<vars, sessionVars>>

Wishes == [state : {"Tracking", "Abort", "Idle"}, lock : BOOLEAN, quiet : BOOLEAN]
NoWish == [state |-> "Idle", lock |-> FALSE, quiet |-> FALSE]

SessionInit ==
  /\ Init
  /\ driver \in Drivers
  /\ script \in (IF driver = "scenario" THEN Scripts ELSE {<<>>})
  /\ wanted \in (IF driver = "scenario" THEN Wishes ELSE {NoWish})
  /\ frame = 0 /\ due = 1 /\ rpc = "setup"
  /\ locked = "no" /\ triggered = FALSE /\ failures = FALSE /\ verdict = "none"

-----------------------------------------------------------------------------
(* Any caller                                                              *)

CallerStep == driver = "caller" /\ Next /\ UNCHANGED sessionVars

-----------------------------------------------------------------------------
(* The scenario runner.  Its flight controller is the mock: connected, it  *)
(* takes every command.                                                    *)

Running(pc) == driver = "scenario" /\ rpc = pc

\* connect, arm and start_scanning, before the first frame.
RunnerSetup ==
  /\ Running("setup")
  /\ \/ ~connected /\ Connect /\ UNCHANGED rpc
     \/ connected /\ ~armed /\ Arm /\ UNCHANGED rpc
     \/ armed /\ StartScanning /\ rpc' = "actions"
  /\ UNCHANGED <<scriptVars, frame, due, locked, triggered, failures, verdict>>

IsDue == due <= Len(script) /\ script[due].at = frame
MaySelect == CanGo(state, "TargetSelected") /\ state # "TargetSelected"

\* Mutant: one action a frame.
RunnerActionOnce ==
  /\ Running("actions") /\ IsDue
  /\ rpc' = "update" /\ due' = due + 1
  /\ IF script[due].action = "abort" THEN AbortNow(TRUE) /\ UNCHANGED <<dogVars, guardVars>>
     ELSE IF CanGo(state, "Scanning") THEN StartScanning ELSE UNCHANGED vars
  /\ UNCHANGED <<scriptVars, frame, locked, triggered, failures, verdict>>

\* One entry that is due at this frame; a call that fails is a failure of the run.
RunnerAction ==
  /\ Running("actions") /\ IsDue
  /\ LET a == script[due].action IN
     \/ /\ a = "select_target" /\ MaySelect
        /\ \E t \in Targets : SelectTarget(t)
        /\ locked' = IF locked = "seen" THEN locked ELSE "asked"
        /\ UNCHANGED failures
     \/ /\ a = "select_target" /\ ~MaySelect
        /\ failures' = TRUE /\ UNCHANGED <<vars, locked>>
     \/ /\ a = "select_target" \* its target_id is None
        /\ UNCHANGED <<vars, failures, locked>>
     \/ /\ a = "abort" /\ AbortNow(TRUE)
        /\ UNCHANGED <<dogVars, guardVars, failures, locked>>
     \/ /\ a = "scan"
        /\ IF CanGo(state, "Scanning") THEN StartScanning /\ UNCHANGED failures
                                       ELSE failures' = TRUE /\ UNCHANGED vars
        /\ UNCHANGED locked
     \/ /\ a \notin {"select_target", "abort", "scan"} \* only a warning
        /\ UNCHANGED <<vars, failures, locked>>
  /\ due' = due + 1
  /\ UNCHANGED <<scriptVars, frame, rpc, triggered, verdict>>

\* No more actions; the lock is looked for once it has been asked for.
RunnerLooks ==
  /\ Running("actions") /\ ~IsDue
  /\ locked' = IF locked = "asked" /\ state = "Tracking" THEN "seen" ELSE locked
  /\ rpc' = "update"
  /\ UNCHANGED <<vars, scriptVars, frame, due, triggered, failures, verdict>>

\* Commander::update, with an offset only if the target is not occluded and
\* the commander steers.
RunnerUpdate ==
  /\ Running("update")
  /\ \/ UpdateIdle
     \/ UpdateSent \/ UpdateHeldBack \/ UpdateDegrades
     \/ UpdateAborts /\ abortResult' = "sent"
  /\ rpc' = "watch"
  /\ UNCHANGED <<scriptVars, frame, due, locked, triggered, failures, verdict>>

\* The video watchdog is fed, alone of the five.
RunnerWatches ==
  /\ Running("watch")
  /\ FeedVideo /\ rpc' = "expiries"
  /\ UNCHANGED <<scriptVars, frame, due, locked, triggered, failures, verdict>>

NextFrame ==
  /\ frame' = frame + 1
  /\ rpc' = IF frame + 1 < Frames THEN "actions" ELSE "verdict"

\* What expired is processed; the Abort entries of the result are only counted.
RunnerExpires ==
  /\ Running("expiries")
  /\ IF Late = {} THEN UNCHANGED <<vars, triggered>> ELSE ProcessExpiries /\ triggered' = TRUE
  /\ NextFrame
  /\ UNCHANGED <<scriptVars, due, locked, failures, verdict>>

\* The final state and the KPIs; a lock may also have taken too long.  Neither
\* expected_events nor actions that never came due are looked at.
RunnerJudges ==
  /\ Running("verdict") /\ verdict = "none"
  /\ LET good == /\ ~failures /\ state = wanted.state
                 /\ wanted.lock => locked = "seen"
                 /\ wanted.quiet => ~triggered
     IN \/ good /\ verdict' = "pass"
        \/ (good => wanted.lock) /\ verdict' = "fail"
  /\ UNCHANGED <<vars, scriptVars, frame, due, rpc, locked, triggered, failures>>

RunnerStep == \/ RunnerSetup \/ RunnerAction \/ RunnerLooks \/ RunnerUpdate
              \/ RunnerWatches \/ RunnerExpires \/ RunnerJudges

-----------------------------------------------------------------------------
(* The console: a state machine and a mock, side by side.                  *)

AtConsole == driver = "console" /\ rpc = "prompt" /\ UNCHANGED sessionVars
\* What the console never touches; status commands change nothing, and the
\* simulate commands only what the mock shows of itself.
BesideState == UNCHANGED <<activeTarget, connected, dogVars, limiterOpen, corrections, abortResult,
                           guardVars, linked>>

\* run_repl: the mock is connected, armed and guided, and the machine scans.
\* All five watchdogs are registered.
ConsoleOpens ==
  /\ driver = "console" /\ rpc = "setup"
  /\ linked' = TRUE /\ armed' = TRUE /\ fcMode' = "Other"
  /\ state' = "Scanning" /\ hbRegistered' = TRUE
  /\ rpc' = "prompt"
  /\ UNCHANGED <<activeTarget, connected, age, limiterOpen, corrections, abortResult, guardVars,
                 scriptVars, frame, due, locked, triggered, failures, verdict>>

\* The vehicle first; a transition that is refused is ignored.
ConsoleArm == AtConsole /\ armed' = TRUE /\ TryGo("Armed") /\ UNCHANGED fcMode /\ BesideState

ConsoleDisarm == AtConsole /\ armed' = FALSE /\ TryGo("Idle") /\ UNCHANGED fcMode /\ BesideState

ConsoleMode == \E m \in {"Rtl", "Other"} :
  AtConsole /\ fcMode' = m /\ UNCHANGED <<state, armed>> /\ BesideState

ConsoleScan ==
  AtConsole /\ CanGo(state, "Scanning") /\ state' = "Scanning" /\ UNCHANGED <<armed, fcMode>>
  /\ BesideState

\* Two transitions; the id is printed and kept nowhere.  The second is always legal.
ConsoleSelect ==
  AtConsole /\ MaySelect /\ state' = "Tracking" /\ UNCHANGED <<armed, fcMode>> /\ BesideState

\* force_transition, and then RTL.
ConsoleAbort ==
  AtConsole /\ state' = "Abort" /\ fcMode' = "Rtl" /\ UNCHANGED armed /\ BesideState

ConsoleReset ==
  AtConsole /\ state = "Abort" /\ state' = "Idle" /\ UNCHANGED <<armed, fcMode>> /\ BesideState

\* feed-watchdog, and the task that feeds the other four every 50 ms.  What
\* expires is shown and not processed.
ConsoleFeeds ==
  /\ AtConsole
  /\ (\E w \in Watchdogs : Feed({w})) \/ Feed(Watchdogs \ {"FcHeartbeat"})
  /\ UNCHANGED <<cmdVars, connected, limiterOpen, fcVars, abortResult, guardVars>>

ConsoleStep == \/ ConsoleOpens \/ ConsoleArm \/ ConsoleDisarm \/ ConsoleMode \/ ConsoleScan
               \/ ConsoleSelect \/ ConsoleAbort \/ ConsoleReset \/ ConsoleFeeds

-----------------------------------------------------------------------------
\* Time passes for every driver alike.
TimePasses == driver # "caller" /\ Tick /\ UNCHANGED sessionVars

SessionNext == CallerStep \/ RunnerStep \/ ConsoleStep \/ TimePasses

SessionSpec == SessionInit /\ [][SessionNext]_everyVar

-----------------------------------------------------------------------------
(* Properties                                                              *)

InOrder == \A i, j \in 1..Len(script) : i <= j => script[i].at <= script[j].at

\* Of a script in order, every action that is due up to a frame has been taken
\* when that frame's update begins (scenario_runner.rs, the loop over action_idx).
ScheduledActionsRun ==
  Running("update") /\ InOrder => \A i \in 1..Len(script) : script[i].at <= frame => i < due

-----------------------------------------------------------------------------
(* What the documents promise and the code does not deliver.               *)

\* ABORT is left only over a vehicle that is disarmed by then (Commander::reset
\* and the console's reset, which look at the state alone).
ResetAfterDisarm ==
  [][state = "Abort" /\ state' # "Abort" => ~armed']_everyVar

=============================================================================
