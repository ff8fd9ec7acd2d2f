------------------------------- MODULE FcLink -------------------------------
(***************************************************************************)
(* The operator's way to the flight controller and back: the console on    *)
(* the bus (repl-bus) publishes commands, the FC bridge takes them from    *)
(* its subscription and hands them to its adapter, the adapter sends them  *)
(* over MAVLink without waiting for an answer.  A reader thread of the     *)
(* adapter keeps a cache of what the flight controller last said; the      *)
(* bridge publishes that cache, the edges in it, and a status.             *)
(***************************************************************************)
EXTENDS EventBus, Integers, SequencesExt, TLC

CONSTANTS
  Adapters,     \* what --adapter may name: "mock", "mavlink"
  MaxCmds,      \* bound: commands the operator types
  StaleAfter,   \* heartbeat_timeout_ms, in ticks
  MaxMishaps,   \* bound: times the wall clock is set, or another station heard
  MaxDeaths     \* bound: times the bridge's process ends

ASSUME LinkAssumption ==
  /\ Adapters \subseteq {"mock", "mavlink"} /\ Adapters # {}
  /\ MaxCmds \in Nat /\ StaleAfter \in Nat /\ MaxMishaps \in Nat /\ MaxDeaths \in Nat

VARIABLES
  adapter,   \* which adapter build_adapter has built
  typed,     \* NEXT_ID of the console: commands typed so far
  commands,  \* at/commands on its way to the bridge
  wire,      \* COMMAND_LONGs on their way to the flight controller
  fc,        \* the flight controller: alive, armed, mode
  executed,  \* id of the last command it has executed
  cache,     \* TelemetryCache: armed, mode
  age,       \* time since last_heartbeat by the wall clock
  reading,   \* the reader thread runs
  bpc,       \* position in FcBridge::run
  status,    \* what the console last got of at/status/fc
  mishaps,   \* times the wall clock was set or another station was heard
  deaths,    \* times the bridge's process ended
  promised   \* an abort was typed, and nothing has lost or overtaken it since

linkVars == <<adapter, typed, commands, wire, fc, executed, cache, age, reading,
              bpc, status, mishaps, deaths, promised>>

consoleVars == <<typed, status>>
bridgeVars == <<adapter, bpc, deaths>>
clockVars == <<age, mishaps>>
fcVars == <<fc, executed>>

Unknown == "Unknown"

\* What the operator can type.  The mode names are those of the dispatcher,
\* "warp" one that it does not know; ROI and position set-points change
\* nothing the model keeps.
Typeable ==
  {[cmd |-> c, mode |-> Unknown] : c \in {"arm", "disarm", "set_roi"}}
  \cup {[cmd |-> "set_mode", mode |-> m] : m \in {"Guided", "AltHold", "Rtl", "warp"}}

Abort == [cmd |-> "set_mode", mode |-> "Rtl"]

\* Names the dispatcher knows, the custom_mode of MavlinkCore::set_mode (a mode
\* without one is UnsupportedMode), and the way back out of a HEARTBEAT.
Named == {"Manual", "Stabilize", "AltHold", "Loiter", "Guided", "Rtl", "Auto"}
CustomMode == ("Manual" :> 0) @@ ("Stabilize" :> 2) @@ ("Auto" :> 10) @@ ("Rtl" :> 11)
              @@ ("Loiter" :> 12) @@ ("Guided" :> 15)
HeartbeatMode(n) ==
  IF n \in Range(CustomMode) THEN CHOOSE m \in DOMAIN CustomMode : CustomMode[m] = n ELSE Unknown

\* A mode of the flight controller that the adapters have no name for (external).
OtherMode == 5

Forever == StaleAfter + 1

\* Mutant: the link counts as up while the reader thread runs.
LinkByReader == IF age > StaleAfter /\ ~reading THEN "lost" ELSE "up"

\* is_heartbeat_stale; before the first heartbeat the cache is a minute old.
Link == IF age > StaleAfter THEN "lost" ELSE "up"

FreshCache == [armed |-> FALSE, mode |-> Unknown]

LinkInit ==
  /\ adapter \in Adapters
  /\ typed = 0 /\ commands = Subscription /\ wire = <<>> /\ executed = 0
  /\ fc = [alive |-> TRUE, armed |-> FALSE, mode |-> CustomMode["Stabilize"]]
  /\ cache = FreshCache /\ age = Forever
  /\ reading = FALSE /\ bpc = "down" /\ status = "none"
  /\ mishaps = 0 /\ deaths = 0 /\ promised = FALSE

-----------------------------------------------------------------------------
(* The console                                                             *)

\* send_fc_command: an id, a publisher of its own, a put.  With no subscriber
\* on the bus the message is gone, and the operator is told it was sent.
Type(c) ==
  /\ typed < MaxCmds
  /\ typed' = typed + 1
  /\ commands' \in Put(commands, bpc # "down", [cmd |-> c.cmd, mode |-> c.mode, id |-> typed + 1])
  /\ promised' = \/ c = Abort /\ fc.alive /\ commands' # commands
                 \/ promised /\ c.cmd # "set_mode"
  /\ UNCHANGED <<wire, fcVars, cache, reading, status, bridgeVars, clockVars>>

\* The background task of the console keeps the last of each status it got;
\* what it was not sent, or missed, leaves the one before.
Shown(sent) == {status, sent}

-----------------------------------------------------------------------------
(* The adapter                                                             *)

Connected == /\ bpc = "down" /\ bpc' = "drain"
             /\ UNCHANGED <<adapter, deaths, consoleVars, commands, wire, executed,
                            mishaps, promised>>

\* The mock is its own flight controller: it counts itself heard, once, and
\* is in Stabilize.
ConnectMock ==
  /\ adapter = "mock" /\ Connected
  /\ age' = 0
  /\ fc' = [fc EXCEPT !.mode = CustomMode["Stabilize"], !.armed = FALSE]
  /\ UNCHANGED <<reading, cache>>

\* connect of MavlinkCore: the reader thread is started, over a new cache.
ConnectMavlink ==
  /\ adapter = "mavlink" /\ Connected
  /\ reading' = TRUE /\ age' = Forever /\ cache' = FreshCache
  /\ UNCHANGED fc

\* Mutant: the table of modes that can be sent has no RTL.
SendableNoRtl(c) ==
  c.cmd # "set_mode" \/ c.mode \in DOMAIN CustomMode \ {"Rtl"}

\* What the adapter makes of a command: nothing for a mode it cannot send.
Sendable(c) ==
  \/ c.cmd # "set_mode"
  \/ adapter = "mock" /\ c.mode \in Named
  \/ adapter = "mavlink" /\ c.mode \in Named \cap DOMAIN CustomMode

\* The flight controller, or the mock, carries a command out.
Execute(c) ==
  /\ fc' = [fc EXCEPT !.armed = CASE c.cmd = "arm" -> TRUE [] c.cmd = "disarm" -> FALSE
                                  [] OTHER -> @,
                      !.mode = IF c.cmd # "set_mode" THEN @
                               ELSE IF c.mode \in DOMAIN CustomMode THEN CustomMode[c.mode]
                               ELSE OtherMode]
  /\ executed' = c.id

\* send_command_long: a command is on the wire, or lost there; nothing is
\* waited for, and an error of send is no more than another way to lose it.
SendCommandLong(c) == \/ wire' = Append(wire, c) /\ UNCHANGED promised
                      \/ wire' = wire /\ promised' = FALSE

-----------------------------------------------------------------------------
(* The bridge                                                              *)

\* Mutant: the newest command is dispatched first.
DispatchNewest ==
  /\ bpc = "drain" /\ commands # <<>>
  /\ LET c == Last(commands) IN
     \/ ~Sendable(c) /\ UNCHANGED <<wire, fcVars, promised>>
     \/ Sendable(c) /\ adapter = "mock" /\ Execute(c) /\ UNCHANGED <<wire, promised>>
     \/ /\ Sendable(c) /\ adapter = "mavlink" /\ UNCHANGED <<fcVars, promised>>
        /\ wire' = Append(wire, c)
  /\ commands' = Front(commands)
  /\ UNCHANGED <<cache, reading, consoleVars, bridgeVars, clockVars>>

\* A command is taken and dispatched; an error is only counted.
Dispatch ==
  /\ bpc = "drain" /\ Pending(commands)
  /\ LET c == Received(commands) IN
     \/ ~Sendable(c) /\ UNCHANGED <<wire, fcVars, promised>>
     \/ Sendable(c) /\ adapter = "mock" /\ Execute(c) /\ UNCHANGED <<wire, promised>>
     \/ Sendable(c) /\ adapter = "mavlink" /\ SendCommandLong(c) /\ UNCHANGED fcVars
  /\ commands' = Rest(commands)
  /\ UNCHANGED <<cache, reading, consoleVars, bridgeVars, clockVars>>

\* The queue is empty: telemetry and status, when due, are next.
Drained ==
  /\ bpc = "drain" /\ ~Pending(commands)
  /\ bpc' = "publish"
  /\ UNCHANGED <<adapter, deaths, consoleVars, commands, wire, fcVars, cache, reading,
                 clockVars, promised>>

\* The status is due and reaches the console, or is lost, or is not due.  The
\* sample and the edges of this pass change nothing here.
PublishStatus ==
  /\ bpc = "publish" /\ bpc' = "drain"
  /\ status' \in Shown(Link)
  /\ UNCHANGED <<adapter, deaths, typed, commands, wire, fcVars, cache, reading, clockVars,
                 promised>>

\* The bridge's process ends: its subscription and its cache with it, and the
\* mock vehicle.
BridgeDies ==
  /\ bpc # "down" /\ deaths < MaxDeaths
  /\ deaths' = deaths + 1
  /\ bpc' = "down" /\ reading' = FALSE /\ commands' = <<>>
  /\ promised' = (promised /\ commands = <<>> /\ adapter = "mavlink")
  /\ UNCHANGED <<adapter, consoleVars, wire, fcVars, cache, clockVars>>

-----------------------------------------------------------------------------
(* The reader thread, the flight controller, time                           *)

\* process_message of a HEARTBEAT, under one write lock: the flight controller's,
\* or that of any other station on the link, for the sender is not looked at.
Hear ==
  /\ reading /\ fc.alive
  /\ cache' = [armed |-> fc.armed, mode |-> HeartbeatMode(fc.mode)]
  /\ age' = 0
  /\ UNCHANGED <<fcVars, consoleVars, bridgeVars, commands, wire, reading, mishaps, promised>>

HearOther ==
  /\ reading /\ mishaps < MaxMishaps /\ mishaps' = mishaps + 1
  /\ cache' = [armed |-> FALSE, mode |-> HeartbeatMode(0)]
  /\ age' = 0
  /\ UNCHANGED <<fcVars, consoleVars, bridgeVars, commands, wire, reading, promised>>

\* An error of recv ends the thread for good; sending goes on.
ReaderFails ==
  /\ reading /\ reading' = FALSE
  /\ UNCHANGED <<fcVars, consoleVars, bridgeVars, commands, wire, cache, clockVars, promised>>

\* The flight controller takes the next command, and may refuse it (external).
FcTakes ==
  /\ fc.alive /\ wire # <<>>
  /\ wire' = Tail(wire)
  /\ \/ Execute(Head(wire)) /\ UNCHANGED promised
     \/ UNCHANGED fcVars /\ promised' = FALSE
  /\ UNCHANGED <<consoleVars, bridgeVars, commands, cache, reading, clockVars>>

\* The pilot's own switch, or a failsafe of the flight controller (external).
PilotSwitches ==
  /\ adapter = "mavlink" /\ fc.alive
  /\ fc' = [fc EXCEPT !.mode = OtherMode]
  /\ promised' = FALSE
  /\ UNCHANGED <<consoleVars, bridgeVars, commands, wire, executed, cache, reading, clockVars>>

\* The flight controller falls silent for good (external).
FcDies ==
  /\ adapter = "mavlink" /\ fc.alive
  /\ fc' = [fc EXCEPT !.alive = FALSE]
  /\ promised' = FALSE
  /\ UNCHANGED <<consoleVars, bridgeVars, commands, wire, executed, cache, reading, clockVars>>

Tick ==
  /\ age < Forever /\ age' = age + 1
  /\ UNCHANGED <<fcVars, consoleVars, bridgeVars, commands, wire, cache, reading, mishaps,
                 promised>>

\* The age is taken from the wall clock, and a negative one is zero: a clock
\* that is set makes a heartbeat older or younger than it is.
ClockSet ==
  /\ mishaps < MaxMishaps /\ mishaps' = mishaps + 1
  /\ age' \in 0..Forever
  /\ UNCHANGED <<fcVars, consoleVars, bridgeVars, commands, wire, cache, reading, promised>>

-----------------------------------------------------------------------------
BridgeStep == ConnectMock \/ ConnectMavlink \/ Dispatch \/ Drained \/ PublishStatus

LinkNext ==
  \/ \E c \in Typeable : Type(c)
  \/ BridgeStep \/ BridgeDies
  \/ Hear \/ HearOther \/ ReaderFails \/ FcTakes \/ PilotSwitches \/ FcDies \/ Tick \/ ClockSet

LinkSpec == LinkInit /\ [][LinkNext]_linkVars

\* The bridge's loop goes on, and systemd starts a bridge that ended; a status
\* is due every second and not lost for ever; the flight controller works its
\* queue off, and time passes.
LinkFairness ==
  /\ WF_linkVars(BridgeStep) /\ SF_linkVars(PublishStatus /\ status' = Link)
  /\ WF_linkVars(FcTakes) /\ WF_linkVars(Tick)

LinkFairSpec == LinkSpec /\ LinkFairness

-----------------------------------------------------------------------------
(* Properties                                                              *)

\* The flight controller executes the operator's commands in the order in
\* which they were typed, each at most once, whatever was lost on the way and
\* however often the bridge was restarted (bus_console.rs send_fc_command,
\* fc-bridge lib.rs dispatch).
CommandsInOrder == [][executed' # executed => executed' > executed]_linkVars

\* An abort from the console ends in RTL, unless it is lost on the wire or
\* with the bridge, refused, or followed by another mode: the bridge's drain
\* comes to it and an error before it does not stop the loop.
AbortArrives == promised ~> (~promised \/ fc.mode = CustomMode["Rtl"])

\* When the flight controller falls silent, the operator's status says so in
\* the end and for good, although the bridge goes on publishing what it last
\* heard, the wall clock may have been set, and another station may have been
\* taken for it, though not for ever.
DeadLinkTold == ~fc.alive ~> [](status # "up")

=============================================================================
