---------------------------- MODULE FcLinkProofs ----------------------------
(***************************************************************************)
(* Proofs about FcLink, for every number of commands, deaths and mishaps   *)
(* of the clock and either adapter: the flight controller executes what    *)
(* the operator typed in the order in which it was typed.                  *)
(***************************************************************************)
EXTENDS FcLink, SequenceTheorems, TLAPS

(* The commands, numbered from 1 by the console.                           *)
CmdNames  == {"arm", "disarm", "set_roi", "set_mode"}
ModeNames == {Unknown, "Guided", "AltHold", "Rtl", "warp"}
Commands  == [cmd : CmdNames, mode : ModeNames, id : Nat \ {0}]

LEMMA CommandIds ==
  /\ \A c \in Commands : c.id \in Nat \ {0}
  /\ \A c \in Typeable, n \in Nat \ {0} :
       /\ [cmd |-> c.cmd, mode |-> c.mode, id |-> n] \in Commands
       /\ [cmd |-> c.cmd, mode |-> c.mode, id |-> n].id = n
<1>1. ASSUME NEW c \in Typeable
      PROVE  c.cmd \in CmdNames /\ c.mode \in ModeNames
  BY DEF Typeable, CmdNames, ModeNames
<1> QED
  BY <1>1 DEF Commands

(* The ids along a queue grow, from above low.                             *)
Rising(queue, low) ==
  /\ \A i \in DOMAIN queue : queue[i].id > low
  /\ \A i, j \in DOMAIN queue : i < j => queue[i].id < queue[j].id

(* On the way from the console to the flight controller, what is nearer    *)
(* was typed earlier; the mock has no wire.                                *)
LTypeOK == /\ typed \in Nat /\ executed \in Nat
           /\ commands \in Seq(Commands) /\ wire \in Seq(Commands)
LOrder  == /\ executed <= typed
           /\ Rising(wire, executed) /\ Rising(commands, executed)
           /\ \A i \in DOMAIN commands : commands[i].id <= typed
           /\ \A i \in DOMAIN wire : wire[i].id <= typed
           /\ \A i \in DOMAIN wire, j \in DOMAIN commands : wire[i].id < commands[j].id
           /\ adapter = "mock" => wire = <<>>
LInv == LTypeOK /\ LOrder

LEMMA RisingAppend ==
  ASSUME NEW q \in Seq(Commands), NEW c \in Commands, NEW low \in Nat,
         Rising(q, low), c.id > low, \A i \in DOMAIN q : q[i].id < c.id
  PROVE  Rising(Append(q, c), low)
<1>1. /\ DOMAIN Append(q, c) = 1..(Len(q) + 1) /\ DOMAIN q = 1..Len(q)
      /\ \A i \in 1..Len(q) : Append(q, c)[i] = q[i]
      /\ Append(q, c)[Len(q) + 1] = c
      /\ Len(q) \in Nat
  OBVIOUS
<1> QED
  BY <1>1 DEF Rising

LEMMA RisingTail ==
  ASSUME NEW q \in Seq(Commands), q # <<>>, NEW low \in Nat, Rising(q, low)
  PROVE  /\ Rising(Tail(q), low) /\ Rising(Tail(q), Head(q).id)
         /\ Head(q) \in Commands /\ Tail(q) \in Seq(Commands)
         /\ Head(q).id > low
         /\ \A i \in DOMAIN Tail(q) : i + 1 \in DOMAIN q /\ Tail(q)[i] = q[i + 1]
         /\ 1 \in DOMAIN q /\ Head(q) = q[1]
<1>1. /\ DOMAIN q = 1..Len(q) /\ Len(q) \in Nat /\ Len(q) >= 1
      /\ Tail(q) \in Seq(Commands) /\ Len(Tail(q)) = Len(q) - 1
      /\ \A i \in 1..(Len(q) - 1) : Tail(q)[i] = q[i + 1]
      /\ DOMAIN Tail(q) = 1..(Len(q) - 1)
      /\ Head(q) = q[1] /\ Head(q) \in Commands
  OBVIOUS
<1>2. \A i \in 1..(Len(q) - 1) : i + 1 \in 1..Len(q) /\ 1 < i + 1
  BY <1>1
<1>3. 1 \in DOMAIN q /\ Head(q).id > low
  <2>1. 1 \in 1..Len(q)
    BY <1>1
  <2> QED BY <1>1, <2>1 DEF Rising
<1>4. \A i \in DOMAIN Tail(q) : /\ i + 1 \in DOMAIN q /\ Tail(q)[i] = q[i + 1]
                               /\ q[i + 1].id > low /\ q[i + 1].id > q[1].id
  <2> TAKE i \in DOMAIN Tail(q)
  <2>1. i + 1 \in DOMAIN q /\ Tail(q)[i] = q[i + 1] /\ 1 < i + 1
    BY <1>1, <1>2
  <2> QED BY <1>3, <2>1 DEF Rising
<1>5. \A i, j \in DOMAIN Tail(q) : i < j => Tail(q)[i].id < Tail(q)[j].id
  <2> SUFFICES ASSUME NEW i \in DOMAIN Tail(q), NEW j \in DOMAIN Tail(q), i < j
               PROVE  Tail(q)[i].id < Tail(q)[j].id
    OBVIOUS
  <2>1. i + 1 < j + 1
    BY <1>1
  <2>2. q[i + 1].id < q[j + 1].id
    BY <1>4, <2>1 DEF Rising
  <2> QED BY <1>4, <2>2
<1> QED
  BY <1>1, <1>3, <1>4, <1>5 DEF Rising

LEMMA LinkStart == LinkInit => LInv
<1> SUFFICES ASSUME LinkInit PROVE LInv
  OBVIOUS
<1>1. <<>> \in Seq(Commands) /\ DOMAIN <<>> = {}
  OBVIOUS
<1>2. typed = 0 /\ executed = 0 /\ commands = <<>> /\ wire = <<>>
  BY DEF LinkInit, Subscription
<1> QED
  BY <1>1, <1>2 DEF LInv, LTypeOK, LOrder, Rising

(* A command leaves the head of the queue.                                 *)
LEMMA DispatchKeepsOrder ==
  LInv /\ Dispatch => LInv' /\ (executed' # executed => executed' > executed)
<1> SUFFICES ASSUME LInv, Dispatch
             PROVE  LInv' /\ (executed' # executed => executed' > executed)
  OBVIOUS
<1> DEFINE c == Head(commands)
<1>0. /\ commands \in Seq(Commands) /\ commands # <<>> /\ wire \in Seq(Commands)
      /\ Rising(commands, executed) /\ Rising(wire, executed)
      /\ executed \in Nat /\ typed \in Nat /\ executed <= typed
      /\ commands' = Tail(commands) /\ adapter' = adapter /\ typed' = typed
  BY DEF LInv, LTypeOK, LOrder, Dispatch, Pending, Rest, bridgeVars, consoleVars
<1>1. /\ Rising(Tail(commands), executed) /\ Rising(Tail(commands), c.id)
      /\ c \in Commands /\ Tail(commands) \in Seq(Commands) /\ c.id > executed
      /\ \A i \in DOMAIN Tail(commands) : i + 1 \in DOMAIN commands
                                          /\ Tail(commands)[i] = commands[i + 1]
      /\ 1 \in DOMAIN commands /\ c = commands[1]
  BY <1>0, RisingTail
<1>2. \A i \in DOMAIN Tail(commands) :
        /\ Tail(commands)[i].id <= typed
        /\ \A k \in DOMAIN wire : wire[k].id < Tail(commands)[i].id
  BY <1>1 DEF LInv, LOrder
<1>3. c.id <= typed /\ c.id \in Nat /\ \A k \in DOMAIN wire : wire[k].id < c.id
  BY <1>1, CommandIds DEF LInv, LOrder
<1> HIDE DEF c
<1>4. CASE UNCHANGED <<wire, executed>>
  BY <1>0, <1>1, <1>2, <1>4 DEF LInv, LTypeOK, LOrder
<1>5. CASE adapter = "mock" /\ executed' = c.id /\ UNCHANGED wire
  <2>1. wire' = <<>> /\ DOMAIN wire' = {}
    BY <1>5 DEF LInv, LOrder
  <2> QED
    BY <1>0, <1>1, <1>2, <1>3, <1>5, <2>1 DEF LInv, LTypeOK, LOrder, Rising
<1>6. CASE adapter = "mavlink" /\ wire' = Append(wire, c) /\ UNCHANGED executed
  <2>1. Rising(Append(wire, c), executed)
    BY <1>0, <1>1, <1>3, RisingAppend
  <2>2. /\ Append(wire, c) \in Seq(Commands)
        /\ DOMAIN Append(wire, c) = 1..(Len(wire) + 1) /\ DOMAIN wire = 1..Len(wire)
        /\ \A i \in 1..Len(wire) : Append(wire, c)[i] = wire[i]
        /\ Append(wire, c)[Len(wire) + 1] = c
        /\ Len(wire) \in Nat
    BY <1>0, <1>1
  <2>3. \A i \in DOMAIN Append(wire, c) :
          Append(wire, c)[i] = c \/ (i \in DOMAIN wire /\ Append(wire, c)[i] = wire[i])
    BY <2>2
  <2>4. \A i \in DOMAIN Tail(commands) : c.id < Tail(commands)[i].id
    BY <1>1 DEF Rising
  <2>5. /\ \A i \in DOMAIN wire' : wire'[i].id <= typed
        /\ \A i \in DOMAIN wire', j \in DOMAIN Tail(commands) :
             wire'[i].id < Tail(commands)[j].id
    BY <1>2, <1>3, <1>6, <2>3, <2>4 DEF LInv, LOrder
  <2> QED
    BY <1>0, <1>1, <1>2, <1>6, <2>1, <2>2, <2>5 DEF LInv, LTypeOK, LOrder
<1> QED
  BY <1>4, <1>5, <1>6
     DEF Dispatch, Received, Execute, SendCommandLong, fcVars, c

LEMMA TypeKeepsOrder ==
  ASSUME LInv, NEW t \in Typeable, Type(t)
  PROVE  LInv' /\ executed' = executed
<1>0. /\ typed' = typed + 1 /\ typed \in Nat
      /\ UNCHANGED <<wire, executed, adapter>> /\ executed \in Nat
      /\ commands \in Seq(Commands) /\ wire \in Seq(Commands) /\ executed <= typed
  BY DEF Type, LInv, LTypeOK, LOrder, fcVars, bridgeVars
<1>1. PICK c : c = [cmd |-> t.cmd, mode |-> t.mode, id |-> typed + 1]
  OBVIOUS
<1>2. c \in Commands /\ c.id = typed + 1
  BY <1>0, <1>1, CommandIds
<1>3. commands' = commands \/ commands' = Append(commands, c)
  BY <1>1 DEF Type, Put
<1>4. CASE commands' = commands
  BY <1>0, <1>4, CommandIds DEF LInv, LTypeOK, LOrder
<1>5. CASE commands' = Append(commands, c)
  <2>1. \A i \in DOMAIN commands : commands[i].id <= typed /\ commands[i].id \in Nat
    BY <1>0, CommandIds DEF LInv, LOrder
  <2>2. Rising(Append(commands, c), executed)
    BY <1>0, <1>2, <2>1, RisingAppend DEF LInv, LOrder
  <2>3. /\ Append(commands, c) \in Seq(Commands)
        /\ \A i \in DOMAIN Append(commands, c) :
             \/ Append(commands, c)[i] = c
             \/ i \in DOMAIN commands /\ Append(commands, c)[i] = commands[i]
    BY <1>0, <1>2
  <2>4. /\ \A i \in DOMAIN commands' : commands'[i].id <= typed + 1
        /\ \A k \in DOMAIN wire : wire[k].id <= typed /\ wire[k].id \in Nat
    BY <1>0, <1>2, <1>5, <2>1, <2>3, CommandIds, SMTT(30) DEF LInv, LOrder
  <2>5. \A k \in DOMAIN wire, j \in DOMAIN commands' : wire[k].id < commands'[j].id
    BY <1>0, <1>2, <1>5, <2>3, <2>4 DEF LInv, LOrder
  <2> QED
    BY <1>0, <1>5, <2>2, <2>3, <2>4, <2>5 DEF LInv, LTypeOK, LOrder
<1> QED
  BY <1>3, <1>4, <1>5, <1>0

LEMMA TakeKeepsOrder ==
  LInv /\ FcTakes => LInv' /\ (executed' # executed => executed' > executed)
<1> SUFFICES ASSUME LInv, FcTakes
             PROVE  LInv' /\ (executed' # executed => executed' > executed)
  OBVIOUS
<1>0. /\ wire \in Seq(Commands) /\ wire # <<>> /\ wire' = Tail(wire)
      /\ Rising(wire, executed) /\ Rising(commands, executed)
      /\ executed \in Nat /\ commands \in Seq(Commands)
      /\ executed' = executed \/ executed' = Head(wire).id
      /\ UNCHANGED <<commands, typed, adapter>> /\ adapter # "mock"
  BY DEF LInv, LTypeOK, LOrder, FcTakes, Execute, fcVars, consoleVars, bridgeVars
<1>1. /\ Rising(Tail(wire), executed) /\ Rising(Tail(wire), Head(wire).id)
      /\ Head(wire) \in Commands /\ Tail(wire) \in Seq(Commands)
      /\ Head(wire).id > executed
      /\ \A i \in DOMAIN Tail(wire) : i + 1 \in DOMAIN wire /\ Tail(wire)[i] = wire[i + 1]
      /\ 1 \in DOMAIN wire /\ Head(wire) = wire[1]
  BY <1>0, RisingTail
<1>2. /\ Head(wire).id <= typed /\ Head(wire).id \in Nat
      /\ \A j \in DOMAIN commands : Head(wire).id < commands[j].id
      /\ \A i \in DOMAIN Tail(wire) : Tail(wire)[i].id <= typed
      /\ \A i \in DOMAIN Tail(wire), j \in DOMAIN commands :
           Tail(wire)[i].id < commands[j].id
  BY <1>1, CommandIds DEF LInv, LOrder
<1> QED
  BY <1>0, <1>1, <1>2 DEF LInv, LTypeOK, LOrder, Rising

LEMMA OthersKeepOrder ==
  /\ LInv /\ UNCHANGED <<typed, executed, commands, wire, adapter>> => LInv'
  /\ LInv /\ BridgeDies => LInv' /\ executed' = executed
<1>1. LInv /\ UNCHANGED <<typed, executed, commands, wire, adapter>> => LInv'
  BY DEF LInv, LTypeOK, LOrder, Rising
<1>2. ASSUME LInv, BridgeDies PROVE LInv' /\ executed' = executed
  <2>1. <<>> \in Seq(Commands) /\ DOMAIN <<>> = {}
    OBVIOUS
  <2>2. commands' = <<>> /\ UNCHANGED <<typed, executed, wire, adapter>>
    BY <1>2 DEF BridgeDies, consoleVars, fcVars
  <2> QED
    BY <1>2, <2>1, <2>2 DEF LInv, LTypeOK, LOrder, Rising
<1> QED
  BY <1>1, <1>2

LEMMA LinkStep ==
  LInv /\ [LinkNext]_linkVars => LInv' /\ (executed' # executed => executed' > executed)
<1> SUFFICES ASSUME LInv, [LinkNext]_linkVars
             PROVE  LInv' /\ (executed' # executed => executed' > executed)
  OBVIOUS
<1>1. CASE UNCHANGED <<typed, executed, commands, wire, adapter>>
  BY <1>1, OthersKeepOrder
<1>2. ConnectMock \/ ConnectMavlink \/ Drained \/ PublishStatus \/ Hear \/ HearOther \/ ReaderFails
      \/ PilotSwitches \/ FcDies \/ Tick \/ ClockSet \/ UNCHANGED linkVars
        => UNCHANGED <<typed, executed, commands, wire, adapter>>
  BY DEF ConnectMock, ConnectMavlink, Connected, Drained, PublishStatus, Hear, HearOther,
         ReaderFails, PilotSwitches, FcDies, Tick, ClockSet, linkVars, consoleVars, bridgeVars, fcVars
<1> QED
  BY <1>1, <1>2, DispatchKeepsOrder, TypeKeepsOrder, TakeKeepsOrder, OthersKeepOrder
     DEF LinkNext, BridgeStep

-----------------------------------------------------------------------------
\* On every way from the console to the flight controller the commands are in
\* the order of their ids, which are those of the operator.
THEOREM LinkInvariant == LinkSpec => []LInv
BY LinkStart, LinkStep, PTL DEF LinkSpec

\* The flight controller executes the commands in the order in which they were
\* typed, each at most once, whatever is lost and however often the bridge dies.
THEOREM LinkInOrder == LinkSpec => CommandsInOrder
<1>1. LInv /\ [LinkNext]_linkVars => [executed' # executed => executed' > executed]_linkVars
  BY LinkStep
<1> QED
  BY <1>1, LinkInvariant, PTL DEF LinkSpec, CommandsInOrder

\* Only what was typed is executed.
THEOREM OnlyTypedExecuted == LinkSpec => [](executed <= typed)
<1>1. LInv => executed <= typed
  BY DEF LInv, LOrder
<1> QED
  BY <1>1, LinkInvariant, PTL
=============================================================================
