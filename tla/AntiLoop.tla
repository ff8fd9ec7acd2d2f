------------------------------- MODULE AntiLoop -------------------------------
(***************************************************************************)
(* The anti-loop guard of crates/commander/src/anti_loop.rs: deadband,     *)
(* oscillation detector over the signs of recent yaw commands, one-second  *)
(* freeze, escalation to ABORT. Time is a clock in ticks; clipping of      *)
(* rates and offsets keeps their sign and is left out.                     *)
(***************************************************************************)
EXTENDS Integers, Sequences, FiniteSets

CONSTANTS
  Yaws,           \* yaw rates a command may ask for: |y| > 1 is above 0.1 deg/s
  Window,         \* oscillation_window
  ThresholdNum,   \* oscillation_threshold = ThresholdNum / ThresholdDen
  ThresholdDen,
  AbortCount,     \* oscillation_abort_count
  Freeze,         \* the freeze, 1 s, in ticks
  TriggerWindow,  \* how long a trigger counts, 5 s, in ticks
  MaxTime         \* bound of the model on the clock

ASSUME GuardAssumption ==
  /\ Yaws \subseteq Int
  /\ Window \in Nat
  /\ ThresholdNum \in Nat /\ ThresholdDen \in Nat \ {0}
  /\ AbortCount \in Nat
  /\ Freeze \in Nat \ {0} /\ TriggerWindow \in Nat \ {0}
  /\ MaxTime \in Nat

VARIABLES
  now,          \* Instant::now()
  history,      \* yaw_sign_history: TRUE is positive
  freezeUntil,  \* freeze_until, 0 for None
  triggers,     \* recent_triggers: the freeze keeps their instants apart
  decision,     \* what process returned; "none" once time has passed
  weakPassed    \* auxiliary: a command exempt from the check passed since

guardState == <<now, history, freezeUntil, triggers, decision, weakPassed>>

Init == /\ now = 0
        /\ history = <<>>
        /\ freezeUntil = 0
        /\ triggers = {}
        /\ decision = "none"
        /\ weakPassed = FALSE

Tick == /\ now < MaxTime
        /\ now' = now + 1
        /\ decision' = "none"
        /\ UNCHANGED <<history, freezeUntil, triggers, weakPassed>>

Positive(y) == y > 0
Strong(y)   == y > 1 \/ y < -1
LastOf(h)   == h[Len(h)]

SignChanges(h) == Cardinality({i \in 1..(Len(h) - 1) : h[i] # h[i + 1]})

\* Mutant: the sign of the new command is not counted.
OscillatesLate(h, y) ==
  /\ h # <<>>
  /\ LastOf(h) # Positive(y)
  /\ Strong(y)
  /\ ThresholdDen * SignChanges(h) > ThresholdNum * Len(h)

\* The rate is taken over the signs before this one, so one sign is enough.
Oscillates(h, y) ==
  /\ h # <<>>
  /\ LastOf(h) # Positive(y)
  /\ Strong(y)
  /\ ThresholdDen * SignChanges(Append(h, Positive(y))) > ThresholdNum * Len(h)

Recent(t)   == now - t < TriggerWindow
Remember(h) == IF Len(h) > Window THEN Tail(h) ELSE h

\* Still frozen: freeze_until is kept.
Frozen == /\ now < freezeUntil
          /\ decision' = "Suppress"
          /\ UNCHANGED <<now, history, freezeUntil, triggers, weakPassed>>

\* Mutant: freeze_until is cleared without looking at the clock.
ThawEarly == freezeUntil' = 0

\* A freeze that is over is forgotten by the next command, whatever it is.
Thaw == ~(now < freezeUntil) /\ freezeUntil' = 0

InDeadband == /\ Thaw
              /\ decision' = "Suppress"
              /\ UNCHANGED <<now, history, triggers, weakPassed>>

Pass(y) == /\ Thaw
           /\ ~Oscillates(history, y)
           /\ history' = Remember(Append(history, Positive(y)))
           /\ decision' = "Allow"
           /\ weakPassed' = (weakPassed \/ ~Strong(y))
           /\ UNCHANGED <<now, triggers>>

\* Mutant: old triggers are not pruned.
TripUnpruned(y) ==
  /\ ~(now < freezeUntil)
  /\ Oscillates(history, y)
  /\ triggers' = triggers \cup {now}
  /\ freezeUntil' = now + Freeze
  /\ history' = <<>>
  /\ decision' = IF Cardinality(triggers') >= AbortCount THEN "Abort" ELSE "Degrade"
  /\ weakPassed' = FALSE
  /\ UNCHANGED now

\* handle_oscillation.
Trip(y) == /\ ~(now < freezeUntil)
           /\ Oscillates(history, y)
           /\ triggers' = {t \in triggers : Recent(t)} \cup {now}
           /\ freezeUntil' = now + Freeze
           /\ history' = <<>>
           /\ decision' = IF Cardinality(triggers') >= AbortCount
                          THEN "Abort" ELSE "Degrade"
           /\ weakPassed' = FALSE
           /\ UNCHANGED now

Next == Tick \/ Frozen \/ InDeadband \/ \E y \in Yaws : Pass(y) \/ Trip(y)

Spec == Init /\ [][Next]_guardState

-----------------------------------------------------------------------------
(* ABORT exactly when the trips of the last five seconds reach the limit,  *)
(* DEGRADED when they do not: an old burst does not count against a later  *)
(* single trip.                                                            *)
EscalatesOnlyIfRepeated ==
  decision \in {"Degrade", "Abort"} =>
    (decision = "Abort" <=>
       Cardinality({t \in triggers : Recent(t)}) >= AbortCount)

(* The commands that were let through never reverse more often than the    *)
(* threshold, even after old signs have left the window - as long as none  *)
(* of them was below 0.1 deg/s, and so exempt from the check.              *)
StreamIsCalm ==
  ~weakPassed =>
    ThresholdDen * SignChanges(history) <= ThresholdNum * Len(history)

(* The guard keeps the contract the commander is built on.                 *)
Contract == INSTANCE GuardContract WITH cooling <- now < freezeUntil
ImplementsContract == Contract!GuardSpec
=============================================================================
