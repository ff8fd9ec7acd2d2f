----------------------------- MODULE FrameReaper -----------------------------
(***************************************************************************)
(* The operator's recovery tool recover_stale_slots (run by the            *)
(* shmem_reaper example) next to a running ring: one scan over the slots,  *)
(* freeing those that dead processes left taken. A dead process's pid is   *)
(* not reused while the tool looks at it.                                  *)
(***************************************************************************)
EXTENDS FrameRing

VARIABLES
  zpc,          \* where the scan is
  zslot,        \* slot under examination
  producerDead  \* the verdict on the producer, taken once per scan

reapVars == <<zpc, zslot, producerDead>>
allVars  == <<vars, reapVars>>

ReaperPc == {"idle", "look", "judge", "clearLock", "clearOne"}

ReapInit == /\ Init
            /\ zpc = "idle" /\ zslot = 0 /\ producerDead = FALSE

\* What the scan runs next to: a step A of the ring.
Beside(A) == A /\ UNCHANGED reapVars

StartScan ==
  /\ zpc = "idle"
  /\ producerDead' = ~producerAlive
  /\ zpc' = "look" /\ zslot' = 0
  /\ UNCHANGED vars

\* On to the next slot, or the end of the scan.
NextSlotOrDone ==
  IF zslot + 1 < Capacity THEN zpc' = "look" /\ zslot' = zslot + 1
                          ELSE zpc' = "idle" /\ zslot' = 0

\* Mutant: only writer locks are recovered.
LookForLocksOnly ==
  /\ zpc = "look"
  /\ IF refCount[zslot] = WriterLock /\ producerDead
     THEN zpc' = "clearLock" /\ UNCHANGED zslot
     ELSE NextSlotOrDone
  /\ UNCHANGED <<vars, producerDead>>

\* Load ref_count and branch on it; shared slots (> 1) are only logged.
LookAtSlot ==
  /\ zpc = "look"
  /\ IF refCount[zslot] = WriterLock /\ producerDead
     THEN zpc' = "clearLock" /\ UNCHANGED zslot
     ELSE IF refCount[zslot] = 1
          THEN zpc' = "judge" /\ UNCHANGED zslot
          ELSE NextSlotOrDone
  /\ UNCHANGED <<vars, producerDead>>

HolderDead(s) == holderPid[s] # NoPid /\ holderPid[s] \in crashed

\* A single holder is freed if its pid is dead and its frame is old. How old
\* frames are is not modelled, so the age test may go either way.
JudgeHolder ==
  /\ zpc = "judge"
  /\ \/ /\ HolderDead(zslot)
        /\ zpc' = "clearOne" /\ UNCHANGED zslot
     \/ NextSlotOrDone
  /\ UNCHANGED <<vars, producerDead>>

\* compare_exchange(from, 0).
Clear(from) ==
  /\ refCount' = IF refCount[zslot] = from
                 THEN [refCount EXCEPT ![zslot] = 0] ELSE refCount
  /\ NextSlotOrDone
  /\ UNCHANGED <<writeSeq, holderPid, frameId, meta, dataLo, dataHi,
                 prodVars, readVars, producerDead>>

ClearLock == zpc = "clearLock" /\ Clear(WriterLock)
ClearOne  == zpc = "clearOne" /\ Clear(1)

ReapStep == StartScan \/ LookAtSlot \/ JudgeHolder \/ ClearLock \/ ClearOne

ReapNext == Beside(Next) \/ ReapStep

ReapSpec == ReapInit /\ [][ReapNext]_allVars

(* The operator runs the tool until it has helped; a frame nobody replaces  *)
(* grows old, so a scan that reaches ClearOne happens again and again.      *)
ReapFairSpec == /\ ReapSpec
                /\ WF_allVars(Beside(PublishStep))
                /\ \A r \in Readers : WF_allVars(Beside(ReaderStep(r)))
                /\ WF_allVars(ReapStep)
                /\ SF_allVars(JudgeHolder /\ zpc' = "clearOne")

-----------------------------------------------------------------------------
(* Repeated scans give back a slot whose only holder died after recording  *)
(* its pid, unless another reader leaves its own pid there; and the slot a *)
(* dead producer was writing does not stay locked.                         *)
DeadAreReaped ==
  \A s \in Slots :
    /\ (refCount[s] = 1 /\ HolderDead(s) /\ Holders(s) \subseteq crashed)
         ~> refCount[s] \in {0, WriterLock} \/ ~HolderDead(s)
    /\ (~producerAlive /\ refCount[s] = WriterLock) ~> refCount[s] # WriterLock

(* The scan takes back no share of a live reader: when it gives back a      *)
(* single holder's slot, the holder is the dead process whose pid is there. *)
LiveShareKept ==
  [][ClearOne =>
       \A r \in Readers \ crashed :
         rpc[r] = "hold" /\ SlotOf(target[r]) = zslot
           => refCount'[zslot] = refCount[zslot]]_allVars
=============================================================================
