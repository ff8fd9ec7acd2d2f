------------------------------ MODULE FrameRing ------------------------------
(***************************************************************************)
(* The single-producer multi-consumer frame ring of crates/shmem-buffer.   *)
(* One atomic word per slot, ref_count, arbitrates between the producer    *)
(* (publish) and the readers (latest, next_after, FrameGuard::drop); every *)
(* atomic access and every part of the copy is a step of its own, so that  *)
(* the processes interleave as they do over a shared mapping, and a reader *)
(* or the producer may die between any two steps.                          *)
(*                                                                         *)
(* Frame n is copied as two halves plus metadata; each part is represented *)
(* by the id of the frame it belongs to, so a torn frame is a state.       *)
(***************************************************************************)
EXTENDS Integers, FiniteSets

CONSTANTS
  Readers,          \* consumer processes, one guard at a time each
  LatestReaders,    \* those that poll with latest(); the others next_after()
  FaultyReaders,    \* those that may die (panic=abort: the guard is not dropped)
  ProducerMayCrash, \* whether the producer may die
  Capacity,         \* slots in the ring
  WriterLock,       \* WRITER_LOCK, the largest value of ref_count
  NoPid,            \* holder_pid of a slot nobody has taken yet
  MaxId             \* bound of the model on published ids

ASSUME RingAssumption ==
  /\ IsFiniteSet(Readers)
  /\ LatestReaders \subseteq Readers
  /\ FaultyReaders \subseteq Readers
  /\ ProducerMayCrash \in BOOLEAN
  /\ Capacity \in Nat /\ Capacity > 0
  /\ WriterLock \in Nat /\ Cardinality(Readers) < WriterLock
  /\ NoPid \notin Readers
  /\ MaxId \in Nat

VARIABLES
  writeSeq,     \* header.write_seq: id of the last published frame
  refCount,     \* slot.ref_count: 0, number of holders, or WriterLock
  holderPid,    \* slot.holder_pid: the last process that took the slot
  frameId,      \* slot.frame_id
  meta,         \* slot.ts_ns, width, height, format
  dataLo,       \* first half of the slot's bytes
  dataHi,       \* second half of the slot's bytes
  ppc,          \* where the producer is in publish
  outcome,      \* what the last publish returned
  producerAlive,
  rpc,          \* where each reader is in latest / next_after / drop
  target,       \* id each reader is after
  cur,          \* ref_count each reader loaded before its CAS
  view,         \* FrameView.frame_id of the guard
  last,         \* the reader's last_id cursor
  crashed       \* readers that died

ringVars == <<writeSeq, refCount, holderPid, frameId, meta, dataLo, dataHi>>
prodVars == <<ppc, outcome, producerAlive>>
readVars == <<rpc, target, cur, view, last, crashed>>
vars     == <<ringVars, prodVars, readVars>>

Slots     == 0..(Capacity - 1)
SlotOf(n) == n % Capacity

\* Reference counts are u32: fetch_sub on zero wraps to WriterLock.
FetchSub(n) == IF n = 0 THEN WriterLock ELSE n - 1

Writing   == {"copyLo", "copyHi", "meta", "id", "release"}
Counting  == {"holder", "check", "undo", "hold"}
ProducerPc == Writing \cup {"idle", "dropped", "seq"}
ReaderPc   == Counting \cup {"idle", "load", "cas"}
Outcomes   == {"none", "published", "heldByReaders", "writerLockHeld"}

Init ==
  /\ writeSeq  = 0
  /\ refCount  = [s \in Slots |-> 0]
  /\ holderPid = [s \in Slots |-> NoPid]
  /\ frameId   = [s \in Slots |-> 0]
  /\ meta      = [s \in Slots |-> 0]
  /\ dataLo    = [s \in Slots |-> 0]
  /\ dataHi    = [s \in Slots |-> 0]
  /\ ppc = "idle"
  /\ outcome = "none"
  /\ producerAlive = TRUE
  /\ rpc    = [r \in Readers |-> "idle"]
  /\ target = [r \in Readers |-> 0]
  /\ cur    = [r \in Readers |-> 0]
  /\ view   = [r \in Readers |-> 0]
  /\ last   = [r \in Readers |-> 0]
  /\ crashed = {}

-----------------------------------------------------------------------------
(* The producer: FrameProducer::publish, step by step.                     *)

NextId   == writeSeq + 1
\* Mutant: the slot is computed from the old write_seq.
NextSlotOfWriteSeq == SlotOf(writeSeq)

NextSlot == SlotOf(NextId)

ProducerAt(pc, next) == /\ producerAlive
                        /\ ppc = pc
                        /\ ppc' = next

\* Mutant: the CAS is replaced by a store that ignores the readers.
ClaimHeldSlot ==
  /\ writeSeq < MaxId
  /\ ProducerAt("idle", "copyLo")
  /\ refCount' = [refCount EXCEPT ![NextSlot] = WriterLock]
  /\ UNCHANGED <<writeSeq, holderPid, frameId, meta, dataLo, dataHi,
                 outcome, producerAlive, readVars>>

\* compare_exchange(0, WRITER_LOCK) succeeds.
ClaimSlot ==
  /\ writeSeq < MaxId
  /\ ProducerAt("idle", "copyLo")
  /\ refCount[NextSlot] = 0
  /\ refCount' = [refCount EXCEPT ![NextSlot] = WriterLock]
  /\ UNCHANGED <<writeSeq, holderPid, frameId, meta, dataLo, dataHi,
                 outcome, producerAlive, readVars>>

\* ... or fails: drop-new.
ClaimFails ==
  /\ writeSeq < MaxId
  /\ ProducerAt("idle", "dropped")
  /\ refCount[NextSlot] # 0
  /\ UNCHANGED <<ringVars, outcome, producerAlive, readVars>>

\* The reason of the drop comes from a second load of ref_count.
ReportDrop ==
  /\ ProducerAt("dropped", "idle")
  /\ outcome' = IF refCount[NextSlot] = WriterLock
                THEN "writerLockHeld" ELSE "heldByReaders"
  /\ UNCHANGED <<ringVars, producerAlive, readVars>>

CopyLo ==
  /\ ProducerAt("copyLo", "copyHi")
  /\ dataLo' = [dataLo EXCEPT ![NextSlot] = NextId]
  /\ UNCHANGED <<writeSeq, refCount, holderPid, frameId, meta, dataHi,
                 outcome, producerAlive, readVars>>

CopyHi ==
  /\ ProducerAt("copyHi", "meta")
  /\ dataHi' = [dataHi EXCEPT ![NextSlot] = NextId]
  /\ UNCHANGED <<writeSeq, refCount, holderPid, frameId, meta, dataLo,
                 outcome, producerAlive, readVars>>

\* Mutant: the metadata of the new frame is not written.
WriteNoMeta == ProducerAt("meta", "id")
               /\ UNCHANGED <<ringVars, outcome, producerAlive, readVars>>

WriteSlotMeta ==
  /\ ProducerAt("meta", "id")
  /\ meta' = [meta EXCEPT ![NextSlot] = NextId]
  /\ UNCHANGED <<writeSeq, refCount, holderPid, frameId, dataLo, dataHi,
                 outcome, producerAlive, readVars>>

StoreFrameId ==
  /\ ProducerAt("id", "release")
  /\ frameId' = [frameId EXCEPT ![NextSlot] = NextId]
  /\ UNCHANGED <<writeSeq, refCount, holderPid, meta, dataLo, dataHi,
                 outcome, producerAlive, readVars>>

ReleaseSlot ==
  /\ ProducerAt("release", "seq")
  /\ refCount' = [refCount EXCEPT ![NextSlot] = 0]
  /\ UNCHANGED <<writeSeq, holderPid, frameId, meta, dataLo, dataHi,
                 outcome, producerAlive, readVars>>

StoreWriteSeq ==
  /\ ProducerAt("seq", "idle")
  /\ writeSeq' = NextId
  /\ outcome' = "published"
  /\ UNCHANGED <<refCount, holderPid, frameId, meta, dataLo, dataHi,
                 producerAlive, readVars>>

ProducerCrash ==
  /\ ProducerMayCrash /\ producerAlive
  /\ producerAlive' = FALSE
  /\ UNCHANGED <<ringVars, ppc, outcome, readVars>>

PublishStep == \/ ClaimSlot \/ ClaimFails \/ ReportDrop \/ CopyLo \/ CopyHi
               \/ WriteSlotMeta \/ StoreFrameId \/ ReleaseSlot \/ StoreWriteSeq

-----------------------------------------------------------------------------
(* A reader r: latest() or next_after(last), then the guard's life.        *)
(* next_after's retry loop and the caller's polling loop go back to the    *)
(* same point, "idle", where write_seq is read afresh; the bounds on spins *)
(* and retries only decide how soon the call reports that to its caller.   *)

ReaderAt(r, pc) == r \notin crashed /\ rpc[r] = pc
Go(r, pc)       == rpc' = [rpc EXCEPT ![r] = pc]

Want(r) == last[r] + 1

\* Mutant: the window is taken one frame too small.
TooFarBehindEarly(r) == writeSeq >= Want(r) /\ writeSeq - Want(r) >= Capacity - 1

TooFarBehind(r) == writeSeq >= Want(r) /\ writeSeq - Want(r) >= Capacity

\* latest(): aim at the slot of write_seq, whatever frame it will hold.
Latest(r) ==
  /\ r \in LatestReaders
  /\ ReaderAt(r, "idle")
  /\ writeSeq > 0
  /\ target' = [target EXCEPT ![r] = writeSeq]
  /\ Go(r, "load")
  /\ UNCHANGED <<ringVars, prodVars, cur, view, last, crashed>>

\* next_after(last) finds the wanted frame inside the window.
NextAfter(r) ==
  /\ r \notin LatestReaders
  /\ ReaderAt(r, "idle")
  /\ Want(r) <= writeSeq
  /\ ~TooFarBehind(r)
  /\ target' = [target EXCEPT ![r] = Want(r)]
  /\ Go(r, "load")
  /\ UNCHANGED <<ringVars, prodVars, cur, view, last, crashed>>

\* Mutant: the caller ignores TooFarBehind and keeps its cursor.
JumpForgotten(r) == /\ r \notin LatestReaders
                    /\ ReaderAt(r, "idle")
                    /\ TooFarBehind(r)
                    /\ UNCHANGED vars

\* next_after returns TooFarBehind and the caller jumps to the latest id.
Jump(r) ==
  /\ r \notin LatestReaders
  /\ ReaderAt(r, "idle")
  /\ TooFarBehind(r)
  /\ last' = [last EXCEPT ![r] = writeSeq]
  /\ UNCHANGED <<ringVars, prodVars, rpc, target, cur, view, crashed>>

\* Nothing new: None / UpToDate, and the caller polls again.
UpToDate(r) ==
  /\ ReaderAt(r, "idle")
  /\ IF r \in LatestReaders THEN writeSeq = 0 ELSE Want(r) > writeSeq
  /\ UNCHANGED vars

\* try_acquire loads ref_count; a writer's lock means spin.
LoadRef(r) ==
  /\ ReaderAt(r, "load")
  /\ refCount[SlotOf(target[r])] # WriterLock
  /\ cur' = [cur EXCEPT ![r] = refCount[SlotOf(target[r])]]
  /\ Go(r, "cas")
  /\ UNCHANGED <<ringVars, prodVars, target, view, last, crashed>>

\* The last spin found the writer's lock: Busy.
SpinsExhausted(r) ==
  /\ ReaderAt(r, "load")
  /\ refCount[SlotOf(target[r])] = WriterLock
  /\ Go(r, "idle")
  /\ UNCHANGED <<ringVars, prodVars, target, cur, view, last, crashed>>

CasSucceeds(r) ==
  LET s == SlotOf(target[r]) IN
  /\ ReaderAt(r, "cas")
  /\ refCount[s] = cur[r]
  /\ refCount' = [refCount EXCEPT ![s] = cur[r] + 1]
  /\ Go(r, "holder")
  /\ UNCHANGED <<writeSeq, holderPid, frameId, meta, dataLo, dataHi, prodVars,
                 target, cur, view, last, crashed>>

\* Another process changed the word first: spin again, or give up as Busy.
CasFails(r) ==
  /\ ReaderAt(r, "cas")
  /\ refCount[SlotOf(target[r])] # cur[r]
  /\ \/ Go(r, "load")
     \/ Go(r, "idle")
  /\ UNCHANGED <<ringVars, prodVars, target, cur, view, last, crashed>>

StoreHolder(r) ==
  /\ ReaderAt(r, "holder")
  /\ holderPid' = [holderPid EXCEPT ![SlotOf(target[r])] = r]
  /\ Go(r, "check")
  /\ UNCHANGED <<writeSeq, refCount, frameId, meta, dataLo, dataHi, prodVars,
                 target, cur, view, last, crashed>>

\* next_after validates the id it finds, latest() takes any.
Accepts(r, id) == r \in LatestReaders \/ id = target[r]

GetGuard(r) ==
  LET id == frameId[SlotOf(target[r])] IN
  /\ ReaderAt(r, "check")
  /\ Accepts(r, id)
  /\ view' = [view EXCEPT ![r] = id]
  /\ last' = [last EXCEPT ![r] = id]
  /\ Go(r, "hold")
  /\ UNCHANGED <<ringVars, prodVars, target, cur, crashed>>

Mismatch(r) ==
  /\ ReaderAt(r, "check")
  /\ ~Accepts(r, frameId[SlotOf(target[r])])
  /\ Go(r, "undo")
  /\ UNCHANGED <<ringVars, prodVars, target, cur, view, last, crashed>>

\* fetch_sub(1), in try_acquire after a mismatch and in FrameGuard::drop.
Unref(r, pc) ==
  LET s == SlotOf(target[r]) IN
  /\ ReaderAt(r, pc)
  /\ refCount' = [refCount EXCEPT ![s] = FetchSub(@)]
  /\ Go(r, "idle")
  /\ UNCHANGED <<writeSeq, holderPid, frameId, meta, dataLo, dataHi, prodVars,
                 target, cur, view, last, crashed>>

\* Mutant: a mismatch returns without giving its share back.
UndoForgotten(r) == /\ ReaderAt(r, "undo")
                    /\ Go(r, "idle")
                    /\ UNCHANGED <<ringVars, prodVars, target, cur, view, last, crashed>>

UndoMismatch(r) == Unref(r, "undo")
DropGuard(r)    == Unref(r, "hold")

ReaderCrash(r) ==
  /\ r \in FaultyReaders \ crashed
  /\ crashed' = crashed \cup {r}
  /\ UNCHANGED <<ringVars, prodVars, rpc, target, cur, view, last>>

ReaderStep(r) == \/ Latest(r) \/ NextAfter(r) \/ Jump(r) \/ UpToDate(r)
                 \/ LoadRef(r) \/ SpinsExhausted(r)
                 \/ CasSucceeds(r) \/ CasFails(r) \/ StoreHolder(r)
                 \/ GetGuard(r) \/ Mismatch(r)
                 \/ UndoMismatch(r) \/ DropGuard(r)

-----------------------------------------------------------------------------
Next == \/ PublishStep
        \/ ProducerCrash
        \/ \E r \in Readers : ReaderStep(r) \/ ReaderCrash(r)

Spec == Init /\ [][Next]_vars

(* A live process keeps being scheduled: the capture loop calls publish for *)
(* every frame, and every consumer polls and drops its guards. A CAS does   *)
(* not lose for ever: the others sleep when there is nothing new, and work  *)
(* on a frame only after they have dropped its guard.                       *)
Fairness == /\ WF_vars(PublishStep)
            /\ \A r \in Readers : WF_vars(ReaderStep(r)) /\ SF_vars(CasSucceeds(r))

FairSpec == Spec /\ Fairness

-----------------------------------------------------------------------------
(* Properties.                                                             *)

ProducerOwns(s) == ppc \in Writing /\ s = NextSlot
Holders(s)      == {r \in Readers : rpc[r] \in Counting /\ SlotOf(target[r]) = s}
Content(s)      == <<frameId[s], meta[s], dataLo[s], dataHi[s]>>

\* The newest frame a reader can see: ref_count is released before write_seq
\* is stored, so for one step the newest frame is ahead of write_seq.
Published == IF ppc = "seq" THEN NextId ELSE writeSeq

(* Every variable stays in its type; ref_count never leaves 0..WriterLock.  *)
TypeOK ==
  /\ writeSeq \in Nat
  /\ refCount \in [Slots -> 0..WriterLock]
  /\ holderPid \in [Slots -> Readers \cup {NoPid}]
  /\ frameId \in [Slots -> Nat]
  /\ meta \in [Slots -> Nat]
  /\ dataLo \in [Slots -> Nat]
  /\ dataHi \in [Slots -> Nat]
  /\ ppc \in ProducerPc
  /\ outcome \in Outcomes
  /\ producerAlive \in BOOLEAN
  /\ rpc \in [Readers -> ReaderPc]
  /\ target \in [Readers -> Nat]
  /\ cur \in [Readers -> 0..(WriterLock - 1)]
  /\ view \in [Readers -> Nat]
  /\ last \in [Readers -> Nat]
  /\ crashed \in SUBSET Readers

Locked(s)  == refCount[s] = WriterLock /\ Holders(s) = {}
Counted(s) == refCount[s] = Cardinality(Holders(s))

(* ref_count is exact: a slot being written has the writer's lock and no   *)
(* reader inside, any other slot counts exactly the readers, dead or       *)
(* alive, between their CAS and their fetch_sub.                           *)
RefCountExact ==
  \A s \in Slots : IF ProducerOwns(s) THEN Locked(s) ELSE Counted(s)

(* No torn read: as long as a guard lives, id, metadata and both halves of *)
(* the bytes behind it are those of the frame the guard was given.         *)
HeldFrameIntact ==
  \A r \in Readers :
    rpc[r] = "hold" =>
      Content(SlotOf(target[r])) = <<view[r], view[r], view[r], view[r]>>

(* No lapping: a held frame is a published one, at least as new as the one *)
(* the reader aimed at, and the ring never gets a full turn ahead of it.   *)
HeldInWindow ==
  \A r \in Readers :
    rpc[r] = "hold" => /\ target[r] <= view[r]
                       /\ 1 <= view[r] /\ view[r] <= Published
                       /\ Published < view[r] + Capacity

(* The window arithmetic of next_after: each of the last Capacity frames   *)
(* is whole in its slot, but for the slot the producer is replacing.       *)
WindowIntact ==
  \A n \in 1..writeSeq :
    writeSeq < n + Capacity =>
      \/ Content(SlotOf(n)) = <<n, n, n, n>>
      \/ SlotOf(n) = NextSlot /\ ppc \in Writing \cup {"seq"}

(* The single producer never finds its own lock: publish releases every    *)
(* slot it claims, so WriterLockHeld is never the reason of a drop.        *)
NoStuckLock == outcome # "writerLockHeld"

(* next_after skips frames only when the wanted one has left the ring, and *)
(* otherwise delivers ids one by one.                                      *)
SkipOnlyIfGone ==
  [][\A r \in Readers \ LatestReaders :
       last'[r] # last[r] =>
         \/ last'[r] = Want(r)
         \/ \A s \in Slots : frameId[s] # Want(r)]_vars

(* Once the producer stops, every live sequential consumer's cursor gets   *)
(* to the last frame.                                                      *)
ConsumersCatchUp ==
  \A r \in Readers \ LatestReaders :
    writeSeq = MaxId ~> (last[r] = MaxId \/ r \in crashed)

(* The ring implements the slot-free channel: what a guard shows and what  *)
(* is published change only as FrameChannel allows.                        *)
Held == [r \in Readers |-> IF rpc[r] = "hold"
                           THEN Content(SlotOf(target[r])) ELSE <<0, 0, 0, 0>>]
Channel == INSTANCE FrameChannel WITH published <- Published, held <- Held
ImplementsChannel == Channel!ChannelSpec

-----------------------------------------------------------------------------
(* The inductive invariant behind the safety properties.                   *)

\* What publish has written so far into the slot it owns.
CopyProgress ==
  /\ ppc # "idle" => writeSeq < MaxId
  /\ ppc \in {"copyHi", "meta", "id", "release"} => dataLo[NextSlot] = NextId
  /\ ppc \in {"meta", "id", "release"} => dataHi[NextSlot] = NextId
  /\ ppc \in {"id", "release"} => meta[NextSlot] = NextId
  /\ ppc \in {"release", "seq"} => frameId[NextSlot] = NextId

\* A slot the producer does not own holds one frame, in all its parts.
SlotsWhole ==
  \A s \in Slots : ~ProducerOwns(s) =>
    meta[s] = frameId[s] /\ dataLo[s] = frameId[s] /\ dataHi[s] = frameId[s]

\* The id in a slot belongs there and is less than one turn behind.
FirstId(s) == IF s = 0 THEN Capacity ELSE s
IdPlaced(s) ==
  /\ frameId[s] = 0 => writeSeq < FirstId(s)
  /\ frameId[s] # 0 => SlotOf(frameId[s]) = s
  /\ writeSeq < frameId[s] + Capacity
  /\ \/ frameId[s] <= writeSeq
     \/ frameId[s] = NextId /\ s = NextSlot /\ ppc \in {"release", "seq"}
IdsPlaced == \A s \in Slots : IdPlaced(s)

\* A reader past its first step aims at a published frame; a sequential one
\* aims at the successor of its cursor.
TargetOK(r) ==
  /\ rpc[r] # "idle" => 1 <= target[r] /\ target[r] <= writeSeq
  /\ rpc[r] \notin {"idle", "hold"} /\ r \notin LatestReaders
       => target[r] = Want(r)
  /\ rpc[r] = "hold" => view[r] = frameId[SlotOf(target[r])]
TargetsOK == \A r \in Readers : TargetOK(r)

(* ref_count is exact, every slot outside the producer's hands is whole,   *)
(* ids sit where the window arithmetic expects them, and readers aim at    *)
(* published frames: the conjunction that publish, latest, next_after and  *)
(* drop preserve step by step.                                             *)
IndInv == /\ TypeOK
          /\ RefCountExact
          /\ CopyProgress
          /\ SlotsWhole
          /\ IdsPlaced
          /\ TargetsOK
          /\ NoStuckLock

=============================================================================
