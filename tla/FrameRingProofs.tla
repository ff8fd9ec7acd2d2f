--------------------------- MODULE FrameRingProofs ---------------------------
(***************************************************************************)
(* Safety of the frame ring for every number of readers, every capacity    *)
(* and every number of frames. The argument:                               *)
(* ref_count is exact (RefCountExact), so the producer is alone in the     *)
(* slot it writes; hence every other slot is whole and stays so while it   *)
(* is held; ids sit where the window arithmetic of next_after looks for    *)
(* them.                                                                   *)
(***************************************************************************)
EXTENDS FrameRing, FiniteSetTheorems, TLAPS

-----------------------------------------------------------------------------
(* Arithmetic of n % Capacity.                                             *)

(* Multiples of a positive number lie at least that number apart; used for *)
(* the slot arithmetic of publish and next_after.                          *)
LEMMA Multiples ==
  ASSUME NEW c \in Nat, c > 0, NEW p \in Int, NEW q \in Int, p < q
  PROVE  c * p + c <= c * q
OBVIOUS

(* Euclidean division, the defining fact of the slot index id % capacity.  *)
LEMMA Division ==
  ASSUME NEW c \in Nat, c > 0, NEW n \in Nat
  PROVE  /\ n = (c * (n \div c)) + (n % c)
         /\ n \div c \in Int
         /\ n % c \in 0..(c - 1)
OBVIOUS

(* The remainder of a division is unique.                                  *)
LEMMA RemainderUnique ==
  ASSUME NEW c \in Nat, c > 0, NEW p \in Int, NEW q \in Int,
         NEW a \in 0..(c - 1), NEW b \in 0..(c - 1),
         (c * p) + a = (c * q) + b
  PROVE  a = b
<1>0. c * p \in Int /\ c * q \in Int
  OBVIOUS
<1>1. CASE p < q
  BY <1>0, <1>1, Multiples
<1>2. CASE q < p
  BY <1>0, <1>2, Multiples
<1>3. CASE p = q
  BY <1>0, <1>3
<1> QED BY <1>1, <1>2, <1>3

(* Every id has a slot.                                                    *)
LEMMA SlotInRange ==
  ASSUME NEW n \in Nat
  PROVE  SlotOf(n) \in Slots
BY RingAssumption, Division DEF SlotOf, Slots

(* One turn of the ring later, an id is back in its slot.                  *)
LEMMA NextTurn ==
  ASSUME NEW n \in Nat
  PROVE  SlotOf(n + Capacity) = SlotOf(n)
<1> DEFINE p == n \div Capacity
           q == (n + Capacity) \div Capacity
<1>1. /\ n = (Capacity * p) + (n % Capacity)
      /\ p \in Int
      /\ n % Capacity \in 0..(Capacity - 1)
  BY RingAssumption, Division
<1>2. /\ n + Capacity = (Capacity * q) + ((n + Capacity) % Capacity)
      /\ q \in Int
      /\ (n + Capacity) % Capacity \in 0..(Capacity - 1)
  BY RingAssumption, Division
<1> HIDE DEF p, q
<1>3. Capacity * (p + 1) = (Capacity * p) + Capacity
  BY RingAssumption, <1>1
<1>4. (Capacity * (p + 1)) + (n % Capacity)
        = (Capacity * q) + ((n + Capacity) % Capacity)
  <2>1. Capacity * p \in Int /\ Capacity * q \in Int
    BY RingAssumption, <1>1, <1>2
  <2> QED BY RingAssumption, <1>1, <1>2, <1>3, <2>1
<1>5. p + 1 \in Int
  BY <1>1
<1> QED BY RingAssumption, <1>1, <1>2, <1>4, <1>5, RemainderUnique DEF SlotOf

(* Two ids in one slot are a full turn apart.                              *)
LEMMA SameSlot ==
  ASSUME NEW m \in Nat, NEW n \in Nat, m < n, SlotOf(m) = SlotOf(n)
  PROVE  m + Capacity <= n
<1> DEFINE p == m \div Capacity
           q == n \div Capacity
<1>1. m = (Capacity * p) + (m % Capacity) /\ p \in Int
  BY RingAssumption, Division
<1>2. n = (Capacity * q) + (n % Capacity) /\ q \in Int
  BY RingAssumption, Division
<1>3. m % Capacity = n % Capacity /\ m % Capacity \in 0..(Capacity - 1)
  BY RingAssumption, Division DEF SlotOf
<1> HIDE DEF p, q
<1>4. Capacity * p \in Int /\ Capacity * q \in Int
  BY RingAssumption, <1>1, <1>2
<1>5. CASE p < q
  <2>1. Capacity * p + Capacity <= Capacity * q
    BY RingAssumption, <1>1, <1>2, <1>5, Multiples
  <2> QED BY RingAssumption, <1>1, <1>2, <1>3, <1>4, <2>1
<1>6. CASE p = q
  BY <1>1, <1>2, <1>3, <1>6
<1>7. CASE q < p
  <2>1. Capacity * q + Capacity <= Capacity * p
    BY RingAssumption, <1>1, <1>2, <1>7, Multiples
  <2> QED BY RingAssumption, <1>1, <1>2, <1>3, <1>4, <2>1
<1> QED BY <1>1, <1>2, <1>5, <1>6, <1>7

(* The first turn of ids: slot s > 0 first gets id s, slot 0 id Capacity.  *)
LEMMA FirstTurn ==
  /\ \A s \in Slots : s # 0 => SlotOf(s) = s
  /\ SlotOf(Capacity) = 0 /\ SlotOf(0) = 0
<1>1. ASSUME NEW s \in Slots
      PROVE  SlotOf(s) = s
  BY RingAssumption DEF SlotOf, Slots
<1>2. 0 \in Slots
  BY RingAssumption DEF Slots
<1>3. SlotOf(0 + Capacity) = SlotOf(0)
  BY NextTurn
<1> QED BY RingAssumption, <1>1, <1>2, <1>3

-----------------------------------------------------------------------------
(* Type correctness.                                                       *)

(* The initial state of a freshly created segment is well typed.           *)
LEMMA InitType == Init => TypeOK
BY RingAssumption, FS_CardinalityType
DEF Init, TypeOK, Slots, ProducerPc, Writing, ReaderPc, Counting, Outcomes

(* publish keeps the types.                                                *)
LEMMA PublishType == TypeOK /\ PublishStep => TypeOK'
<1> SUFFICES ASSUME TypeOK, PublishStep PROVE TypeOK'
  OBVIOUS
<1>0. NextId \in Nat /\ NextSlot \in Slots
  BY SlotInRange DEF TypeOK, NextId, NextSlot
<1> USE RingAssumption, <1>0 DEF TypeOK, ProducerAt, ProducerPc, Writing, Outcomes,
    ringVars, prodVars, readVars
<1>1. CASE ClaimSlot BY <1>1 DEF ClaimSlot
<1>2. CASE ClaimFails BY <1>2 DEF ClaimFails
<1>3. CASE ReportDrop BY <1>3 DEF ReportDrop
<1>4. CASE CopyLo BY <1>4 DEF CopyLo
<1>5. CASE CopyHi BY <1>5 DEF CopyHi
<1>6. CASE WriteSlotMeta BY <1>6 DEF WriteSlotMeta
<1>7. CASE StoreFrameId BY <1>7 DEF StoreFrameId
<1>8. CASE ReleaseSlot BY <1>8 DEF ReleaseSlot
<1>9. CASE StoreWriteSeq BY <1>9 DEF StoreWriteSeq
<1> QED BY <1>1, <1>2, <1>3, <1>4, <1>5, <1>6, <1>7, <1>8, <1>9 DEF PublishStep

(* latest, next_after, try_acquire and drop keep the types; the CAS from a *)
(* value below WriterLock cannot overflow the word.                        *)
LEMMA ReaderType ==
  ASSUME NEW r \in Readers
  PROVE  TypeOK /\ ReaderStep(r) => TypeOK'
<1> SUFFICES ASSUME TypeOK, ReaderStep(r) PROVE TypeOK'
  OBVIOUS
<1>0. SlotOf(target[r]) \in Slots /\ Want(r) \in Nat
  BY SlotInRange DEF TypeOK, Want
<1> USE RingAssumption, <1>0 DEF TypeOK, ReaderAt, Go, ReaderPc, Counting,
    ringVars, prodVars, readVars
<1>1. CASE Latest(r) BY <1>1 DEF Latest
<1>2. CASE NextAfter(r) BY <1>2 DEF NextAfter
<1>3. CASE Jump(r) BY <1>3 DEF Jump
<1>4. CASE UpToDate(r) BY <1>4 DEF UpToDate, vars
<1>5. CASE LoadRef(r) BY <1>5 DEF LoadRef
<1>6. CASE SpinsExhausted(r) BY <1>6 DEF SpinsExhausted
<1>7. CASE CasSucceeds(r)
  <2>1. cur[r] + 1 \in 0..WriterLock
    OBVIOUS
  <2> QED BY <1>7, <2>1 DEF CasSucceeds
<1>8. CASE CasFails(r) BY <1>8 DEF CasFails
<1>9. CASE StoreHolder(r) BY <1>9 DEF StoreHolder
<1>10. CASE GetGuard(r) BY <1>10 DEF GetGuard
<1>11. CASE Mismatch(r) BY <1>11 DEF Mismatch
<1>12. CASE UndoMismatch(r) \/ DropGuard(r)
  <2>1. \A n \in 0..WriterLock : FetchSub(n) \in 0..WriterLock
    BY DEF FetchSub
  <2> QED BY <1>12, <2>1, SMTT(30) DEF UndoMismatch, DropGuard, Unref
<1> QED BY <1>1, <1>2, <1>3, <1>4, <1>5, <1>6, <1>7, <1>8, <1>9, <1>10, <1>11,
           <1>12 DEF ReaderStep

(* A crash only marks its process dead.                                    *)
LEMMA CrashType ==
  /\ TypeOK /\ ProducerCrash => TypeOK'
  /\ \A r \in Readers : TypeOK /\ ReaderCrash(r) => TypeOK'
BY DEF TypeOK, ProducerCrash, ReaderCrash, ringVars, prodVars, readVars

(* Every step keeps the types.                                             *)
LEMMA NextType == TypeOK /\ [Next]_vars => TypeOK'
<1>1. TypeOK /\ UNCHANGED vars => TypeOK'
  BY DEF TypeOK, vars, ringVars, prodVars, readVars
<1> QED BY <1>1, PublishType, ReaderType, CrashType DEF Next

(* Every state of the ring is well typed: in particular ref_count stays a  *)
(* u32 that means a holder count or WRITER_LOCK.                           *)
THEOREM TypeCorrect == Spec => []TypeOK
BY InitType, NextType, PTL DEF Spec

-----------------------------------------------------------------------------
(* Exactness of ref_count.                                                 *)

(* Who holds a slot is a finite set no larger than the set of readers, so  *)
(* a count of holders is never mistaken for WRITER_LOCK.                   *)
LEMMA HoldersFinite ==
  ASSUME NEW s
  PROVE  /\ IsFiniteSet(Holders(s))
         /\ Cardinality(Holders(s)) \in Nat
         /\ Cardinality(Holders(s)) < WriterLock
<1>1. Holders(s) \subseteq Readers
  BY DEF Holders
<1>2. IsFiniteSet(Holders(s)) /\ Cardinality(Holders(s)) <= Cardinality(Readers)
  BY RingAssumption, <1>1, FS_Subset
<1>3. Cardinality(Holders(s)) \in Nat /\ Cardinality(Readers) \in Nat
  BY RingAssumption, <1>2, FS_CardinalityType
<1> QED BY RingAssumption, <1>2, <1>3

(* A step that moves no reader across its CAS or fetch_sub and leaves the  *)
(* counts alone changes nothing about who is in a slot.                    *)
LEMMA CountsUntouched ==
  ASSUME TypeOK, UNCHANGED refCount,
         \A q \in Readers : /\ rpc'[q] \in Counting <=> rpc[q] \in Counting
                            /\ rpc[q] \in Counting => target'[q] = target[q],
         NEW s
  PROVE  (Locked(s)' <=> Locked(s)) /\ (Counted(s)' <=> Counted(s))
<1>1. Holders(s)' = Holders(s)
  BY DEF Holders
<1> QED BY <1>1 DEF Locked, Counted

(* publish keeps the count of each slot exact: it takes a slot only at     *)
(* count 0, where nobody is inside, and gives it back at count 0.          *)
LEMMA PublishCount ==
  ASSUME TypeOK, PublishStep, NEW s \in Slots,
         IF ProducerOwns(s) THEN Locked(s) ELSE Counted(s)
  PROVE  (IF ProducerOwns(s) THEN Locked(s) ELSE Counted(s))'
<1>0. NextSlot \in Slots
  BY SlotInRange DEF TypeOK, NextId, NextSlot
<1>1. UNCHANGED readVars
  BY DEF PublishStep, ClaimSlot, ClaimFails, ReportDrop, CopyLo, CopyHi,
         WriteSlotMeta, StoreFrameId, ReleaseSlot, StoreWriteSeq
<1>2. Holders(s)' = Holders(s)
  BY <1>1 DEF Holders, readVars
<1>3. CASE ClaimSlot
  <2>1. NextSlot' = NextSlot /\ ppc = "idle" /\ ppc' = "copyLo"
    BY <1>3 DEF ClaimSlot, ProducerAt, NextSlot, NextId
  <2>2. Counted(s) /\ (ProducerOwns(s)' <=> s = NextSlot)
    BY <2>1 DEF ProducerOwns, Writing
  <2>3. refCount' = [refCount EXCEPT ![NextSlot] = WriterLock]
    BY <1>3 DEF ClaimSlot
  <2>4. CASE s = NextSlot
    <3>1. Cardinality(Holders(s)) = 0
      BY <1>3, <2>2, <2>4 DEF ClaimSlot, Counted
    <3>2. Holders(s) = {}
      BY <3>1, HoldersFinite, FS_EmptySet
    <3> QED BY <1>0, <1>2, <2>2, <2>3, <2>4, <3>2 DEF Locked, TypeOK
  <2>5. CASE s # NextSlot
    BY <1>2, <2>2, <2>3, <2>5 DEF Counted, TypeOK
  <2> QED BY <2>4, <2>5
<1>4. CASE ReleaseSlot
  <2>1. NextSlot' = NextSlot /\ ppc = "release" /\ ppc' = "seq"
    BY <1>4 DEF ReleaseSlot, ProducerAt, NextSlot, NextId
  <2>2. (ProducerOwns(s) <=> s = NextSlot) /\ ~ProducerOwns(s)'
    BY <2>1 DEF ProducerOwns, Writing
  <2>3. refCount' = [refCount EXCEPT ![NextSlot] = 0]
    BY <1>4 DEF ReleaseSlot
  <2>4. CASE s = NextSlot
    <3>1. Cardinality(Holders(s)) = 0
      BY <2>2, <2>4, FS_EmptySet DEF Locked
    <3> QED BY <1>0, <1>2, <2>2, <2>3, <2>4, <3>1 DEF Counted, TypeOK
  <2>5. CASE s # NextSlot
    BY <1>2, <2>2, <2>3, <2>5 DEF Counted, TypeOK
  <2> QED BY <2>4, <2>5
<1>5. CASE ~ClaimSlot /\ ~ReleaseSlot
  <2>1. UNCHANGED refCount
    BY <1>5 DEF PublishStep, ClaimFails, ReportDrop, CopyLo, CopyHi,
         WriteSlotMeta, StoreFrameId, StoreWriteSeq, ringVars
  <2>2. (ppc' \in Writing <=> ppc \in Writing)
        /\ (ppc \in Writing => UNCHANGED writeSeq)
    BY <1>5 DEF PublishStep, ClaimFails, ReportDrop, CopyLo, CopyHi,
         WriteSlotMeta, StoreFrameId, StoreWriteSeq, ringVars, ProducerAt, Writing
  <2>3. ProducerOwns(s)' <=> ProducerOwns(s)
    BY <2>2 DEF ProducerOwns, NextSlot, NextId
  <2> QED BY <1>1, <2>1, <2>3, CountsUntouched DEF readVars
<1> QED BY <1>3, <1>4, <1>5

(* Of all slots at once.                                                    *)
LEMMA PublishRefCount == TypeOK /\ RefCountExact /\ PublishStep => RefCountExact'
BY PublishCount DEF RefCountExact

(* A reader's CAS adds exactly that reader to the holders of its slot and  *)
(* its fetch_sub removes exactly that reader; it enters no locked slot.    *)
LEMMA ReaderCount ==
  ASSUME TypeOK, NEW r \in Readers, ReaderStep(r), NEW s \in Slots
  PROVE  (Counted(s) => Counted(s)') /\ (Locked(s) => Locked(s)')
<1>0. PICK t \in Slots : t = SlotOf(target[r])
  BY SlotInRange DEF TypeOK
<1>1. CASE CasSucceeds(r)
  <2>1. /\ rpc[r] = "cas" /\ rpc' = [rpc EXCEPT ![r] = "holder"]
        /\ refCount[t] = cur[r] /\ target' = target
        /\ refCount' = [refCount EXCEPT ![t] = cur[r] + 1]
    BY <1>0, <1>1 DEF CasSucceeds, ReaderAt, Go
  <2>2. CASE s # t
    <3>1. Holders(s)' = Holders(s)
      BY <1>0, <2>1, <2>2 DEF Holders, TypeOK, Counting
    <3> QED BY <1>0, <2>1, <2>2, <3>1 DEF Counted, Locked, TypeOK
  <2>3. CASE s = t
    <3>1. ~Locked(s)
      BY RingAssumption, <2>1, <2>3 DEF Locked, TypeOK
    <3>2. r \notin Holders(s) /\ Holders(s)' = Holders(s) \cup {r}
      BY <1>0, <2>1, <2>3 DEF Holders, TypeOK, Counting
    <3>3. Cardinality(Holders(s)') = Cardinality(Holders(s)) + 1
      BY <3>2, HoldersFinite, FS_AddElement
    <3> QED BY <2>1, <2>3, <3>1, <3>3 DEF Counted, TypeOK
  <2> QED BY <2>2, <2>3
<1>2. CASE UndoMismatch(r) \/ DropGuard(r)
  <2>1. /\ rpc[r] \in {"undo", "hold"} /\ rpc' = [rpc EXCEPT ![r] = "idle"]
        /\ target' = target
        /\ refCount' = [refCount EXCEPT ![t] = FetchSub(refCount[t])]
    BY <1>0, <1>2 DEF UndoMismatch, DropGuard, Unref, ReaderAt, Go
  <2>2. CASE s # t
    <3>1. Holders(s)' = Holders(s)
      BY <1>0, <2>1, <2>2 DEF Holders, TypeOK, Counting
    <3> QED BY <1>0, <2>1, <2>2, <3>1 DEF Counted, Locked, TypeOK
  <2>3. CASE s = t
    <3>1. r \in Holders(s) /\ Holders(s)' = Holders(s) \ {r}
      BY <1>0, <2>1, <2>3 DEF Holders, TypeOK, Counting
    <3>2. Cardinality(Holders(s)') = Cardinality(Holders(s)) - 1
      BY <3>1, HoldersFinite, FS_RemoveElement
    <3>3. Cardinality(Holders(s)) # 0
      BY <3>1, HoldersFinite, FS_EmptySet
    <3>4. Counted(s) => FetchSub(refCount[s]) = Cardinality(Holders(s)')
      BY <3>2, <3>3, HoldersFinite DEF FetchSub, Counted
    <3> QED BY <2>1, <2>3, <3>1, <3>4 DEF Counted, Locked, TypeOK
  <2> QED BY <2>2, <2>3
<1>3. CASE ~CasSucceeds(r) /\ ~UndoMismatch(r) /\ ~DropGuard(r)
  <2>1. UNCHANGED refCount
    BY <1>3 DEF ReaderStep, Latest, NextAfter, Jump, UpToDate, LoadRef,
         SpinsExhausted, CasFails, StoreHolder, GetGuard, Mismatch, vars, ringVars
  <2>2. \A q \in Readers : /\ rpc'[q] \in Counting <=> rpc[q] \in Counting
                           /\ rpc[q] \in Counting => target'[q] = target[q]
    BY <1>3 DEF ReaderStep, Latest, NextAfter, Jump, UpToDate, LoadRef,
         SpinsExhausted, CasFails, StoreHolder, GetGuard, Mismatch, vars,
         readVars, ReaderAt, Go, Counting, TypeOK
  <2> QED BY <2>1, <2>2, CountsUntouched
<1> QED BY <1>1, <1>2, <1>3

(* What a reader does changes nothing about what the producer owns.         *)
LEMMA ReaderOwns ==
  ASSUME NEW r \in Readers, ReaderStep(r), NEW s
  PROVE  ProducerOwns(s)' <=> ProducerOwns(s)
<1>1. UNCHANGED <<writeSeq, ppc>>
  BY DEF ReaderStep, Latest, NextAfter, Jump, UpToDate, LoadRef, SpinsExhausted,
         CasSucceeds, CasFails, StoreHolder, GetGuard, Mismatch, UndoMismatch,
         DropGuard, Unref, vars, ringVars, prodVars
<1> QED BY <1>1 DEF ProducerOwns, NextSlot, NextId

(* So a reader keeps the counts of all slots exact.                         *)
LEMMA ReaderRefCount ==
  ASSUME NEW r \in Readers
  PROVE  TypeOK /\ RefCountExact /\ ReaderStep(r) => RefCountExact'
BY ReaderCount, ReaderOwns DEF RefCountExact

(* Every step keeps the counts exact; a crash changes no count.            *)
LEMMA NextRefCount == TypeOK /\ RefCountExact /\ [Next]_vars => RefCountExact'
<1> SUFFICES ASSUME TypeOK, RefCountExact, [Next]_vars PROVE RefCountExact'
  OBVIOUS
<1>1. CASE PublishStep
  BY <1>1, PublishRefCount
<1>2. ASSUME NEW r \in Readers, ReaderStep(r) PROVE RefCountExact'
  BY <1>2, ReaderRefCount
<1>3. CASE ProducerCrash \/ (\E r \in Readers : ReaderCrash(r)) \/ UNCHANGED vars
  <2>1. UNCHANGED <<refCount, writeSeq, ppc, rpc, target>>
    BY <1>3 DEF ProducerCrash, ReaderCrash, vars, ringVars, prodVars, readVars
  <2>2. \A s \in Slots : ProducerOwns(s)' <=> ProducerOwns(s)
    BY <2>1 DEF ProducerOwns, NextSlot, NextId
  <2> QED BY <2>1, <2>2, CountsUntouched DEF RefCountExact
<1> QED BY <1>1, <1>2, <1>3 DEF Next

-----------------------------------------------------------------------------
(* What is in the slots.                                                   *)

(* The parts of the invariant that speak of slot contents depend on        *)
(* nothing a reader or a crash can change.                                 *)
LEMMA ContentsUntouched ==
  ASSUME IndInv,
         UNCHANGED <<writeSeq, frameId, meta, dataLo, dataHi, ppc, outcome>>
  PROVE  CopyProgress' /\ SlotsWhole' /\ IdsPlaced' /\ NoStuckLock'
<1>1. NextId' = NextId /\ NextSlot' = NextSlot
  BY DEF NextId, NextSlot
<1>2. CopyProgress'
  BY <1>1 DEF IndInv, CopyProgress
<1>3. SlotsWhole'
  BY <1>1 DEF IndInv, SlotsWhole, ProducerOwns
<1>4. IdsPlaced'
  BY <1>1 DEF IndInv, IdsPlaced, IdPlaced
<1>5. NoStuckLock'
  BY DEF IndInv, NoStuckLock
<1> QED BY <1>2, <1>3, <1>4, <1>5

(* publish fills its slot part by part, in the order of the code.          *)
LEMMA PublishCopy == TypeOK /\ CopyProgress /\ PublishStep => CopyProgress'
<1> SUFFICES ASSUME TypeOK, CopyProgress, PublishStep PROVE CopyProgress'
  OBVIOUS
<1>0. NextSlot \in Slots
  BY SlotInRange DEF TypeOK, NextId, NextSlot
<1>1. CASE StoreWriteSeq
  BY <1>1 DEF StoreWriteSeq, ProducerAt, CopyProgress
<1>2. CASE ~StoreWriteSeq
  <2>1. NextId' = NextId /\ NextSlot' = NextSlot
    BY <1>2 DEF PublishStep, ClaimSlot, ClaimFails, ReportDrop, CopyLo, CopyHi,
         WriteSlotMeta, StoreFrameId, ReleaseSlot, ringVars, NextId, NextSlot
  <2> QED BY <1>0, <1>2, <2>1
    DEF TypeOK, CopyProgress, PublishStep, ClaimSlot, ClaimFails,
        ReportDrop, CopyLo, CopyHi, WriteSlotMeta, StoreFrameId, ReleaseSlot,
        ProducerAt, ringVars
<1> QED BY <1>1, <1>2

(* publish writes only into the slot it owns and completes it before it    *)
(* lets it go.                                                             *)
LEMMA PublishWhole ==
  TypeOK /\ CopyProgress /\ SlotsWhole /\ PublishStep => SlotsWhole'
<1> SUFFICES ASSUME TypeOK, CopyProgress, SlotsWhole, PublishStep, NEW s \in Slots, ~ProducerOwns(s)'
             PROVE  (/\ meta[s] = frameId[s]
                     /\ dataLo[s] = frameId[s]
                     /\ dataHi[s] = frameId[s])'
  BY DEF SlotsWhole
<1>1. CASE StoreWriteSeq
  BY <1>1 DEF StoreWriteSeq, ProducerAt, SlotsWhole, ProducerOwns, Writing
<1>2. CASE ReleaseSlot
  BY <1>2 DEF ReleaseSlot, ProducerAt, SlotsWhole, ProducerOwns, Writing,
              CopyProgress
<1>3. CASE ~StoreWriteSeq /\ ~ReleaseSlot
  <2>1. NextId' = NextId /\ NextSlot' = NextSlot
    BY <1>3 DEF PublishStep, ClaimSlot, ClaimFails, ReportDrop, CopyLo, CopyHi,
         WriteSlotMeta, StoreFrameId, ringVars, NextId, NextSlot
  <2>2. ~ProducerOwns(s)
    BY <1>3, <2>1 DEF PublishStep, ClaimSlot, ClaimFails, ReportDrop, CopyLo,
         CopyHi, WriteSlotMeta, StoreFrameId, ProducerAt, ProducerOwns, Writing
  <2>3. /\ frameId'[s] = frameId[s] /\ meta'[s] = meta[s]
        /\ dataLo'[s] = dataLo[s] /\ dataHi'[s] = dataHi[s]
    BY <1>3, <2>2 DEF PublishStep, ClaimSlot, ClaimFails, ReportDrop, CopyLo,
         CopyHi, WriteSlotMeta, StoreFrameId, ProducerAt, ProducerOwns, Writing,
         ringVars, TypeOK
  <2> QED BY <2>2, <2>3 DEF SlotsWhole
<1> QED BY <1>1, <1>2, <1>3

(* Ids stay in their slots and within one turn of write_seq when publish   *)
(* stores a new id and then a new write_seq.                               *)
LEMMA PublishIds == IndInv /\ PublishStep => IdsPlaced'
<1> SUFFICES ASSUME IndInv, PublishStep, NEW s \in Slots PROVE IdPlaced(s)'
  BY DEF IdsPlaced
<1>0. /\ NextSlot \in Slots /\ NextId \in Nat /\ writeSeq \in Nat
      /\ frameId[s] \in Nat /\ Capacity \in Nat /\ IdPlaced(s)
      /\ SlotOf(NextId) = NextSlot /\ NextId = writeSeq + 1
  BY RingAssumption, SlotInRange DEF IndInv, TypeOK, NextId, NextSlot, IdsPlaced
<1>1. CASE StoreWriteSeq
  <2>1. writeSeq' = NextId /\ frameId' = frameId /\ ppc = "seq"
    BY <1>1 DEF StoreWriteSeq, ProducerAt
  <2>2. frameId[NextSlot] = NextId
    BY <2>1 DEF IndInv, CopyProgress
  <2>3. CASE s = NextSlot
    BY RingAssumption, <1>0, <2>1, <2>2, <2>3 DEF IdPlaced
  <2>4. CASE s # NextSlot
    <3>1. frameId[s] <= writeSeq
      BY <1>0, <2>4 DEF IdPlaced
    <3>2. ASSUME frameId[s] = 0 PROVE NextId < FirstId(s)
      <4>1. writeSeq < FirstId(s) /\ FirstId(s) \in Nat
        BY RingAssumption, <1>0, <3>2 DEF IdPlaced, FirstId, Slots
      <4>2. SlotOf(FirstId(s)) = s
        BY FirstTurn DEF FirstId
      <4> QED BY <1>0, <2>4, <4>1, <4>2
    <3>3. NextId < frameId[s] + Capacity
      <4>1. CASE frameId[s] = 0
        BY RingAssumption, <1>0, <3>2, <4>1 DEF FirstId, Slots
      <4>2. CASE frameId[s] # 0
        <5>1. SlotOf(frameId[s] + Capacity) = s
          BY <1>0, <4>2, NextTurn DEF IdPlaced
        <5> QED BY <1>0, <2>4, <5>1 DEF IdPlaced
      <4> QED BY <4>1, <4>2
    <3> QED BY <1>0, <2>1, <3>1, <3>2, <3>3 DEF IdPlaced
  <2> QED BY <2>3, <2>4
<1>2. CASE StoreFrameId
  <2>1. /\ writeSeq' = writeSeq /\ ppc = "id" /\ ppc' = "release"
        /\ frameId' = [frameId EXCEPT ![NextSlot] = NextId]
        /\ NextId' = NextId /\ NextSlot' = NextSlot
    BY <1>2 DEF StoreFrameId, ProducerAt, NextId, NextSlot
  <2>2. CASE s = NextSlot
    <3>1. frameId'[s] = NextId
      BY <1>0, <2>1, <2>2 DEF IndInv, TypeOK
    <3> QED BY RingAssumption, <1>0, <2>1, <2>2, <3>1 DEF IdPlaced
  <2>3. CASE s # NextSlot
    <3>1. frameId'[s] = frameId[s]
      BY <1>0, <2>1, <2>3 DEF IndInv, TypeOK
    <3> QED BY <1>0, <2>1, <2>3, <3>1 DEF IdPlaced
  <2> QED BY <2>2, <2>3
<1>3. CASE ~StoreWriteSeq /\ ~StoreFrameId
  <2>1. /\ writeSeq' = writeSeq /\ frameId' = frameId
        /\ NextId' = NextId /\ NextSlot' = NextSlot
        /\ ppc \in {"release", "seq"} => ppc' \in {"release", "seq"}
    BY <1>3 DEF PublishStep, ClaimSlot, ClaimFails, ReportDrop, CopyLo, CopyHi,
         WriteSlotMeta, ReleaseSlot, ProducerAt, ringVars, NextId, NextSlot
  <2> QED BY <1>0, <2>1 DEF IdPlaced
<1> QED BY <1>1, <1>2, <1>3

(* publish disturbs no guard: a held slot is not the one it stores into.   *)
LEMMA PublishTargets == IndInv /\ PublishStep => TargetsOK'
<1> SUFFICES ASSUME IndInv, PublishStep, NEW r \in Readers PROVE TargetOK(r)'
  BY DEF TargetsOK
<1>1. UNCHANGED readVars
  BY DEF PublishStep, ClaimSlot, ClaimFails, ReportDrop, CopyLo, CopyHi,
         WriteSlotMeta, StoreFrameId, ReleaseSlot, StoreWriteSeq
<1>2. writeSeq \in Nat /\ writeSeq' \in Nat /\ writeSeq <= writeSeq'
      /\ target[r] \in Nat
  BY DEF PublishStep, ClaimSlot, ClaimFails, ReportDrop, CopyLo, CopyHi,
         WriteSlotMeta, StoreFrameId, ReleaseSlot, StoreWriteSeq, ringVars,
         IndInv, TypeOK, NextId
<1>3. ASSUME rpc[r] = "hold"
      PROVE  frameId'[SlotOf(target[r])] = frameId[SlotOf(target[r])]
  <2>1. SlotOf(target[r]) \in Slots
    BY SlotInRange DEF IndInv, TypeOK
  <2>2. ~ProducerOwns(SlotOf(target[r]))
    BY <1>3, <2>1 DEF IndInv, RefCountExact, Locked, Holders, Counting
  <2> QED BY <2>1, <2>2 DEF PublishStep, ClaimSlot, ClaimFails, ReportDrop,
         CopyLo, CopyHi, WriteSlotMeta, StoreFrameId, ReleaseSlot, StoreWriteSeq,
         ringVars, IndInv, TypeOK, ProducerAt, ProducerOwns, Writing
<1> QED BY <1>1, <1>2, <1>3 DEF IndInv, TargetsOK, TargetOK, readVars, Want

(* A failed claim never finds WRITER_LOCK: the count of holders is smaller.*)
LEMMA PublishNoLock == IndInv /\ PublishStep => NoStuckLock'
<1> SUFFICES ASSUME IndInv, PublishStep PROVE NoStuckLock'
  OBVIOUS
<1>1. CASE ReportDrop
  <2>1. NextSlot \in Slots
    BY SlotInRange DEF IndInv, TypeOK, NextId, NextSlot
  <2>2. ~ProducerOwns(NextSlot)
    BY <1>1 DEF ReportDrop, ProducerAt, ProducerOwns, Writing
  <2>3. refCount[NextSlot] # WriterLock
    BY RingAssumption, <2>1, <2>2, HoldersFinite DEF IndInv, RefCountExact, Counted
  <2> QED BY <1>1, <2>3 DEF ReportDrop, NoStuckLock
<1>2. CASE ~ReportDrop
  BY <1>2 DEF PublishStep, ClaimSlot, ClaimFails, CopyLo, CopyHi,
         WriteSlotMeta, StoreFrameId, ReleaseSlot, StoreWriteSeq, IndInv, NoStuckLock
<1> QED BY <1>1, <1>2

-----------------------------------------------------------------------------
(* Readers.                                                                *)

(* latest and next_after aim at published frames and a guard is built from *)
(* the id found in the slot.                                               *)
LEMMA ReaderTargets ==
  ASSUME NEW r \in Readers
  PROVE  IndInv /\ ReaderStep(r) => TargetsOK'
<1> SUFFICES ASSUME IndInv, ReaderStep(r), NEW q \in Readers PROVE TargetOK(q)'
  BY DEF TargetsOK
<1>1. UNCHANGED <<writeSeq, frameId>>
  BY DEF ReaderStep, Latest, NextAfter, Jump, UpToDate, LoadRef, SpinsExhausted,
         CasSucceeds, CasFails, StoreHolder, GetGuard, Mismatch, UndoMismatch,
         DropGuard, Unref, vars, ringVars
<1>2. /\ TargetOK(q) /\ TargetOK(r)
      /\ writeSeq \in Nat /\ last[r] \in Nat /\ target[r] \in Nat
  BY DEF IndInv, TypeOK, TargetsOK
<1>3. CASE q # r
  <2>1. /\ rpc'[q] = rpc[q] /\ target'[q] = target[q]
        /\ view'[q] = view[q] /\ last'[q] = last[q]
    BY <1>3 DEF ReaderStep, Latest, NextAfter, Jump, UpToDate, LoadRef,
         SpinsExhausted, CasSucceeds, CasFails, StoreHolder, GetGuard, Mismatch,
         UndoMismatch, DropGuard, Unref, vars, readVars, Go, IndInv, TypeOK
  <2> QED BY <1>1, <1>2, <2>1 DEF TargetOK, Want
<1>4. CASE q = r
  <2> USE <1>1, <1>2, <1>4 DEF TargetOK, Want, ReaderAt, Go, IndInv, TypeOK
  <2>1. CASE Latest(r) BY <2>1 DEF Latest
  <2>2. CASE NextAfter(r) BY <2>2 DEF NextAfter
  <2>3. CASE Jump(r) BY <2>3 DEF Jump
  <2>4. CASE UpToDate(r) BY <2>4 DEF UpToDate, vars, readVars
  <2>5. CASE LoadRef(r) BY <2>5 DEF LoadRef
  <2>6. CASE SpinsExhausted(r) BY <2>6 DEF SpinsExhausted
  <2>7. CASE CasSucceeds(r) BY <2>7 DEF CasSucceeds
  <2>8. CASE CasFails(r) BY <2>8 DEF CasFails
  <2>9. CASE StoreHolder(r) BY <2>9 DEF StoreHolder
  <2>10. CASE GetGuard(r) BY <2>10 DEF GetGuard
  <2>11. CASE Mismatch(r) BY <2>11 DEF Mismatch
  <2>12. CASE UndoMismatch(r) \/ DropGuard(r)
    BY <2>12 DEF UndoMismatch, DropGuard, Unref
  <2> QED BY <2>1, <2>2, <2>3, <2>4, <2>5, <2>6, <2>7, <2>8, <2>9, <2>10, <2>11,
             <2>12 DEF ReaderStep
<1> QED BY <1>3, <1>4

-----------------------------------------------------------------------------
(* The inductive invariant.                                                *)

(* A fresh segment: every count 0, every slot empty, every reader idle.    *)
LEMMA InitInd == Init => IndInv
<1> SUFFICES ASSUME Init PROVE IndInv
  OBVIOUS
<1>1. TypeOK
  BY InitType
<1>2. RefCountExact
  <2>1. \A s : Holders(s) = {}
    BY DEF Init, Holders, Counting
  <2>2. Cardinality({}) = 0
    BY FS_EmptySet
  <2> QED BY <2>1, <2>2 DEF Init, RefCountExact, Counted, ProducerOwns, Writing
<1>3. CopyProgress /\ SlotsWhole /\ TargetsOK /\ NoStuckLock
  BY DEF Init, CopyProgress, SlotsWhole, TargetsOK, TargetOK, NoStuckLock
<1>4. IdsPlaced
  BY RingAssumption DEF Init, IdsPlaced, IdPlaced, FirstId, Slots
<1> QED BY <1>1, <1>2, <1>3, <1>4 DEF IndInv

(* Every step of the producer, of a reader and every crash preserves it.   *)
LEMMA NextInd == IndInv /\ [Next]_vars => IndInv'
<1> SUFFICES ASSUME IndInv, [Next]_vars PROVE IndInv'
  OBVIOUS
<1>1. TypeOK' /\ RefCountExact'
  BY NextType, NextRefCount DEF IndInv
<1>2. CASE PublishStep
  BY <1>1, <1>2, PublishCopy, PublishWhole, PublishIds, PublishTargets,
     PublishNoLock DEF IndInv
<1>3. ASSUME NEW r \in Readers, ReaderStep(r) PROVE IndInv'
  <2>1. UNCHANGED <<writeSeq, frameId, meta, dataLo, dataHi, ppc, outcome>>
    BY <1>3 DEF ReaderStep, Latest, NextAfter, Jump, UpToDate, LoadRef,
         SpinsExhausted, CasSucceeds, CasFails, StoreHolder, GetGuard, Mismatch,
         UndoMismatch, DropGuard, Unref, vars, ringVars, prodVars
  <2> QED BY <1>1, <1>3, <2>1, ContentsUntouched, ReaderTargets DEF IndInv
<1>4. CASE ProducerCrash \/ (\E r \in Readers : ReaderCrash(r)) \/ UNCHANGED vars
  <2>1. UNCHANGED <<ringVars, ppc, outcome, rpc, target, cur, view, last>>
    BY <1>4 DEF ProducerCrash, ReaderCrash, vars, prodVars, readVars
  <2>2. TargetsOK'
    BY <2>1 DEF IndInv, TargetsOK, TargetOK, Want, ringVars
  <2> QED BY <1>1, <2>1, <2>2, ContentsUntouched DEF IndInv, ringVars
<1> QED BY <1>2, <1>3, <1>4 DEF Next

(* The inductive invariant holds in every state of the ring, for any       *)
(* number of readers that may die at any point, and any capacity.          *)
THEOREM RingInvariant == Spec => []IndInv
BY InitInd, NextInd, PTL DEF Spec

(* Every slot's ref_count is the number of readers that are between their  *)
(* CAS and their drop, or the writer's lock: nobody's undo or release is   *)
(* lost, dead readers included.                                            *)
THEOREM CountsExact == Spec => []RefCountExact
<1>1. IndInv => RefCountExact
  BY DEF IndInv
<1> QED BY RingInvariant, <1>1, PTL

-----------------------------------------------------------------------------
(* Consequences.                                                           *)

(* The slot of a published id holds that frame or a later one, never an    *)
(* earlier one.                                                            *)
LEMMA SlotNotOlder ==
  ASSUME IndInv, NEW n \in Nat, 1 <= n, n <= writeSeq
  PROVE  n <= frameId[SlotOf(n)]
<1>0. PICK s \in Slots : s = SlotOf(n)
  BY SlotInRange
<1>1. /\ frameId[s] \in Nat /\ writeSeq \in Nat /\ Capacity \in Nat
      /\ IdPlaced(s)
  BY RingAssumption DEF IndInv, TypeOK, IdsPlaced
<1>2. CASE frameId[s] = 0
  <2>1. n < FirstId(s) /\ FirstId(s) <= Capacity
    BY RingAssumption, <1>1, <1>2 DEF IdPlaced, FirstId, Slots
  <2>2. n \in Slots /\ SlotOf(n) = n
    BY RingAssumption, <2>1, FirstTurn DEF Slots, FirstId
  <2> QED BY <1>0, <2>1, <2>2 DEF FirstId, Slots
<1>3. CASE frameId[s] # 0
  <2>1. SlotOf(frameId[s]) = SlotOf(n)
    BY <1>0, <1>1, <1>3 DEF IdPlaced
  <2>2. frameId[s] < n => frameId[s] + Capacity <= n
    BY <1>1, <2>1, SameSlot
  <2> QED BY <1>0, <1>1, <2>2 DEF IdPlaced
<1> QED BY <1>2, <1>3

(* A held slot is not owned by the producer, hence whole.                  *)
LEMMA IndIntact == IndInv => HeldFrameIntact
<1> SUFFICES ASSUME IndInv, NEW r \in Readers, rpc[r] = "hold"
             PROVE  Content(SlotOf(target[r]))
                      = <<view[r], view[r], view[r], view[r]>>
  BY DEF HeldFrameIntact
<1>1. SlotOf(target[r]) \in Slots
  BY SlotInRange DEF IndInv, TypeOK
<1>2. ~ProducerOwns(SlotOf(target[r]))
  BY <1>1 DEF IndInv, RefCountExact, Locked, Holders, Counting
<1> QED BY <1>1, <1>2 DEF IndInv, SlotsWhole, TargetsOK, TargetOK, Content

(* The id in a held slot is in the window.                                 *)
LEMMA IndWindow == IndInv => HeldInWindow
<1> SUFFICES ASSUME IndInv, NEW r \in Readers, rpc[r] = "hold"
             PROVE  /\ target[r] <= view[r]
                    /\ 1 <= view[r] /\ view[r] <= Published
                    /\ Published < view[r] + Capacity
  BY DEF HeldInWindow
<1>0. PICK s \in Slots : s = SlotOf(target[r])
  BY SlotInRange DEF IndInv, TypeOK
<1>1. /\ view[r] = frameId[s] /\ target[r] \in Nat
      /\ 1 <= target[r] /\ target[r] <= writeSeq
      /\ frameId[s] \in Nat /\ writeSeq \in Nat /\ Capacity \in Nat
      /\ NextId = writeSeq + 1 /\ IdPlaced(s)
  BY <1>0, RingAssumption DEF IndInv, TypeOK, TargetsOK, TargetOK, IdsPlaced, NextId
<1>2. target[r] <= frameId[s]
  BY <1>0, <1>1, SlotNotOlder
<1>3. ~ProducerOwns(s)
  BY <1>0 DEF IndInv, RefCountExact, Locked, Holders, Counting
<1>4. frameId[s] <= Published
  BY <1>1, <1>3 DEF IdPlaced, Published, ProducerOwns, Writing
<1>5. Published < frameId[s] + Capacity
  <2>1. CASE ppc = "seq"
    <3>1. frameId[NextSlot] = NextId
      BY <2>1 DEF IndInv, CopyProgress
    <3>2. SlotOf(frameId[s]) = s /\ SlotOf(frameId[s] + Capacity) = s
      BY <1>1, <1>2, NextTurn DEF IdPlaced
    <3>3. NextId # frameId[s] + Capacity
      BY RingAssumption, <1>1, <3>1, <3>2 DEF NextSlot
    <3> QED BY <1>1, <2>1, <3>3 DEF IdPlaced, Published
  <2>2. CASE ppc # "seq"
    BY <1>1, <2>2 DEF IdPlaced, Published
  <2> QED BY <2>1, <2>2
<1> QED BY <1>1, <1>2, <1>4, <1>5

(* Each of the last Capacity ids is in its slot, whole.                    *)
LEMMA IndWindowIntact == IndInv => WindowIntact
<1> SUFFICES ASSUME IndInv, NEW n \in 1..writeSeq, writeSeq < n + Capacity,
                    ~(SlotOf(n) = NextSlot /\ ppc \in Writing \cup {"seq"})
             PROVE  Content(SlotOf(n)) = <<n, n, n, n>>
  BY DEF WindowIntact
<1>0. /\ writeSeq \in Nat /\ n \in Nat /\ 1 <= n /\ n <= writeSeq
      /\ Capacity \in Nat
  BY RingAssumption DEF IndInv, TypeOK
<1>1. PICK s \in Slots : s = SlotOf(n)
  BY <1>0, SlotInRange
<1>2. n <= frameId[s] /\ frameId[s] \in Nat /\ IdPlaced(s)
  BY <1>0, <1>1, SlotNotOlder DEF IndInv, TypeOK, IdsPlaced
<1>3. frameId[s] <= writeSeq
  BY <1>1, <1>2 DEF IdPlaced, Writing
<1>4. SlotOf(frameId[s]) = SlotOf(n)
  BY <1>0, <1>1, <1>2 DEF IdPlaced
<1>5. frameId[s] = n
  BY <1>0, <1>2, <1>3, <1>4, SameSlot
<1>6. ~ProducerOwns(s)
  BY <1>1 DEF ProducerOwns
<1> QED BY <1>1, <1>5, <1>6 DEF IndInv, SlotsWhole, Content

(* No torn read: whatever the interleaving and whoever dies, the bytes and *)
(* metadata behind a live FrameGuard are those of the frame it was given.  *)
THEOREM NoTornRead == Spec => []HeldFrameIntact
BY RingInvariant, IndIntact, PTL

(* Drop-new at work: publish never overtakes a held frame by a full turn,  *)
(* and latest never returns a frame older than the write_seq it read.      *)
THEOREM NoLapping == Spec => []HeldInWindow
BY RingInvariant, IndWindow, PTL

(* next_after's test seq - want >= capacity is exact: every frame it       *)
(* accepts as in the window is there, unless it is just being replaced.    *)
THEOREM WindowExact == Spec => []WindowIntact
BY RingInvariant, IndWindowIntact, PTL

(* publish releases what it claims: no drop is ever due to a stuck lock.   *)
THEOREM LockReleased == Spec => []NoStuckLock
<1>1. IndInv => NoStuckLock
  BY DEF IndInv
<1> QED BY <1>1, RingInvariant, PTL

(* A sequential consumer loses a frame only after it left the ring.        *)
THEOREM NoNeedlessSkip == Spec => SkipOnlyIfGone
<1>1. ASSUME IndInv, [Next]_vars
      PROVE  [\A r \in Readers \ LatestReaders :
                last'[r] # last[r] =>
                  \/ last'[r] = Want(r)
                  \/ \A s \in Slots : frameId[s] # Want(r)]_vars
  <2> SUFFICES ASSUME Next, NEW r \in Readers \ LatestReaders,
                      last'[r] # last[r], last'[r] # Want(r),
                      NEW s \in Slots
               PROVE  frameId[s] # Want(r)
    BY <1>1
  <2>1. PICK q \in Readers : Jump(q) \/ GetGuard(q)
    BY DEF Next, PublishStep, ClaimSlot, ClaimFails, ReportDrop, CopyLo, CopyHi,
         WriteSlotMeta, StoreFrameId, ReleaseSlot, StoreWriteSeq, ProducerCrash,
         ReaderCrash, ReaderStep, Latest, NextAfter, UpToDate, LoadRef,
         SpinsExhausted, CasSucceeds, CasFails, StoreHolder, Mismatch,
         UndoMismatch, DropGuard, Unref, vars, readVars
  <2>2. q = r
    BY <1>1, <2>1 DEF Jump, GetGuard, IndInv, TypeOK
  <2>3. ~GetGuard(r)
    BY <1>1 DEF GetGuard, Accepts, ReaderAt, IndInv, TypeOK, TargetsOK, TargetOK, Want
  <2>4. TooFarBehind(r)
    BY <2>1, <2>2, <2>3 DEF Jump
  <2>5. writeSeq < frameId[s] + Capacity
    BY <1>1 DEF IndInv, IdsPlaced, IdPlaced
  <2> QED BY <1>1, <2>4, <2>5, RingAssumption DEF TooFarBehind, Want, IndInv, TypeOK
<1> QED BY <1>1, RingInvariant, PTL DEF Spec, SkipOnlyIfGone

-----------------------------------------------------------------------------
(* The ring implements the channel.                                        *)

(* What a guard shows, in terms of the ring.                               *)
LEMMA HeldValue ==
  ASSUME IndInv, NEW r \in Readers
  PROVE  /\ rpc[r] = "hold" =>
              /\ Held[r] = Channel!Whole(view[r])
              /\ Held[r] # Channel!NoFrame
              /\ Held[r][1] = view[r]
         /\ rpc[r] # "hold" => Held[r] = Channel!NoFrame
<1>1. rpc[r] = "hold" =>
        /\ Content(SlotOf(target[r])) = <<view[r], view[r], view[r], view[r]>>
        /\ 1 <= view[r]
  BY IndIntact, IndWindow DEF HeldFrameIntact, HeldInWindow
<1>2. view[r] \in Nat
  BY DEF IndInv, TypeOK
<1> QED BY <1>1, <1>2 DEF Held, Channel!Whole, Channel!NoFrame

(* A step that moves no reader into or out of "hold" shows every guard the *)
(* same frame as before.                                                   *)
LEMMA HeldSame ==
  ASSUME IndInv, IndInv', UNCHANGED view,
         \A r \in Readers : rpc'[r] = "hold" <=> rpc[r] = "hold"
  PROVE  Held' = Held
<1>1. ASSUME NEW r \in Readers
      PROVE  Held'[r] = Held[r]
  <2>1. CASE rpc[r] = "hold"
    <3>1. Held[r] = <<view[r], view[r], view[r], view[r]>>
      BY <2>1, IndIntact DEF Held, HeldFrameIntact
    <3>2. HeldFrameIntact'
      BY IndIntact, PTL
    <3>3. Held'[r] = <<view'[r], view'[r], view'[r], view'[r]>>
      BY <2>1, <3>2 DEF Held, HeldFrameIntact
    <3> QED BY <3>1, <3>3
  <2>2. CASE rpc[r] # "hold"
    BY <2>2 DEF Held
  <2> QED BY <2>1, <2>2
<1> QED BY <1>1 DEF Held

(* A fresh ring is an empty channel.                                       *)
LEMMA RefineInit == Init => Channel!ChannelInit
BY DEF Init, Channel!ChannelInit, Channel!NoFrame, Held, Published

(* publish makes its frame visible when it releases the slot; every other  *)
(* step of it is invisible.                                                *)
LEMMA RefinePublish ==
  IndInv /\ IndInv' /\ PublishStep
    => Channel!Publish \/ UNCHANGED Channel!channelVars
<1> SUFFICES ASSUME IndInv, IndInv', PublishStep
             PROVE  Channel!Publish \/ UNCHANGED Channel!channelVars
  OBVIOUS
<1>1. UNCHANGED readVars
  BY DEF PublishStep, ClaimSlot, ClaimFails, ReportDrop, CopyLo, CopyHi,
         WriteSlotMeta, StoreFrameId, ReleaseSlot, StoreWriteSeq
<1>2. Held' = Held
  BY <1>1, HeldSame DEF readVars
<1>3. CASE ReleaseSlot
  <2>1. Published = writeSeq /\ Published' = writeSeq + 1 /\ writeSeq < MaxId
    BY <1>3 DEF ReleaseSlot, ProducerAt, Published, NextId, IndInv, CopyProgress
  <2>2. ASSUME NEW r \in Readers, Held[r] # Channel!NoFrame
        PROVE  Published + 1 < Held[r][1] + Capacity
    <3>1. rpc[r] = "hold" /\ Held[r][1] = view[r]
      BY <2>2, HeldValue
    <3>2. HeldInWindow'
      BY IndWindow, PTL
    <3>3. Published' < view[r] + Capacity
      BY <1>1, <3>1, <3>2 DEF HeldInWindow, readVars
    <3> QED BY <2>1, <3>1, <3>3
  <2> QED BY <1>2, <2>1, <2>2 DEF Channel!Publish
<1>4. CASE ~ReleaseSlot
  <2>1. Published' = Published
    BY <1>4 DEF PublishStep, ClaimSlot, ClaimFails, ReportDrop, CopyLo, CopyHi,
         WriteSlotMeta, StoreFrameId, StoreWriteSeq, ProducerAt, ringVars,
         Published, NextId
  <2> QED BY <1>2, <2>1 DEF Channel!channelVars
<1> QED BY <1>3, <1>4

(* Building a guard is Acquire, dropping it is Release, the rest of a      *)
(* reader's steps are invisible.                                           *)
LEMMA RefineReader ==
  ASSUME NEW r \in Readers
  PROVE  IndInv /\ IndInv' /\ ReaderStep(r)
           => Channel!ChannelNext \/ UNCHANGED Channel!channelVars
<1> SUFFICES ASSUME IndInv, IndInv', ReaderStep(r)
             PROVE  Channel!ChannelNext \/ UNCHANGED Channel!channelVars
  OBVIOUS
<1>1. Published' = Published
  BY DEF ReaderStep, Latest, NextAfter, Jump, UpToDate, LoadRef, SpinsExhausted,
         CasSucceeds, CasFails, StoreHolder, GetGuard, Mismatch, UndoMismatch,
         DropGuard, Unref, vars, ringVars, prodVars, Published, NextId
<1>2. CASE GetGuard(r)
  <2>1. /\ rpc[r] # "hold" /\ rpc'[r] = "hold"
        /\ \A q \in Readers : q # r => rpc'[q] = rpc[q]
        /\ UNCHANGED <<ringVars, target>>
    BY <1>2 DEF GetGuard, ReaderAt, Go, IndInv, TypeOK
  <2>2. PICK n : n = view'[r]
    OBVIOUS
  <2>3. HeldFrameIntact' /\ HeldInWindow'
    BY IndIntact, IndWindow, PTL
  <2>4. n \in 1..Published /\ Published < n + Capacity
    <3>1. writeSeq \in Nat /\ view' \in [Readers -> Nat]
      BY DEF IndInv, TypeOK
    <3>2. Published \in Nat /\ n \in Nat
      BY <2>2, <3>1 DEF Published, NextId
    <3> QED BY <1>1, <2>1, <2>2, <2>3, <3>2 DEF HeldInWindow
  <2>5. Held' = [Held EXCEPT ![r] = Channel!Whole(n)]
    <3>1. Held'[r] = Channel!Whole(n)
      BY <2>1, <2>2, <2>3 DEF Held, HeldFrameIntact, Channel!Whole
    <3>2. \A q \in Readers : q # r => Held'[q] = Held[q]
      BY <2>1 DEF Held, Content, ringVars
    <3> QED BY <3>1, <3>2 DEF Held
  <2>6. Held[r] = Channel!NoFrame
    BY <2>1, HeldValue
  <2> QED BY <1>1, <2>4, <2>5, <2>6 DEF Channel!ChannelNext, Channel!Acquire
<1>3. CASE DropGuard(r)
  <2>1. /\ rpc[r] = "hold" /\ rpc'[r] # "hold"
        /\ \A q \in Readers : q # r => rpc'[q] = rpc[q]
        /\ UNCHANGED <<frameId, meta, dataLo, dataHi, target>>
    BY <1>3 DEF DropGuard, Unref, ReaderAt, Go, IndInv, TypeOK
  <2>2. Held' = [Held EXCEPT ![r] = Channel!NoFrame]
    BY <2>1 DEF Held, Content, Channel!NoFrame
  <2>3. Held[r] # Channel!NoFrame
    BY <2>1, HeldValue
  <2> QED BY <1>1, <2>2, <2>3 DEF Channel!ChannelNext, Channel!Release
<1>4. CASE ~GetGuard(r) /\ ~DropGuard(r)
  <2>1. UNCHANGED view /\ \A q \in Readers : rpc'[q] = "hold" <=> rpc[q] = "hold"
    BY <1>4 DEF ReaderStep, Latest, NextAfter, Jump, UpToDate, LoadRef,
         SpinsExhausted, CasSucceeds, CasFails, StoreHolder, Mismatch,
         UndoMismatch, Unref, vars, readVars, ReaderAt, Go, IndInv, TypeOK
  <2>2. Held' = Held
    BY <2>1, HeldSame
  <2> QED BY <1>1, <2>2 DEF Channel!channelVars
<1> QED BY <1>2, <1>3, <1>4

(* The ring of slots, counts and CAS loops implements the slot-free        *)
(* channel, for every number of readers and every capacity: guards show    *)
(* whole, unchanging frames and publishing never laps a held one.          *)
THEOREM RingImplementsChannel == Spec => ImplementsChannel
<1>1. IndInv /\ IndInv' /\ [Next]_vars => [Channel!ChannelNext]_(Channel!channelVars)
  <2> SUFFICES ASSUME IndInv, IndInv', [Next]_vars
               PROVE  Channel!ChannelNext \/ UNCHANGED Channel!channelVars
    OBVIOUS
  <2>1. CASE PublishStep
    BY <2>1, RefinePublish DEF Channel!ChannelNext
  <2>2. ASSUME NEW r \in Readers, ReaderStep(r)
        PROVE  Channel!ChannelNext \/ UNCHANGED Channel!channelVars
    BY <2>2, RefineReader
  <2>3. CASE ProducerCrash \/ (\E r \in Readers : ReaderCrash(r)) \/ UNCHANGED vars
    <3>1. UNCHANGED <<ringVars, ppc, rpc, target>>
      BY <2>3 DEF ProducerCrash, ReaderCrash, vars, prodVars, readVars
    <3> QED BY <3>1 DEF Channel!channelVars, Held, Content, Published, NextId, ringVars
  <2> QED BY <2>1, <2>2, <2>3 DEF Next
<1> QED BY <1>1, RefineInit, RingInvariant, PTL
        DEF Spec, ImplementsChannel, Channel!ChannelSpec
=============================================================================
