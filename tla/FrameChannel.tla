---------------------------- MODULE FrameChannel ----------------------------
(***************************************************************************)
(* What the shared-memory frame ring promises its clients, with no slots,  *)
(* no reference counts and no program counters:                            *)
(*   - frames are published one at a time, with consecutive ids;           *)
(*   - a reader that holds a frame holds ALL of it (every part carries the *)
(*     same id) and what it sees does not change until it lets go;         *)
(*   - a held frame is never lapped: the writer does not publish the frame *)
(*     that would reuse its place, it drops that frame instead.            *)
(* A reader that dies keeps what it held for ever.                         *)
(***************************************************************************)
EXTENDS Integers

CONSTANTS Readers, Capacity, MaxId

VARIABLES published,   \* id of the newest published frame, 0 before the first
          held         \* what each reader sees through its guard

channelVars == <<published, held>>

NoFrame  == <<0, 0, 0, 0>>
Whole(n) == <<n, n, n, n>>    \* frame n: id, timestamp, both halves of data

ChannelInit == /\ published = 0
               /\ held = [r \in Readers |-> NoFrame]

\* The next frame becomes visible; every frame still held stays in the window.
Publish == /\ published < MaxId
           /\ \A r \in Readers :
                held[r] # NoFrame => published + 1 < held[r][1] + Capacity
           /\ published' = published + 1
           /\ UNCHANGED held

\* A reader gets one of the last Capacity frames, whole.
Acquire(r) == /\ held[r] = NoFrame
              /\ \E n \in 1..published :
                   /\ published < n + Capacity
                   /\ held' = [held EXCEPT ![r] = Whole(n)]
              /\ UNCHANGED published

Release(r) == /\ held[r] # NoFrame
              /\ held' = [held EXCEPT ![r] = NoFrame]
              /\ UNCHANGED published

ChannelNext == Publish \/ \E r \in Readers : Acquire(r) \/ Release(r)

ChannelSpec == ChannelInit /\ [][ChannelNext]_channelVars
=============================================================================
