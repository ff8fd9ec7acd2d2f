------------------------ MODULE InferenceBridgeProofs ------------------------
(***************************************************************************)
(* Proofs about InferenceBridge, for every number of buffers, clients,     *)
(* health checks and frames, the bridge dying or not: which answers a      *)
(* client finds in its socket, which frames the bridge still finds in the  *)
(* segment, and which frame a published event is about.                    *)
(***************************************************************************)
EXTENDS InferenceBridge, SequenceTheorems, TLAPS

-----------------------------------------------------------------------------
(* The inductive invariant. First the types.                               *)
ClientPcs == {"connect", "init", "initWait", "ready", "inferWait",
              "healthWait", "shutdownWait", "down"}
BridgePcs == {"loop", "handle", "reply", "down"}
Messages  == [kind : {"none", "init", "infer", "health", "shutdown"},
              shm : BOOLEAN, seq : Nat, buf : BufferIds]
Answers   == [kind : {"none", "init_ack", "init_nak", "infer_ack", "health_ack"},
              about : Nat]

ClientTyped == /\ client \in Clients /\ cpc \in ClientPcs
               /\ checks \in 0..MaxChecks /\ frame \in Nat
               /\ usesShm \in BOOLEAN /\ cursor \in BufferIds
ShmTyped    == /\ segmentFile \in Clients \cup {0}
               /\ shm \in [Clients -> [BufferIds -> Nat]]
WireTyped   == /\ clientEnd \subseteq Connections
               /\ serverEnd \subseteq Connections
               /\ backlog \in Seq(Connections)
               /\ requests \in [Connections -> Seq(Messages)]
               /\ replies \in [Connections -> Seq(Answers)]
BridgeTyped == /\ bpc \in BridgePcs /\ serving \in Connections \cup {0}
               /\ job \in Messages /\ answer \in Answers
               /\ mapped \in Clients \cup {0} /\ declared \in BOOLEAN
Typed == ClientTyped /\ ShmTyped /\ WireTyped /\ BridgeTyped

(* Connections: each is in one place at the bridge, and a connection the   *)
(* bridge has closed holds no request.                                     *)
Wired == /\ serving # 0 => serving \in serverEnd
         /\ bpc \in {"handle", "reply"} => serving # 0
         /\ bpc = "down" => serverEnd = {}
         /\ \A i \in DOMAIN backlog : backlog[i] \in serverEnd \ {serving}
         /\ \A i, j \in DOMAIN backlog : i # j => backlog[i] # backlog[j]
         /\ \A c \in Connections \ serverEnd : requests[c] = <<>>

(* Connections not made yet leave no trace.                                *)
Unused(c) == c > client \/ (c = client /\ cpc = "connect")
Fresh == /\ \A c \in Clients : Unused(c) => c \notin serverEnd /\ replies[c] = <<>>
         /\ \A c \in Connections : c > MaxClients + checks => c \notin serverEnd
         /\ cpc = "healthWait" => checks > 0
         /\ cpc \in {"connect", "down"} => clientEnd = {}

(* The bridge has opened what the client's init declared.                  *)
Opened == /\ declared = usesShm
          /\ usesShm => mapped \in {0, client}

IsInit(m) == m.kind = "init" /\ m.shm = usesShm

AckKinds == {"init_ack", "init_nak"}

(* While the client waits for the answer to its init, that call is the     *)
(* only one, wherever it is between the two.                               *)
Handshake ==
  cpc = "initWait" =>
    /\ client \in clientEnd
    /\ usesShm => segmentFile = client
    /\ Outstanding(client) <= 1
    /\ \A j \in DOMAIN requests[client] : IsInit(requests[client][j])
    /\ serving = client /\ bpc = "handle" => IsInit(job)
    /\ serving = client /\ bpc = "reply" =>
         /\ answer.kind \in AckKinds
         /\ answer.kind = "init_ack" => Opened
    /\ \A i \in DOMAIN replies[client] :
         /\ replies[client][i].kind \in AckKinds
         /\ replies[client][i].kind = "init_ack" /\ client \in serverEnd
              => serving = client /\ Opened

(* Request m carries frame s. Its buffer holds that frame or one written   *)
(* since; as long as fewer than Buffers frames have followed, it holds     *)
(* that frame, and the cursor is as far on.                                *)
Placed(m, s) ==
  /\ m.kind = "infer" /\ m.seq = s /\ m.shm = usesShm
  /\ usesShm => shm[client][m.buf] \in s..frame
  /\ usesShm /\ frame - s < Buffers =>
       /\ shm[client][m.buf] = s
       /\ cursor - m.buf \in {frame - s + 1, frame - s + 1 - Buffers}

(* Answer r is about frame s or no pixels; once Buffers frames have        *)
(* followed in a segment, it may be about one of those instead.            *)
IsAbout(r, s) == \/ r.about \in {NoPixels, s}
                 \/ usesShm /\ frame - s >= Buffers /\ r.about \in s..frame

(* While frames are sent, what is under way between the two are the calls  *)
(* of the last Outstanding frames, in order.                               *)
Streaming ==
  cpc \in {"ready", "healthWait", "inferWait"} =>
    /\ client \in clientEnd
    /\ client \in serverEnd => serving = client /\ Opened
    /\ \A i \in DOMAIN replies[client] :
         /\ replies[client][i].kind = "infer_ack"
         /\ client \in serverEnd =>
              IsAbout(replies[client][i], frame - Outstanding(client) + i)
    /\ serving = client /\ bpc = "reply" =>
         /\ answer.kind = "infer_ack"
         /\ IsAbout(answer, frame - Len(requests[client]))
    /\ serving = client /\ bpc = "handle" =>
         Placed(job, frame - Len(requests[client]))
    /\ \A j \in DOMAIN requests[client] :
         Placed(requests[client][j], frame - Len(requests[client]) + j)

(* At most k frames have followed that of request m, and if fewer than     *)
(* Buffers have, it is in its buffer.                                      *)
InPlace(m, k) ==
  m.kind = "infer" =>
    /\ frame - m.seq <= k
    /\ usesShm /\ frame - m.seq < Buffers => shm[client][m.buf] = m.seq

(* After the shutdown is sent, the frames before it are still there.       *)
Leaving ==
  cpc = "shutdownWait" =>
    /\ serving = client /\ bpc = "handle" => InPlace(job, Len(requests[client]))
    /\ \A j \in DOMAIN requests[client] :
         InPlace(requests[client][j], Len(requests[client]) - j)

(* Before the init nothing is under way.                                   *)
Silent == cpc = "init" => /\ Outstanding(client) = 0
                          /\ client \in clientEnd

BInv == Typed /\ Wired /\ Fresh /\ Silent /\ Handshake /\ Streaming /\ Leaving

-----------------------------------------------------------------------------
(* Arithmetic of the round robin.                                          *)
LEMMA NextBuffer ==
  ASSUME NEW b \in BufferIds
  PROVE  (b + 1) % Buffers = IF b + 1 = Buffers THEN 0 ELSE b + 1
BY BridgeAssumption, SMTT(30) DEF BufferIds

LEMMA SetsAndIds ==
  /\ Clients \subseteq Connections
  /\ 0 \notin Connections
  /\ 0 \in BufferIds
  /\ NoPixels \in Nat
  /\ NoMessage \in Messages
  /\ NoAnswer \in Answers
  /\ \A n \in 1..MaxChecks : MaxClients + n \in Connections \ Clients
BY BridgeAssumption DEF Clients, Connections, BufferIds, NoPixels, NoMessage,
                        NoAnswer, Messages, Answers

-----------------------------------------------------------------------------
(* Types.                                                                  *)
LEMMA InitTyped == Init => Typed
<1> SUFFICES ASSUME Init PROVE Typed
  OBVIOUS
<1> USE BridgeAssumption, SetsAndIds
<1>1. ClientTyped
  <2>1. usesShm \in BOOLEAN
    BY Zenon DEF Init
  <2> QED
    BY <2>1 DEF Init, ClientTyped, Clients, ClientPcs
<1>2. ShmTyped
  BY DEF Init, ShmTyped
<1>3. WireTyped
  BY DEF Init, WireTyped
<1>4. BridgeTyped
  BY DEF Init, BridgeTyped, BridgePcs
<1> QED
  BY <1>1, <1>2, <1>3, <1>4 DEF Typed

LEMMA CallTyped ==
  /\ \A b \in BOOLEAN : [NoMessage EXCEPT !.kind = "init", !.shm = b] \in Messages
  /\ [NoMessage EXCEPT !.kind = "health"] \in Messages
  /\ [NoMessage EXCEPT !.kind = "shutdown"] \in Messages
  /\ \A b \in BOOLEAN, n \in Nat, i \in BufferIds :
       [kind |-> "infer", shm |-> b, seq |-> n, buf |-> i] \in Messages
  /\ \A k \in {"init_ack", "init_nak", "health_ack"} :
       [NoAnswer EXCEPT !.kind = k] \in Answers
  /\ \A n \in Nat : [kind |-> "infer_ack", about |-> n] \in Answers
BY SetsAndIds DEF NoMessage, NoAnswer, Messages, Answers, NoPixels

LEMMA WriteTyped ==
  ASSUME Typed, NEW msg \in Messages, Write(msg)
  PROVE  requests' \in [Connections -> Seq(Messages)]
BY SetsAndIds DEF Typed, ClientTyped, WireTyped, Write

LEMMA ReadTyped ==
  ASSUME Typed, Read
  PROVE  replies' \in [Connections -> Seq(Answers)]
BY SetsAndIds DEF Typed, ClientTyped, WireTyped, Read

LEMMA EndTyped ==
  ASSUME Typed, EndClient
  PROVE  /\ ClientTyped' /\ clientEnd' \subseteq Connections
         /\ replies' \in [Connections -> Seq(Answers)]
<1>1. ClientTyped'
  BY DEF Typed, ClientTyped, EndClient, ClientPcs
<1> QED
  BY <1>1 DEF EndClient

LEMMA ClientKeepsTypes == Typed /\ (ClientStep \/ ClientDies) => Typed'
<1> SUFFICES ASSUME Typed, ClientStep \/ ClientDies PROVE Typed'
  OBVIOUS
<1> USE BridgeAssumption, SetsAndIds
<1>0. ClientTyped /\ ShmTyped /\ WireTyped /\ BridgeTyped
  BY DEF Typed
<1>b. UNCHANGED bridgeVars => BridgeTyped'
  BY <1>0 DEF bridgeVars, BridgeTyped
<1>s. UNCHANGED shmVars => ShmTyped'
  BY <1>0 DEF shmVars, ShmTyped
<1>1. CASE StartClient
  <2>0. usesShm' \in BOOLEAN
    BY <1>1, Zenon DEF StartClient
  <2>1. ClientTyped'
    BY <1>0, <1>1, <2>0 DEF StartClient, ClientAt, ClientTyped, Clients, ClientPcs
  <2>2. WireTyped'
    BY <1>0, <1>1 DEF StartClient, wireVars, WireTyped
  <2> QED
    BY <1>b, <1>s, <1>1, <2>1, <2>2 DEF StartClient, Typed
<1>2. CASE ConnectOk
  <2>1. ClientTyped'
    BY <1>0, <1>2 DEF ConnectOk, ClientAt, ClientTyped, ClientPcs
  <2>2. WireTyped'
    BY <1>0, <1>2 DEF ConnectOk, ClientTyped, WireTyped
  <2> QED
    BY <1>b, <1>s, <1>2, <2>1, <2>2 DEF ConnectOk, Typed
<1>3. CASE ConnectFails
  <2>1. ClientTyped'
    BY <1>0, <1>3 DEF ConnectFails, ClientAt, ClientTyped, ClientPcs
  <2>2. WireTyped'
    BY <1>0, <1>3 DEF ConnectFails, wireVars, WireTyped
  <2> QED
    BY <1>b, <1>s, <1>3, <2>1, <2>2 DEF ConnectFails, Typed
<1>4. CASE SendInit
  <2>1. usesShm' \in BOOLEAN
    BY <1>4, Zenon DEF SendInit, CreateSegment
  <2>2. ClientTyped'
    BY <1>0, <1>4, <2>1 DEF SendInit, ClientAt, ClientTyped, ClientPcs
  <2>3. ShmTyped'
    BY <1>0, <1>4 DEF SendInit, CreateSegment, ShmTyped, ClientTyped
  <2>4. WireTyped'
    BY <1>0, <1>4, <2>1, CallTyped, WriteTyped DEF SendInit, WireTyped
  <2> QED
    BY <1>b, <1>4, <2>2, <2>3, <2>4 DEF SendInit, Typed
<1>5. CASE InitAcked
  <2>1. ClientTyped'
    BY <1>0, <1>5 DEF InitAcked, ClientAt, ClientTyped, ClientPcs
  <2>2. WireTyped'
    BY <1>0, <1>5, ReadTyped DEF InitAcked, WireTyped
  <2> QED
    BY <1>b, <1>s, <1>5, <2>1, <2>2 DEF InitAcked, Typed
<1>6. ASSUME EndClient, UNCHANGED <<shm, serverEnd, backlog, requests>>,
             UNCHANGED bridgeVars, segmentFile' \in {segmentFile, 0}
      PROVE  Typed'
  <2>1. ShmTyped'
    BY <1>0, <1>6 DEF ShmTyped
  <2>2. WireTyped'
    BY <1>0, <1>6, EndTyped DEF WireTyped
  <2> QED
    BY <1>b, <1>6, <2>1, <2>2, EndTyped DEF Typed
<1>7. CASE InitFails \/ ShutdownDone \/ ClientDies
  BY <1>6, <1>7 DEF InitFails, ShutdownDone, ClientDies, RemoveSegment, shmVars
<1>8. CASE SendInfer
  <2>1. ClientTyped'
    BY <1>0, <1>8, NextBuffer
       DEF SendInfer, WriteFrame, ClientTyped, ClientPcs, BufferIds
  <2>2. ShmTyped'
    BY <1>0, <1>8, <2>1 DEF SendInfer, WriteFrame, ClientTyped, ShmTyped
  <2>3. [kind |-> "infer", shm |-> usesShm, seq |-> frame',
         buf |-> IF usesShm THEN cursor ELSE 0] \in Messages
    BY <1>0, <2>1, CallTyped DEF ClientTyped
  <2>4. requests' \in [Connections -> Seq(Messages)]
    BY <1>0, <1>8, <2>3, WriteTyped DEF SendInfer, WireTyped
  <2>5. WireTyped'
    BY <1>0, <1>8, <2>4 DEF SendInfer, WireTyped
  <2> QED
    BY <1>b, <1>8, <2>1, <2>2, <2>5 DEF SendInfer, Typed
<1>9. CASE InferReturns \/ InferRefused
  <2>1. ClientTyped'
    BY <1>0, <1>9 DEF InferReturns, InferRefused, ClientAt, ClientTyped, ClientPcs
  <2>2. WireTyped'
    BY <1>0, <1>9, ReadTyped DEF InferReturns, InferRefused, WireTyped
  <2> QED
    BY <1>b, <1>s, <1>9, <2>1, <2>2 DEF InferReturns, InferRefused, Typed
<1>10. CASE InferFails
  <2>1. ClientTyped'
    BY <1>0, <1>10 DEF InferFails, ClientAt, ClientTyped, ClientPcs
  <2>2. WireTyped'
    BY <1>0, <1>10 DEF InferFails, wireVars, WireTyped
  <2> QED
    BY <1>b, <1>s, <1>10, <2>1, <2>2 DEF InferFails, Typed
<1>11. CASE HealthCheck
  <2>1. ClientTyped'
    BY <1>0, <1>11 DEF HealthCheck, ClientAt, ClientTyped, ClientPcs
  <2>2. Checking' \in Connections
    BY <1>0, <1>11, SMTT(30) DEF HealthCheck, ClientTyped, Checking, Connections
  <2> DEFINE call == [NoMessage EXCEPT !.kind = "health"]
  <2>0. call \in Messages
    BY CallTyped
  <2> HIDE DEF call
  <2>a. <<call>> \in Seq(Messages)
    BY <2>0
  <2>b. requests' \in [Connections -> Seq(Messages)]
    BY <1>0, <1>11, <2>2, <2>a DEF HealthCheck, WireTyped, call
  <2>c. backlog' \in Seq(Connections)
    BY <1>0, <1>11, <2>2 DEF HealthCheck, WireTyped
  <2>3. WireTyped'
    BY <1>0, <1>11, <2>2, <2>b, <2>c DEF HealthCheck, WireTyped
  <2> QED
    BY <1>b, <1>s, <1>11, <2>1, <2>3 DEF HealthCheck, Typed
<1>12. CASE HealthReturns
  <2>1. ClientTyped'
    BY <1>0, <1>12 DEF HealthReturns, ClientAt, ClientTyped, ClientPcs
  <2>a. <<>> \in Seq(Answers)
    OBVIOUS
  <2>b. replies' \in [Connections -> Seq(Answers)]
    BY <1>0, <1>12, <2>a DEF HealthReturns, WireTyped
  <2>2. WireTyped'
    BY <1>0, <1>12, <2>b DEF HealthReturns, WireTyped
  <2> QED
    BY <1>b, <1>s, <1>12, <2>1, <2>2 DEF HealthReturns, Typed
<1>13. CASE SendShutdown
  <2>1. CASE cpc' = "shutdownWait" /\ Write([NoMessage EXCEPT !.kind = "shutdown"])
             /\ UNCHANGED <<client, checks, frame, usesShm, cursor, published,
                            clientEnd, replies, segmentFile>>
    <3>1. ClientTyped'
      BY <1>0, <2>1 DEF ClientTyped, ClientPcs
    <3>2. WireTyped'
      BY <1>0, <1>13, <2>1, CallTyped, WriteTyped DEF SendShutdown, WireTyped
    <3>3. ShmTyped'
      BY <1>0, <1>13, <2>1 DEF SendShutdown, ShmTyped
    <3> QED
      BY <1>b, <1>13, <3>1, <3>2, <3>3 DEF SendShutdown, Typed
  <2>2. CASE EndClient /\ RemoveSegment /\ UNCHANGED requests
    BY <1>6, <1>13, <2>2 DEF SendShutdown, RemoveSegment
  <2> QED
    BY <1>13, <2>1, <2>2 DEF SendShutdown
<1> QED
  BY <1>1, <1>2, <1>3, <1>4, <1>5, <1>7, <1>8, <1>9, <1>10, <1>11, <1>12, <1>13
     DEF ClientStep

LEMMA BridgeKeepsTypes ==
  Typed /\ (BridgeStep \/ BridgeDies \/ BridgeStarts) => Typed'
<1> SUFFICES ASSUME Typed, BridgeStep \/ BridgeDies \/ BridgeStarts PROVE Typed'
  OBVIOUS
<1> USE BridgeAssumption, SetsAndIds
<1>0. ClientTyped /\ ShmTyped /\ WireTyped /\ BridgeTyped
  BY DEF Typed
<1>c. UNCHANGED clientVars /\ UNCHANGED shmVars
  BY DEF BridgeStep, BridgeDies, BridgeStarts, Accept, Receive, HangUp,
         HandleInit, HandleInfer, HandleHealth, HandleShutdown, Reply
<1>d. ClientTyped' /\ ShmTyped'
  BY <1>0, <1>c DEF clientVars, shmVars, ClientTyped, ShmTyped
<1>1. CASE Accept
  <2>1. backlog # <<>> /\ Head(backlog) \in Connections
        /\ Tail(backlog) \in Seq(Connections)
    BY <1>0, <1>1 DEF Accept, WireTyped
  <2>2. WireTyped'
    BY <1>0, <1>1, <2>1 DEF Accept, WireTyped
  <2>3. BridgeTyped'
    BY <1>0, <1>1, <2>1 DEF Accept, BridgeAt, BridgeTyped, BridgePcs
  <2> QED
    BY <1>d, <2>2, <2>3 DEF Typed
<1>2. CASE Receive
  <2>1. /\ serving \in Connections
        /\ requests[serving] \in Seq(Messages) /\ requests[serving] # <<>>
    BY <1>0, <1>2 DEF Receive, WireTyped, BridgeTyped
  <2>2. /\ Head(requests[serving]) \in Messages
        /\ Tail(requests[serving]) \in Seq(Messages)
    BY <2>1
  <2>3. WireTyped'
    BY <1>0, <1>2, <2>1, <2>2 DEF Receive, WireTyped
  <2>4. BridgeTyped'
    BY <1>0, <1>2, <2>2 DEF Receive, BridgeAt, BridgeTyped, BridgePcs
  <2> QED
    BY <1>d, <2>3, <2>4 DEF Typed
<1>3. CASE HangUp
  <2>1. WireTyped'
    BY <1>0, <1>3 DEF HangUp, WireTyped
  <2>2. BridgeTyped'
    BY <1>0, <1>3 DEF HangUp, BridgeAt, BridgeTyped, BridgePcs
  <2> QED
    BY <1>d, <2>1, <2>2 DEF Typed
<1>4. CASE HandleInit
  <2>1. answer' \in Answers
    BY <1>4, CallTyped DEF HandleInit
  <2>2. declared' \in BOOLEAN
    BY <1>0, <1>4 DEF HandleInit, BridgeTyped, Messages
  <2>3. mapped' \in Clients \cup {0}
    BY <1>0, <1>4 DEF HandleInit, OpenSegment, BridgeTyped, ShmTyped
  <2>4. BridgeTyped'
    BY <1>0, <1>4, <2>1, <2>2, <2>3
       DEF HandleInit, BridgeAt, BridgeTyped, BridgePcs
  <2>5. WireTyped'
    BY <1>0, <1>4 DEF HandleInit, wireVars, WireTyped
  <2> QED
    BY <1>d, <2>4, <2>5 DEF Typed
<1>5. CASE HandleInfer
  <2>1. Pixels(job) \in Nat
    BY <1>0, <1>5 DEF Pixels, BridgeTyped, ShmTyped, Messages
  <2>2. answer' \in Answers
    BY <1>5, <2>1, CallTyped DEF HandleInfer
  <2>3. BridgeTyped'
    BY <1>0, <1>5, <2>2 DEF HandleInfer, BridgeAt, BridgeTyped, BridgePcs
  <2>4. WireTyped'
    BY <1>0, <1>5 DEF HandleInfer, wireVars, WireTyped
  <2> QED
    BY <1>d, <2>3, <2>4 DEF Typed
<1>6. CASE HandleHealth
  <2>1. answer' \in Answers
    BY <1>6, CallTyped DEF HandleHealth
  <2>2. BridgeTyped'
    BY <1>0, <1>6, <2>1 DEF HandleHealth, BridgeAt, BridgeTyped, BridgePcs
  <2>3. WireTyped'
    BY <1>0, <1>6 DEF HandleHealth, wireVars, WireTyped
  <2> QED
    BY <1>d, <2>2, <2>3 DEF Typed
<1>7. CASE HandleShutdown \/ BridgeDies
  <2>1. BridgeStops /\ UNCHANGED <<clientEnd, replies>>
    BY <1>7 DEF HandleShutdown, BridgeDies
  <2>2. <<>> \in Seq(Messages) /\ <<>> \in Seq(Connections)
    OBVIOUS
  <2>3. requests' \in [Connections -> Seq(Messages)]
    BY <2>1, <2>2 DEF BridgeStops
  <2>4. WireTyped'
    BY <1>0, <2>1, <2>2, <2>3 DEF BridgeStops, WireTyped
  <2>5. declared' \in BOOLEAN
    BY <2>1, Zenon DEF BridgeStops
  <2>6. BridgeTyped'
    BY <2>1, <2>5 DEF BridgeStops, BridgeTyped, BridgePcs
  <2> QED
    BY <1>d, <2>4, <2>6 DEF Typed
<1>8. CASE Reply
  <2>1. serving \in clientEnd => Append(replies[serving], answer) \in Seq(Answers)
    BY <1>0 DEF WireTyped, BridgeTyped
  <2>2. replies' \in [Connections -> Seq(Answers)]
    BY <1>0, <1>8, <2>1 DEF Reply, Send, WireTyped
  <2>3. WireTyped'
    BY <1>0, <1>8, <2>2 DEF Reply, WireTyped
  <2>4. BridgeTyped'
    BY <1>0, <1>8 DEF Reply, BridgeAt, BridgeTyped, BridgePcs
  <2> QED
    BY <1>d, <2>3, <2>4 DEF Typed
<1>9. CASE BridgeStarts
  <2>1. BridgeTyped'
    BY <1>0, <1>9 DEF BridgeStarts, BridgeAt, BridgeTyped, BridgePcs
  <2>2. WireTyped'
    BY <1>0, <1>9 DEF BridgeStarts, wireVars, WireTyped
  <2> QED
    BY <1>d, <2>1, <2>2 DEF Typed
<1> QED
  BY <1>1, <1>2, <1>3, <1>4, <1>5, <1>6, <1>7, <1>8, <1>9 DEF BridgeStep

-----------------------------------------------------------------------------
(* Connections.                                                            *)
LEMMA InitWired == Init => Wired /\ Fresh
<1> SUFFICES ASSUME Init PROVE Wired /\ Fresh
  OBVIOUS
<1>1. backlog = <<>> /\ DOMAIN backlog = {}
  BY DEF Init
<1>2. Wired
  BY <1>1 DEF Init, Wired
<1>3. Fresh
  BY SetsAndIds DEF Init, Fresh
<1> QED
  BY <1>2, <1>3

(* A connection that is made: of the client or of a health check.          *)
LEMMA ConnectionJoins ==
  ASSUME Typed, Wired, NEW c \in Connections, c \notin serverEnd, bpc # "down",
         serverEnd' = serverEnd \cup {c}, backlog' = Append(backlog, c),
         UNCHANGED <<bpc, serving>>,
         \A d \in Connections \ {c} : requests'[d] = requests[d]
  PROVE  Wired'
<1>1. backlog \in Seq(Connections)
  BY DEF Typed, WireTyped
<1>2. /\ DOMAIN backlog' = 1..(Len(backlog) + 1)
      /\ \A i \in DOMAIN backlog : backlog'[i] = backlog[i]
      /\ backlog'[Len(backlog) + 1] = c
      /\ DOMAIN backlog = 1..Len(backlog)
  BY <1>1
<1>3. c # serving
  BY SetsAndIds DEF Wired
<1>4. \A i \in DOMAIN backlog' : backlog'[i] \in serverEnd' \ {serving'}
  BY <1>1, <1>2, <1>3 DEF Wired
<1>5. \A i, j \in DOMAIN backlog' : i # j => backlog'[i] # backlog'[j]
  BY <1>1, <1>2 DEF Wired
<1> QED
  BY <1>4, <1>5 DEF Wired

LEMMA ClientKeepsWired ==
  Typed /\ Wired /\ Fresh /\ (ClientStep \/ ClientDies) => Wired' /\ Fresh'
<1> SUFFICES ASSUME Typed, Wired, Fresh, ClientStep \/ ClientDies
             PROVE  Wired' /\ Fresh'
  OBVIOUS
<1> USE BridgeAssumption, SetsAndIds
<1>0. client \in Clients /\ checks \in 0..MaxChecks /\ replies \in [Connections -> Seq(Answers)]
      /\ requests \in [Connections -> Seq(Messages)] /\ client \in Connections
  BY DEF Typed, ClientTyped, WireTyped
<1>1. CASE ConnectOk
  <2>1. client \notin serverEnd /\ replies[client] = <<>>
    BY <1>0, <1>1 DEF ConnectOk, ClientAt, Fresh, Unused
  <2>2. Wired'
    BY <1>0, <1>1, <2>1, ConnectionJoins DEF ConnectOk, bridgeVars
  <2>3. Fresh'
    BY <1>0, <1>1 DEF ConnectOk, ClientAt, Fresh, Unused, Clients
  <2> QED
    BY <2>2, <2>3
<1>2. CASE HealthCheck
  <2>1. Checking' \in Connections /\ Checking' = MaxClients + checks + 1
    BY <1>0, <1>2, SMTT(30) DEF HealthCheck, Checking, Connections
  <2>2. Checking' \notin serverEnd
    BY <1>0, <2>1 DEF Fresh
  <2>3. Wired'
    BY <1>0, <1>2, <2>1, <2>2, ConnectionJoins DEF HealthCheck, bridgeVars
  <2>4. Fresh'
    <3>1. /\ serverEnd' = serverEnd \cup {MaxClients + checks + 1}
          /\ checks' = checks + 1 /\ cpc = "ready" /\ cpc' = "healthWait"
          /\ UNCHANGED <<client, replies>>
      BY <1>2, <2>1 DEF HealthCheck, ClientAt
    <3>2. \A c \in Clients : c # MaxClients + checks + 1
      BY <1>0 DEF Clients
    <3>3. \A c \in Connections : c > MaxClients + checks'
            => c > MaxClients + checks /\ c # MaxClients + checks + 1
      BY <1>0, <3>1 DEF Connections
    <3> QED
      BY <1>0, <3>1, <3>2, <3>3 DEF Fresh, Unused
  <2> QED
    BY <2>3, <2>4
<1>3. ASSUME UNCHANGED <<serverEnd, backlog, bridgeVars>>,
             \A c \in Connections \ serverEnd : requests'[c] = requests[c]
      PROVE  Wired'
  BY <1>3 DEF Wired, bridgeVars
<1>4. \A msg : Write(msg) => \A c \in Connections \ serverEnd : requests'[c] = requests[c]
  BY <1>0 DEF Write
<1>5. CASE StartClient
  <2>1. Fresh'
    BY <1>0, <1>5 DEF StartClient, ClientAt, wireVars, Fresh, Unused, Clients
  <2> QED
    BY <1>3, <1>5, <2>1 DEF StartClient, wireVars
<1>6. CASE EndClient /\ UNCHANGED <<serverEnd, backlog, requests, bridgeVars>>
  <2>1. Fresh'
    BY <1>0, <1>6 DEF EndClient, Fresh, Unused, Clients
  <2> QED
    BY <1>3, <1>6, <2>1
<1>7. CASE InitFails \/ ShutdownDone \/ ClientDies
  BY <1>6, <1>7 DEF InitFails, ShutdownDone, ClientDies
<1>8. CASE ConnectFails
  BY <1>0, <1>3, <1>8 DEF ConnectFails, ClientAt, wireVars, Fresh, Unused
<1>9. CASE SendInit
  <2>1. Fresh'
    BY <1>0, <1>9 DEF SendInit, ClientAt, Fresh, Unused
  <2> QED
    BY <1>3, <1>4, <1>9, <2>1 DEF SendInit
<1>10. CASE InitAcked \/ InferReturns \/ InferRefused
  <2>1. /\ \A c \in Clients : c # client => replies'[c] = replies[c]
        /\ cpc \notin {"connect", "healthWait"} /\ cpc' = "ready"
    BY <1>0, <1>10 DEF InitAcked, InferReturns, InferRefused, ClientAt, Read
  <2>2. Fresh'
    BY <1>0, <1>10, <2>1, SMTT(30) DEF InitAcked, InferReturns, InferRefused, Fresh, Unused, Clients
  <2> QED
    BY <1>3, <1>10, <2>2 DEF InitAcked, InferReturns, InferRefused
<1>11. CASE SendInfer
  <2>1. Fresh'
    BY <1>0, <1>11 DEF SendInfer, Fresh, Unused
  <2>2. \A c \in Connections \ serverEnd : requests'[c] = requests[c]
    BY <1>4, <1>11 DEF SendInfer
  <2> QED
    BY <1>3, <1>11, <2>1, <2>2 DEF SendInfer
<1>12. CASE InferFails
  BY <1>0, <1>3, <1>12 DEF InferFails, ClientAt, wireVars, Fresh, Unused
<1>13. CASE HealthReturns
  <2>1. \A c \in Clients : replies'[c] = replies[c]
    BY <1>0, <1>13 DEF HealthReturns, ClientAt, Fresh, Checking, Clients
  <2>2. Fresh'
    BY <1>0, <1>13, <2>1 DEF HealthReturns, ClientAt, Fresh, Unused
  <2> QED
    BY <1>3, <1>13, <2>2 DEF HealthReturns
<1>14. CASE SendShutdown
  <2>1. CASE EndClient /\ RemoveSegment /\ UNCHANGED requests
    BY <1>6, <1>14, <2>1 DEF SendShutdown
  <2>2. CASE cpc' = "shutdownWait" /\ Write([NoMessage EXCEPT !.kind = "shutdown"])
             /\ UNCHANGED <<client, checks, frame, usesShm, cursor, published,
                            clientEnd, replies, segmentFile>>
    <3>1. Fresh'
      BY <1>0, <1>14, <2>2 DEF SendShutdown, Fresh, Unused
    <3> QED
      BY <1>3, <1>4, <1>14, <2>2, <3>1 DEF SendShutdown
  <2> QED
    BY <1>14, <2>1, <2>2 DEF SendShutdown
<1> QED
  BY <1>1, <1>2, <1>5, <1>7, <1>8, <1>9, <1>10, <1>11, <1>12, <1>13, <1>14
     DEF ClientStep

LEMMA BridgeKeepsWired ==
  Typed /\ Wired /\ Fresh /\ (BridgeStep \/ BridgeDies \/ BridgeStarts)
    => Wired' /\ Fresh'
<1> SUFFICES ASSUME Typed, Wired, Fresh, BridgeStep \/ BridgeDies \/ BridgeStarts
             PROVE  Wired' /\ Fresh'
  OBVIOUS
<1> USE SetsAndIds
<1>0. /\ backlog \in Seq(Connections) /\ serving \in Connections \cup {0}
      /\ requests \in [Connections -> Seq(Messages)]
      /\ replies \in [Connections -> Seq(Answers)]
      /\ serverEnd \subseteq Connections
  BY DEF Typed, WireTyped, BridgeTyped
<1>c. UNCHANGED clientVars /\ clientEnd' = clientEnd
  BY DEF BridgeStep, BridgeDies, BridgeStarts, Accept, Receive, HangUp,
         HandleInit, HandleInfer, HandleHealth, HandleShutdown, Reply, wireVars
<1>f. ASSUME serverEnd' \subseteq serverEnd,
             \A c \in Clients \ serverEnd : replies'[c] = replies[c]
      PROVE  Fresh'
  BY <1>c, <1>f DEF clientVars, Fresh, Unused
<1>1. CASE Accept
  <2>1. backlog # <<>> /\ serving' = backlog[1] /\ backlog' = Tail(backlog)
    BY <1>0, <1>1 DEF Accept
  <2>2. \A i \in DOMAIN backlog' : /\ i + 1 \in DOMAIN backlog
                                  /\ backlog'[i] = backlog[i + 1]
                                  /\ i \in Nat
    <3>1. PICK b \in Seq(Connections) : b = backlog /\ b # <<>> /\ backlog' = Tail(b)
      BY <1>0, <2>1, Zenon
    <3>2. /\ Len(b) \in Nat /\ Len(b) >= 1 /\ Len(Tail(b)) = Len(b) - 1
          /\ DOMAIN b = 1..Len(b) /\ DOMAIN Tail(b) = 1..Len(Tail(b))
      BY <3>1
    <3>3. \A i \in 1..(Len(b) - 1) : Tail(b)[i] = b[i + 1]
      BY <3>1
    <3>4. \A i \in 1..(Len(b) - 1) : i \in Nat /\ i + 1 \in 1..Len(b)
      BY <3>2
    <3> QED
      BY <3>1, <3>2, <3>3, <3>4
  <2>3. 1 \in DOMAIN backlog /\ \A i \in DOMAIN backlog' : i + 1 # 1
    BY <1>0, <2>1, <2>2
  <2>4. \A i \in DOMAIN backlog' : backlog'[i] \in serverEnd \ {serving'}
    BY <2>1, <2>2, <2>3 DEF Wired
  <2>5. \A i, j \in DOMAIN backlog' : i # j => backlog'[i] # backlog'[j]
    BY <2>2 DEF Wired
  <2>6. serving' \in serverEnd /\ bpc' = "loop"
    BY <1>1, <2>1, <2>3 DEF Wired, Accept, BridgeAt
  <2>7. Wired'
    BY <1>1, <2>4, <2>5, <2>6 DEF Wired, Accept, BridgeAt
  <2> QED
    BY <1>1, <1>f, <2>7 DEF Accept
<1>2. CASE Receive
  <2>1. serving \in serverEnd
    BY <1>2 DEF Receive, Wired
  <2>2. Wired'
    BY <1>0, <1>2, <2>1 DEF Receive, BridgeAt, Wired
  <2> QED
    BY <1>2, <1>f, <2>2 DEF Receive
<1>3. CASE HangUp
  <2>1. serving' = 0 /\ serverEnd' = serverEnd \ {serving} /\ requests[serving] = <<>>
        /\ bpc' = "loop" /\ bpc = "loop"
        /\ UNCHANGED <<backlog, requests, replies>>
    BY <1>3 DEF HangUp, BridgeAt
  <2>2. \A i \in DOMAIN backlog' : backlog'[i] \in serverEnd' \ {serving'}
    BY <1>0, <2>1 DEF Wired
  <2>3. Wired'
    BY <1>0, <2>1, <2>2 DEF Wired
  <2> QED
    BY <1>f, <2>1, <2>3
<1>4. CASE HandleInit \/ HandleInfer \/ HandleHealth
  <2>1. UNCHANGED <<wireVars, serving>> /\ bpc = "handle" /\ bpc' = "reply"
    BY <1>4 DEF HandleInit, HandleInfer, HandleHealth, BridgeAt
  <2> QED
    BY <1>f, <2>1 DEF wireVars, Wired
<1>5. CASE HandleShutdown \/ BridgeDies
  <2>1. BridgeStops /\ UNCHANGED replies
    BY <1>5 DEF HandleShutdown, BridgeDies
  <2>2. Wired'
    BY <2>1 DEF BridgeStops, Wired
  <2> QED
    BY <1>f, <2>1, <2>2 DEF BridgeStops
<1>6. CASE Reply
  <2>1. bpc = "reply" /\ bpc' = "loop" /\ replies' = Send
        /\ UNCHANGED <<clientEnd, serverEnd, backlog, requests, serving>>
    BY <1>6 DEF Reply, BridgeAt
  <2>2. serving \in serverEnd
    BY <2>1 DEF Wired
  <2>3. \A c \in Clients \ serverEnd : replies'[c] = replies[c]
    BY <1>0, <2>1, <2>2 DEF Send
  <2>4. Wired'
    BY <2>1 DEF Wired
  <2> QED
    BY <1>f, <2>1, <2>3, <2>4
<1>7. CASE BridgeStarts
  <2>1. bpc = "down" /\ bpc' = "loop" /\ UNCHANGED <<wireVars, serving>>
    BY <1>7 DEF BridgeStarts, BridgeAt
  <2> QED
    BY <1>f, <2>1 DEF wireVars, Wired
<1> QED
  BY <1>1, <1>2, <1>3, <1>4, <1>5, <1>6, <1>7 DEF BridgeStep

-----------------------------------------------------------------------------
(* The calls under way.                                                    *)
Calls == Silent /\ Handshake /\ Streaming /\ Leaving

LEMMA CallsTyped ==
  ASSUME Typed
  PROVE  /\ client \in Connections /\ client \in Clients
         /\ requests[client] \in Seq(Messages) /\ replies[client] \in Seq(Answers)
         /\ Len(requests[client]) \in Nat /\ Len(replies[client]) \in Nat
         /\ frame \in Nat /\ cursor \in BufferIds
BY SetsAndIds DEF Typed, ClientTyped, WireTyped

(* The places behind the head of a queue of n + 1.                         *)
LEMMA BehindHead ==
  ASSUME NEW n \in Nat
  PROVE  /\ 1 \in 1..(n + 1)
         /\ \A j \in 1..n : j + 1 \in 1..(n + 1) /\ n + 1 - (j + 1) = n - j
OBVIOUS

(* What is under way, by whether the bridge works on one of the calls.     *)
LEMMA OutstandingIs ==
  /\ serving = client /\ Working
       => Outstanding(client) = Len(requests[client]) + Len(replies[client]) + 1
  /\ ~(serving = client /\ Working)
       => Outstanding(client) = Len(requests[client]) + Len(replies[client]) + 0
BY Zenon DEF Outstanding

LEMMA OutstandingPrimed ==
  /\ (serving = client /\ Working)'
       => Outstanding(client)' = Len(requests[client])' + Len(replies[client])' + 1
  /\ ~(serving = client /\ Working)'
       => Outstanding(client)' = Len(requests[client])' + Len(replies[client])' + 0
BY Zenon DEF Outstanding

(* A client that waits for nothing, or has not connected, has no calls to  *)
(* account for.                                                            *)
LEMMA NoCalls ==
  ASSUME cpc' \in {"connect", "down"}
  PROVE  Calls'
BY DEF Calls, Silent, Handshake, Streaming, Leaving

(* A step that the client and its part of the bridge do not see.           *)
Unseen == /\ UNCHANGED <<client, frame, usesShm, cursor, segmentFile, shm>>
          /\ client \in clientEnd => client \in clientEnd'
          /\ requests'[client] = requests[client]
          /\ replies'[client] = replies[client]
          /\ client \in serverEnd' => client \in serverEnd
          /\ serving' = client <=> serving = client
          /\ serving = client => UNCHANGED <<bpc, job, answer, mapped, declared>>

LEMMA UnseenKeepsOutstanding ==
  ASSUME Unseen
  PROVE  Outstanding(client)' = Outstanding(client)
BY DEF Unseen, Outstanding, Working

LEMMA UnseenKeepsCalls ==
  ASSUME Typed, Calls, Unseen, cpc' = cpc
  PROVE  Calls'
<1>1. Outstanding(client)' = Outstanding(client)
  BY UnseenKeepsOutstanding
<1>2. Silent' /\ Leaving'
  BY <1>1 DEF Calls, Unseen, Silent, Leaving, InPlace
<1>3. serving = client => (Opened' <=> Opened)
  BY DEF Unseen, Opened
<1>4. Handshake'
  BY <1>1, <1>3 DEF Calls, Unseen, Handshake, IsInit
<1>5. Streaming'
  BY <1>1, <1>3 DEF Calls, Unseen, Streaming, IsAbout, Placed
<1> QED
  BY <1>2, <1>4, <1>5 DEF Calls

LEMMA UnseenKeepsStreaming ==
  ASSUME Typed, Calls, Unseen,
         cpc \in {"ready", "healthWait", "inferWait"},
         cpc' \in {"ready", "healthWait", "inferWait"}
  PROVE  Calls'
<1>1. Outstanding(client)' = Outstanding(client)
  BY UnseenKeepsOutstanding
<1>2. Silent' /\ Leaving' /\ Handshake'
  BY DEF Silent, Leaving, Handshake
<1>3. serving = client => (Opened' <=> Opened)
  BY DEF Unseen, Opened
<1>4. Streaming'
  BY <1>1, <1>3 DEF Calls, Unseen, Streaming, IsAbout, Placed
<1> QED
  BY <1>2, <1>4 DEF Calls

LEMMA ConnectKeepsCalls == Typed /\ Wired /\ Fresh /\ ConnectOk => Calls'
<1> SUFFICES ASSUME Typed, Wired, Fresh, ConnectOk PROVE Calls'
  OBVIOUS
<1>1. /\ client \notin serverEnd /\ replies[client] = <<>>
      /\ client \in Clients /\ client \in Connections /\ client # 0
  BY CallsTyped, SetsAndIds DEF Fresh, Unused, ConnectOk, ClientAt
<1>2. requests[client] = <<>> /\ serving # client
  BY <1>1 DEF Wired
<1>3. /\ cpc' = "init" /\ client \in clientEnd' /\ client' = client
      /\ UNCHANGED <<requests, replies, serving>>
  BY DEF ConnectOk, ClientAt, bridgeVars
<1>4. Outstanding(client)' = 0
  <2>1. ~(serving = client /\ Working)'
    BY <1>2, <1>3
  <2>2. Len(requests[client])' = 0 /\ Len(replies[client])' = 0
    BY <1>1, <1>2, <1>3
  <2> QED
    BY <2>1, <2>2, OutstandingPrimed
<1> QED
  BY <1>3, <1>4 DEF Calls, Silent, Handshake, Streaming, Leaving

LEMMA SendInitKeepsCalls == Typed /\ Wired /\ Calls /\ SendInit => Calls'
<1> SUFFICES ASSUME Typed, Wired, Calls, SendInit PROVE Calls'
  OBVIOUS
<1> DEFINE msg == [NoMessage EXCEPT !.kind = "init", !.shm = usesShm']
<1>1. /\ Outstanding(client) = 0 /\ client \in clientEnd
      /\ requests[client] \in Seq(Messages) /\ replies[client] \in Seq(Answers)
      /\ client \in Connections
      /\ requests \in [Connections -> Seq(Messages)]
  BY CallsTyped DEF Typed, WireTyped, Calls, Silent, SendInit, ClientAt
<1>2. /\ Len(requests[client]) = 0 /\ Len(replies[client]) = 0
      /\ ~(serving = client /\ Working)
  BY <1>1, OutstandingIs
<1>3. requests[client] = <<>> /\ replies[client] = <<>>
  BY <1>1, <1>2
<1>4. msg.kind = "init" /\ msg.shm = usesShm'
  BY DEF NoMessage
<1> HIDE DEF msg
<1>5. requests'[client] = <<msg>>
  BY <1>1, <1>3 DEF SendInit, Write, msg
<1>6. /\ cpc' = "initWait" /\ UNCHANGED <<client, clientEnd, replies, bridgeVars>>
      /\ usesShm' => segmentFile' = client
  BY DEF SendInit, ClientAt, CreateSegment
<1>7. Outstanding(client)' = 1
  <2>1. ~(serving = client /\ Working)'
    BY <1>2, <1>6 DEF Working, bridgeVars
  <2>2. Len(requests'[client]) = 1 /\ Len(replies'[client]) = 0
    BY <1>3, <1>5, <1>6
  <2> QED
    BY <1>6, <2>1, <2>2, OutstandingPrimed
<1>8. Handshake'
  <2>1. DOMAIN requests'[client] = {1} /\ requests'[client][1] = msg
    BY <1>5
  <2>2. DOMAIN replies'[client] = {}
    BY <1>3, <1>6
  <2> QED
    BY <1>1, <1>2, <1>4, <1>6, <1>7, <2>1, <2>2
       DEF Handshake, IsInit, Working, bridgeVars
<1> QED
  BY <1>6, <1>8 DEF Calls, Silent, Streaming, Leaving

LEMMA AckKeepsCalls == Typed /\ Wired /\ Calls /\ InitAcked => Calls'
<1> SUFFICES ASSUME Typed, Wired, Calls, InitAcked PROVE Calls'
  OBVIOUS
<1>0. /\ requests[client] \in Seq(Messages) /\ replies[client] \in Seq(Answers)
      /\ client \in Connections /\ replies \in [Connections -> Seq(Answers)]
      /\ frame \in Nat
  BY CallsTyped DEF Typed, WireTyped
<1>1. /\ cpc = "initWait" /\ cpc' = "ready" /\ replies[client] # <<>>
      /\ Head(replies[client]).kind = "init_ack"
      /\ replies'[client] = Tail(replies[client])
      /\ UNCHANGED <<client, frame, usesShm, clientEnd, serverEnd, requests,
                     bridgeVars>>
  BY <1>0 DEF InitAcked, ClientAt, NextReplyIs, Read
<1>2. Handshake /\ Outstanding(client) <= 1
  BY <1>1 DEF Calls, Handshake
<1>3. 1 \in DOMAIN replies[client] /\ replies[client][1].kind = "init_ack"
      /\ Len(replies[client]) >= 1
  BY <1>0, <1>1
<1>4. Len(replies[client]) = 1 /\ Len(requests[client]) = 0
      /\ ~(serving = client /\ Working)
  <2>1. PICK a \in Nat, b \in Nat :
          a = Len(requests[client]) /\ b = Len(replies[client])
    BY <1>0
  <2>2. b >= 1
    BY <1>3, <2>1
  <2>3. CASE serving = client /\ Working
    <3>1. Outstanding(client) = a + b + 1
      BY <2>1, <2>3, OutstandingIs, Zenon
    <3>2. a + b + 1 <= 1
      BY <1>2, <3>1, Zenon
    <3> QED
      BY <2>2, <3>2
  <2>4. CASE ~(serving = client /\ Working)
    <3>1. Outstanding(client) = a + b + 0
      BY <2>1, <2>4, OutstandingIs, Zenon
    <3>2. a + b + 0 <= 1
      BY <1>2, <3>1, Zenon
    <3>3. b = 1 /\ a = 0
      BY <2>2, <3>2
    <3> QED
      BY <2>1, <2>4, <3>3, Zenon
  <2> QED
    BY <2>3, <2>4, Zenon
<1>5. requests'[client] = <<>> /\ replies'[client] = <<>>
  <2>1. PICK q \in Seq(Messages), r \in Seq(Answers) :
          q = requests[client] /\ r = replies[client]
    BY <1>0
  <2>2. Len(q) = 0 /\ Len(r) = 1 /\ requests'[client] = q /\ replies'[client] = Tail(r)
    BY <1>1, <1>4, <2>1, Zenon
  <2>3. q = <<>>
    BY <2>2
  <2>4. Tail(r) = <<>>
    BY <2>2
  <2> QED
    BY <2>2, <2>3, <2>4, Zenon
<1>6. client \in serverEnd => serving = client /\ Opened
  BY <1>1, <1>2, <1>3 DEF Handshake
<1>7. Opened' <=> Opened
  BY <1>1 DEF Opened, bridgeVars
<1>8. Streaming'
  <2>1. DOMAIN requests'[client] = {} /\ DOMAIN replies'[client] = {}
    BY <1>5
  <2> QED
    BY <1>1, <1>2, <1>4, <1>6, <1>7, <2>1
       DEF Streaming, Handshake, Working, bridgeVars
<1> QED
  BY <1>1, <1>8 DEF Calls, Silent, Handshake, Leaving

(* A frame goes out: it is placed, and those before it stay where they     *)
(* are unless the round robin has come back to their buffer.               *)
LEMMA FrameIsPlaced ==
  ASSUME Typed, SendInfer, NEW m \in Messages, NEW s \in Nat, s <= frame,
         Placed(m, s)
  PROVE  Placed(m, s)'
<1>0. /\ client \in Clients /\ frame \in Nat /\ cursor \in BufferIds
      /\ shm \in [Clients -> [BufferIds -> Nat]] /\ m.buf \in BufferIds
  BY DEF Typed, ClientTyped, ShmTyped, Messages
<1>1. frame' = frame + 1 /\ UNCHANGED <<client, usesShm>>
  BY DEF SendInfer
<1>2. CASE ~usesShm
  BY <1>0, <1>1, <1>2 DEF Placed
<1>3. CASE usesShm /\ ~(frame + 1 - s < Buffers)
  <2>1. /\ shm[client][m.buf] \in s..frame
        /\ shm' = [shm EXCEPT ![client][cursor] = frame']
    BY <1>3 DEF Placed, SendInfer, WriteFrame
  <2>2. shm'[client][m.buf] \in {shm[client][m.buf], frame + 1}
    BY <1>0, <1>1, <2>1
  <2>3. shm'[client][m.buf] \in s..(frame + 1)
    BY <1>0, <2>1, <2>2
  <2> QED
    BY <1>0, <1>1, <1>3, <2>3 DEF Placed
<1>4. CASE usesShm /\ frame + 1 - s < Buffers
  <2>1. /\ shm[client][m.buf] = s
        /\ cursor - m.buf \in {frame - s + 1, frame - s + 1 - Buffers}
    BY <1>0, <1>4, BridgeAssumption DEF Placed
  <2>2. /\ shm' = [shm EXCEPT ![client][cursor] = frame']
        /\ cursor' = IF cursor + 1 = Buffers THEN 0 ELSE cursor + 1
    BY <1>0, <1>4, NextBuffer DEF SendInfer, WriteFrame
  <2>3. m.buf # cursor
    BY <1>0, <1>4, <2>1, BridgeAssumption DEF BufferIds
  <2>4. shm'[client][m.buf] = s
    BY <1>0, <2>1, <2>2, <2>3
  <2>5. cursor' - m.buf \in {frame + 1 - s + 1, frame + 1 - s + 1 - Buffers}
    <3>1. PICK b \in BufferIds : b = m.buf
      BY <1>0
    <3>2. /\ b \in Nat /\ b < Buffers /\ cursor \in Nat /\ cursor < Buffers
          /\ cursor - b = frame - s + 1 \/ cursor - b = frame - s + 1 - Buffers
          /\ Buffers \in Nat
      BY <1>0, <2>1, <3>1, BridgeAssumption, SMTT(30) DEF BufferIds
    <3>3. CASE cursor + 1 = Buffers
      <4>1. cursor' = 0
        BY <2>2, <3>3
      <4>2. cursor - b = frame - s + 1
        BY <1>0, <1>4, <3>2, <3>3
      <4> QED
        BY <1>0, <3>1, <3>2, <3>3, <4>1, <4>2
    <3>4. CASE cursor + 1 # Buffers
      <4>1. cursor' = cursor + 1
        BY <2>2, <3>4
      <4> QED
        BY <1>0, <3>1, <3>2, <4>1
    <3> QED
      BY <3>3, <3>4
  <2>6. s \in s..(frame + 1)
    BY <1>0
  <2> QED
    BY <1>0, <1>1, <2>4, <2>5, <2>6 DEF Placed
<1> QED
  BY <1>2, <1>3, <1>4

LEMMA NewFrameIsPlaced ==
  ASSUME Typed, SendInfer, NEW m,
         m = [kind |-> "infer", shm |-> usesShm, seq |-> frame',
              buf |-> IF usesShm THEN cursor ELSE 0]
  PROVE  Placed(m, frame)'
<1>0. /\ client \in Clients /\ frame \in Nat /\ cursor \in BufferIds
      /\ shm \in [Clients -> [BufferIds -> Nat]]
  BY DEF Typed, ClientTyped, ShmTyped
<1>1. frame' = frame + 1 /\ UNCHANGED <<client, usesShm>>
  BY DEF SendInfer
<1>2. m.kind = "infer" /\ m.seq = frame + 1 /\ m.shm = usesShm
      /\ (usesShm => m.buf = cursor)
  BY <1>1
<1>3. ASSUME usesShm
      PROVE  /\ shm'[client][m.buf] = frame + 1
             /\ cursor' - m.buf \in {1, 1 - Buffers}
  <2>1. /\ shm' = [shm EXCEPT ![client][cursor] = frame']
        /\ cursor' = IF cursor + 1 = Buffers THEN 0 ELSE cursor + 1
    BY <1>0, <1>3, NextBuffer DEF SendInfer, WriteFrame
  <2>2. shm'[client][cursor] = frame + 1
    BY <1>0, <1>1, <2>1
  <2>3. cursor' - cursor \in {1, 1 - Buffers}
    BY <1>0, <2>1, BridgeAssumption DEF BufferIds
  <2> QED
    BY <1>2, <1>3, <2>2, <2>3
<1>4. frame' - frame' + 1 = 1
  BY <1>0, <1>1
<1>5. ASSUME usesShm'
      PROVE  /\ shm'[client'][m.buf] = frame'
             /\ cursor' - m.buf \in {frame' - frame' + 1, frame' - frame' + 1 - Buffers}
  <2>1. shm'[client][m.buf] = frame + 1 /\ cursor' - m.buf \in {1, 1 - Buffers}
    BY <1>1, <1>3, <1>5
  <2>2. shm'[client'][m.buf] = frame'
    BY <1>1, <2>1
  <2>3. frame' - frame' + 1 - Buffers = 1 - Buffers
    BY <1>0, <1>1, BridgeAssumption
  <2>4. cursor' - m.buf \in {frame' - frame' + 1, frame' - frame' + 1 - Buffers}
    BY <1>4, <2>1, <2>3, Zenon
  <2> QED
    BY <2>2, <2>4
<1>6. m.kind = "infer" /\ m.seq = frame' /\ m.shm = usesShm'
  BY <1>1, <1>2
<1>7. frame' \in frame'..frame'
  BY <1>0, <1>1
<1> QED
  BY <1>1, <1>5, <1>6, <1>7, Zenon DEF Placed

(* What an answer may be about stays so when the next frame goes out.      *)
LEMMA IsAboutLasts ==
  ASSUME frame \in Nat, frame' = frame + 1, UNCHANGED usesShm,
         NEW r, NEW s \in Int, IsAbout(r, s)
  PROVE  IsAbout(r, s)'
<1>1. CASE r.about \in {NoPixels, s}
  BY <1>1 DEF IsAbout
<1>2. CASE usesShm /\ frame - s >= Buffers /\ r.about \in s..frame
  <2>1. frame' - s >= Buffers /\ r.about \in s..frame'
    BY <1>2, BridgeAssumption
  <2> QED
    BY <1>2, <2>1 DEF IsAbout
<1> QED
  BY <1>1, <1>2 DEF IsAbout

LEMMA SendInferKeepsCalls == Typed /\ Wired /\ Calls /\ SendInfer => Calls'
<1> SUFFICES ASSUME Typed, Wired, Calls, SendInfer PROVE Calls'
  OBVIOUS
<1>0. /\ requests[client] \in Seq(Messages) /\ replies[client] \in Seq(Answers)
      /\ client \in Connections /\ frame \in Nat /\ usesShm \in BOOLEAN
      /\ cursor \in BufferIds
      /\ requests \in [Connections -> Seq(Messages)]
  BY CallsTyped DEF Typed, ClientTyped, WireTyped
<1>1. /\ cpc = "ready" /\ cpc' \in {"ready", "inferWait"} /\ frame' = frame + 1
      /\ UNCHANGED <<client, usesShm, clientEnd, serverEnd, replies, bridgeVars>>
  BY DEF SendInfer
<1>2. Streaming
  BY DEF Calls
<1>3. Opened' <=> Opened
  BY <1>1 DEF Opened, bridgeVars
<1>4. CASE client \notin serverEnd
  <2>1. requests[client] = <<>> /\ serving # client
    BY <1>0, <1>4, SetsAndIds DEF Wired
  <2>2. UNCHANGED requests
    BY <1>4 DEF SendInfer, Write
  <2>3. DOMAIN requests[client] = {}
    BY <2>1
  <2>4. Streaming'
    BY <1>1, <1>2, <1>4, <2>1, <2>2, <2>3 DEF Streaming, bridgeVars
  <2> QED
    BY <1>1, <2>4 DEF Calls, Silent, Handshake, Leaving
<1>5. CASE client \in serverEnd
  <2>1. PICK msg : msg = [kind |-> "infer", shm |-> usesShm, seq |-> frame',
                          buf |-> IF usesShm THEN cursor ELSE 0]
    OBVIOUS
  <2>2. msg \in Messages
    <3>1. frame' \in Nat /\ (IF usesShm THEN cursor ELSE 0) \in BufferIds
      BY <1>0, <1>1, SetsAndIds
    <3> QED
      BY <1>0, <2>1, <3>1, CallTyped
  <2>3. PICK q \in Seq(Messages), r \in Seq(Answers) :
          q = requests[client] /\ r = replies[client]
    BY <1>0
  <2>4. requests'[client] = Append(q, msg)
    BY <1>0, <1>5, <2>1, <2>3 DEF SendInfer, Write
  <2>5. PICK n \in Nat, f \in Nat : n = Len(q) /\ f = frame
    BY <1>0
  <2>6. /\ DOMAIN q = 1..n /\ DOMAIN Append(q, msg) = 1..(n + 1)
        /\ Len(Append(q, msg)) = n + 1
        /\ \A j \in 1..n : Append(q, msg)[j] = q[j] /\ q[j] \in Messages
        /\ Append(q, msg)[n + 1] = msg
    BY <2>2, <2>5
  <2>7. serving = client /\ Opened
    BY <1>1, <1>2, <1>5 DEF Streaming
  <2>8. \A j \in 1..n : Placed(q[j], f - n + j)
    BY <1>1, <1>2, <2>3, <2>5, <2>6 DEF Streaming
  <2>9. ASSUME NEW j \in 1..(n + 1)
        PROVE  Placed(requests[client][j], frame - Len(requests[client]) + j)'
    <3>1. PICK m, s : m = requests'[client][j] /\ s = f - n + j
      OBVIOUS
    <3>2. s = frame' - Len(requests'[client]) + j
      BY <1>0, <1>1, <2>4, <2>5, <2>6, <3>1, SMTT(30)
    <3>3. Placed(m, s)'
      <4>1. CASE j = n + 1
        <5>1. m = msg /\ s = frame + 1
          BY <2>4, <2>5, <2>6, <3>1, <4>1
        <5>2. Placed(msg, frame)'
          BY <2>1, NewFrameIsPlaced
        <5> QED
          BY <1>1, <5>1, <5>2
      <4>2. CASE j \in 1..n
        <5>1. m \in Messages /\ Placed(m, s) /\ m = q[j]
          BY <2>4, <2>6, <2>8, <3>1, <4>2
        <5>2. s \in Nat /\ s <= frame
          <6>1. m.seq = s /\ m.seq \in Nat
            BY <5>1 DEF Placed, Messages
          <6> QED
            BY <2>5, <3>1, <4>2, <6>1
        <5> QED
          BY <5>1, <5>2, FrameIsPlaced
      <4> QED
        BY <2>9, <4>1, <4>2
    <3> QED
      BY <1>1, <3>1, <3>2, <3>3
  <2>10. PICK d \in Int :
           /\ d = frame - Outstanding(client) /\ d = frame' - Outstanding(client)'
    <3>1. /\ Len(requests[client])' = n + 1 /\ Len(replies[client])' = Len(r)
          /\ Len(requests[client]) = n /\ Len(replies[client]) = Len(r)
          /\ Len(r) \in Nat
      BY <1>1, <2>3, <2>4, <2>5, <2>6
    <3>2. (serving = client /\ Working)' <=> (serving = client /\ Working)
      BY <1>1 DEF bridgeVars, Working
    <3>3. PICK a \in {0, 1} : a = IF serving = client /\ Working THEN 1 ELSE 0
      OBVIOUS
    <3>4. Outstanding(client) = n + Len(r) + a
      BY <3>1, <3>3, OutstandingIs
    <3>5. Outstanding(client)' = n + 1 + Len(r) + a
      <4>1. Len(requests[client])' = n + 1 /\ Len(replies[client])' = Len(r)
        BY <3>1
      <4>2. CASE serving = client /\ Working
        <5>1. Outstanding(client)' = n + 1 + Len(r) + 1
          BY <3>2, <4>1, <4>2, OutstandingPrimed, Zenon
        <5> QED BY <3>3, <4>2, <5>1, Zenon
      <4>3. CASE ~(serving = client /\ Working)
        <5>1. Outstanding(client)' = n + 1 + Len(r) + 0
          BY <3>2, <4>1, <4>3, OutstandingPrimed, Zenon
        <5> QED BY <3>3, <4>3, <5>1, Zenon
      <4> QED BY <4>2, <4>3
    <3>6. PICK x \in Int, y \in Int :
            x = Outstanding(client) /\ y = Outstanding(client)' /\ y = x + 1
      <4>1. PICK l \in Nat : l = Len(r)
        BY <3>1
      <4>2. PICK x \in Int, y \in Int : x = n + l + a /\ y = n + 1 + l + a /\ y = x + 1
        <5>1. n + l + a \in Int /\ n + 1 + l + a = n + l + a + 1 /\ n + 1 + l + a \in Int
          OBVIOUS
        <5> QED BY <5>1, Zenon
      <4>3. x = Outstanding(client) /\ y = Outstanding(client)'
        BY <3>4, <3>5, <4>1, <4>2, Zenon
      <4> QED BY <4>2, <4>3, Zenon
    <3>7. PICK d \in Int, g \in Int : d = frame - x /\ d = g - y /\ g = frame'
      <4>1. frame \in Nat /\ frame' = frame + 1
        BY <1>0, <1>1, <2>5
      <4>2. frame - x \in Int /\ frame - x = frame + 1 - y
        BY <3>6, <4>1
      <4> QED BY <4>1, <4>2
    <3> QED
      BY <3>6, <3>7, Zenon
  <2>11. ASSUME NEW i \in DOMAIN r
         PROVE  /\ r[i].kind = "infer_ack"
                /\ IsAbout(replies[client][i], frame - Outstanding(client) + i)'
    <3>1. r[i].kind = "infer_ack" /\ IsAbout(r[i], d + i)
      <4>1. \A j \in DOMAIN r : r[j].kind = "infer_ack"
                                /\ IsAbout(r[j], frame - Outstanding(client) + j)
        BY <1>1, <1>2, <1>5, <2>3 DEF Streaming
      <4> QED BY <2>10, <2>11, <4>1, Zenon
    <3>2. IsAbout(r[i], d + i)'
      <4>1. PICK t \in Int : t = d + i
        BY <2>3, <2>10, <2>11
      <4>2. IsAbout(r[i], t)
        BY <3>1, <4>1
      <4>3. IsAbout(r[i], t)'
        BY <1>0, <1>1, <4>2, IsAboutLasts
      <4> QED
        BY <4>1, <4>3
    <3> QED
      BY <1>1, <2>3, <2>10, <3>1, <3>2
  <2>12. bpc = "reply" => /\ answer.kind = "infer_ack"
                          /\ IsAbout(answer, frame - Len(requests[client]))'
    <3>1. bpc = "reply" => answer.kind = "infer_ack" /\ IsAbout(answer, f - n)
      BY <1>1, <1>2, <2>3, <2>5, <2>7 DEF Streaming
    <3>2. frame' - Len(requests'[client]) = f - n
      BY <1>1, <2>4, <2>5, <2>6
    <3>3. answer' = answer /\ client' = client
      BY <1>1 DEF bridgeVars
    <3>4. ASSUME bpc = "reply" PROVE IsAbout(answer, frame - Len(requests[client]))'
      <4>1. PICK a, t : a = answer /\ t = f - n /\ t \in Int
        BY <2>5
      <4>2. IsAbout(a, t)
        BY <3>1, <3>4, <4>1
      <4>3. IsAbout(a, t)'
        BY <1>0, <1>1, <4>1, <4>2, IsAboutLasts
      <4>4. answer' = a /\ frame' - Len(requests'[client']) = t
        BY <3>2, <3>3, <4>1
      <4> QED
        BY <4>3, <4>4, Zenon
    <3> QED
      BY <3>1, <3>3, <3>4
  <2>13. bpc = "handle" => Placed(job, frame - Len(requests[client]))'
    <3>1. PICK s : s = f - n
      OBVIOUS
    <3>2. ASSUME bpc = "handle" PROVE Placed(job, s)'
      <4>1. Placed(job, s) /\ job \in Messages
        BY <1>1, <1>2, <2>3, <2>5, <2>7, <3>1, <3>2
           DEF Streaming, Typed, BridgeTyped
      <4>2. s \in Nat /\ s <= frame
        BY <2>5, <3>1, <4>1 DEF Placed, Messages
      <4>3. PICK m : m = job
        OBVIOUS
      <4>4. Placed(m, s)'
        BY <4>1, <4>2, <4>3, FrameIsPlaced
      <4> QED
        BY <1>1, <4>3, <4>4 DEF bridgeVars
    <3>3. frame' - Len(requests'[client]) = s
      BY <1>1, <2>4, <2>5, <2>6, <3>1
    <3> QED
      BY <1>1, <3>2, <3>3
  <2>14. Streaming'
    BY <1>1, <1>2, <1>3, <2>3, <2>4, <2>6, <2>7, <2>9, <2>11, <2>12, <2>13
       DEF Streaming, bridgeVars
  <2> QED
    BY <1>1, <2>14 DEF Calls, Silent, Handshake, Leaving
<1> QED
  BY <1>4, <1>5

LEMMA ReturnKeepsCalls ==
  Typed /\ Wired /\ Calls /\ (InferReturns \/ InferRefused) => Calls'
<1> SUFFICES ASSUME Typed, Wired, Calls, InferReturns \/ InferRefused PROVE Calls'
  OBVIOUS
<1>0. /\ requests[client] \in Seq(Messages) /\ replies[client] \in Seq(Answers)
      /\ client \in Connections /\ frame \in Nat
      /\ replies \in [Connections -> Seq(Answers)]
  BY CallsTyped DEF Typed, ClientTyped, WireTyped
<1>1. /\ cpc = "inferWait" /\ cpc' = "ready" /\ replies[client] # <<>>
      /\ replies'[client] = Tail(replies[client])
      /\ UNCHANGED <<client, frame, usesShm, cursor, shmVars, clientEnd, serverEnd,
                     requests, bridgeVars>>
  BY <1>0 DEF InferReturns, InferRefused, ClientAt, Read
<1>2. Streaming
  BY DEF Calls
<1>3. Opened' <=> Opened
  BY <1>1 DEF Opened, bridgeVars
<1>4. PICK r \in Seq(Answers) : r = replies[client]
  BY <1>0
<1>5. PICK k \in Nat : Len(r) = k + 1
  BY <1>1, <1>4
<1>6. /\ DOMAIN Tail(r) = 1..k /\ Len(Tail(r)) = k /\ DOMAIN r = 1..(k + 1)
      /\ \A i \in 1..k : Tail(r)[i] = r[i + 1]
  BY <1>1, <1>4, <1>5
<1>7. frame - Outstanding(client)' = frame - Outstanding(client) + 1
      /\ frame - Outstanding(client) \in Int
  <2>1. /\ Len(requests[client])' = Len(requests[client]) /\ Len(replies[client])' = k
        /\ Len(replies[client]) = k + 1 /\ Len(requests[client]) \in Nat
    BY <1>0, <1>1, <1>4, <1>5, <1>6
  <2>2. (serving = client /\ Working)' <=> (serving = client /\ Working)
    BY <1>1 DEF bridgeVars, Working
  <2>3. CASE serving = client /\ Working
    <3>1. /\ Outstanding(client) = Len(requests[client]) + Len(replies[client]) + 1
          /\ Outstanding(client)' = Len(requests[client])' + Len(replies[client])' + 1
      BY <2>2, <2>3, OutstandingIs, OutstandingPrimed, Zenon
    <3> QED
      BY <1>0, <2>1, <3>1
  <2>4. CASE ~(serving = client /\ Working)
    <3>1. /\ Outstanding(client) = Len(requests[client]) + Len(replies[client]) + 0
          /\ Outstanding(client)' = Len(requests[client])' + Len(replies[client])' + 0
      BY <2>2, <2>4, OutstandingIs, OutstandingPrimed, Zenon
    <3> QED
      BY <1>0, <2>1, <3>1
  <2> QED
    BY <2>3, <2>4
<1>8. PICK d \in Int : /\ d = frame - Outstanding(client)
                       /\ d + 1 = frame' - Outstanding(client)'
  BY <1>1, <1>7
<1>9. ASSUME NEW i \in 1..k
      PROVE  /\ replies'[client][i].kind = "infer_ack"
             /\ client \in serverEnd =>
                  IsAbout(replies[client][i], frame - Outstanding(client) + i)'
  <2>1. /\ replies'[client][i] = r[i + 1] /\ i + 1 \in DOMAIN r
        /\ d + (i + 1) = d + 1 + i
    <3>1. i \in Nat /\ i + 1 \in 1..(k + 1) /\ d + (i + 1) = d + 1 + i
      BY <1>5, <1>8
    <3>2. replies'[client] = Tail(r)
      BY <1>1, <1>4
    <3> QED
      BY <1>6, <3>1, <3>2, Zenon
  <2>2. /\ r[i + 1].kind = "infer_ack"
        /\ client \in serverEnd => IsAbout(r[i + 1], d + (i + 1))
    BY <1>1, <1>2, <1>4, <1>8, <2>1 DEF Streaming
  <2> QED
    BY <1>1, <1>8, <2>1, <2>2 DEF IsAbout
<1>10. Streaming'
  BY <1>1, <1>2, <1>3, <1>4, <1>6, <1>9, ZenonT(60)
     DEF Streaming, Placed, IsAbout, bridgeVars, shmVars
<1> QED
  BY <1>1, <1>10 DEF Calls, Silent, Handshake, Leaving

(* The shutdown goes out behind the frames that are still under way.       *)
LEMMA ShutdownKeepsCalls == Typed /\ Wired /\ Calls /\ SendShutdown => Calls'
<1> SUFFICES ASSUME Typed, Wired, Calls, SendShutdown PROVE Calls'
  OBVIOUS
<1>0. /\ requests[client] \in Seq(Messages) /\ client \in Connections
      /\ frame \in Nat /\ requests \in [Connections -> Seq(Messages)]
  BY CallsTyped DEF Typed, ClientTyped, WireTyped
<1>1. CASE EndClient
  BY <1>1, NoCalls DEF EndClient
<1>2. CASE ~EndClient
  <2>1. PICK msg : msg = [NoMessage EXCEPT !.kind = "shutdown"]
    OBVIOUS
  <2>2. msg \in Messages /\ msg.kind = "shutdown"
    BY <2>1, CallTyped, SetsAndIds DEF NoMessage
  <2>3. /\ cpc = "ready" /\ cpc' = "shutdownWait" /\ client \in serverEnd
        /\ requests'[client] = Append(requests[client], msg)
        /\ UNCHANGED <<client, frame, usesShm, shm, bridgeVars>>
    BY <1>0, <1>2, <2>1 DEF SendShutdown, Write
  <2>4. PICK q \in Seq(Messages), n \in Nat : q = requests[client] /\ n = Len(q)
    BY <1>0
  <2>5. /\ DOMAIN q = 1..n /\ DOMAIN Append(q, msg) = 1..(n + 1)
        /\ Len(Append(q, msg)) = n + 1
        /\ \A j \in 1..n : Append(q, msg)[j] = q[j]
        /\ Append(q, msg)[n + 1] = msg
    BY <2>2, <2>4
  <2>6. Streaming /\ serving = client
    BY <2>3 DEF Calls, Streaming
  <2>7. bpc = "handle" => InPlace(job, n + 1)
    <3>1. bpc = "handle" => Placed(job, frame - n)
      BY <2>3, <2>4, <2>6 DEF Streaming
    <3> QED
      BY <1>0, <2>4, <3>1 DEF Placed, InPlace
  <2>8. ASSUME NEW j \in 1..(n + 1)
        PROVE  InPlace(Append(q, msg)[j], n + 1 - j)
    <3>1. CASE j = n + 1
      <4>1. Append(q, msg)[j] = msg
        BY <2>5, <3>1
      <4> QED
        BY <2>2, <4>1 DEF InPlace
    <3>2. CASE j \in 1..n
      <4>1. Placed(q[j], frame - n + j)
        BY <2>3, <2>4, <2>5, <2>6, <3>2 DEF Streaming
      <4>2. InPlace(q[j], n - j)
        BY <1>0, <2>4, <3>2, <4>1 DEF Placed, InPlace
      <4>3. n + 1 - j = n - j + 1 /\ n - j \in Int /\ q[j].seq = frame - n + j
        BY <2>4, <3>2, <4>1 DEF Placed
      <4> QED
        BY <1>0, <2>4, <2>5, <3>2, <4>2, <4>3 DEF InPlace
    <3>3. j = n + 1 \/ j \in 1..n
      BY <2>4
    <3> QED
      BY <3>1, <3>2, <3>3, Zenon
  <2>9. Leaving'
    <3>1. /\ requests'[client'] = Append(q, msg) /\ Len(requests'[client']) = n + 1
          /\ DOMAIN requests'[client'] = 1..(n + 1)
      BY <2>3, <2>4, <2>5
    <3>2. bpc = "handle" => InPlace(job, Len(requests[client]))'
      BY <2>3, <2>7, <3>1 DEF InPlace, bridgeVars
    <3>3. ASSUME NEW j \in 1..(n + 1)
          PROVE  InPlace(requests[client][j], Len(requests[client]) - j)'
      <4>1. PICK m, k : m = Append(q, msg)[j] /\ k = n + 1 - j
        OBVIOUS
      <4>2. InPlace(m, k)
        BY <2>8, <4>1
      <4>3. InPlace(m, k)'
        BY <2>3, <4>2 DEF InPlace
      <4>4. m = requests'[client'][j] /\ k = Len(requests'[client']) - j
        BY <3>1, <4>1
      <4> QED
        BY <4>3, <4>4
    <3> QED
      BY <2>3, <3>1, <3>2, <3>3 DEF Leaving, bridgeVars
  <2> QED
    BY <2>3, <2>9 DEF Calls, Silent, Handshake, Streaming
<1> QED
  BY <1>1, <1>2

LEMMA ClientKeepsCalls ==
  Typed /\ Wired /\ Fresh /\ Calls /\ (ClientStep \/ ClientDies) => Calls'
<1> SUFFICES ASSUME Typed, Wired, Fresh, Calls, ClientStep \/ ClientDies
             PROVE  Calls'
  OBVIOUS
<1>0. /\ client \in Clients /\ client \in Connections /\ checks \in 0..MaxChecks
      /\ requests \in [Connections -> Seq(Messages)]
      /\ replies \in [Connections -> Seq(Answers)]
  BY CallsTyped DEF Typed, ClientTyped, WireTyped
<1>1. CASE StartClient \/ ConnectFails \/ InitFails \/ ShutdownDone \/ ClientDies
  BY <1>1, NoCalls DEF StartClient, ConnectFails, InitFails, ShutdownDone,
                       ClientDies, EndClient, ClientAt
<1>2. CASE InferFails
  <2>1. Unseen
    BY <1>2 DEF InferFails, Unseen, shmVars, wireVars, bridgeVars
  <2> QED
    BY <1>2, <2>1, UnseenKeepsStreaming DEF InferFails, ClientAt
<1>3. CASE HealthCheck
  <2>1. Checking' \in Connections /\ Checking' # client
    BY <1>0, <1>3, BridgeAssumption, SMTT(30) DEF HealthCheck, Checking, Connections, Clients
  <2>2. Unseen
    BY <1>0, <1>3, <2>1 DEF HealthCheck, Unseen, shmVars, bridgeVars
  <2> QED
    BY <1>3, <2>2, UnseenKeepsStreaming DEF HealthCheck, ClientAt
<1>4. CASE HealthReturns
  <2>1. Checking # client
    BY <1>0, <1>4, BridgeAssumption
       DEF HealthReturns, ClientAt, Fresh, Checking, Clients
  <2>2. Unseen
    BY <1>0, <1>4, <2>1 DEF HealthReturns, Unseen, shmVars, bridgeVars
  <2> QED
    BY <1>4, <2>2, UnseenKeepsStreaming DEF HealthReturns, ClientAt
<1> QED
  BY <1>1, <1>2, <1>3, <1>4, ConnectKeepsCalls, SendInitKeepsCalls, AckKeepsCalls,
     SendInferKeepsCalls, ReturnKeepsCalls, ShutdownKeepsCalls DEF ClientStep
-----------------------------------------------------------------------------
(* The bridge's part of the calls. A step for another client is not seen.  *)
LEMMA AcceptKeepsCalls == Typed /\ Wired /\ Calls /\ Accept => Calls'
<1> SUFFICES ASSUME Typed, Wired, Calls, Accept PROVE Calls'
  OBVIOUS
<1>0. /\ client \in Connections /\ bpc = "loop" /\ bpc' = "loop" /\ serving = 0
      /\ UNCHANGED <<clientVars, shmVars, clientEnd, serverEnd, requests, replies>>
      /\ backlog \in Seq(Connections) /\ backlog # <<>> /\ serving' = Head(backlog)
  BY CallsTyped DEF Accept, BridgeAt, Typed, WireTyped
<1>1. serving' \in serverEnd
  <2>1. 1 \in DOMAIN backlog /\ Head(backlog) = backlog[1]
    BY <1>0
  <2> QED
    BY <1>0, <2>1 DEF Wired
<1>2. serving # client
  BY <1>0, SetsAndIds
<1>3. CASE serving' # client
  <2>1. Unseen
    BY <1>0, <1>2, <1>3 DEF Unseen, clientVars, shmVars
  <2> QED
    BY <1>0, <2>1, UnseenKeepsCalls DEF clientVars
<1>4. CASE serving' = client
  <2>1. client \in serverEnd /\ Outstanding(client)' = Outstanding(client)
    <3>1. client \in serverEnd
      BY <1>1, <1>4
    <3>2. ~(serving = client /\ Working) /\ ~(serving = client /\ Working)'
      BY <1>0 DEF Working
    <3> QED
      BY <1>0, <3>1, <3>2, OutstandingIs, OutstandingPrimed, Zenon DEF clientVars
  <2>2. cpc \notin {"ready", "healthWait", "inferWait"}
    BY <1>2, <2>1 DEF Calls, Streaming
  <2>3. Silent' /\ Leaving' /\ Streaming'
    BY <1>0, <2>1, <2>2
       DEF Calls, Silent, Leaving, Streaming, InPlace, clientVars, shmVars
  <2>4. Handshake'
    BY <1>0, <1>2, <2>1 DEF Calls, Handshake, IsInit, clientVars, shmVars
  <2> QED
    BY <2>3, <2>4 DEF Calls
<1> QED
  BY <1>3, <1>4

LEMMA ReceiveKeepsCalls == Typed /\ Wired /\ Calls /\ Receive => Calls'
<1> SUFFICES ASSUME Typed, Wired, Calls, Receive PROVE Calls'
  OBVIOUS
<1>0. /\ client \in Connections /\ bpc = "loop" /\ bpc' = "handle"
      /\ serving \in Connections /\ frame \in Nat
      /\ requests[serving] # <<>> /\ job' = Head(requests[serving])
      /\ requests' = [requests EXCEPT ![serving] = Tail(@)]
      /\ requests \in [Connections -> Seq(Messages)]
      /\ UNCHANGED <<clientVars, shmVars, clientEnd, serverEnd, replies, serving,
                     answer, mapped, declared>>
  BY CallsTyped DEF Receive, BridgeAt, Typed, WireTyped, BridgeTyped
<1>1. CASE serving # client
  <2>1. Unseen
    BY <1>0, <1>1 DEF Unseen, clientVars, shmVars
  <2> QED
    BY <1>0, <2>1, UnseenKeepsCalls DEF clientVars
<1>2. CASE serving = client
  <2>1. PICK q \in Seq(Messages) : q = requests[client]
    BY <1>0
  <2>2. PICK n \in Nat, k \in Nat : Len(q) = n + 1 /\ k = Len(replies[client])
    <3>1. q # <<>> /\ Len(q) \in Nat /\ Len(q) # 0
      BY <1>0, <1>2, <2>1
    <3>2. Len(q) - 1 \in Nat /\ Len(q) = Len(q) - 1 + 1
      BY <3>1
    <3>3. Len(replies[client]) \in Nat
      BY CallsTyped
    <3> QED
      BY <3>2, <3>3, Zenon
  <2>3. /\ DOMAIN q = 1..(n + 1) /\ DOMAIN Tail(q) = 1..n /\ Len(Tail(q)) = n
        /\ Head(q) = q[1] /\ \A j \in 1..n : Tail(q)[j] = q[j + 1]
    BY <1>0, <1>2, <2>1, <2>2
  <2>4. requests'[client] = Tail(q) /\ job' = q[1] /\ serving' = client
    BY <1>0, <1>2, <2>1, <2>3
  <2>5. Outstanding(client)' = Outstanding(client)
    <3>1. /\ Len(requests[client])' = n /\ Len(requests[client]) = n + 1
          /\ Len(replies[client]) = k /\ Len(replies[client])' = k
      BY <1>0, <2>1, <2>2, <2>3, <2>4 DEF clientVars
    <3>2. ~(serving = client /\ Working) /\ (serving = client /\ Working)'
      BY <1>0, <2>4 DEF Working, clientVars
    <3>3. /\ Outstanding(client) = n + 1 + k + 0
          /\ Outstanding(client)' = n + k + 1
      BY <3>1, <3>2, OutstandingIs, OutstandingPrimed, Zenon
    <3>4. n + 1 + k + 0 = n + k + 1
      OBVIOUS
    <3> QED
      BY <3>3, <3>4, Zenon
  <2>6. Silent' /\ (cpc = "init" => FALSE)
    <3>1. Outstanding(client) >= 1
      <4>1. ~(serving = client /\ Working)
        BY <1>0 DEF Working
      <4>2. Outstanding(client) = n + 1 + k + 0
        <5>1. Len(requests[client]) = n + 1
          BY <2>1, <2>2
        <5> QED
          BY <2>2, <4>1, <5>1, OutstandingIs, Zenon
      <4>3. n + 1 + k + 0 >= 1
        OBVIOUS
      <4> QED
        BY <4>2, <4>3, Zenon
    <3> QED
      BY <1>0, <3>1 DEF Calls, Silent, clientVars
  <2>7. Handshake'
    <3>1. cpc = "initWait" => IsInit(q[1])
      BY <1>0, <1>2, <2>1, <2>3 DEF Calls, Handshake
    <3>2. ASSUME cpc = "initWait", NEW j \in 1..n PROVE IsInit(Tail(q)[j])
      <4>1. j + 1 \in DOMAIN q /\ Tail(q)[j] = q[j + 1]
        BY <2>3
      <4> QED
        BY <2>1, <3>2, <4>1 DEF Calls, Handshake
    <3> QED
      BY <1>0, <1>2, <2>3, <2>4, <2>5, <3>1, <3>2
         DEF Calls, Handshake, IsInit, Opened, clientVars, shmVars
  <2>8. Streaming'
    <3>1. ASSUME cpc \in {"ready", "healthWait", "inferWait"}
          PROVE  /\ Placed(q[1], frame - n)
                 /\ \A j \in 1..n : Placed(q[j + 1], frame - n + j)
      <4>1. \A j \in 1..(n + 1) : Placed(q[j], frame - (n + 1) + j)
        BY <2>1, <2>2, <2>3, <3>1 DEF Calls, Streaming
      <4>2. frame - (n + 1) + 1 = frame - n
        BY <1>0
      <4>3. \A j \in 1..n : j + 1 \in 1..(n + 1)
                            /\ frame - (n + 1) + (j + 1) = frame - n + j
        BY <1>0
      <4>4. 1 \in 1..(n + 1)
        OBVIOUS
      <4>5. Placed(q[1], frame - n)
        BY <4>1, <4>2, <4>4, Zenon
      <4>6. \A j \in 1..n : Placed(q[j + 1], frame - n + j)
        BY <4>1, <4>3, Zenon
      <4> QED
        BY <4>5, <4>6
    <3>2. ASSUME cpc \in {"ready", "healthWait", "inferWait"}
          PROVE  /\ Placed(job, frame - Len(requests[client]))'
                 /\ \A j \in DOMAIN requests'[client] :
                      Placed(requests[client][j], frame - Len(requests[client]) + j)'
      <4>1. /\ requests'[client'] = Tail(q) /\ Len(requests'[client']) = n
            /\ DOMAIN requests'[client] = 1..n
            /\ job' = q[1] /\ \A j \in 1..n : Tail(q)[j] = q[j + 1]
            /\ UNCHANGED <<client, frame, usesShm, cursor, shm>>
        BY <1>0, <2>3, <2>4 DEF clientVars, shmVars
      <4>2. Placed(job, frame - Len(requests[client]))'
        BY <3>1, <3>2, <4>1 DEF Placed
      <4>3. ASSUME NEW j \in 1..n
            PROVE  Placed(requests[client][j], frame - Len(requests[client]) + j)'
        <5>1. PICK m, t : m = q[j + 1] /\ t = frame - n + j
          OBVIOUS
        <5>2. Placed(m, t)
          BY <3>1, <3>2, <5>1
        <5>3. m = requests'[client'][j] /\ t = frame' - Len(requests'[client']) + j
          BY <4>1, <5>1
        <5>4. Placed(m, t)'
          BY <4>1, <5>2 DEF Placed
        <5> QED
          BY <5>3, <5>4
      <4> QED
        BY <4>1, <4>2, <4>3
    <3> QED
      BY <1>0, <1>2, <2>5, <3>2
         DEF Calls, Streaming, IsAbout, Opened, clientVars, shmVars
  <2>9. Leaving'
    <3>1. ASSUME cpc = "shutdownWait"
          PROVE  InPlace(q[1], n) /\ \A j \in 1..n : InPlace(q[j + 1], n - j)
      <4>1. \A j \in 1..(n + 1) : InPlace(q[j], n + 1 - j)
        <5>1. \A j \in DOMAIN requests[client] :
                InPlace(requests[client][j], Len(requests[client]) - j)
          BY <3>1, Zenon DEF Calls, Leaving
        <5>2. \A j \in 1..(n + 1) : InPlace(q[j], Len(q) - j)
          BY <2>1, <2>3, <5>1, Zenon
        <5> QED BY <2>2, <5>2
      <4>2. 1 \in 1..(n + 1) /\ n + 1 - 1 = n
        OBVIOUS
      <4>3. \A j \in 1..n : j + 1 \in 1..(n + 1) /\ n + 1 - (j + 1) = n - j
        BY BehindHead, Zenon
      <4>4. InPlace(q[1], n)
        BY <4>1, <4>2, Zenon
      <4>5. \A j \in 1..n : InPlace(q[j + 1], n - j)
        BY <4>1, <4>3, Zenon
      <4> QED
        BY <4>4, <4>5
    <3>2. /\ requests'[client'] = Tail(q) /\ Len(requests'[client']) = n
          /\ DOMAIN requests'[client'] = 1..n
          /\ job' = q[1] /\ \A j \in 1..n : Tail(q)[j] = q[j + 1]
          /\ UNCHANGED <<client, cpc, frame, usesShm, shm>>
      BY <1>0, <2>3, <2>4 DEF clientVars, shmVars
    <3>3. cpc = "shutdownWait" => InPlace(job, Len(requests[client]))'
      BY <3>1, <3>2 DEF InPlace
    <3>4. ASSUME cpc = "shutdownWait", NEW j \in 1..n
          PROVE  InPlace(requests[client][j], Len(requests[client]) - j)'
      BY <3>1, <3>2, <3>4 DEF InPlace
    <3> QED
      BY <3>2, <3>3, <3>4 DEF Leaving
  <2> QED
    BY <2>6, <2>7, <2>8, <2>9 DEF Calls
<1> QED
  BY <1>1, <1>2
(* The bridge closes its end, by hanging up or by ending.                  *)
LEMMA CloseKeepsCalls ==
  ASSUME Typed, Wired, Calls, UNCHANGED <<clientVars, shmVars, clientEnd, replies>>,
         serving' = 0, client \notin serverEnd', requests'[client] = <<>>
  PROVE  Calls'
<1>1. /\ client # 0 /\ DOMAIN requests'[client] = {} /\ Len(requests'[client]) = 0
      /\ UNCHANGED <<client, cpc, frame, usesShm, cursor, segmentFile, shm>>
  BY CallsTyped, SetsAndIds DEF clientVars, shmVars
<1>2. PICK a \in Nat, b \in Nat : a = Len(requests[client]) /\ b = Len(replies[client])
  BY CallsTyped
<1>3. Outstanding(client)' = b
  <2>1. ~(serving = client /\ Working)'
    BY <1>1
  <2>2. Outstanding(client)' = 0 + b + 0
    BY <1>1, <1>2, <2>1, OutstandingPrimed, Zenon
  <2> QED
    BY <2>2
<1>4. Outstanding(client) \in {a + b + 0, a + b + 1}
  BY <1>2, OutstandingIs, Zenon
<1>5. (Outstanding(client) = 0 => b = 0) /\ (Outstanding(client) <= 1 => b <= 1)
  <2>1. CASE Outstanding(client) = a + b + 0
    BY <2>1
  <2>2. CASE Outstanding(client) = a + b + 1
    BY <2>2
  <2> QED
    BY <1>4, <2>1, <2>2
<1>6. Silent' /\ Leaving'
  BY <1>1, <1>3, <1>5 DEF Calls, Silent, Leaving
<1>7. Handshake'
  BY <1>1, <1>3, <1>5 DEF Calls, Handshake
<1>8. Streaming'
  BY <1>1 DEF Calls, Streaming
<1> QED
  BY <1>6, <1>7, <1>8 DEF Calls

LEMMA EndsKeepCalls ==
  Typed /\ Wired /\ Calls /\ (HangUp \/ HandleShutdown \/ BridgeDies) => Calls'
<1> SUFFICES ASSUME Typed, Wired, Calls, HangUp \/ HandleShutdown \/ BridgeDies
             PROVE  Calls'
  OBVIOUS
<1>0. client \in Connections /\ client # 0 /\ client' = client
  BY CallsTyped, SetsAndIds DEF HangUp, HandleShutdown, BridgeDies, clientVars
<1>1. CASE HangUp /\ serving # client
  <2>1. Unseen
    BY <1>0, <1>1 DEF HangUp, Unseen, clientVars, shmVars
  <2> QED
    BY <1>1, <2>1, UnseenKeepsCalls DEF HangUp, clientVars
<1>2. CASE HangUp /\ serving = client
  BY <1>0, <1>2, CloseKeepsCalls DEF HangUp
<1>3. CASE HandleShutdown \/ BridgeDies
  BY <1>0, <1>3, CloseKeepsCalls DEF HandleShutdown, BridgeDies, BridgeStops
<1> QED
  BY <1>1, <1>2, <1>3

(* The bridge looks at a message of the client: the answer is about it.    *)
LEMMA HandleKeepsCalls ==
  Typed /\ Wired /\ Calls /\ (HandleInit \/ HandleInfer \/ HandleHealth) => Calls'
<1> SUFFICES ASSUME Typed, Wired, Calls, HandleInit \/ HandleInfer \/ HandleHealth
             PROVE  Calls'
  OBVIOUS
<1>0. /\ client \in Connections /\ client \in Clients /\ frame \in Nat
      /\ job \in Messages /\ shm \in [Clients -> [BufferIds -> Nat]]
      /\ usesShm \in BOOLEAN
      /\ Len(requests[client]) \in Nat
  BY CallsTyped DEF Typed, BridgeTyped, ShmTyped, ClientTyped
<1>1. /\ bpc = "handle" /\ bpc' = "reply"
      /\ UNCHANGED <<clientVars, shmVars, wireVars, serving, job>>
  BY DEF HandleInit, HandleInfer, HandleHealth, BridgeAt
<1>2. CASE serving # client
  <2>1. Unseen
    BY <1>1, <1>2 DEF Unseen, clientVars, shmVars, wireVars
  <2> QED
    BY <1>1, <2>1, UnseenKeepsCalls DEF clientVars
<1>3. CASE serving = client
  <2>1. Outstanding(client)' = Outstanding(client)
    BY <1>1 DEF Outstanding, Working, clientVars, wireVars
  <2>2. Silent' /\ Leaving'
    BY <1>1, <2>1 DEF Calls, Silent, Leaving, InPlace, clientVars, shmVars, wireVars
  <2>3. Handshake'
    <3>1. SUFFICES ASSUME cpc = "initWait" PROVE Handshake'
      BY <1>1 DEF Handshake, clientVars
    <3>2. Handshake /\ IsInit(job) /\ job.kind = "init" /\ job.shm = usesShm
      BY <1>1, <1>3, <3>1 DEF Calls, Handshake, IsInit
    <3>3. HandleInit
      BY <3>2 DEF HandleInfer, HandleHealth
    <3>4. /\ answer'.kind \in AckKinds
          /\ answer'.kind = "init_ack" => Opened'
      <4>1. CASE answer' = [NoAnswer EXCEPT !.kind = "init_ack"]
        <5>1. declared' = usesShm' /\ (usesShm => OpenSegment)
          BY <1>1, <3>2, <3>3, <4>1 DEF HandleInit, NoAnswer, clientVars
        <5>2. usesShm => mapped' \in {0, client}
          BY <3>1, <3>2, <5>1 DEF OpenSegment, Handshake
        <5> QED
          BY <1>1, <4>1, <5>1, <5>2 DEF Opened, AckKinds, NoAnswer, clientVars
      <4>2. CASE answer' = [NoAnswer EXCEPT !.kind = "init_nak"]
        BY <4>2 DEF AckKinds, NoAnswer
      <4> QED
        BY <3>3, <4>1, <4>2 DEF HandleInit
    <3>5. replies[client] = <<>> /\ DOMAIN replies[client] = {}
      <4>1. PICK a \in Nat, b \in Nat :
              a = Len(requests[client]) /\ b = Len(replies[client])
        BY CallsTyped
      <4>2. serving = client /\ Working
        BY <1>1, <1>3 DEF Working
      <4>3. a + b + 1 <= 1
        <5>1. Outstanding(client) = a + b + 1
          BY <4>1, <4>2, OutstandingIs, Zenon
        <5>2. Outstanding(client) <= 1
          BY <3>1, <3>2 DEF Handshake
        <5> QED
          BY <5>1, <5>2, Zenon
      <4>4. b = 0
        BY <4>3
      <4>5. replies[client] \in Seq(Answers) /\ Len(replies[client]) = 0
        BY <4>1, <4>4, CallsTyped
      <4> QED
        BY <4>5
    <3> QED
      BY <1>1, <2>1, <3>1, <3>2, <3>4, <3>5
         DEF Handshake, IsInit, clientVars, shmVars, wireVars
  <2>4. Streaming'
    <3>1. SUFFICES ASSUME cpc \in {"ready", "healthWait", "inferWait"}
                   PROVE  Streaming'
      BY <1>1 DEF Streaming, clientVars
    <3>2. PICK s : s = frame - Len(requests[client])
      OBVIOUS
    <3>3. Placed(job, s) /\ Streaming
      BY <1>1, <1>3, <3>1, <3>2 DEF Calls, Streaming
    <3>4. HandleInfer
      BY <3>3 DEF HandleInit, HandleHealth, Placed
    <3>5. Opened /\ client \in serverEnd
      <4>1. client \in serverEnd
        BY <1>0, <1>3, SetsAndIds DEF Wired
      <4> QED
        BY <3>1, <3>3, <4>1 DEF Streaming
    <3>6. IsAbout(answer', s)
      <4>1. /\ answer'.about = Pixels(job) /\ job.seq = s /\ job.shm = usesShm
            /\ usesShm /\ frame - s < Buffers => shm[client][job.buf] = s
            /\ usesShm => shm[client][job.buf] \in s..frame
        BY <3>3, <3>4 DEF HandleInfer, Placed
      <4>2. s \in Nat
        BY <1>0, <4>1 DEF Messages
      <4>3. CASE usesShm
        <5>1. declared /\ mapped \in {0, client} /\ job.shm
          BY <3>5, <4>1, <4>3 DEF Opened
        <5>2. Pixels(job) \in {NoPixels, shm[client][job.buf]}
          BY <5>1 DEF Pixels
        <5> QED
          BY <1>0, <4>1, <4>2, <4>3, <5>2, BridgeAssumption DEF IsAbout
      <4>4. CASE ~usesShm
        <5>1. ~declared /\ ~job.shm
          BY <1>0, <3>5, <4>1, <4>4 DEF Opened
        <5>2. Pixels(job) \in {NoPixels, s}
          BY <4>1, <5>1 DEF Pixels
        <5> QED
          BY <4>1, <5>2 DEF IsAbout
      <4> QED
        BY <4>3, <4>4
    <3>7. answer'.kind = "infer_ack"
      BY <3>4 DEF HandleInfer
    <3>8. IsAbout(answer, frame - Len(requests[client]))'
      <4>1. PICK a : a = answer'
        OBVIOUS
      <4>2. IsAbout(a, s) /\ frame' = frame /\ frame' - Len(requests'[client']) = s
        BY <1>1, <3>2, <3>6, <4>1 DEF clientVars, wireVars
      <4>3. IsAbout(a, s)'
        BY <1>1, <4>2 DEF IsAbout, clientVars
      <4> QED
        BY <4>1, <4>2, <4>3
    <3>9. Opened'
      BY <1>1, <3>4, <3>5 DEF HandleInfer, Opened, clientVars
    <3> QED
      BY <1>1, <2>1, <3>1, <3>3, <3>7, <3>8, <3>9
         DEF Streaming, IsAbout, Placed, clientVars, shmVars, wireVars
  <2> QED
    BY <2>2, <2>3, <2>4 DEF Calls
<1> QED
  BY <1>2, <1>3

LEMMA ReplyKeepsCalls == Typed /\ Wired /\ Calls /\ Reply => Calls'
<1> SUFFICES ASSUME Typed, Wired, Calls, Reply PROVE Calls'
  OBVIOUS
<1>0. /\ client \in Connections /\ answer \in Answers /\ frame \in Nat
      /\ replies \in [Connections -> Seq(Answers)]
  BY CallsTyped DEF Typed, WireTyped, BridgeTyped
<1>1. /\ bpc = "reply" /\ bpc' = "loop" /\ replies' = Send
      /\ UNCHANGED <<clientVars, shmVars, clientEnd, serverEnd, backlog, requests,
                     serving, mapped, declared>>
  BY DEF Reply, BridgeAt
<1>2. CASE serving # client
  <2>1. replies'[client] = replies[client]
    BY <1>0, <1>1, <1>2 DEF Send
  <2>2. Unseen
    BY <1>1, <1>2, <2>1 DEF Unseen, clientVars, shmVars
  <2> QED
    BY <1>1, <2>2, UnseenKeepsCalls DEF clientVars
<1>3. CASE serving = client /\ client \notin clientEnd
  <2>1. cpc \notin {"init", "initWait", "ready", "healthWait", "inferWait"}
    BY <1>3 DEF Calls, Silent, Handshake, Streaming
  <2>2. Leaving'
    BY <1>1 DEF Calls, Leaving, InPlace, clientVars, shmVars
  <2> QED
    BY <1>1, <2>1, <2>2 DEF Calls, Silent, Handshake, Streaming, clientVars
<1>4. CASE serving = client /\ client \in clientEnd
  <2>1. PICK r \in Seq(Answers) : r = replies[client]
    BY <1>0
  <2>2. PICK n \in Nat, k \in Nat : n = Len(requests[client]) /\ k = Len(r)
    BY <2>1, CallsTyped
  <2>3. /\ replies'[client] = Append(r, answer) /\ Len(Append(r, answer)) = k + 1
        /\ DOMAIN r = 1..k /\ DOMAIN Append(r, answer) = 1..(k + 1)
        /\ \A i \in 1..k : Append(r, answer)[i] = r[i]
        /\ Append(r, answer)[k + 1] = answer
    BY <1>0, <1>1, <1>4, <2>1, <2>2 DEF Send
  <2>4. /\ Outstanding(client) = n + k + 1
        /\ Outstanding(client)' = n + k + 1
    <3>1. /\ Len(requests[client])' = n /\ Len(replies[client])' = k + 1
          /\ Len(requests[client]) = n /\ Len(replies[client]) = k
      BY <1>1, <2>1, <2>2, <2>3 DEF clientVars
    <3>2. (serving = client /\ Working) /\ ~(serving = client /\ Working)'
      BY <1>1, <1>4 DEF Working
    <3>3. /\ Outstanding(client) = n + k + 1
          /\ Outstanding(client)' = n + (k + 1) + 0
      BY <3>1, <3>2, OutstandingIs, OutstandingPrimed, Zenon
    <3>4. n + (k + 1) + 0 = n + k + 1
      OBVIOUS
    <3> QED
      BY <3>3, <3>4, Zenon
  <2>5. Silent' /\ Leaving'
    BY <1>1, <2>4
       DEF Calls, Silent, Leaving, InPlace, clientVars, shmVars
  <2>6. Handshake'
    <3>1. cpc = "initWait" =>
            /\ answer.kind \in AckKinds /\ (answer.kind = "init_ack" => Opened)
            /\ \A i \in 1..k : r[i].kind \in AckKinds
                 /\ (r[i].kind = "init_ack" /\ client \in serverEnd => Opened)
      BY <1>1, <1>4, <2>1, <2>3 DEF Calls, Handshake
    <3>2. cpc = "initWait" =>
            \A i \in 1..(k + 1) : Append(r, answer)[i].kind \in AckKinds
              /\ (Append(r, answer)[i].kind = "init_ack" /\ client \in serverEnd => Opened)
      BY <2>3, <3>1
    <3>3. Opened' <=> Opened
      BY <1>1 DEF Opened, clientVars
    <3> QED
      BY <1>1, <1>4, <2>3, <2>4, <3>2, <3>3
         DEF Calls, Handshake, IsInit, clientVars, shmVars
  <2>7. Streaming'
    <3>1. SUFFICES ASSUME cpc \in {"ready", "healthWait", "inferWait"}
                   PROVE  Streaming'
      BY <1>1 DEF Streaming, clientVars
    <3>2. /\ answer.kind = "infer_ack" /\ IsAbout(answer, frame - n)
          /\ \A i \in 1..k : /\ r[i].kind = "infer_ack"
                             /\ client \in serverEnd => IsAbout(r[i], frame - (n + k + 1) + i)
      BY <1>1, <1>4, <2>1, <2>2, <2>3, <2>4, <3>1 DEF Calls, Streaming
    <3>3. frame - (n + k + 1) + (k + 1) = frame - n
      BY <1>0
    <3>4. ASSUME NEW i \in 1..(k + 1)
          PROVE  /\ Append(r, answer)[i].kind = "infer_ack"
                 /\ client \in serverEnd
                      => IsAbout(Append(r, answer)[i], frame - (n + k + 1) + i)
      BY <2>3, <3>2, <3>3
    <3>5. Opened' <=> Opened
      BY <1>1 DEF Opened, clientVars
    <3>6. ASSUME NEW i \in 1..(k + 1)
          PROVE  /\ replies'[client][i].kind = "infer_ack"
                 /\ client \in serverEnd =>
                      IsAbout(replies[client][i], frame - Outstanding(client) + i)'
      BY <1>1, <2>3, <2>4, <3>4, <3>6 DEF IsAbout, clientVars
    <3> QED
      BY <1>1, <1>4, <2>3, <3>1, <3>5, <3>6
         DEF Calls, Streaming, Placed, clientVars, shmVars
  <2> QED
    BY <2>5, <2>6, <2>7 DEF Calls
<1> QED
  BY <1>2, <1>3, <1>4

LEMMA BridgeKeepsCalls ==
  Typed /\ Wired /\ Calls /\ (BridgeStep \/ BridgeDies \/ BridgeStarts) => Calls'
<1> SUFFICES ASSUME Typed, Wired, Calls, BridgeStep \/ BridgeDies \/ BridgeStarts
             PROVE  Calls'
  OBVIOUS
<1>1. CASE BridgeStarts
  <2>1. bpc = "down" /\ UNCHANGED <<clientVars, shmVars, wireVars, serving>>
    BY <1>1 DEF BridgeStarts, BridgeAt
  <2>2. serving # client
    BY <2>1, CallsTyped, SetsAndIds DEF Wired
  <2>3. Unseen
    BY <2>1, <2>2 DEF Unseen, clientVars, shmVars, wireVars
  <2> QED
    BY <2>1, <2>3, UnseenKeepsCalls DEF clientVars
<1> QED
  BY <1>1, AcceptKeepsCalls, ReceiveKeepsCalls, EndsKeepCalls, HandleKeepsCalls,
     ReplyKeepsCalls DEF BridgeStep

-----------------------------------------------------------------------------
(* The invariant, and what follows from it.                                *)

\* BInv holds in every state.
THEOREM BridgeInvariant == BridgeSpec => []BInv
<1>1. Init => BInv
  <2> SUFFICES ASSUME Init PROVE BInv
    OBVIOUS
  <2>1. Calls
    BY DEF Init, Calls, Silent, Handshake, Streaming, Leaving
  <2> QED
    BY <2>1, InitTyped, InitWired DEF BInv, Calls
<1>2. BInv /\ [Next]_vars => BInv'
  <2> SUFFICES ASSUME BInv, [Next]_vars PROVE BInv'
    OBVIOUS
  <2>0. Typed /\ Wired /\ Fresh /\ Calls
    BY DEF BInv, Calls
  <2>1. CASE ClientStep \/ ClientDies
    BY <2>0, <2>1, ClientKeepsTypes, ClientKeepsWired, ClientKeepsCalls DEF BInv, Calls
  <2>2. CASE BridgeStep \/ BridgeDies \/ BridgeStarts
    BY <2>0, <2>2, BridgeKeepsTypes, BridgeKeepsWired, BridgeKeepsCalls DEF BInv, Calls
  <2>3. CASE UNCHANGED vars
    <3>1. Typed'
      BY <2>0, <2>3
         DEF vars, clientVars, shmVars, wireVars, bridgeVars, Typed, ClientTyped,
             ShmTyped, WireTyped, BridgeTyped
    <3>2. Wired' /\ Fresh'
      BY <2>0, <2>3
         DEF vars, clientVars, wireVars, bridgeVars, Wired, Fresh, Unused
    <3>3. Unseen /\ cpc' = cpc
      BY <2>3 DEF vars, clientVars, shmVars, wireVars, bridgeVars, Unseen
    <3>4. Calls'
      BY <2>0, <3>3, UnseenKeepsCalls
    <3> QED
      BY <3>1, <3>2, <3>4 DEF BInv, Calls
  <2> QED
    BY <2>1, <2>2, <2>3 DEF Next
<1> QED
  BY <1>1, <1>2, PTL DEF BridgeSpec

\* A client finds only answers of the kind it waits for: infer never takes
\* what init left behind for the detections of its frame.
THEOREM ClientReadsItsAnswers == BridgeSpec => []AnswersAreAwaited
<1>1. BInv => AnswersAreAwaited
  BY DEF BInv, Handshake, Streaming, AckKinds, AnswersAreAwaited
<1> QED
  BY <1>1, BridgeInvariant, PTL

\* The round robin of infer overwrites no frame of the segment that the
\* bridge has yet to look at, while no more calls than buffers are under way.
THEOREM BuffersOutliveCalls == BridgeSpec => []UnreadFramesIntact
<1>1. BInv => UnreadFramesIntact
  <2> SUFFICES ASSUME BInv, client \in clientEnd, usesShm,
                      Outstanding(client) <= Buffers,
                      NEW m \in Unread(client)
               PROVE  shm[client][m.buf] = m.seq
    BY DEF UnreadFramesIntact
  <2>0. /\ requests[client] \in Seq(Messages) /\ job \in Messages
        /\ frame \in Nat /\ client \in Clients /\ clientEnd \subseteq Connections
    BY CallsTyped DEF BInv, Typed, BridgeTyped, WireTyped
  <2>1. m.kind = "infer"
    BY DEF Unread
  <2>2. PICK q \in Seq(Messages), k \in Nat :
          q = requests[client] /\ k = Len(replies[client])
    BY <2>0, CallsTyped DEF BInv
  <2>3. PICK n \in Nat : n = Len(q) /\ DOMAIN q = 1..n
    BY <2>2
  <2>4. n + k + 0 <= Buffers
        /\ (serving = client /\ bpc = "handle" => n + k + 1 <= Buffers)
    <3>1. CASE serving = client /\ Working
      <4>1. n + k + 1 <= Buffers
        BY <2>2, <2>3, <3>1, OutstandingIs, Zenon
      <4> QED
        BY <4>1, BridgeAssumption
    <3>2. CASE ~(serving = client /\ Working)
      <4>1. n + k + 0 <= Buffers
        BY <2>2, <2>3, <3>2, OutstandingIs, Zenon
      <4> QED
        BY <3>2, <4>1 DEF Working
    <3> QED
      BY <3>1, <3>2
  <2>5. cpc \in {"ready", "healthWait", "inferWait", "shutdownWait"}
    <3>1. cpc \in ClientPcs /\ Wired /\ Fresh /\ Silent /\ Handshake /\ client # 0
      BY <2>0, SetsAndIds DEF BInv, Typed, ClientTyped
    <3>2. cpc \notin {"connect", "down"}
      BY <3>1 DEF Fresh
    <3>3. cpc # "initWait"
      <4>1. m \in ToSet(q) \/ (m = job /\ serving = client /\ bpc = "handle")
        BY <2>2 DEF Unread
      <4>2. m \in ToSet(q) => \E j \in DOMAIN q : m = q[j]
        BY DEF ToSet
      <4> QED
        BY <2>1, <2>2, <3>1, <4>1, <4>2 DEF Handshake, IsInit
    <3>4. cpc # "init"
      <4>1. SUFFICES ASSUME cpc = "init" PROVE FALSE
        OBVIOUS
      <4>2. Outstanding(client) = 0
        BY <3>1, <4>1 DEF Silent
      <4>3. ~(serving = client /\ Working) /\ n = 0
        <5>1. CASE serving = client /\ Working
          <6>1. n + k + 1 = 0
            BY <2>2, <2>3, <4>2, <5>1, OutstandingIs, Zenon
          <6> QED
            BY <6>1
        <5>2. CASE ~(serving = client /\ Working)
          <6>1. n + k + 0 = 0
            BY <2>2, <2>3, <4>2, <5>2, OutstandingIs, Zenon
          <6>2. n = 0
            BY <6>1
          <6> QED
            BY <5>2, <6>2
        <5> QED
          BY <5>1, <5>2
      <4>4. DOMAIN q = {}
        BY <2>3, <4>3
      <4> QED
        BY <2>2, <4>3, <4>4 DEF Unread, ToSet, Working
    <3> QED
      BY <3>1, <3>2, <3>3, <3>4 DEF ClientPcs
  <2>6. ASSUME NEW d \in Nat, d < Buffers,
               Placed(m, frame - d) \/ InPlace(m, d), m \in Messages
        PROVE  shm[client][m.buf] = m.seq
    <3>1. frame - (frame - d) = d /\ m.seq \in Nat
      BY <2>0, <2>6 DEF Messages
    <3>2. CASE Placed(m, frame - d)
      BY <2>6, <3>1, <3>2 DEF Placed
    <3>3. CASE InPlace(m, d)
      <4>1. frame - m.seq < Buffers
        BY <2>0, <2>1, <2>6, <3>1, <3>3, BridgeAssumption DEF InPlace
      <4> QED
        BY <2>1, <3>3, <4>1 DEF InPlace
    <3> QED
      BY <2>6, <3>2, <3>3
  <2>7. CASE m \in ToSet(q)
    <3>1. PICK j \in 1..n : m = q[j]
      BY <2>3, <2>7 DEF ToSet
    <3>2. /\ n - j \in Nat /\ n - j < Buffers /\ frame - n + j = frame - (n - j)
      <4>1. n <= Buffers
        BY <2>4, BridgeAssumption
      <4> QED
        BY <2>0, <4>1, BridgeAssumption
    <3>3. m \in Messages
      BY <2>2, <2>3, <3>1
    <3>4. Placed(m, frame - n + j) \/ InPlace(m, n - j)
      BY <2>2, <2>3, <2>5, <3>1 DEF BInv, Streaming, Leaving
    <3> QED
      BY <2>6, <3>2, <3>3, <3>4
  <2>8. CASE m = job /\ serving = client /\ bpc = "handle"
    <3>1. n < Buffers
      BY <2>4, <2>8, BridgeAssumption
    <3>2. Placed(m, frame - n) \/ InPlace(m, n)
      BY <2>2, <2>3, <2>5, <2>8 DEF BInv, Streaming, Leaving
    <3> QED
      BY <2>0, <2>6, <2>8, <3>1, <3>2
  <2> QED
    BY <2>2, <2>7, <2>8 DEF Unread
<1> QED
  BY <1>1, BridgeInvariant, PTL

\* A reply that is read is about the frame so many calls back as calls are
\* under way, or about no pixels; about a frame written since only when more
\* calls than buffers are under way: how far a published event lags is known
\* from the number of calls under way.
THEOREM RepliesLagByTheirCalls == BridgeSpec => LagIsExact
<1> DEFINE Asked   == frame - (Outstanding(client) - 1)
           Newest  == IF usesShm /\ Outstanding(client) > Buffers THEN frame ELSE Asked
           Lagging == InferReturns /\ client \in serverEnd =>
                        published'.about \in {NoPixels} \cup Asked..Newest
<1>1. BInv /\ [Next]_vars => Lagging
  <2> SUFFICES ASSUME BInv, InferReturns, client \in serverEnd
               PROVE  published'.about \in {NoPixels} \cup Asked..Newest
    OBVIOUS
  <2>0. /\ replies[client] \in Seq(Answers) /\ replies[client] # <<>>
        /\ frame \in Nat /\ cpc = "inferWait"
        /\ published'.about = Head(replies[client]).about
    BY CallsTyped DEF BInv, InferReturns, ClientAt, Read
  <2>1. 1 \in DOMAIN replies[client] /\ Head(replies[client]) = replies[client][1]
    BY <2>0
  <2>2. PICK d \in Nat : d = Outstanding(client)
    <3>1. PICK a \in Nat, b \in Nat :
            a = Len(requests[client]) /\ b = Len(replies[client])
      BY CallsTyped DEF BInv
    <3>2. Outstanding(client) = a + b + 0 \/ Outstanding(client) = a + b + 1
      BY <3>1, OutstandingIs, Zenon
    <3>3. a + b + 0 \in Nat /\ a + b + 1 \in Nat
      OBVIOUS
    <3> QED
      BY <3>2, <3>3
  <2>3. IsAbout(replies[client][1], frame - d + 1)
    BY <2>0, <2>1, <2>2 DEF BInv, Streaming
  <2>4. PICK s, a : /\ s \in Int /\ s = frame - (d - 1) /\ s = frame - d + 1
                    /\ a = published'.about
    BY <2>0, <2>2
  <2>5. a \in {NoPixels, s} \/ (usesShm /\ frame - s >= Buffers /\ a \in s..frame)
    BY <2>0, <2>1, <2>3, <2>4 DEF IsAbout
  <2>6. frame - s >= Buffers => d > Buffers
    BY <2>0, <2>2, <2>4, BridgeAssumption
  <2>7. s = Asked
    BY <2>2, <2>4
  <2>8. CASE a \in {NoPixels, s}
    <3>1. d > 0
      <4>1. PICK b \in Nat \ {0} : b = Len(replies[client])
        BY <2>0
      <4>2. PICK n \in Nat : n = Len(requests[client])
        BY CallsTyped DEF BInv
      <4>3. d = n + b + 0 \/ d = n + b + 1
        BY <2>2, <4>1, <4>2, OutstandingIs, Zenon
      <4>4. n + b + 0 > 0 /\ n + b + 1 > 0
        OBVIOUS
      <4> QED
        BY <4>3, <4>4, Zenon
    <3>2. s <= frame /\ s \in s..s /\ s \in s..frame
      BY <2>0, <2>2, <2>4, <3>1
    <3>3. a = NoPixels \/ a \in Asked..Newest
      BY <2>7, <2>8, <3>2
    <3> QED
      BY <2>4, <3>3
  <2>9. CASE usesShm /\ d > Buffers /\ a \in s..frame
    BY <2>2, <2>4, <2>7, <2>9
  <2> QED
    BY <2>5, <2>6, <2>8, <2>9
<1>2. BInv /\ [Next]_vars => [Lagging]_vars
  BY <1>1
<1> QED
  BY <1>2, BridgeInvariant, PTL DEF BridgeSpec, LagIsExact
=============================================================================
