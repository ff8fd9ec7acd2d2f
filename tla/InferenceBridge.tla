--------------------------- MODULE InferenceBridge ---------------------------
(***************************************************************************)
(* The detector's inference calls: RknnBridgeClient (bridge_client.rs) on  *)
(* one side of a Unix socket, the single-threaded rknn-bridge on the       *)
(* other, and the frame segment they share. A client is one run of the     *)
(* detector: it connects once, never again, and systemd starts a new one   *)
(* after it ends. The bridge serves one connection at a time.              *)
(*                                                                         *)
(* Frames are numbered in the order the detector takes them from the ring. *)
(* Messages are written and read whole; that the write timeout can cut an  *)
(* inline frame in two, the socket buffer being smaller, is left out.      *)
(* systemd starts the bridge with SIGPIPE ignored.                         *)
(***************************************************************************)
EXTENDS Integers, Sequences, SequencesExt

CONSTANTS
  Buffers,        \* frame_shm_buffers
  BridgeMayFail,  \* whether the bridge may be killed
  MaxClients,     \* bound of the model on runs of the detector
  MaxChecks,      \* bound of the model on health checks
  MaxFrame        \* bound of the model on frames taken from the ring

ASSUME BridgeAssumption == /\ Buffers \in Nat \ {0}
                           /\ BridgeMayFail \in BOOLEAN
                           /\ MaxClients \in Nat \ {0} /\ MaxChecks \in Nat
                           /\ MaxFrame \in Nat

VARIABLES
  client,      \* the current run of the detector, and its connection
  cpc,         \* where it is in its calls
  checks,      \* health checks made, each on a connection of its own
  frame,       \* last frame it took from the ring
  usesShm,     \* frame_shm.is_some(): frames go through the segment
  cursor,      \* shm_buf_cursor % frame_shm_buffers
  segmentFile, \* whose segment the path names; 0 when there is none
  shm,         \* frame in each buffer of each client's segment
  published,   \* the last DetectionsFrame: seq it names, frame it is about
  clientEnd,   \* connections the client has not closed
  serverEnd,   \* connections the bridge has not closed
  backlog,     \* connections waiting for accept, oldest first
  requests,    \* bytes from each client that the bridge has not read
  replies,     \* bytes to each client that it has not read
  bpc,         \* where the bridge is in its loop
  serving,     \* client_fd_; 0 is -1
  job,         \* the message the bridge works on
  answer,      \* the response it is about to send
  mapped,      \* whose segment frame_source_ maps; 0 when not open
  declared     \* init_req.frame_shm_size > 0

clientVars == <<client, cpc, checks, frame, usesShm, cursor, published>>
shmVars    == <<segmentFile, shm>>
wireVars   == <<clientEnd, serverEnd, backlog, requests, replies>>
bridgeVars == <<bpc, serving, job, answer, mapped, declared>>
vars       == <<clientVars, shmVars, wireVars, bridgeVars>>

Clients     == 1..MaxClients
Connections == 1..(MaxClients + MaxChecks)
Checking    == MaxClients + checks  \* the connection of the last check
BufferIds   == 0..(Buffers - 1)
NoPixels    == 0                   \* an inference over an empty frame
BacklogSize == 2                   \* listen(fd, 1) holds two on Linux

NoMessage == [kind |-> "none", shm |-> FALSE, seq |-> 0, buf |-> 0]
NoAnswer  == [kind |-> "none", about |-> NoPixels]

Init ==
  /\ client = 1 /\ cpc = "connect" /\ checks = 0 /\ frame = 0 /\ usesShm = FALSE /\ cursor = 0
  /\ published = [seq |-> 0, about |-> NoPixels, shm |-> FALSE]
  /\ segmentFile = 0
  /\ shm = [c \in Clients |-> [b \in BufferIds |-> NoPixels]]
  /\ clientEnd = {} /\ serverEnd = {} /\ backlog = <<>>
  /\ requests = [c \in Connections |-> <<>>]
  /\ replies = [c \in Connections |-> <<>>]
  /\ bpc = "loop" /\ serving = 0 /\ job = NoMessage /\ answer = NoAnswer
  /\ mapped = 0 /\ declared = FALSE

-----------------------------------------------------------------------------
(* The detector and its client.                                            *)

ClientAt(pc, next) == cpc = pc /\ cpc' = next

\* write_all succeeds while the bridge has its end open.
Write(msg) == /\ client \in serverEnd
              /\ requests' = [requests EXCEPT ![client] = Append(@, msg)]

\* read_exact returns a reply; nothing compares it with the request.
Read == /\ replies[client] # <<>>
        /\ replies' = [replies EXCEPT ![client] = Tail(@)]

NextReplyIs(kind) == replies[client] # <<>> /\ Head(replies[client]).kind = kind

\* ... or runs into the read timeout, or into end of file.
ReadFails == replies[client] = <<>>

\* The process ends: the kernel closes its sockets.
EndClient == /\ cpc' = "down"
             /\ clientEnd' = {}
             /\ replies' = [c \in Connections |-> <<>>]
             /\ UNCHANGED <<client, checks, frame, usesShm, cursor, published>>

\* Drop of FrameShm removes the file; the bridge keeps its mapping.
RemoveSegment == segmentFile' = IF usesShm THEN 0 ELSE segmentFile

StartClient ==
  /\ client < MaxClients
  /\ ClientAt("down", "connect")
  /\ client' = client + 1
  /\ usesShm' = FALSE /\ cursor' = 0
  /\ UNCHANGED <<checks, frame, published, shmVars, wireVars, bridgeVars>>

ConnectOk ==
  /\ ClientAt("connect", "init")
  /\ bpc # "down" /\ Len(backlog) < BacklogSize
  /\ clientEnd' = clientEnd \cup {client}
  /\ serverEnd' = serverEnd \cup {client}
  /\ backlog' = Append(backlog, client)
  /\ UNCHANGED <<client, checks, frame, usesShm, cursor, published, shmVars,
                 requests, replies, bridgeVars>>

\* No listener within connect_timeout_ms: init returns the error.
ConnectFails ==
  /\ ClientAt("connect", "down")
  /\ bpc = "down"
  /\ UNCHANGED <<client, checks, frame, usesShm, cursor, published, shmVars,
                 wireVars, bridgeVars>>

\* The segment is recreated, or its creation fails and base64 remains (a
\* client configured without a segment never touches the file).
CreateSegment == \/ usesShm' = TRUE /\ segmentFile' = client
                 \/ usesShm' = FALSE /\ segmentFile' \in {segmentFile, 0}

SendInit ==
  /\ ClientAt("init", "initWait")
  /\ CreateSegment
  /\ Write([NoMessage EXCEPT !.kind = "init", !.shm = usesShm'])
  /\ UNCHANGED <<client, checks, frame, cursor, published, shm, clientEnd, serverEnd,
                 backlog, replies, bridgeVars>>

InitAcked ==
  /\ ClientAt("initWait", "ready")
  /\ NextReplyIs("init_ack") /\ Read
  /\ UNCHANGED <<client, checks, frame, usesShm, cursor, published, shmVars,
                 clientEnd, serverEnd, backlog, requests, bridgeVars>>

\* Mutant: an init that times out is retried on the same connection.
InitFailsRetries ==
  /\ \/ cpc = "init" /\ client \notin serverEnd
     \/ cpc = "initWait" /\ ReadFails
     \/ cpc = "initWait" /\ NextReplyIs("init_nak")
  /\ IF client \in serverEnd
     THEN /\ cpc' = "ready"
          /\ UNCHANGED <<client, checks, frame, usesShm, cursor, published,
                         clientEnd, replies, segmentFile>>
     ELSE EndClient /\ RemoveSegment
  /\ UNCHANGED <<shm, serverEnd, backlog, requests, bridgeVars>>

\* Any error of init ends the detector.
InitFails ==
  /\ \/ cpc = "init" /\ client \notin serverEnd
     \/ cpc = "initWait" /\ ReadFails
     \/ cpc = "initWait" /\ NextReplyIs("init_nak")
  /\ EndClient /\ RemoveSegment
  /\ UNCHANGED <<shm, serverEnd, backlog, requests, bridgeVars>>

\* Mutant: every frame goes to the first buffer.
WriteFrameToFirst == /\ shm' = [shm EXCEPT ![client][0] = frame']
                     /\ UNCHANGED cursor

\* Round robin over the buffers, whether or not they have been read.
WriteFrame == /\ shm' = [shm EXCEPT ![client][cursor] = frame']
              /\ cursor' = (cursor + 1) % Buffers

\* The next frame goes out, through the segment or inline.
SendInfer ==
  /\ frame < MaxFrame
  /\ cpc = "ready"
  /\ frame' = frame + 1
  /\ IF usesShm THEN WriteFrame ELSE UNCHANGED <<shm, cursor>>
  /\ \/ /\ Write([kind |-> "infer", shm |-> usesShm, seq |-> frame',
                  buf |-> IF usesShm THEN cursor ELSE 0])
        /\ cpc' = "inferWait"
     \/ client \notin serverEnd /\ UNCHANGED <<cpc, requests>>
  /\ UNCHANGED <<client, checks, usesShm, published, segmentFile, clientEnd, serverEnd,
                 backlog, replies, bridgeVars>>

\* infer stamps the reply with the frame at hand, and run publishes it.
InferReturns ==
  /\ ClientAt("inferWait", "ready")
  /\ Read
  /\ published' = [seq |-> frame, about |-> Head(replies[client]).about,
                   shm |-> usesShm]
  /\ UNCHANGED <<client, checks, frame, usesShm, cursor, shmVars, clientEnd, serverEnd,
                 backlog, requests, bridgeVars>>

\* The answer says ok = false, as the bridge does of a request it cannot read:
\* it is taken, and the call fails.
InferRefused ==
  /\ ClientAt("inferWait", "ready")
  /\ Read
  /\ UNCHANGED <<client, checks, frame, usesShm, cursor, published, shmVars, clientEnd,
                 serverEnd, backlog, requests, bridgeVars>>

\* The frame is skipped, the connection kept.
InferFails ==
  /\ ClientAt("inferWait", "ready")
  /\ ReadFails
  /\ UNCHANGED <<client, checks, frame, usesShm, cursor, published, shmVars, wireVars,
                 bridgeVars>>

\* A health check connects anew and waits for its answer without a bound,
\* in the thread that would use the connection of the client.
HealthCheck ==
  /\ ClientAt("ready", "healthWait") /\ checks < MaxChecks
  /\ bpc # "down" /\ Len(backlog) < BacklogSize
  /\ checks' = checks + 1
  /\ clientEnd' = clientEnd \cup {Checking'}
  /\ serverEnd' = serverEnd \cup {Checking'}
  /\ backlog' = Append(backlog, Checking')
  /\ requests' = [requests EXCEPT ![Checking'] = <<[NoMessage EXCEPT !.kind = "health"]>>]
  /\ UNCHANGED <<client, frame, usesShm, cursor, published, shmVars, replies,
                 bridgeVars>>

\* The answer, or the end of the connection; either closes it.
HealthReturns ==
  /\ ClientAt("healthWait", "ready")
  /\ replies[Checking] # <<>> \/ Checking \notin serverEnd
  /\ clientEnd' = clientEnd \ {Checking}
  /\ replies' = [replies EXCEPT ![Checking] = <<>>]
  /\ UNCHANGED <<client, checks, frame, usesShm, cursor, published, shmVars,
                 serverEnd, backlog, requests, bridgeVars>>

\* The detector's loop ends and Drop asks the bridge to exit ...
SendShutdown ==
  /\ cpc = "ready"
  /\ \/ /\ cpc' = "shutdownWait"
        /\ Write([NoMessage EXCEPT !.kind = "shutdown"])
        /\ UNCHANGED <<client, checks, frame, usesShm, cursor, published, clientEnd,
                       replies, segmentFile>>
     \/ client \notin serverEnd /\ EndClient /\ RemoveSegment /\ UNCHANGED requests
  /\ UNCHANGED <<shm, serverEnd, backlog, bridgeVars>>

\* ... taking whatever comes next, or a timeout, for the answer.
ShutdownDone ==
  /\ cpc = "shutdownWait"
  /\ EndClient /\ RemoveSegment
  /\ UNCHANGED <<shm, serverEnd, backlog, requests, bridgeVars>>

\* panic=abort or a kill: nothing is dropped, the segment's file stays.
ClientDies ==
  /\ cpc # "down"
  /\ EndClient
  /\ UNCHANGED <<shmVars, serverEnd, backlog, requests, bridgeVars>>

-----------------------------------------------------------------------------
(* run_bridge: accept or receive, handle, reply.                           *)

BridgeAt(pc, next) == bpc = pc /\ bpc' = next

Accept ==
  /\ BridgeAt("loop", "loop")
  /\ serving = 0 /\ backlog # <<>>
  /\ serving' = Head(backlog)
  /\ backlog' = Tail(backlog)
  /\ UNCHANGED <<clientVars, shmVars, clientEnd, serverEnd, requests, replies,
                 job, answer, mapped, declared>>

Receive ==
  /\ BridgeAt("loop", "handle")
  /\ serving # 0 /\ requests[serving] # <<>>
  /\ job' = Head(requests[serving])
  /\ requests' = [requests EXCEPT ![serving] = Tail(@)]
  /\ UNCHANGED <<clientVars, shmVars, clientEnd, serverEnd, backlog, replies,
                 serving, answer, mapped, declared>>

\* Mutant: the descriptor of a client that went away is kept (issue #12).
HangUpForgotten ==
  /\ BridgeAt("loop", "loop")
  /\ serving # 0 /\ requests[serving] = <<>>
  /\ UNCHANGED <<clientVars, shmVars, wireVars, serving, job, answer, mapped,
                 declared>>

\* End of file, or 30 s without a request from a connected client - one
\* that waits for the answer to a health check, too.
HangUp ==
  /\ BridgeAt("loop", "loop")
  /\ serving # 0 /\ requests[serving] = <<>>
  /\ serving \in clientEnd => cpc \in {"ready", "healthWait"}
  /\ serving' = 0
  /\ serverEnd' = serverEnd \ {serving}
  /\ UNCHANGED <<clientVars, shmVars, clientEnd, backlog, requests, replies,
                 job, answer, mapped, declared>>

\* ShmFrameSource::open closes the old mapping first, and may fail.
OpenSegment == mapped' \in {0, segmentFile}

HandleInit ==
  /\ BridgeAt("handle", "reply")
  /\ job.kind = "init"
  /\ \/ /\ answer' = [NoAnswer EXCEPT !.kind = "init_ack"]
        /\ IF job.shm THEN OpenSegment ELSE UNCHANGED mapped
        /\ declared' = job.shm
     \/ /\ answer' = [NoAnswer EXCEPT !.kind = "init_nak"]
        /\ UNCHANGED <<mapped, declared>>
  /\ UNCHANGED <<clientVars, shmVars, wireVars, serving, job>>

\* Mutant: frame_shm_buf is not parsed.
PixelsOfFirst(msg) == IF mapped # 0
                      THEN IF declared THEN shm[mapped][0] ELSE NoPixels
                      ELSE IF msg.shm THEN NoPixels ELSE msg.seq

\* What the inference looks at: an open segment hides the inline frame, and
\* is read with the size the last init declared.
Pixels(msg) == IF mapped # 0
               THEN IF declared THEN shm[mapped][msg.buf] ELSE NoPixels
               ELSE IF msg.shm THEN NoPixels ELSE msg.seq

HandleInfer ==
  /\ BridgeAt("handle", "reply")
  /\ job.kind = "infer"
  /\ answer' = [kind |-> "infer_ack", about |-> Pixels(job)]
  /\ UNCHANGED <<clientVars, shmVars, wireVars, serving, job, mapped, declared>>

HandleHealth ==
  /\ BridgeAt("handle", "reply")
  /\ job.kind = "health"
  /\ answer' = [NoAnswer EXCEPT !.kind = "health_ack"]
  /\ UNCHANGED <<clientVars, shmVars, wireVars, serving, job, mapped, declared>>

\* The bridge process is gone, and with it every connection.
BridgeStops ==
  /\ bpc' = "down"
  /\ serving' = 0 /\ job' = NoMessage /\ answer' = NoAnswer
  /\ mapped' = 0 /\ declared' = FALSE
  /\ serverEnd' = {} /\ backlog' = <<>>
  /\ requests' = [c \in Connections |-> <<>>]

HandleShutdown ==
  /\ bpc = "handle" /\ job.kind = "shutdown"
  /\ BridgeStops
  /\ UNCHANGED <<clientVars, shmVars, clientEnd, replies>>

\* A write to a client that went away fails, and nobody looks at the result.
Send == IF serving \in clientEnd
        THEN [replies EXCEPT ![serving] = Append(@, answer)]
        ELSE replies

Reply ==
  /\ BridgeAt("reply", "loop")
  /\ replies' = Send
  /\ job' = NoMessage /\ answer' = NoAnswer
  /\ UNCHANGED <<clientVars, shmVars, clientEnd, serverEnd, backlog, requests,
                 serving, mapped, declared>>

BridgeDies ==
  /\ BridgeMayFail
  /\ bpc # "down"
  /\ BridgeStops
  /\ UNCHANGED <<clientVars, shmVars, clientEnd, replies>>

\* systemd restarts the bridge.
BridgeStarts ==
  /\ BridgeAt("down", "loop")
  /\ UNCHANGED <<clientVars, shmVars, wireVars, serving, job, answer, mapped,
                 declared>>

ClientStep == \/ StartClient \/ ConnectOk \/ ConnectFails \/ SendInit
              \/ InitAcked \/ InitFails \/ SendInfer \/ InferReturns
              \/ InferRefused \/ InferFails \/ HealthCheck \/ HealthReturns
              \/ SendShutdown \/ ShutdownDone

BridgeStep == \/ Accept \/ Receive \/ HangUp \/ HandleInit \/ HandleInfer
              \/ HandleHealth \/ HandleShutdown \/ Reply

Next == ClientStep \/ ClientDies \/ BridgeStep \/ BridgeDies \/ BridgeStarts

\* The bridge's loop is a process of its own. An idle client is hung up on
\* after 30 s, and a client that goes away closes its end, so that the loop
\* never waits for a client without bound.
BridgeSpec == Init /\ [][Next]_vars /\ WF_vars(BridgeStep)

-----------------------------------------------------------------------------
(* Properties.                                                             *)

Working == bpc \in {"handle", "reply"}

\* Infer requests of client c that it sent and has no answer read for.
Outstanding(c) == Len(requests[c]) + Len(replies[c])
                  + (IF serving = c /\ Working THEN 1 ELSE 0)

\* A client reads only the kind of answer it waits for: no init_ack is left
\* in the socket when the first frame goes out (init's timeout ends the
\* connection, infer's does not).
AnswersAreAwaited ==
  \A i \in DOMAIN replies[client] :
    /\ cpc = "initWait" => replies[client][i].kind # "infer_ack"
    /\ cpc \in {"ready", "healthWait", "inferWait"} => replies[client][i].kind = "infer_ack"

\* The frames the bridge has yet to look at for client c.
Unread(c) == {m \in ToSet(requests[c]) : m.kind = "infer"}
             \cup {m \in {job} : serving = c /\ bpc = "handle" /\ m.kind = "infer"}

\* As long as no more calls are unanswered than there are buffers, a frame
\* in the segment is not overwritten before the bridge has looked at it: the
\* round robin of infer against the reads of the bridge.
UnreadFramesIntact ==
  client \in clientEnd /\ usesShm /\ Outstanding(client) <= Buffers =>
    \A m \in Unread(client) : shm[client][m.buf] = m.seq

\* What a published event is about: of n unanswered calls the reply read is
\* that of the oldest, so the detections are those of the frame n - 1 calls
\* back (or of no pixels at all), and with one call unanswered they are
\* those of the frame they name. Only when a segment has fewer buffers than
\* calls are unanswered may it be a frame written since: never one before
\* the call, and never so of inline frames. (A bridge that stopped lost some
\* calls.)
LagIsExact ==
  [][InferReturns /\ client \in serverEnd =>
       LET asked  == frame - (Outstanding(client) - 1)
           newest == IF usesShm /\ Outstanding(client) > Buffers THEN frame ELSE asked
       IN published'.about \in {NoPixels} \cup asked..newest]_vars

\* The bridge gets round to a new client whatever became of the last one,
\* unless it is stopped first: its loop hangs up on clients that ended. A
\* health check is reached too, although the bridge waits for the client
\* that waits for the check: it hangs up on that client first.
NewClientIsAccepted ==
  \A c \in Connections : c \in ToSet(backlog) ~> c \notin ToSet(backlog)
=============================================================================
