------------------------- MODULE RealtimeConnection -------------------------
(***************************************************************************)
(* One WebSocket connection of the realtime module: the authentication     *)
(* handshake, the reader, writer and pinger goroutines, the two outbound   *)
(* queues and the close-once protocol.  Frames are abstracted to what the  *)
(* queues tell apart: critical frames carry a sequence number (modulo      *)
(* Wrap), telemetry and control frames are counted.                        *)
(***************************************************************************)
EXTENDS Integers, Sequences

CONSTANTS
  CriticalQueueSize,   \* capacity of criticalCh
  WriteBufferSize,     \* capacity of telemetryCh
  PongTimeout,         \* pong grace, in ping periods
  RateLimit, Burst,    \* inbound token bucket: tokens per clock unit, capacity
  Wrap                 \* sequence numbers of critical frames are taken modulo Wrap

ASSUME ConnAssumption ==
  /\ {CriticalQueueSize, WriteBufferSize, PongTimeout, RateLimit, Burst} \subseteq Nat \ {0}
  /\ Wrap \in Nat /\ Wrap > CriticalQueueSize

VARIABLE link   \* the connection

NoTopic == "no topic"
Topics == {"operators.state", "dialer.queue", "trunks.health", "call.events",
           "notifications.user", "op.commands"}
AnyTopic == Topics \cup {"unrecognised"}
CloseReasons == {"normal", "going away", "protocol error", "invalid data",
                 "policy violation", "unauthorized", "rate limited"}

TopicClass(t) ==
  CASE t \in {"call.events", "op.commands"} -> "critical"
    [] t \in {"operators.state", "dialer.queue", "trunks.health", "notifications.user"} -> "telemetry"
    [] OTHER -> "unknown"

(* Inbound frames.  A subscribe frame carries the topic and whether the    *)
(* hub will accept it (RealtimeHub models that decision); a refresh frame  *)
(* carries the validator's verdict on its token.                           *)
Inbound ==
  [type: {"refresh"}, token: {"missing", "invalid", "valid"}]
    \cup [type: {"subscribe"}, topic: AnyTopic]
    \cup [type: {"unsubscribe", "ping", "pong", "malformed", "unknown kind"}]
FirstFrames == {"read error", "bad json", "wrong kind", "missing token", "invalid token",
                "valid token, write fails", "valid token"}

(* Connection: stage is the handler's progress; closed is closeReason, or  *)
(* "no" before Close; reader, writer and pinger are the goroutines, writer *)
(* "second" being blocked in the select that also offers telemetry; age is *)
(* the time since the last pong; peer says whether the browser still       *)
(* answers; offered and written number the critical frames offered and     *)
(* written; overtook counts the telemetry frames written while a critical  *)
(* frame was waiting.                                                      *)
Goroutine == {"not started", "running", "done"}
Connection ==
  [stage: {"handshake", "refused", "attached", "running", "stopped"},
   closed: CloseReasons \cup {"no"},
   crit: UNION {[1..n -> 0..Wrap - 1] : n \in 0..CriticalQueueSize},
   tele: 0..WriteBufferSize,
   reader: Goroutine, writer: Goroutine \cup {"second"}, pinger: Goroutine,
   age: 0..PongTimeout + 1, tokens: 0..Burst,
   peer: BOOLEAN, authenticated: BOOLEAN,
   offered: 0..Wrap - 1, written: 0..Wrap - 1, overtook: 0..2]

NewConnection ==
  [stage |-> "handshake", closed |-> "no", crit |-> <<>>, tele |-> 0,
   reader |-> "not started", writer |-> "not started", pinger |-> "not started",
   age |-> 0, tokens |-> Burst, peer |-> TRUE, authenticated |-> FALSE,
   offered |-> 0, written |-> 0, overtook |-> 0]

Min2(a, b) == IF a < b THEN a ELSE b

-----------------------------------------------------------------------------
(* Close: the first caller sets the reason.                                *)
Close(k, reason) == IF k.closed = "no" THEN [k EXCEPT !.closed = reason] ELSE k

(* A full queue silently loses the frame.                                  *)
FaultDropsCritical(k) ==
  LET offer == [k EXCEPT !.offered = (@ + 1) % Wrap]
  IN  IF Len(k.crit) < CriticalQueueSize
      THEN [offer EXCEPT !.crit = Append(@, k.offered)]
      ELSE offer

sendCritical(k) ==
  LET offer == [k EXCEPT !.offered = (@ + 1) % Wrap]
  IN  IF Len(k.crit) < CriticalQueueSize
      THEN [offer EXCEPT !.crit = Append(@, k.offered)]
      ELSE Close(offer, "rate limited")

(* A full telemetry queue keeps its oldest frame as well.                  *)
FaultUnbounded(k) == [k EXCEPT !.tele = @ + 1]

(* A full telemetry queue loses its oldest frame.                          *)
sendTelemetry(k) == [k EXCEPT !.tele = Min2(@ + 1, WriteBufferSize)]

Send(k, topic) ==
  IF k.closed # "no" THEN k
  ELSE IF topic = NoTopic THEN sendTelemetry(k)
  ELSE CASE TopicClass(topic) = "critical"  -> sendCritical(k)
         [] TopicClass(topic) = "telemetry" -> sendTelemetry(k)
         [] OTHER                           -> Close(k, "protocol error")

(* tokenBucket.Allow: refill for the elapsed time, then spend a token.     *)
refilled(k, elapsed) == Min2(Burst, k.tokens + elapsed * RateLimit)
Allow(k, elapsed) == refilled(k, elapsed) >= 1
spend(k, elapsed) ==
  [k EXCEPT !.tokens = IF Allow(k, elapsed) THEN refilled(k, elapsed) - 1 ELSE refilled(k, elapsed)]

-----------------------------------------------------------------------------
(* AuthHandshake: every failure closes the socket with its own code and    *)
(* ends the handler.                                                       *)
HandshakeCode(f) ==
  CASE f = "read error"               -> "protocol error"
    [] f = "bad json"                 -> "invalid data"
    [] f = "wrong kind"               -> "policy violation"
    [] f \in {"missing token", "invalid token"} -> "unauthorized"
    [] OTHER                          -> "going away"

AuthHandshake(f) ==
  /\ link.stage = "handshake"
  /\ link' = IF f = "valid token"
             THEN [link EXCEPT !.stage = "attached", !.authenticated = TRUE]
             ELSE [Close(link, HandshakeCode(f)) EXCEPT
                     !.stage = "refused", !.authenticated = (f = "valid token, write fails")]

(* Run starts the three goroutines.                                        *)
Run ==
  /\ link.stage = "attached" /\ link.authenticated
  /\ link' = [link EXCEPT !.stage = "running", !.reader = "running",
                          !.writer = "running", !.pinger = "running"]

(* Run returns when the three goroutines have ended.                       *)
RunReturns ==
  /\ link.stage = "running"
  /\ {link.reader, link.writer, link.pinger} = {"done"}
  /\ link' = [link EXCEPT !.stage = "stopped"]

-----------------------------------------------------------------------------
(* The connection's own part of a refresh.  The claims a valid token       *)
(* brings are no state of this module, which never reads them: storing     *)
(* them, and what it does to the hub, is SwapClaims of RealtimeHub.        *)
handleRefresh(k, f) ==
  IF f.token = "valid" THEN Send(k, NoTopic)
  ELSE Close(Send(k, NoTopic), "unauthorized")

(* handleSubscribeFrame: the answer, ok or error, is sent on the topic.    *)
handleSubscribeFrame(k, f) == IF f.type = "subscribe" THEN Send(k, f.topic) ELSE k

dispatchFrame(k, f) ==
  CASE f.type = "refresh"                      -> handleRefresh(k, f)
    [] f.type \in {"subscribe", "unsubscribe"} -> handleSubscribeFrame(k, f)
    [] f.type = "ping"                         -> Send(k, NoTopic)
    [] f.type = "pong"                         -> [k EXCEPT !.age = 0]
    [] OTHER                                   -> k

(* runReader: one frame.                                                   *)
ReadFrame(f, elapsed) ==
  /\ link.reader = "running" /\ link.peer /\ link.closed = "no"
  /\ LET k == spend(link, elapsed)
     IN  link' = IF Allow(link, elapsed) THEN dispatchFrame(k, f)
                 ELSE [Close(k, "rate limited") EXCEPT !.reader = "done"]

(* runReader ends on a read error; after Close it ends because Run closes  *)
(* the socket under it.                                                    *)
ReaderEnds ==
  /\ link.reader = "running"
  /\ link.closed # "no" \/ link.peer
  /\ link' = [Close(link, "normal") EXCEPT !.reader = "done"]

-----------------------------------------------------------------------------
(* writeOne: the frame leaves the queue; a failed write closes.            *)
writeOne(k, ok) ==
  IF ok THEN [k EXCEPT !.writer = "running"]
  ELSE [Close(k, "going away") EXCEPT !.writer = "done"]

WriteCritical(ok) ==
  /\ link.writer \in {"running", "second"} /\ link.crit # <<>>
  /\ link' = [writeOne(link, ok) EXCEPT
                !.crit = Tail(@), !.overtook = 0,
                !.written = IF ok THEN (link.crit[1] + 1) % Wrap ELSE @]

(* The first select falls through whatever is queued.                      *)
FaultNoPriority ==
  /\ link.writer = "running" /\ link.closed = "no"
  /\ link' = [link EXCEPT !.writer = "second"]

(* runWriter: the first select finds neither a close nor a critical frame. *)
WriterFallsThrough ==
  /\ link.writer = "running" /\ link.closed = "no" /\ link.crit = <<>>
  /\ link' = [link EXCEPT !.writer = "second"]

WriteTelemetry(ok) ==
  /\ link.writer = "second" /\ link.tele > 0
  /\ link' = [writeOne(link, ok) EXCEPT
                !.tele = @ - 1,
                !.overtook = IF link.crit = <<>> THEN 0 ELSE Min2(@ + 1, 2)]

WriterEnds ==
  /\ link.writer \in {"running", "second"} /\ link.closed # "no"
  /\ link' = [link EXCEPT !.writer = "done"]

-----------------------------------------------------------------------------
(* The pong grace is never enforced.                                       *)
FaultNoPongCheck ==
  /\ link.pinger = "running" /\ link.closed = "no"
  /\ link' = [Send(link, NoTopic) EXCEPT !.age = Min2(@ + 1, PongTimeout + 1)]

(* runPinger: one tick sends a ping and then checks the pong age.          *)
PingTick ==
  /\ link.pinger = "running" /\ link.closed = "no"
  /\ LET k == [Send(link, NoTopic) EXCEPT !.age = Min2(@ + 1, PongTimeout + 1)]
     IN  link' = IF k.age > PongTimeout
                 THEN [Close(k, "rate limited") EXCEPT !.pinger = "done"]
                 ELSE k

PingerEnds ==
  /\ link.pinger = "running" /\ link.closed # "no"
  /\ link' = [link EXCEPT !.pinger = "done"]

(* The hub sends an event, or closes the connection.                       *)
Deliver(topic) == /\ link.stage \in {"attached", "running"}
                  /\ link' = Send(link, topic)
CloseFromOutside == /\ link.stage \in {"attached", "running"} /\ link.closed = "no"
                    /\ link' = Close(link, "going away")

(* The browser falls silent without closing the socket.                    *)
PeerFallsSilent == /\ link.stage = "running" /\ link.peer
                   /\ link' = [link EXCEPT !.peer = FALSE]

ConnInit == link = NewConnection

Read == \E f \in Inbound, elapsed \in 0..1 : ReadFrame(f, elapsed)
Write == \E ok \in BOOLEAN : WriteCritical(ok) \/ WriteTelemetry(ok)

ConnNext ==
  \/ \E f \in FirstFrames : AuthHandshake(f)
  \/ Run \/ RunReturns
  \/ Read \/ ReaderEnds
  \/ Write \/ WriterFallsThrough \/ WriterEnds
  \/ PingTick \/ PingerEnds
  \/ \E topic \in Topics : Deliver(topic)
  \/ CloseFromOutside \/ PeerFallsSilent

(* The goroutines are scheduled by the Go runtime; after Close the socket  *)
(* is closed, so a blocked read or write returns.                          *)
ConnFairness ==
  /\ WF_link(Run) /\ WF_link(RunReturns)
  /\ WF_link(ReaderEnds /\ link.closed # "no")
  /\ WF_link(WriterEnds) /\ WF_link(PingTick) /\ WF_link(PingerEnds)

-----------------------------------------------------------------------------
ConnTypeOK == link \in Connection

(* While a connection is open every critical frame offered to it has been  *)
(* written or waits in its place in criticalCh: none is dropped, repeated  *)
(* or reordered (connection.go: overflow closes instead of dropping).      *)
NoCriticalGap ==
  link.closed = "no" =>
    /\ \A i \in DOMAIN link.crit : link.crit[i] = (link.written + i - 1) % Wrap
    /\ (link.written + Len(link.crit)) % Wrap = link.offered

(* runWriter's two selects: a critical frame is overtaken by at most one   *)
(* telemetry frame, the one the writer was already free to choose.         *)
CriticalFirst == link.overtook <= 1

(* A connection whose browser fell silent is closed by the pinger, and its *)
(* Run returns with every goroutine ended.                                 *)
SilentPeerUnwinds == (link.stage = "running" /\ ~link.peer) ~> link.stage = "stopped"
=============================================================================
