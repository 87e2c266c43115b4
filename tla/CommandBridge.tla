--------------------------- MODULE CommandBridge ---------------------------
(***************************************************************************)
(* The telephony bridge: commands from the JetStream work queue            *)
(* (internal/telephony/nats_bridge) to one FreeSWITCH node, over the       *)
(* supervised connection of internal/telephony/pool, which the health      *)
(* probe and the channel-count reconciler of internal/telephony/router     *)
(* use as well.                                                            *)
(*                                                                         *)
(* Every replica of the bridge runs a subscription, which handles one      *)
(* message at a time, a supervisor and a reconciler, with a pool of its    *)
(* own.  They share the stream, the idempotency keys in Redis and the      *)
(* node.  The stream and FreeSWITCH are external: the first delivers a     *)
(* message until it is acknowledged, the second answers a connection's     *)
(* commands in order, when it likes.                                       *)
(***************************************************************************)
EXTENDS ESLClient, TLC

CONSTANTS Replicas,
          Reconcilers,  \* replicas whose reconciler has a turn
          Commands,
          Malformed,    \* commands of no known kind
          MaxConns,     \* bound: connections per replica
          MaxFaults     \* bound: timeouts, lost links and acks, crashes, ...

Callers == {"handler", "supervisor", "reconciler"}

ASSUME BridgeAssumption ==
  /\ Nil \notin Commands \cup Callers
  /\ Reconcilers \subseteq Replicas /\ Malformed \subseteq Commands
  /\ MaxConns \in Nat \ {0} /\ MaxFaults \in Nat

VARIABLES
  stream,    \* the messages of the command stream
  seen,      \* commands with an idempotency key
  clients,   \* the esl.Clients each replica has dialled, newest last
  node,      \* nodeState: the client Get hands out, 0 when unhealthy
  job,       \* the handler of each replica
  sup,       \* the supervisor of each replica
  rec,       \* the reconciler of each replica
  faults,    \* faults so far
  \* history, read by no guard
  executed,  \* how often FreeSWITCH carried out a command
  failed,    \* commands whose handler returned an error or died
  expired,   \* replicas whose current client has had a command time out
  crossed    \* callers that took a reply which was not theirs

vars == <<stream, seen, clients, node, job, sup, rec, faults,
          executed, failed, expired, crossed>>

IdleJob == [ pc |-> "idle", cmd |-> Nil, client |-> 0 ]

Init ==
  /\ stream = [c \in Commands |-> "none"]
  /\ seen = {}
  /\ clients = [b \in Replicas |-> << >>]
  /\ node = [b \in Replicas |-> 0]
  /\ job = [b \in Replicas |-> IdleJob]
  /\ sup = [b \in Replicas |-> "down"]
  /\ rec = [b \in Replicas |-> 0]
  /\ faults = 0
  /\ executed = [c \in Commands |-> 0]
  /\ failed = {}
  /\ expired = {}
  /\ crossed = {}

Fault == faults < MaxFaults /\ faults' = faults + 1

setClient(b, i, c) == clients' = [clients EXCEPT ![b][i] = c]

current(b) == Len(clients[b])

(* A caller takes the first reply, whosever it is.                         *)
take(b, i, p) ==
  /\ setClient(b, i, receive(clients[b][i]))
  /\ crossed' = IF Head(clients[b][i].replies).late THEN crossed \cup {p} ELSE crossed

(* A caller's context expires.                                             *)
giveUp(b, i) ==
  /\ Fault
  /\ setClient(b, i, expire(clients[b][i]))
  /\ expired' = IF i = current(b) THEN expired \cup {b} ELSE expired

waiting(b, i, p) == clients[b][i].mutex = p

-----------------------------------------------------------------------------
(* The handler of a command.                                               *)

Publish(c) ==
  /\ stream[c] = "none"
  /\ stream' = [stream EXCEPT ![c] = "pending"]
  /\ UNCHANGED <<seen, clients, node, job, sup, rec, faults, executed, failed, expired, crossed>>

handled(c) == \E b \in Replicas : job[b].cmd = c

(* A message is delivered; again while it is being handled if the stream's *)
(* patience (AckWait) runs out first.                                      *)
Deliver(b, c) ==
  /\ stream[c] = "pending"
  /\ job[b].pc = "idle"
  /\ job' = [job EXCEPT ![b] = [ pc |-> "mark", cmd |-> c, client |-> 0 ]]
  /\ IF handled(c) THEN Fault ELSE UNCHANGED faults
  /\ UNCHANGED <<stream, seen, clients, node, sup, rec, executed, failed, expired, crossed>>

(* handle returns nil: the message is acknowledged, unless the ack is lost.*)
Ack(b) ==
  /\ job' = [job EXCEPT ![b] = IdleJob]
  /\ \/ stream' = [stream EXCEPT ![job[b].cmd] = "acked"] /\ UNCHANGED faults
     \/ Fault /\ UNCHANGED stream
  /\ UNCHANGED failed

(* handle returns an error: the message stays, to be delivered again.      *)
Nak(b) ==
  /\ job' = [job EXCEPT ![b] = IdleJob]
  /\ failed' = failed \cup {job[b].cmd}
  /\ UNCHANGED stream

(* Fault: the key is looked up, but not set.                               *)
FaultLookupOnly(b) ==
  /\ job[b].pc = "mark"
  /\ IF job[b].cmd \in seen \cup Malformed
     THEN Ack(b)
     ELSE /\ job' = [job EXCEPT ![b].pc = "get"]
          /\ UNCHANGED <<stream, faults, failed>>
  /\ UNCHANGED <<seen, clients, node, sup, rec, executed, expired, crossed>>

(* MarkSeen (SETNX), and dispatch as far as an unknown kind or malformed   *)
(* arguments, which are acknowledged like a duplicate.                     *)
MarkSeen(b) ==
  /\ job[b].pc = "mark"
  /\ seen' = seen \cup {job[b].cmd}
  /\ IF job[b].cmd \in seen \cup Malformed
     THEN Ack(b)
     ELSE /\ job' = [job EXCEPT ![b].pc = "get"]
          /\ UNCHANGED <<stream, faults, failed>>
  /\ UNCHANGED <<clients, node, sup, rec, executed, expired, crossed>>

(* MarkSeen fails, before or after Redis has set the key.                  *)
MarkSeenFails(b) ==
  /\ job[b].pc = "mark"
  /\ Fault
  /\ seen' \in {seen, seen \cup {job[b].cmd}}
  /\ job' = [job EXCEPT ![b] = IdleJob]
  /\ failed' = failed \cup {job[b].cmd}
  /\ UNCHANGED <<stream, clients, node, sup, rec, executed, expired, crossed>>

(* Fault: an unhealthy node is not reported.                               *)
FaultGetSilent(b) ==
  /\ job[b].pc = "get"
  /\ IF node[b] = 0 THEN Ack(b)
     ELSE /\ job' = [job EXCEPT ![b].pc = "send", ![b].client = node[b]]
          /\ UNCHANGED <<stream, faults, failed>>
  /\ UNCHANGED <<seen, clients, node, sup, rec, executed, expired, crossed>>

(* poolAdapter: pool.Get.                                                  *)
Get(b) ==
  /\ job[b].pc = "get"
  /\ IF node[b] = 0 THEN Nak(b) /\ UNCHANGED faults
     ELSE /\ job' = [job EXCEPT ![b].pc = "send", ![b].client = node[b]]
          /\ UNCHANGED <<stream, faults, failed>>
  /\ UNCHANGED <<seen, clients, node, sup, rec, executed, expired, crossed>>

(* Originate, Hangup, MixMonitorStart, MixMonitorStop.                     *)
Send(b) ==
  LET i == job[b].client IN
  /\ job[b].pc = "send"
  /\ canWrite(clients[b][i])
  /\ setClient(b, i, write(clients[b][i], "handler", "bgapi", job[b].cmd))
  /\ job' = [job EXCEPT ![b].pc = "wait"]
  /\ UNCHANGED <<stream, seen, node, sup, rec, faults, executed, failed, expired, crossed>>

Receive(b) ==
  LET i == job[b].client IN
  /\ job[b].pc = "wait"
  /\ canReceive(clients[b][i], "handler")
  /\ take(b, i, "handler")
  /\ IF commandOK(Head(clients[b][i].replies)) THEN Ack(b)
     ELSE Nak(b) /\ UNCHANGED faults
  /\ UNCHANGED <<seen, node, sup, rec, executed, expired>>

(* Fault: the mutex is not released on the way out.                        *)
FaultKeepsMutex(b) ==
  LET i == job[b].client IN
  /\ job[b].pc = "wait"
  /\ Fault
  /\ setClient(b, i, [expire(clients[b][i]) EXCEPT !.mutex = "handler"])
  /\ expired' = IF i = current(b) THEN expired \cup {b} ELSE expired
  /\ Nak(b)
  /\ UNCHANGED <<seen, node, sup, rec, executed, crossed>>

(* handleTimeout.                                                          *)
TimesOut(b) ==
  /\ job[b].pc = "wait"
  /\ giveUp(b, job[b].client)
  /\ Nak(b)
  /\ UNCHANGED <<seen, node, sup, rec, executed, crossed>>

(* ErrNotConnected, before the write or while waiting.                     *)
NotConnected(b) ==
  LET i == job[b].client IN
  /\ job[b].pc \in {"send", "wait"}
  /\ ~ clients[b][i].open
  /\ IF job[b].pc = "wait" THEN setClient(b, i, leave(clients[b][i]))
     ELSE UNCHANGED clients
  /\ Nak(b)
  /\ UNCHANGED <<seen, node, sup, rec, faults, executed, expired, crossed>>

-----------------------------------------------------------------------------
(* The supervisor of the node: runNode, connectAndServe, forwardLoop.      *)

supervise(b, pc) == sup' = [sup EXCEPT ![b] = pc]

(* Dial and SubscribeEvents: nobody else can have this client yet.         *)
Dial(b) ==
  /\ sup[b] = "down"
  /\ current(b) < MaxConns
  /\ clients' = [clients EXCEPT ![b] =
                    Append(@, write(NewClient, "supervisor", "event", Nil))]
  /\ supervise(b, "subscribing")
  /\ expired' = expired \ {b}
  /\ UNCHANGED <<stream, seen, node, job, rec, faults, executed, failed, crossed>>

(* The probe that gates the node comes right after the subscription.       *)
Subscribed(b) ==
  LET i == current(b) IN
  /\ sup[b] = "subscribing"
  /\ canReceive(clients[b][i], "supervisor")
  /\ IF commandOK(Head(clients[b][i].replies))
     THEN /\ setClient(b, i, write(receive(clients[b][i]), "supervisor", "sofia", Nil))
          /\ supervise(b, "gating")
     ELSE /\ setClient(b, i, receive(clients[b][i]))
          /\ supervise(b, "close")
  /\ UNCHANGED <<stream, seen, node, job, rec, faults, executed, failed, expired, crossed>>

(* forwardLoop: a probe per tick.                                          *)
Probe(b) ==
  LET i == current(b) IN
  /\ sup[b] = "serve"
  /\ canWrite(clients[b][i])
  /\ setClient(b, i, write(clients[b][i], "supervisor", "sofia", Nil))
  /\ supervise(b, "probing")
  /\ UNCHANGED <<stream, seen, node, job, rec, faults, executed, failed, expired, crossed>>

(* A first probe that succeeds publishes the client; one that fails ends   *)
(* the connection.                                                         *)
Probed(b) ==
  LET i == current(b)
      ok == probeOK(Head(clients[b][i].replies))
  IN
  /\ sup[b] \in {"gating", "probing"}
  /\ canReceive(clients[b][i], "supervisor")
  /\ take(b, i, "supervisor")
  /\ supervise(b, IF ok THEN "serve" ELSE "close")
  /\ node' = [node EXCEPT ![b] = IF sup[b] = "gating" /\ ok THEN i ELSE @]
  /\ UNCHANGED <<stream, seen, job, rec, faults, executed, failed, expired>>

(* healthProbeTimeout; the subscription has no deadline.                   *)
SupervisorTimesOut(b) ==
  /\ sup[b] \in {"gating", "probing"}
  /\ waiting(b, current(b), "supervisor")
  /\ giveUp(b, current(b))
  /\ supervise(b, "close")
  /\ UNCHANGED <<stream, seen, node, job, rec, executed, failed, crossed>>

(* The connection is gone: a command fails, or the event channel closes.   *)
SupervisorNotices(b) ==
  LET i == current(b) IN
  /\ sup[b] \notin {"down", "close", "unpublish"}
  /\ ~ clients[b][i].open
  /\ IF waiting(b, i, "supervisor") THEN setClient(b, i, leave(clients[b][i]))
     ELSE UNCHANGED clients
  /\ supervise(b, "close")
  /\ UNCHANGED <<stream, seen, node, job, rec, faults, executed, failed, expired, crossed>>

(* FreeSWITCH carries out the first k commands of a dying connection.      *)
carriesOut(c, k) ==
  executed' = [x \in Commands |->
    executed[x] + (IF \E j \in 1 .. k : c.wire[j].cmd = x THEN 1 ELSE 0)]

(* The deferred Close of connectAndServe ...                               *)
CloseClient(b) ==
  LET c == clients[b][current(b)] IN
  /\ sup[b] = "close"
  /\ setClient(b, current(b), close(c))
  /\ \E k \in 0 .. Len(c.wire) : carriesOut(c, k)
  /\ supervise(b, "unpublish")
  /\ UNCHANGED <<stream, seen, node, job, rec, faults, failed, expired, crossed>>

(* ... and only then the node is marked unhealthy.                         *)
Unpublish(b) ==
  /\ sup[b] = "unpublish"
  /\ node' = [node EXCEPT ![b] = 0]
  /\ supervise(b, "down")
  /\ UNCHANGED <<stream, seen, clients, job, rec, faults, executed, failed, expired, crossed>>

-----------------------------------------------------------------------------
(* The reconciler's question: sweepNode as far as ActiveChannels.          *)

ReconcilerSends(b) ==
  LET i == node[b] IN
  /\ b \in Reconcilers
  /\ rec[b] = 0 /\ i # 0
  /\ canWrite(clients[b][i])
  /\ setClient(b, i, write(clients[b][i], "reconciler", "count", Nil))
  /\ rec' = [rec EXCEPT ![b] = i]
  /\ UNCHANGED <<stream, seen, node, job, sup, faults, executed, failed, expired, crossed>>

(* A reply that ChannelsCount rejects has no consequence.                  *)
ReconcilerReceives(b) ==
  LET i == rec[b] IN
  /\ i # 0
  /\ canReceive(clients[b][i], "reconciler")
  /\ setClient(b, i, receive(clients[b][i]))
  /\ crossed' = IF /\ Head(clients[b][i].replies).late
                   /\ countOK(Head(clients[b][i].replies))
                THEN crossed \cup {"reconciler"} ELSE crossed
  /\ rec' = [rec EXCEPT ![b] = 0]
  /\ UNCHANGED <<stream, seen, node, job, sup, faults, executed, failed, expired>>

(* reconcilerSweepTimeout, or the connection is gone.                      *)
ReconcilerFails(b) ==
  LET i == rec[b] IN
  /\ i # 0
  /\ \/ giveUp(b, i)
     \/ /\ ~ clients[b][i].open
        /\ setClient(b, i, leave(clients[b][i]))
        /\ UNCHANGED <<faults, expired>>
  /\ rec' = [rec EXCEPT ![b] = 0]
  /\ UNCHANGED <<stream, seen, node, job, sup, executed, failed, crossed>>

-----------------------------------------------------------------------------
(* FreeSWITCH, the network and the process.                                *)

(* A command is carried out, or refused with -ERR.                         *)
Answer(b) ==
  \E i \in DOMAIN clients[b] :
    LET f == Head(clients[b][i].wire) IN
    /\ clients[b][i].wire # << >>
    /\ \E ok \in IF f.kind = "bgapi" THEN BOOLEAN ELSE {TRUE} :
         /\ setClient(b, i, answer(clients[b][i], ok))
         /\ executed' = IF f.kind = "bgapi" /\ ok
                        THEN [executed EXCEPT ![f.cmd] = @ + 1] ELSE executed
    /\ UNCHANGED <<stream, seen, node, job, sup, rec, faults, failed, expired, crossed>>

LinkLost(b) ==
  LET c == clients[b][current(b)] IN
  /\ current(b) # 0
  /\ c.open
  /\ Fault
  /\ setClient(b, current(b), close(c))
  /\ \E k \in 0 .. Len(c.wire) : carriesOut(c, k)
  /\ UNCHANGED <<stream, seen, node, job, sup, rec, failed, expired, crossed>>

(* The replica dies, and starts afresh.                                    *)
Crash(b) ==
  /\ Fault
  /\ current(b) # 0
  /\ LET c == clients[b][current(b)] IN \E k \in 0 .. Len(c.wire) : carriesOut(c, k)
  /\ clients' = [clients EXCEPT ![b] = << >>]
  /\ node' = [node EXCEPT ![b] = 0]
  /\ job' = [job EXCEPT ![b] = IdleJob]
  /\ sup' = [sup EXCEPT ![b] = "down"]
  /\ rec' = [rec EXCEPT ![b] = 0]
  /\ failed' = failed \cup ({job[b].cmd} \ {Nil})
  /\ expired' = expired \ {b}
  /\ UNCHANGED <<stream, seen, crossed>>

-----------------------------------------------------------------------------
Handle(b) ==
  \/ MarkSeen(b) \/ Get(b) \/ Send(b) \/ Receive(b) \/ TimesOut(b) \/ NotConnected(b)

Supervise(b) ==
  \/ Dial(b) \/ Subscribed(b) \/ Probe(b) \/ Probed(b)
  \/ SupervisorTimesOut(b) \/ SupervisorNotices(b) \/ CloseClient(b) \/ Unpublish(b)

Reconcile(b) == ReconcilerSends(b) \/ ReconcilerReceives(b) \/ ReconcilerFails(b)

Next ==
  \/ \E c \in Commands : Publish(c)
  \/ \E b \in Replicas :
       \/ \E c \in Commands : Deliver(b, c)
       \/ Handle(b) \/ MarkSeenFails(b) \/ Supervise(b) \/ Reconcile(b)
       \/ Answer(b) \/ LinkLost(b) \/ Crash(b)

Spec == Init /\ [][Next]_vars

-----------------------------------------------------------------------------
(* Every variable keeps its type, and at most one command of a connection  *)
(* is waited for.                                                          *)
TypeOK ==
  /\ stream \in [Commands -> {"none", "pending", "acked"}]
  /\ seen \subseteq Commands
  /\ \A b \in Replicas :
       /\ node[b] \in 0 .. current(b)
       /\ rec[b] \in 0 .. current(b)
       /\ job[b].pc \in {"idle", "mark", "get", "send", "wait"}
       /\ job[b].client \in 0 .. current(b)
       /\ \A i \in 1 .. current(b) :
            /\ clients[b][i].mutex \in Callers \cup {Nil}
            /\ Len(clients[b][i].replies) <= ReplyBuffer
  /\ failed \subseteq Commands
  /\ crossed \subseteq Callers

(* A command reaches FreeSWITCH at most once, over redeliveries, lost acks,*)
(* crashes, timeouts and replicas that handle it at the same time.         *)
AtMostOnce == \A c \in Commands : executed[c] <= 1

(* An acknowledged command was carried out or is still being handled,      *)
(* unless its handler reported an error or died on the way, or took        *)
(* somebody else's reply for its own, or the command is of no known kind.  *)
NoSilentLoss ==
  \A c \in Commands \ Malformed : stream[c] = "acked" =>
    executed[c] > 0 \/ handled(c) \/ c \in failed \/ "handler" \in crossed

(* cmdMu: as long as no command on the connection has timed out, the only  *)
(* command or reply under way is that of the caller who holds the mutex,   *)
(* and so nobody can take a reply that is not theirs.                      *)
RepliesMatch ==
  \A b \in Replicas \ expired : clients[b] # << >> =>
    LET c == clients[b][current(b)] IN
    /\ Len(c.wire) + Len(c.replies) <= 1
    /\ c.open /\ c.mutex # Nil => Len(c.wire) + Len(c.replies) = 1

(* cmdMu is never left behind: whoever holds it is in sendCommand on that  *)
(* very connection, where a deadline or readLoopDone will free it.  A      *)
(* mutex that a timeout, a lost link or a closed client leaves locked      *)
(* would stop every later command to the node, the health probe included.  *)
MutexIsHeldByWaiter ==
  \A b \in Replicas : \A i \in DOMAIN clients[b] :
    CASE clients[b][i].mutex = "handler" -> job[b].pc = "wait" /\ job[b].client = i
      [] clients[b][i].mutex = "supervisor" ->
           sup[b] \in {"subscribing", "gating", "probing"} /\ i = current(b)
      [] clients[b][i].mutex = "reconciler" -> rec[b] = i
      [] OTHER -> TRUE

(* A command to FreeSWITCH is carried out at most once over redeliveries,  *)
(* lost acks, crashes and replicas that handle it together; cmdMu keeps    *)
(* replies and callers together until a command times out; and whoever     *)
(* holds it is still waiting on that connection (cmd_subscriber.go,        *)
(* esl/client.go).                                                         *)
CommandsAreSafe == TypeOK /\ AtMostOnce /\ RepliesMatch /\ MutexIsHeldByWaiter

Symmetry == Permutations(Replicas)
=============================================================================
