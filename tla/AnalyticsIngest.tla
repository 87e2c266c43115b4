-------------------------- MODULE AnalyticsIngest ---------------------------
(***************************************************************************)
(* The analytics ingest pipeline of cmd/worker (internal/analytics,        *)
(* service/ingest.go and dedup_lru.go), fed by the stream the relays fill. *)
(*                                                                         *)
(* The replicas share a queue group.  In each the bus runs one handler at  *)
(* a time for a subject, which drops what its LRU remembers, buffers the   *)
(* rest and is acknowledged; the ticker and a full buffer flush it to      *)
(* ClickHouse.  A flush takes the buffer under the mutex and inserts after *)
(* releasing it, so a handler and the ticker may each have rows in flight. *)
(* The three subjects run the same code on their own LRU and buffer; one   *)
(* is modelled.                                                            *)
(***************************************************************************)
EXTENDS OutboxRelay, Sequences

CONSTANTS Replicas,
          FlushSize, \* IngestConfig.BatchSize
          DedupSize  \* IngestConfig.DedupSize

ASSUME IngestAssumption ==
  /\ FlushSize \in Nat \ {0} /\ DedupSize \in Nat \ {0}

VARIABLES
  malformed, \* events whose payload does not decode, or has no event_id
  replica,   \* the process of each replica
  acked,     \* the copies in the stream that were acknowledged
  warehouse, \* rows of each event in ClickHouse
  lost,      \* history: events whose rows were given up
  stops      \* orderly shutdowns among the faults so far

ingestVars == <<malformed, replica, acked, warehouse, lost, stops>>
vars == <<outboxVars, ingestVars>>

(* "up": running; "draining": the context is cancelled; "returned": Run is *)
(* over and the subscription still there; "down": the process is gone.     *)
Modes == {"up", "draining", "returned", "down"}

(* The goroutine that runs handlers, and the one that runs the ticker and  *)
(* after it the final drain.                                               *)
Threads == {"handler", "flusher"}

(* A copy of an event in the stream.                                       *)
Copies == { <<e, i>> : e \in Events, i \in 1 .. MaxFaults + 1 }

(* pc: what the handler does with its message; taken: the rows a thread    *)
(* swapped out; drained: the final drain has begun.                        *)
Replica == [ mode : Modes, pc : {"idle", "flush", "ack"}, msg : SUBSET Copies,
             lru : Seq(Events), buffer : Seq(Events),
             taken : [Threads -> Seq(Events)], drained : BOOLEAN ]

FreshReplica == [ mode |-> "up", pc |-> "idle", msg |-> {}, lru |-> << >>,
                  buffer |-> << >>, taken |-> [t \in Threads |-> << >>],
                  drained |-> FALSE ]

DownReplica == [ FreshReplica EXCEPT !.mode = "down" ]

IngestInit ==
  /\ malformed \in SUBSET Events
  /\ replica = [p \in Replicas |-> FreshReplica]
  /\ acked = {}
  /\ warehouse = [e \in Events |-> 0]
  /\ lost = {}
  /\ stops = 0

elements(s) == { s[i] : i \in DOMAIN s }
inHand == UNION { replica[p].msg : p \in Replicas }

(* The rows a process has accepted and not yet inserted.                   *)
held(p) == elements(replica[p].buffer)
             \cup UNION { elements(replica[p].taken[t]) : t \in Threads }

-----------------------------------------------------------------------------
(* Fault: a hit does not refresh the entry.                                *)
FaultNoPromotion(lru, cap, id) ==
  IF id \in elements(lru) THEN lru
  ELSE <<id>> \o SubSeq(lru, 1, IF Len(lru) >= cap THEN Len(lru) - 1 ELSE Len(lru))

(* DedupLRU.Add, most recent first: a hit moves to the front, a miss       *)
(* evicts the oldest of a full list.                                       *)
Add(lru, cap, id) ==
  <<id>> \o IF id \in elements(lru) THEN SelectSeq(lru, LAMBDA x : x # id)
            ELSE SubSeq(lru, 1, IF Len(lru) >= cap THEN Len(lru) - 1 ELSE Len(lru))

(* The handler (handleCalls): a message that does not decode and one the   *)
(* LRU knows are acknowledged; any other is buffered, and the buffer       *)
(* flushed when it is full.                                                *)
handleMessage(r, c) ==
  LET e   == c[1]
      got == [ r EXCEPT !.msg = {c}, !.pc = "ack" ]
      rem == [ got EXCEPT !.lru = Add(@, DedupSize, e) ]
  IN  IF e \in malformed THEN got
      ELSE IF e \in elements(r.lru) THEN rem
      ELSE [ rem EXCEPT !.buffer = @ \o <<e>>,
                        !.pc = IF Len(r.buffer) + 1 >= FlushSize THEN "flush" ELSE "ack" ]

(* The bus hands an unacknowledged copy to a replica of the group.         *)
Deliver(p) ==
  /\ replica[p].mode # "down" /\ replica[p].pc = "idle"
  /\ \E c \in Copies :
       /\ c[2] <= stream[c[1]] /\ c \notin acked \cup inHand
       /\ replica' = [replica EXCEPT ![p] = handleMessage(@, c)]
  /\ UNCHANGED <<outboxVars, malformed, acked, warehouse, lost, stops>>

(* A copy is handled again: its acknowledgement was lost, or the handler   *)
(* took longer than the bus waits for one.                                 *)
Redeliver(p) ==
  /\ replica[p].mode # "down" /\ replica[p].pc = "idle"
  /\ \E c \in acked \cup inHand : replica' = [replica EXCEPT ![p] = handleMessage(@, c)]
  /\ fault(1)
  /\ UNCHANGED <<outbox, relay, stream, malformed, acked, warehouse, lost, stops>>

(* Fault: the handler returns and its message stays in hand.               *)
FaultKeepMessage(p) ==
  /\ replica[p].pc = "ack"
  /\ acked' = acked \cup replica[p].msg
  /\ replica' = [replica EXCEPT ![p].pc = "idle"]
  /\ UNCHANGED <<outboxVars, malformed, warehouse, lost, stops>>

(* The acknowledgement.                                                    *)
Ack(p) ==
  /\ replica[p].pc = "ack"
  /\ acked' = acked \cup replica[p].msg
  /\ replica' = [replica EXCEPT ![p].pc = "idle", ![p].msg = {}]
  /\ UNCHANGED <<outboxVars, malformed, warehouse, lost, stops>>

-----------------------------------------------------------------------------
(* Fault: the buffer is not emptied when its rows are taken.               *)
FaultNoSwap(r, t) == [ r EXCEPT !.taken[t] = r.buffer ]

(* The first half of flushCalls: take the buffer under the mutex.          *)
swap(r, t) == [ r EXCEPT !.taken[t] = r.buffer, !.buffer = << >> ]

(* A full buffer is flushed by the handler that filled it, unless the      *)
(* ticker was faster.                                                      *)
HandlerFlush(p) ==
  LET r == replica[p] IN
  /\ r.pc = "flush" /\ r.taken["handler"] = << >>
  /\ replica' = [replica EXCEPT ![p] =
       IF r.buffer = << >> THEN [ r EXCEPT !.pc = "ack" ] ELSE swap(r, "handler")]
  /\ UNCHANGED <<outboxVars, malformed, acked, warehouse, lost, stops>>

(* Fault: the ticker leaves what is less than a batch.                     *)
FaultTickFull(p) ==
  LET r == replica[p] IN
  /\ r.mode \in {"up", "draining"} /\ ~ r.drained
  /\ Len(r.buffer) >= FlushSize /\ r.taken["flusher"] = << >>
  /\ replica' = [replica EXCEPT ![p] = swap(r, "flusher")]
  /\ UNCHANGED <<outboxVars, malformed, acked, warehouse, lost, stops>>

(* The ticker.  Its select may still choose the tick when the context is   *)
(* already cancelled.                                                      *)
Tick(p) ==
  LET r == replica[p] IN
  /\ r.mode \in {"up", "draining"} /\ ~ r.drained
  /\ r.buffer # << >> /\ r.taken["flusher"] = << >>
  /\ replica' = [replica EXCEPT ![p] = swap(r, "flusher")]
  /\ UNCHANGED <<outboxVars, malformed, acked, warehouse, lost, stops>>

(* Fault: the buffer is emptied once more after the insert.                *)
FaultClearAfter(r, t) ==
  [ r EXCEPT !.taken[t] = << >>, !.buffer = << >>, !.pc = IF t = "handler" THEN "ack" ELSE @ ]

(* The end of flushCalls, whatever the insert returned.                    *)
flushed(r, t) ==
  [ r EXCEPT !.taken[t] = << >>, !.pc = IF t = "handler" THEN "ack" ELSE @ ]

(* The second half of flushCalls: the rows go in as one batch.             *)
Insert(p, t) ==
  LET rows == replica[p].taken[t] IN
  /\ rows # << >>
  /\ warehouse' = [e \in Events |->
                     warehouse[e] + Cardinality({ i \in DOMAIN rows : rows[i] = e })]
  /\ replica' = [replica EXCEPT ![p] = flushed(@, t)]
  /\ UNCHANGED <<outboxVars, malformed, acked, lost, stops>>

(* The insert fails and its rows are gone, for their ids are in the LRU:   *)
(* by a fault, because the ticker's insert runs under the context that was *)
(* cancelled, or because ClickHouse was closed when Run returned.          *)
InsertFails(p, t) ==
  LET r == replica[p] IN
  /\ r.taken[t] # << >>
  /\ \/ fault(1)
     \/ /\ \/ t = "flusher" /\ r.mode = "draining" /\ ~ r.drained
           \/ r.mode = "returned"
        /\ UNCHANGED faults
  /\ lost' = lost \cup elements(r.taken[t])
  /\ replica' = [replica EXCEPT ![p] = flushed(@, t)]
  /\ UNCHANGED <<outbox, relay, stream, malformed, acked, warehouse, stops>>

-----------------------------------------------------------------------------
(* SIGTERM cancels the context of Run.  It is no fault, but is counted     *)
(* among them to bound the two together.                                   *)
Stop(p) ==
  /\ replica[p].mode = "up"
  /\ fault(1)
  /\ stops' = stops + 1
  /\ replica' = [replica EXCEPT ![p].mode = "draining"]
  /\ UNCHANGED <<outbox, relay, stream, malformed, acked, warehouse, lost>>

(* Run, the ticker gone: the final flushAll under a context of its own.    *)
FinalDrain(p) ==
  LET r == replica[p] IN
  /\ r.mode = "draining" /\ ~ r.drained /\ r.taken["flusher"] = << >>
  /\ replica' = [replica EXCEPT ![p] = [ swap(r, "flusher") EXCEPT !.drained = TRUE ]]
  /\ UNCHANGED <<outboxVars, malformed, acked, warehouse, lost, stops>>

(* Run returns; handlers are still called.                                 *)
Return(p) ==
  /\ replica[p].drained /\ replica[p].mode = "draining"
  /\ replica[p].taken["flusher"] = << >>
  /\ replica' = [replica EXCEPT ![p].mode = "returned"]
  /\ UNCHANGED <<outboxVars, malformed, acked, warehouse, lost, stops>>

(* The deferred Close of the subscriber waits for the handler, and the     *)
(* process ends.                                                           *)
Close(p) ==
  /\ replica[p].mode = "returned" /\ replica[p].pc = "idle"
  /\ lost' = lost \cup held(p)
  /\ replica' = [replica EXCEPT ![p] = DownReplica]
  /\ UNCHANGED <<outboxVars, malformed, acked, warehouse, stops>>

(* The process dies.                                                       *)
Die(p) ==
  /\ replica[p].mode # "down"
  /\ fault(1)
  /\ lost' = lost \cup held(p)
  /\ replica' = [replica EXCEPT ![p] = DownReplica]
  /\ UNCHANGED <<outbox, relay, stream, malformed, acked, warehouse, stops>>

Restart(p) ==
  /\ replica[p].mode = "down"
  /\ replica' = [replica EXCEPT ![p] = FreshReplica]
  /\ UNCHANGED <<outboxVars, malformed, acked, warehouse, lost, stops>>

HandlerStep(p) == Deliver(p) \/ Ack(p) \/ HandlerFlush(p) \/ Insert(p, "handler")

FlusherStep(p) == Tick(p) \/ Insert(p, "flusher") \/ FinalDrain(p) \/ Return(p)

ProcessStep(p) == Close(p) \/ Restart(p)

Disturb(p) == \/ Redeliver(p) \/ Stop(p) \/ Die(p)
              \/ \E t \in Threads : InsertFails(p, t)

IngestNext == \E p \in Replicas :
  HandlerStep(p) \/ FlusherStep(p) \/ ProcessStep(p) \/ Disturb(p)

Init == OutboxInit /\ IngestInit

Next == (OutboxNext /\ UNCHANGED ingestVars) \/ IngestNext

(* Every goroutine of a live process gets to run, the bus delivers what is *)
(* not acknowledged, and a stopped pod is replaced.                        *)
Fairness ==
  /\ \A r \in Relays : WF_vars(RelayStep(r) /\ UNCHANGED ingestVars)
  /\ \A p \in Replicas :
       WF_vars(HandlerStep(p)) /\ WF_vars(FlusherStep(p)) /\ WF_vars(ProcessStep(p))

Spec == Init /\ [][Next]_vars /\ Fairness

-----------------------------------------------------------------------------
(* Properties.                                                             *)

TypeOK ==
  /\ OutboxTypeOK
  /\ malformed \in SUBSET Events
  /\ replica \in [Replicas -> Replica]
  /\ acked \in SUBSET Copies
  /\ warehouse \in [Events -> Nat]
  /\ lost \in SUBSET Events
  /\ stops \in 0 .. faults
  /\ \A p \in Replicas :
       /\ Len(replica[p].lru) <= DedupSize
       /\ replica[p].pc = "idle" <=> replica[p].msg = {}
       /\ replica[p].taken["handler"] # << >> => replica[p].pc = "flush"

wellFormedAcked == { c[1] : c \in acked } \ malformed

(* The handler acknowledges what it has only buffered, while the ticker    *)
(* may be flushing: an acknowledged event is in ClickHouse, in the buffer  *)
(* or in flight, or among those a failed insert or an ended process gave   *)
(* up.  None slips between the swap of a buffer and the next append.       *)
AckedIsAccounted ==
  \A e \in wellFormedAcked :
    warehouse[e] > 0 \/ e \in lost \/ \E p \in Replicas : e \in held(p)

(* Outbox, queue group and LRU together: every event is counted once, and  *)
(* each fault adds at most one row of it.                                  *)
OneRowPerEvent == \A e \in Events : warehouse[e] <= 1 + (faults - stops)

(* The contents of a DedupLRU after the first n of the ids of s.           *)
contents(s, cap) ==
  LET after[n \in 0 .. Len(s)] == IF n = 0 THEN << >> ELSE Add(after[n - 1], cap, s[n])
  IN  after[Len(s)]

(* The distinct ids seen since s last mentioned id.                        *)
since(s, id) == { s[i] : i \in { j \in DOMAIN s : \A k \in j .. Len(s) : s[k] # id } }

(* "LEAST-RECENTLY-INSERTED-OR-SEEN id is evicted": whatever it was given, *)
(* a DedupLRU remembers exactly the ids seen last, hits included, each     *)
(* once.  It is about Add alone and evaluated where nothing was appended.  *)
DedupWindow ==
  appended = {} => \A cap \in 1 .. 3, n \in 0 .. 5 : \A s \in [1 .. n -> 1 .. 4] :
    LET lru == contents(s, cap) IN
    /\ elements(lru) = { id \in elements(s) : Cardinality(since(s, id)) < cap }
    /\ Len(lru) = Cardinality(elements(lru))

(* Every event a module commits reaches ClickHouse, unless it is parked,   *)
(* dead-lettered or given up.                                              *)
EventsArrive ==
  \A e \in Events :
    e \in appended ~> \/ warehouse[e] > 0 \/ e \in malformed \cup lost
                      \/ outbox[e].attempts = MaxRetry
=============================================================================
