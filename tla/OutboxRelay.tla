---------------------------- MODULE OutboxRelay -----------------------------
(***************************************************************************)
(* The transactional outbox: modules append events in their own            *)
(* transactions (pkg/outbox writer.go), and the relays of all cmd/api      *)
(* replicas publish them to JetStream (relay.go).                          *)
(*                                                                         *)
(* A relay reads a batch FOR UPDATE SKIP LOCKED, publishes row by row and  *)
(* records each result in the same transaction, so what it recorded is     *)
(* only there, and the locks only gone, once that transaction ends.        *)
(* JetStream is external: a publish is stored and acknowledged, refused,   *)
(* or stored with the acknowledgement lost.                                *)
(***************************************************************************)
EXTENDS Naturals, FiniteSets

CONSTANTS Events,
          Relays,    \* one per cmd/api replica
          Times,     \* created_at: when the appending transaction began
          BatchSize, \* RelayConfig.BatchSize
          MaxRetry,  \* RelayConfig.MaxRetry
          MaxFaults  \* bound: failed publishes and statements, crashes

ASSUME OutboxAssumption ==
  /\ Times \subseteq Nat /\ Times # {}
  /\ BatchSize \in Nat \ {0} /\ MaxRetry \in Nat \ {0} /\ MaxFaults \in Nat

VARIABLES
  outbox,   \* event_outbox: the committed row of each event
  relay,    \* the transaction of each relay
  stream,   \* copies of each event in the stream, ever
  faults    \* faults so far

outboxVars == <<outbox, relay, stream, faults>>

Row == [ status : {"absent", "pending", "published"}, created : Times,
         attempts : 0 .. MaxRetry ]

(* todo: rows of the batch still to publish; sent, failed: results         *)
(* recorded in the transaction; aborted: a statement failed in it.         *)
Relay == [ open : BOOLEAN, todo : SUBSET Events, sent : SUBSET Events,
           failed : SUBSET Events, aborted : BOOLEAN ]

IdleRelay == [ open |-> FALSE, todo |-> {}, sent |-> {}, failed |-> {}, aborted |-> FALSE ]

OutboxInit ==
  /\ outbox \in [Events -> { row \in Row : row.status = "absent" /\ row.attempts = 0 }]
  /\ relay = [r \in Relays |-> IdleRelay]
  /\ stream = [e \in Events |-> 0]
  /\ faults = 0

fault(n) == faults + n <= MaxFaults /\ faults' = faults + n

appended == { e \in Events : outbox[e].status # "absent" }

(* Rows a relay found and locked, until its transaction ends.              *)
batch(r) == relay[r].todo \cup relay[r].sent \cup relay[r].failed

(* created_at orders the batch; transactions that began in one instant may *)
(* come in either order.                                                   *)
oldest(S, T) == \A e \in S, x \in T : outbox[e].created <= outbox[x].created

-----------------------------------------------------------------------------
(* Writer.Append, committed with the state change it belongs to.  Rows     *)
(* commit in any order of their created_at.                                *)
AppendEvent(e) ==
  /\ outbox[e].status = "absent"
  /\ outbox' = [outbox EXCEPT ![e].status = "pending"]
  /\ UNCHANGED <<relay, stream, faults>>

(* Fault: the drain query does not skip locked rows.                       *)
FaultDrainLocked ==
  { e \in Events : outbox[e].status = "pending" /\ outbox[e].attempts < MaxRetry }

(* The WHERE clause of the drain query, and its SKIP LOCKED.               *)
drainable ==
  { e \in Events : /\ outbox[e].status = "pending" /\ outbox[e].attempts < MaxRetry
                   /\ \A r \in Relays : e \notin batch(r) }

(* drainOnce, the query: the oldest drainable rows, at most BatchSize.     *)
(* With none the relay waits for its tick.                                 *)
Drain(r) ==
  /\ ~ relay[r].open
  /\ \E rows \in SUBSET drainable :
       /\ rows # {} /\ Cardinality(rows) <= BatchSize
       /\ rows = drainable \/ Cardinality(rows) = BatchSize
       /\ oldest(rows, drainable \ rows)
       /\ relay' = [relay EXCEPT ![r] = [ IdleRelay EXCEPT !.open = TRUE, !.todo = rows ]]
  /\ UNCHANGED <<outbox, stream, faults>>

(* The UPDATE of handleRow, after met faults.  Once a statement fails the  *)
(* transaction accepts no other.                                           *)
record(r, result, met) ==
  \/ fault(met) /\ relay' = [relay EXCEPT ![r] = result]
  \/ fault(met + 1) /\ relay' = [relay EXCEPT ![r] = [ result EXCEPT !.aborted = TRUE ]]

published(r, e) == [ relay[r] EXCEPT !.todo = @ \ {e}, !.sent = @ \cup {e} ]

refused(r, e) == [ relay[r] EXCEPT !.todo = @ \ {e}, !.failed = @ \cup {e} ]

(* Fault: the row is marked published whatever Publish returned.           *)
FaultMarkRefused(r) ==
  \E e \in relay[r].todo :
    /\ oldest({e}, relay[r].todo)
    /\ \/ stream' = [stream EXCEPT ![e] = @ + 1] /\ record(r, published(r, e), 0)
       \/ stream' = stream /\ record(r, published(r, e), 1)
    /\ UNCHANGED outbox

(* handleRow: publish, then record the result in the transaction.  It      *)
(* reports no error, so the rows that follow a failed statement are        *)
(* published although nothing about them can be recorded any more.         *)
handleRow(r) ==
  \E e \in relay[r].todo :
    /\ oldest({e}, relay[r].todo)
    /\ \/ stream' = [stream EXCEPT ![e] = @ + 1] /\ record(r, published(r, e), 0)
       \/ /\ stream' \in {stream, [stream EXCEPT ![e] = @ + 1]}
          /\ record(r, refused(r, e), 1)
    /\ UNCHANGED outbox

(* The end of the transaction: a commit after a failed statement is a      *)
(* rollback.                                                               *)
CommitDrain(r) ==
  /\ relay[r].open /\ relay[r].todo = {}
  /\ outbox' = IF relay[r].aborted THEN outbox
               ELSE [e \in Events |->
                      [ outbox[e] EXCEPT
                          !.status   = IF e \in relay[r].sent THEN "published" ELSE @,
                          !.attempts = IF e \in relay[r].failed THEN @ + 1 ELSE @ ]]
  /\ relay' = [relay EXCEPT ![r] = IdleRelay]
  /\ UNCHANGED <<stream, faults>>

(* The process dies, or loses Postgres, before the commit.                 *)
Crash(r) ==
  /\ relay[r].open
  /\ fault(1)
  /\ relay' = [relay EXCEPT ![r] = IdleRelay]
  /\ UNCHANGED <<outbox, stream>>

RelayStep(r) == Drain(r) \/ handleRow(r) \/ CommitDrain(r)

OutboxNext == \/ \E e \in Events : AppendEvent(e)
              \/ \E r \in Relays : RelayStep(r) \/ Crash(r)

OutboxSpec == OutboxInit /\ [][OutboxNext]_outboxVars

-----------------------------------------------------------------------------
(* Properties.                                                             *)

OutboxTypeOK ==
  /\ outbox \in [Events -> Row]
  /\ relay \in [Relays -> Relay]
  /\ stream \in [Events -> Nat]
  /\ faults \in 0 .. MaxFaults

(* "The Relay marks a row as published only after Publisher.Publish        *)
(* returns nil": a row that says published is in the stream.               *)
PublishedWasSent ==
  \A e \in Events : outbox[e].status = "published" => stream[e] > 0

(* FOR UPDATE SKIP LOCKED "partitions the work without leader election":   *)
(* no event is published twice without a fault, and a fault costs an event *)
(* at most one more copy.                                                  *)
NoDoublePublish ==
  \A e \in Events : stream[e] <= 1 + faults
=============================================================================
