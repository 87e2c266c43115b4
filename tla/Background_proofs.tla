-------------------------- MODULE Background_proofs --------------------------
(***************************************************************************)
(* What the background loops may rely on and promise: the outbox relays,   *)
(* and the retention sweeps and integrity checks among the uploads of      *)
(* recordings.                                                             *)
(***************************************************************************)
EXTENDS OutboxRelay, Retention, TLAPS

-----------------------------------------------------------------------------
(* The outbox.                                                             *)
(*                                                                         *)
(* For any number of events, relays and faults: a row marked published is  *)
(* in the stream, and an event has at most one copy more than there were   *)
(* faults.  The second is the subject of the inductive invariant.  Locks   *)
(* says that open transactions hold disjoint sets of pending rows; Budget  *)
(* says where the one copy that costs no fault is accounted for, namely in *)
(* the row or in a transaction that can still commit.                      *)

(* What a relay has locked is pending, is its own, and is in one state.    *)
Disjoint ==
  \A r \in Relays, q \in Relays : \A e \in batch(r) \cap batch(q) : r = q

OwnRows ==
  \A r \in Relays :
    /\ ~ relay[r].open => batch(r) = {}
    /\ \A e \in batch(r) : outbox[e].status = "pending" /\ outbox[e].attempts < MaxRetry
    /\ \A e \in Events : /\ ~ (e \in relay[r].todo /\ e \in relay[r].sent)
                         /\ ~ (e \in relay[r].todo /\ e \in relay[r].failed)
                         /\ ~ (e \in relay[r].sent /\ e \in relay[r].failed)

(* What is recorded as sent is in the stream.                              *)
SentIsThere ==
  \A r \in Relays : \A e \in relay[r].sent : stream[e] > 0

(* The copy that cost no fault is known to the row or to a transaction     *)
(* that can commit.                                                        *)
unrecorded(e) ==
  /\ outbox[e].status # "published"
  /\ \A r \in Relays : e \in relay[r].sent => relay[r].aborted

Budget ==
  /\ \A e \in Events : unrecorded(e) => stream[e] <= faults
  /\ \A r \in Relays : relay[r].aborted =>
       \A e \in relay[r].todo : stream[e] + 1 <= faults

OutboxInv == /\ OutboxTypeOK /\ Disjoint /\ OwnRows
        /\ PublishedWasSent /\ SentIsThere /\ NoDoublePublish /\ Budget

-----------------------------------------------------------------------------
(* What handleRow does to the transaction: one row leaves todo for sent or *)
(* failed, and faults grow with every refused publish or failed statement. *)
Handled(r, e, new, n) ==
  /\ e \in relay[r].todo
  /\ new \in Relay /\ n \in Nat
  /\ relay' = [relay EXCEPT ![r] = new]
  /\ new.open = relay[r].open
  /\ new.todo = relay[r].todo \ {e}
  /\ outbox' = outbox
  /\ faults' = faults + n /\ faults + n <= MaxFaults
  /\ \/ /\ new.sent = relay[r].sent \cup {e} /\ new.failed = relay[r].failed
        /\ stream' = [stream EXCEPT ![e] = @ + 1]
     \/ /\ new.failed = relay[r].failed \cup {e} /\ new.sent = relay[r].sent
        /\ stream' = stream \/ stream' = [stream EXCEPT ![e] = @ + 1]
        /\ n >= 1
  /\ relay[r].aborted => new.aborted
  /\ new.aborted => relay[r].aborted \/ n >= 1

(* handleRow publishes one row of the batch and records how it went.       *)
LEMMA HandleEffect ==
  ASSUME OutboxTypeOK, NEW r \in Relays, handleRow(r)
  PROVE  \E e \in Events, new \in Relay, n \in Nat : Handled(r, e, new, n)
<1>1. PICK e \in relay[r].todo :
        /\ \/ stream' = [stream EXCEPT ![e] = @ + 1] /\ record(r, published(r, e), 0)
           \/ /\ stream' \in {stream, [stream EXCEPT ![e] = @ + 1]}
              /\ record(r, refused(r, e), 1)
        /\ outbox' = outbox
  BY Zenon DEF handleRow
<1>2. relay[r] \in Relay /\ e \in Events /\ faults \in Nat
  BY <1>1 DEF OutboxTypeOK, Relay
<1>3. /\ published(r, e) \in Relay
      /\ [ published(r, e) EXCEPT !.aborted = TRUE ] \in Relay
      /\ refused(r, e) \in Relay
      /\ [ refused(r, e) EXCEPT !.aborted = TRUE ] \in Relay
  BY <1>2, Zenon DEF published, refused, Relay
<1>4. CASE stream' = [stream EXCEPT ![e] = @ + 1] /\ record(r, published(r, e), 0)
  <2>1. CASE fault(0) /\ relay' = [relay EXCEPT ![r] = published(r, e)]
    <3>1. Handled(r, e, published(r, e), 0)
      BY <1>1, <1>2, <1>3, <1>4, <2>1, Zenon DEF Handled, published, fault, Relay
    <3>  QED
      BY <1>2, <1>3, <3>1, Zenon
  <2>2. CASE fault(0 + 1) /\ relay' = [relay EXCEPT ![r] = [ published(r, e) EXCEPT !.aborted = TRUE ]]
    <3>1. Handled(r, e, [ published(r, e) EXCEPT !.aborted = TRUE ], 1)
      BY <1>1, <1>2, <1>3, <1>4, <2>2 DEF Handled, published, fault, Relay
    <3>  QED
      BY <1>2, <1>3, <3>1, Zenon
  <2>  QED
    BY <1>4, <2>1, <2>2, Zenon DEF record
<1>5. CASE /\ stream' \in {stream, [stream EXCEPT ![e] = @ + 1]}
           /\ record(r, refused(r, e), 1)
  <2>1. CASE fault(1) /\ relay' = [relay EXCEPT ![r] = refused(r, e)]
    <3>1. Handled(r, e, refused(r, e), 1)
      BY <1>1, <1>2, <1>3, <1>5, <2>1 DEF Handled, refused, fault, Relay
    <3>  QED
      BY <1>2, <1>3, <3>1, Zenon
  <2>2. CASE fault(1 + 1) /\ relay' = [relay EXCEPT ![r] = [ refused(r, e) EXCEPT !.aborted = TRUE ]]
    <3>1. Handled(r, e, [ refused(r, e) EXCEPT !.aborted = TRUE ], 2)
      BY <1>1, <1>2, <1>3, <1>5, <2>2 DEF Handled, refused, fault, Relay
    <3>  QED
      BY <1>2, <1>3, <3>1, Zenon
  <2>  QED
    BY <1>5, <2>1, <2>2, Zenon DEF record
<1>  QED
  BY <1>1, <1>4, <1>5, Zenon

(* The other steps of a relay that end or begin a transaction.             *)
Begun(r, rows) ==
  /\ ~ relay[r].open
  /\ rows \in SUBSET drainable
  /\ relay' = [relay EXCEPT ![r] = [ IdleRelay EXCEPT !.open = TRUE, !.todo = rows ]]
  /\ outbox' = outbox /\ stream' = stream /\ faults' = faults

(* Drain opens a transaction over rows nobody has locked.                  *)
LEMMA DrainEffect ==
  ASSUME NEW r \in Relays, Drain(r)
  PROVE  \E rows \in SUBSET drainable : Begun(r, rows)
BY Zenon DEF Drain, Begun

(* The empty outbox satisfies the invariant.                               *)
LEMMA Initial == OutboxInit => OutboxInv
<1>  SUFFICES ASSUME OutboxInit PROVE OutboxInv
  BY Zenon
<1>1. IdleRelay \in Relay
  BY Zenon DEF IdleRelay, Relay
<1>2. OutboxTypeOK
  BY <1>1, OutboxAssumption DEF OutboxInit, OutboxTypeOK
<1>3. \A r \in Relays : batch(r) = {} /\ relay[r].sent = {} /\ ~ relay[r].aborted
  BY Zenon DEF OutboxInit, IdleRelay, batch
<1>4. Disjoint /\ OwnRows
  BY <1>3, Zenon DEF OutboxInit, Disjoint, OwnRows, IdleRelay, batch
<1>5. PublishedWasSent /\ SentIsThere
  BY <1>3, Zenon DEF OutboxInit, PublishedWasSent, SentIsThere
<1>6. NoDoublePublish /\ Budget
  BY <1>3 DEF OutboxInit, NoDoublePublish, Budget, unrecorded
<1>  QED
  BY <1>2, <1>4, <1>5, <1>6, Zenon DEF OutboxInv

(* Every step of a relay keeps the types.                                  *)
LEMMA TypeStep == ASSUME OutboxInv, OutboxNext PROVE OutboxTypeOK'
<1>  USE DEF OutboxInv
<1>1. ASSUME NEW e \in Events, AppendEvent(e) PROVE OutboxTypeOK'
  BY <1>1, Zenon DEF AppendEvent, OutboxTypeOK, Row
<1>2. ASSUME NEW r \in Relays, Drain(r) PROVE OutboxTypeOK'
  <2>1. PICK rows \in SUBSET drainable : Begun(r, rows)
    BY <1>2, DrainEffect, Zenon
  <2>2. [ IdleRelay EXCEPT !.open = TRUE, !.todo = rows ] \in Relay
    BY Zenon DEF IdleRelay, Relay, drainable
  <2>  QED
    BY <2>1, <2>2, Zenon DEF Begun, OutboxTypeOK
<1>3. ASSUME NEW r \in Relays, handleRow(r) PROVE OutboxTypeOK'
  <2>1. PICK e \in Events, new \in Relay, n \in Nat : Handled(r, e, new, n)
    BY <1>3, HandleEffect, Zenon
  <2>2. stream' \in [Events -> Nat]
    BY <2>1 DEF Handled, OutboxTypeOK
  <2>  QED
    BY <2>1, <2>2, OutboxAssumption DEF Handled, OutboxTypeOK
<1>4. ASSUME NEW r \in Relays, CommitDrain(r) PROVE OutboxTypeOK'
  <2>1. IdleRelay \in Relay
    BY Zenon DEF IdleRelay, Relay
  <2>2. \A e \in relay[r].failed : outbox[e].attempts < MaxRetry
    BY Zenon DEF OwnRows, batch
  <2>3. outbox' \in [Events -> Row]
    <3>1. CASE relay[r].aborted
      BY <1>4, <3>1, Zenon DEF CommitDrain, OutboxTypeOK
    <3>2. CASE ~ relay[r].aborted
      <4>  SUFFICES ASSUME NEW e \in Events
                    PROVE  [ outbox[e] EXCEPT
                               !.status   = IF e \in relay[r].sent THEN "published" ELSE @,
                               !.attempts = IF e \in relay[r].failed THEN @ + 1 ELSE @ ] \in Row
        BY <1>4, <3>2, Zenon DEF CommitDrain
      <4>1. outbox[e] \in Row
        BY Zenon DEF OutboxTypeOK
      <4>2. e \in relay[r].failed => outbox[e].attempts + 1 \in 0 .. MaxRetry
        BY <2>2, <4>1, OutboxAssumption DEF Row
      <4>  QED
        BY <4>1, <4>2, Zenon DEF Row
    <3>  QED
      BY <3>1, <3>2, Zenon
  <2>  QED
    BY <1>4, <2>1, <2>3, Zenon DEF CommitDrain, OutboxTypeOK
<1>5. ASSUME NEW r \in Relays, Crash(r) PROVE OutboxTypeOK'
  <2>1. IdleRelay \in Relay
    BY Zenon DEF IdleRelay, Relay
  <2>  QED
    BY <1>5, <2>1, OutboxAssumption DEF Crash, fault, OutboxTypeOK
<1>  QED
  BY <1>1, <1>2, <1>3, <1>4, <1>5, Zenon DEF OutboxNext, RelayStep

(* A transaction that ends gives its rows back, whatever it decided.       *)
LEMMA EndStep ==
  ASSUME OutboxInv, NEW r \in Relays, relay' = [relay EXCEPT ![r] = IdleRelay],
         outbox' = outbox \/ CommitDrain(r)
  PROVE  Disjoint' /\ OwnRows'
<1>  USE DEF OutboxInv
<1>1. /\ batch(r)' = {}
      /\ \A q \in Relays : q # r => relay'[q] = relay[q] /\ batch(q)' = batch(q)
  BY Zenon DEF batch, IdleRelay, OutboxTypeOK
<1>2. Disjoint'
  BY <1>1, Zenon DEF Disjoint
<1>3. \A q \in Relays : q # r => \A e \in batch(q) : e \notin batch(r) /\ e \in Events
  BY Zenon DEF Disjoint, batch, OutboxTypeOK, Relay
<1>4. \A q \in Relays : q # r => \A e \in batch(q) : outbox'[e] = outbox[e]
  <2>  SUFFICES ASSUME NEW q \in Relays, q # r, NEW e \in batch(q), CommitDrain(r)
                PROVE  outbox'[e] = outbox[e]
    BY Zenon
  <2>1. e \notin relay[r].sent /\ e \notin relay[r].failed /\ e \in Events
    BY <1>3, Zenon DEF batch
  <2>2. outbox[e] \in Row
    BY <2>1, Zenon DEF OutboxTypeOK
  <2>  QED
    BY <2>1, <2>2, Zenon DEF CommitDrain, OutboxTypeOK, Row
<1>5. relay'[r] = IdleRelay
  BY Zenon DEF OutboxTypeOK
<1>6. OwnRows'
  BY <1>1, <1>4, <1>5 DEF OwnRows, IdleRelay
<1>  QED
  BY <1>2, <1>6, Zenon

(* Every step keeps the batches apart: the row locks of FOR UPDATE SKIP    *)
(* LOCKED.                                                                 *)
LEMMA LockStep == ASSUME OutboxInv, OutboxNext PROVE Disjoint' /\ OwnRows'
<1>  USE DEF OutboxInv
<1>1. ASSUME NEW e \in Events, AppendEvent(e) PROVE Disjoint' /\ OwnRows'
  <2>1. \A r \in Relays : e \notin batch(r) /\ batch(r) \subseteq Events
    BY <1>1, Zenon DEF AppendEvent, OwnRows, batch, OutboxTypeOK, Relay
  <2>  QED
    BY <1>1, <2>1 DEF AppendEvent, Disjoint, OwnRows, batch, OutboxTypeOK
<1>2. ASSUME NEW r \in Relays, Drain(r) PROVE Disjoint' /\ OwnRows'
  <2>1. PICK rows \in SUBSET drainable : Begun(r, rows)
    BY <1>2, DrainEffect, Zenon
  <2>2. /\ relay'[r] = [ IdleRelay EXCEPT !.open = TRUE, !.todo = rows ]
        /\ batch(r)' = rows
        /\ \A q \in Relays : q # r => relay'[q] = relay[q] /\ batch(q)' = batch(q)
    BY <2>1, Zenon DEF Begun, batch, IdleRelay, OutboxTypeOK
  <2>3. \A e \in rows : /\ outbox[e].status = "pending" /\ outbox[e].attempts < MaxRetry
                        /\ \A q \in Relays : e \notin batch(q)
    BY Zenon DEF drainable
  <2>4. Disjoint'
    BY <2>2, <2>3 DEF Disjoint
  <2>5. relay'[r].open /\ relay'[r].sent = {} /\ relay'[r].failed = {}
    BY <2>2, Zenon DEF IdleRelay
  <2>6. outbox' = outbox
    BY <2>1, Zenon DEF Begun
  <2>7. OwnRows'
    <3>  SUFFICES ASSUME NEW q \in Relays
                  PROVE  (/\ ~ relay[q].open => batch(q) = {}
                          /\ \A e \in batch(q) : /\ outbox[e].status = "pending"
                                                 /\ outbox[e].attempts < MaxRetry
                          /\ \A e \in Events :
                               /\ ~ (e \in relay[q].todo /\ e \in relay[q].sent)
                               /\ ~ (e \in relay[q].todo /\ e \in relay[q].failed)
                               /\ ~ (e \in relay[q].sent /\ e \in relay[q].failed))'
      BY Zenon DEF OwnRows
    <3>1. CASE q = r
      BY <2>2, <2>3, <2>5, <2>6, <3>1, Zenon
    <3>2. CASE q # r
      BY <2>2, <2>6, <3>2 DEF OwnRows
    <3>  QED
      BY <3>1, <3>2, Zenon
  <2>  QED
    BY <2>4, <2>7, Zenon
<1>3. ASSUME NEW r \in Relays, handleRow(r) PROVE Disjoint' /\ OwnRows'
  <2>1. PICK e \in Events, new \in Relay, n \in Nat : Handled(r, e, new, n)
    BY <1>3, HandleEffect, Zenon
  <2>2. /\ relay'[r] = new /\ outbox' = outbox
        /\ batch(r)' = batch(r)
        /\ \A q \in Relays : q # r => relay'[q] = relay[q] /\ batch(q)' = batch(q)
    BY <2>1 DEF Handled, batch, OutboxTypeOK
  <2>3. Disjoint'
    BY <2>2 DEF Disjoint
  <2>4. \A x \in Events : /\ ~ (x \in new.todo /\ x \in new.sent)
                          /\ ~ (x \in new.todo /\ x \in new.failed)
                          /\ ~ (x \in new.sent /\ x \in new.failed)
    BY <2>1, Zenon DEF OwnRows, Handled
  <2>5. new.open = relay[r].open
    BY <2>1, Zenon DEF Handled
  <2>6. OwnRows'
    BY <2>2, <2>4, <2>5 DEF OwnRows
  <2>  QED
    BY <2>3, <2>6, Zenon
<1>4. ASSUME NEW r \in Relays, CommitDrain(r) PROVE Disjoint' /\ OwnRows'
  BY <1>4, EndStep, Zenon DEF CommitDrain
<1>5. ASSUME NEW r \in Relays, Crash(r) PROVE Disjoint' /\ OwnRows'
  BY <1>5, EndStep, Zenon DEF Crash
<1>  QED
  BY <1>1, <1>2, <1>3, <1>4, <1>5, Zenon DEF OutboxNext, RelayStep

(* Every step marks only what is in the stream.                            *)
LEMMA SentStep == ASSUME OutboxInv, OutboxNext PROVE PublishedWasSent' /\ SentIsThere'
<1>  USE DEF OutboxInv
<1>1. ASSUME NEW e \in Events, AppendEvent(e) PROVE PublishedWasSent' /\ SentIsThere'
  BY <1>1, Zenon DEF AppendEvent, OutboxTypeOK, Row, PublishedWasSent, SentIsThere
<1>2. ASSUME NEW r \in Relays, Drain(r) PROVE PublishedWasSent' /\ SentIsThere'
  <2>1. PICK rows \in SUBSET drainable : Begun(r, rows)
    BY <1>2, DrainEffect, Zenon
  <2>2. /\ relay'[r].sent = {}
        /\ \A q \in Relays : q # r => relay'[q] = relay[q]
    BY <2>1, Zenon DEF Begun, IdleRelay, OutboxTypeOK
  <2>  QED
    BY <2>1, <2>2, Zenon DEF Begun, PublishedWasSent, SentIsThere
<1>3. ASSUME NEW r \in Relays, handleRow(r) PROVE PublishedWasSent' /\ SentIsThere'
  <2>1. PICK e \in Events, new \in Relay, n \in Nat : Handled(r, e, new, n)
    BY <1>3, HandleEffect, Zenon
  <2>2. \A x \in Events : stream'[x] >= stream[x] /\ stream'[x] \in Nat /\ stream[x] \in Nat
    BY <2>1 DEF Handled, OutboxTypeOK
  <2>3. PublishedWasSent'
    BY <2>1, <2>2 DEF Handled, PublishedWasSent
  <2>4. \A x \in new.sent : x \in relay[r].sent \/ (x = e /\ stream'[e] > 0)
    BY <2>1 DEF Handled, OutboxTypeOK
  <2>5. relay'[r] = new /\ \A q \in Relays : q # r => relay'[q] = relay[q]
    BY <2>1, Zenon DEF Handled, OutboxTypeOK
  <2>6. \A q \in Relays : relay[q].sent \subseteq Events
    BY Zenon DEF OutboxTypeOK, Relay
  <2>7. SentIsThere'
    BY <2>2, <2>4, <2>5, <2>6 DEF SentIsThere
  <2>  QED
    BY <2>3, <2>7, Zenon
<1>4. ASSUME NEW r \in Relays, CommitDrain(r) PROVE PublishedWasSent' /\ SentIsThere'
  <2>1. /\ relay'[r].sent = {}
        /\ \A q \in Relays : q # r => relay'[q] = relay[q]
    BY <1>4, Zenon DEF CommitDrain, IdleRelay, OutboxTypeOK
  <2>2. \A e \in Events : outbox'[e].status = "published"
          => outbox[e].status = "published" \/ e \in relay[r].sent
    BY <1>4, Zenon DEF CommitDrain, OutboxTypeOK, Row
  <2>  QED
    BY <1>4, <2>1, <2>2, Zenon DEF CommitDrain, PublishedWasSent, SentIsThere
<1>5. ASSUME NEW r \in Relays, Crash(r) PROVE PublishedWasSent' /\ SentIsThere'
  <2>1. /\ relay'[r].sent = {}
        /\ \A q \in Relays : q # r => relay'[q] = relay[q]
    BY <1>5, Zenon DEF Crash, IdleRelay, OutboxTypeOK
  <2>  QED
    BY <1>5, <2>1, Zenon DEF Crash, PublishedWasSent, SentIsThere
<1>  QED
  BY <1>1, <1>2, <1>3, <1>4, <1>5, Zenon DEF OutboxNext, RelayStep

(* Every step that publishes again has a fault to account for it.          *)
LEMMA BudgetStep == ASSUME OutboxInv, OutboxNext PROVE NoDoublePublish' /\ Budget'
<1>  USE DEF OutboxInv
<1>0. faults \in Nat /\ stream \in [Events -> Nat]
  BY OutboxAssumption DEF OutboxTypeOK
<1>1. ASSUME NEW e \in Events, AppendEvent(e) PROVE NoDoublePublish' /\ Budget'
  <2>1. \A x \in Events : unrecorded(x)' => unrecorded(x)
    BY <1>1, Zenon DEF AppendEvent, unrecorded, OutboxTypeOK, Row
  <2>  QED
    BY <1>1, <2>1, Zenon DEF AppendEvent, NoDoublePublish, Budget
<1>2. ASSUME NEW r \in Relays, Drain(r) PROVE NoDoublePublish' /\ Budget'
  <2>1. PICK rows \in SUBSET drainable : Begun(r, rows)
    BY <1>2, DrainEffect, Zenon
  <2>2. /\ relay'[r].sent = {} /\ ~ relay'[r].aborted
        /\ \A q \in Relays : q # r => relay'[q] = relay[q]
        /\ relay[r].sent = {}
    BY <2>1, Zenon DEF Begun, IdleRelay, OutboxTypeOK, OwnRows, batch
  <2>3. \A x \in Events : unrecorded(x)' => unrecorded(x)
    BY <2>1, <2>2, Zenon DEF Begun, unrecorded
  <2>  QED
    BY <2>1, <2>2, <2>3, Zenon DEF Begun, NoDoublePublish, Budget
<1>3. ASSUME NEW r \in Relays, handleRow(r) PROVE NoDoublePublish' /\ Budget'
  <2>1. PICK e \in Events, new \in Relay, n \in Nat : Handled(r, e, new, n)
    BY <1>3, HandleEffect, Zenon
  <2>2. relay'[r] = new /\ \A q \in Relays : q # r => relay'[q] = relay[q]
    BY <2>1, Zenon DEF Handled, OutboxTypeOK
  <2>3. /\ \A x \in Events : x # e => stream'[x] = stream[x]
        /\ stream'[e] <= stream[e] + 1 /\ stream'[e] \in Nat
        /\ faults' = faults + n /\ faults' \in Nat
    BY <1>0, <2>1 DEF Handled
  <2>4. unrecorded(e) /\ stream[e] <= faults
    <3>1. outbox[e].status = "pending"
      BY <2>1, Zenon DEF Handled, OwnRows, batch
    <3>2. \A q \in Relays : e \notin relay[q].sent
      BY <2>1, Zenon DEF Handled, OwnRows, Disjoint, batch
    <3>  QED
      BY <3>1, <3>2, Zenon DEF unrecorded, Budget
  <2>5. NoDoublePublish'
    BY <1>0, <2>3, <2>4 DEF NoDoublePublish
  <2>6. ASSUME NEW x \in Events, unrecorded(x)' PROVE stream'[x] <= faults'
    <3>1. CASE x = e
      <4>1. CASE n >= 1
        BY <1>0, <2>3, <2>4, <3>1, <4>1
      <4>2. CASE ~ (n >= 1)
        <5>1. e \in new.sent /\ (new.aborted => relay[r].aborted)
          BY <2>1, <4>2, Zenon DEF Handled
        <5>2. relay[r].aborted
          BY <2>2, <2>6, <3>1, <5>1, Zenon DEF unrecorded
        <5>3. stream[e] + 1 <= faults
          BY <2>1, <5>2, Zenon DEF Budget, Handled
        <5>  QED
          BY <1>0, <2>3, <3>1, <5>3
      <4>  QED
        BY <4>1, <4>2, Zenon
    <3>2. CASE x # e
      <4>1. CASE unrecorded(x)
        BY <1>0, <2>3, <3>2, <4>1 DEF Budget
      <4>2. CASE ~ unrecorded(x)
        <5>1. outbox'[x].status = outbox[x].status /\ (x \in relay[r].sent => x \in new.sent)
          BY <2>1, Zenon DEF Handled
        <5>2. new.aborted /\ ~ relay[r].aborted
          BY <2>2, <2>6, <4>2, <5>1, Zenon DEF unrecorded
        <5>3. n >= 1
          BY <2>1, <5>2, Zenon DEF Handled
        <5>  QED
          BY <1>0, <2>3, <3>2, <5>3 DEF NoDoublePublish
      <4>  QED
        BY <4>1, <4>2, Zenon
    <3>  QED
      BY <3>1, <3>2, Zenon
  <2>7. ASSUME NEW q \in Relays, relay'[q].aborted, NEW x \in relay'[q].todo
        PROVE  stream'[x] + 1 <= faults'
    <3>1. CASE q # r
      <4>1. x \in Events /\ x # e
        BY <2>1, <2>2, <2>7, <3>1 DEF Handled, Disjoint, batch, OutboxTypeOK, Relay
      <4>  QED
        BY <1>0, <2>2, <2>3, <2>7, <3>1, <4>1 DEF Budget
    <3>2. CASE q = r
      <4>1. x \in relay[r].todo /\ x # e /\ x \in Events
        BY <2>1, <2>2, <2>7, <3>2, Zenon DEF Handled, OutboxTypeOK, Relay
      <4>2. CASE relay[r].aborted
        BY <1>0, <2>3, <4>1, <4>2 DEF Budget
      <4>3. CASE ~ relay[r].aborted
        <5>1. n >= 1
          BY <2>1, <2>2, <2>7, <3>2, <4>3, ZenonT(40) DEF Handled
        <5>2. unrecorded(x)
          BY <4>1, Zenon DEF unrecorded, OwnRows, Disjoint, batch
        <5>  QED
          BY <1>0, <2>3, <4>1, <5>1, <5>2 DEF Budget
      <4>  QED
        BY <4>2, <4>3, Zenon
    <3>  QED
      BY <3>1, <3>2, Zenon
  <2>  QED
    BY <2>5, <2>6, <2>7, Zenon DEF Budget
<1>4. ASSUME NEW r \in Relays, CommitDrain(r) PROVE NoDoublePublish' /\ Budget'
  <2>1. /\ relay'[r].sent = {} /\ ~ relay'[r].aborted
        /\ \A q \in Relays : q # r => relay'[q] = relay[q]
        /\ stream' = stream /\ faults' = faults
    BY <1>4, Zenon DEF CommitDrain, IdleRelay, OutboxTypeOK
  <2>2. ASSUME NEW x \in Events, unrecorded(x)' PROVE unrecorded(x)
    <3>1. outbox[x].status # "published" /\ (x \in relay[r].sent => relay[r].aborted)
      BY <1>4, <2>2, Zenon DEF CommitDrain, unrecorded, OutboxTypeOK, Row
    <3>  QED
      BY <2>1, <2>2, <3>1, Zenon DEF unrecorded
  <2>  QED
    BY <2>1, <2>2, Zenon DEF NoDoublePublish, Budget
<1>5. ASSUME NEW r \in Relays, Crash(r) PROVE NoDoublePublish' /\ Budget'
  <2>1. /\ relay'[r].todo = {} /\ \A q \in Relays : q # r => relay'[q] = relay[q]
        /\ stream' = stream /\ faults' = faults + 1
    BY <1>5, Zenon DEF Crash, fault, IdleRelay, OutboxTypeOK
  <2>2. \A x \in Events : stream'[x] <= faults'
    BY <1>0, <2>1 DEF NoDoublePublish
  <2>3. \A q \in Relays, x \in Events :
          q # r /\ relay[q].aborted /\ x \in relay[q].todo => stream'[x] + 1 <= faults'
    BY <1>0, <2>1 DEF Budget
  <2>4. \A q \in Relays : relay[q].todo \subseteq Events
    BY Zenon DEF OutboxTypeOK, Relay
  <2>  QED
    BY <1>0, <2>1, <2>2, <2>3, <2>4 DEF NoDoublePublish, Budget
<1>  QED
  BY <1>1, <1>2, <1>3, <1>4, <1>5, Zenon DEF OutboxNext, RelayStep

-----------------------------------------------------------------------------
(* The invariant is inductive.                                             *)
THEOREM OutboxInvariance == OutboxSpec => []OutboxInv
<1>1. OutboxInv /\ UNCHANGED outboxVars => OutboxInv'
  BY DEF OutboxInv, OutboxTypeOK, Disjoint, OwnRows, PublishedWasSent, SentIsThere,
         NoDoublePublish, Budget, unrecorded, batch, outboxVars
<1>2. OutboxInv /\ OutboxNext => OutboxInv'
  BY TypeStep, LockStep, SentStep, BudgetStep, Zenon DEF OutboxInv
<1>  QED
  BY Initial, <1>1, <1>2, PTL DEF OutboxSpec

(* relay.go: "The Relay marks a row as published only after                *)
(* Publisher.Publish returns nil", and no rollback, crash or second relay  *)
(* makes a published row of an event that is not in the stream.            *)
THEOREM PublishedRowsWereSent == OutboxSpec => []PublishedWasSent
BY OutboxInvariance, PTL DEF OutboxInv

(* relay.go: FOR UPDATE SKIP LOCKED "partitions the work without leader    *)
(* election": any number of relays publish an event once, and once more    *)
(* for each fault at most.                                                 *)
THEOREM RelaysPartitionTheWork == OutboxSpec => []NoDoublePublish
BY OutboxInvariance, PTL DEF OutboxInv

-----------------------------------------------------------------------------
(* Recordings.                                                             *)
(*                                                                         *)
(* For any number of calls, commit requests, workers and faults: the       *)
(* recordings implement RecordingLife, a recording is committed and        *)
(* announced once, and it is erased once and completely.                   *)
(*                                                                         *)
(* A sweep works from a listing it made some time ago, so its guards say   *)
(* nothing of the day.  Sweeps is the strengthening: what is listed was    *)
(* committed, and its day has come; rows only age and their days stand     *)
(* still (Aging), so it stays so whoever else is sweeping.  Requests says  *)
(* that at most one transaction holds an uncommitted row of a call.        *)

Statuses == {"none", "stored", "cold", "deleted"}
Verdicts == {"unknown", "match", "mismatch"}

RecRow == [status : Statuses, by : CommitRequests \cup {"nobody"}, committedAt : Int,
        coldAt : Int, deleteAt : Int, verifiedAt : Int, integrity : Verdicts]
Trail == [committed : Nat, uploaded : Nat, accessed : Nat, cold : Nat, erased : Nat,
          deleted : Nat, verified : Nat, rotted : Nat]
Request == [pc : {"idle", "insert", "wait", "announce"}, call : RecCalls \cup {0}, now : Int,
            cold : Int, delete : Int]
SweepState == [conn : BOOLEAN, pc : {"idle", "cold", "delete", "erase"}, todo : Seq(RecCalls)]
CheckState == [conn : BOOLEAN, pc : {"idle", "verify", "persist"}, todo : Seq(RecCalls),
               verdict : Verdicts]

committed(c) == recRows[c].status # "none"

Rows ==
  /\ recRows \in [RecCalls -> RecRow] /\ rday \in Nat
  /\ \A c \in RecCalls :
       /\ ~committed(c) => recRows[c] = NoRec
       /\ committed(c) => /\ recRows[c].committedAt \in 0..rday
                          /\ recRows[c].coldAt \in planDays /\ recRows[c].deleteAt \in planDays

Trails ==
  /\ rectrail \in [RecCalls -> Trail]
  /\ \A c \in RecCalls :
       /\ rectrail[c].committed = (IF committed(c) THEN 1 ELSE 0)
       /\ rectrail[c].uploaded = (IF committed(c) THEN 1 ELSE 0)
       /\ rectrail[c].erased = (IF recRows[c].status = "deleted" THEN 1 ELSE 0)
       /\ rectrail[c].deleted = (IF recRows[c].status = "deleted" THEN 1 ELSE 0)

Requests ==
  /\ creq \in [CommitRequests -> Request]
  /\ \A q \in CommitRequests : creq[q].pc # "idle" =>
       /\ creq[q].call \in RecCalls /\ creq[q].now \in 0..rday
       /\ creq[q].cold \in planDays /\ creq[q].delete \in planDays
       /\ creq[q].pc = "announce" => ~committed(creq[q].call)
       /\ objects[creq[q].call] # "none" \/ committed(creq[q].call)
  /\ \A p, q \in CommitRequests :
       creq[p].pc = "announce" /\ creq[q].pc = "announce" /\ creq[p].call = creq[q].call => p = q

Audio ==
  /\ objects \in [RecCalls -> {"none", "audio", "damaged"}]
  /\ \A c \in RecCalls :
       /\ recRows[c].status = "deleted" => objects[c] = "none"
       /\ committed(c) /\ objects[c] = "none" => recRows[c].deleteAt <= rday

(* What a sweep at pc may have on its list.                                *)
listable(pc, c) ==
  /\ pc = "cold" => committed(c) /\ recRows[c].coldAt <= rday
  /\ pc \in {"delete", "erase"} => committed(c) /\ recRows[c].deleteAt <= rday

Sweeps ==
  /\ sweeper \in [Workers -> SweepState]
  /\ \A w \in Workers :
       /\ \A i \in 1..Len(sweeper[w].todo) : listable(sweeper[w].pc, sweeper[w].todo[i])
       /\ sweeper[w].pc = "erase" =>
            Len(sweeper[w].todo) > 0 /\ objects[sweeper[w].todo[1]] = "none"

Checks ==
  /\ checker \in [Workers -> CheckState]
  /\ \A w \in Workers : checker[w].pc # "idle" =>
       /\ Len(checker[w].todo) > 0
       /\ \A i \in 1..Len(checker[w].todo) : committed(checker[w].todo[i])

RecordingInv == Rows /\ Trails /\ Requests /\ Audio /\ Sweeps /\ Checks

(* A step never uncommits a row or moves its days, and the day only grows. *)
Aging ==
  /\ rday \in Nat /\ rday' \in Nat /\ rday <= rday'
  /\ \A c \in RecCalls : committed(c) =>
       /\ committed(c)'
       /\ recRows'[c].committedAt = recRows[c].committedAt
       /\ recRows'[c].coldAt = recRows[c].coldAt
       /\ recRows'[c].deleteAt = recRows[c].deleteAt

-----------------------------------------------------------------------------
(* The empty table satisfies the invariant.                                *)
LEMMA InitHolds == RetentionInit => RecordingInv
<1> SUFFICES ASSUME RetentionInit PROVE RecordingInv
  BY Zenon
<1> USE DEF RetentionInit, RecordingsInit, WorkersInit, NoRec, Never, committed
<1>1. Rows
  BY DEF Rows, RecRow, Statuses, Verdicts
<1>2. Trails
  BY ZenonT(40) DEF Trails, Trail, NoTrail
<1>3. Requests
  BY DEF Requests, Request, NoCommit, Epoch
<1>4. Audio
  BY ZenonT(40) DEF Audio
<1>5. Sweeps
  BY DEF Sweeps, SweepState, Asleep
<1>6. Checks
  BY DEF Checks, CheckState, Unsampled, Verdicts
<1>7. QED
  BY <1>1, <1>2, <1>3, <1>4, <1>5, <1>6, ZenonT(40) DEF RecordingInv

-----------------------------------------------------------------------------
(* What a part of the invariant needs from a step that leaves it alone.    *)

(* Rows that are left alone keep their days.                               *)
LEMMA SameRows ==
  ASSUME RecordingInv, recRows' = recRows, rday' = rday
  PROVE  Rows' /\ Aging
BY DEF RecordingInv, Rows, Aging, committed

(* Audit rows and events agree as long as nobody writes either.            *)
LEMMA SameTrails ==
  ASSUME RecordingInv, recRows' = recRows, rectrail' = rectrail
  PROVE  Trails'
BY ZenonT(40) DEF RecordingInv, Trails, committed

(* A waiting Commit is not disturbed by changes of other rows.             *)
LEMMA SameRequests ==
  ASSUME RecordingInv, Aging, creq' = creq,
         \A c \in RecCalls : recRows'[c] = recRows[c] \/ committed(c),
         \A c \in RecCalls : objects[c] # "none" /\ ~committed(c) => objects'[c] # "none"
  PROVE  Requests'
BY DEF RecordingInv, Rows, Requests, Request, Aging, committed

(* The cold move keeps the objects as they are.                            *)
LEMMA SameAudio ==
  ASSUME RecordingInv, Aging, objects' = objects,
         \A c \in RecCalls : \/ recRows'[c].status = recRows[c].status
                             \/ committed(c) /\ recRows'[c].status = "cold"
  PROVE  Audio'
<1>1. ASSUME NEW c \in RecCalls, committed(c)', objects'[c] = "none"
      PROVE  recRows'[c].deleteAt <= rday'
  <2>1. CASE committed(c)
    BY <1>1, <2>1 DEF RecordingInv, Rows, RecRow, Audio, Aging
  <2>2. CASE ~committed(c)
    BY <1>1, <2>2, ZenonT(40) DEF RecordingInv, Rows, RecRow, Audio, Aging, committed
  <2>3. QED
    BY <2>1, <2>2, ZenonT(40)
<1>2. QED
  BY <1>1, Zenon DEF RecordingInv, Audio

(* What a sweep may have listed it may still have listed after a step of   *)
(* another.                                                                *)
LEMMA StaysListable ==
  ASSUME RecordingInv, Aging, NEW c \in RecCalls, NEW pc, listable(pc, c)
  PROVE  listable(pc, c)'
BY DEF RecordingInv, Rows, RecRow, Aging, listable, committed

(* The lists of the sweeps stay good while others act.                     *)
LEMMA SameSweeps ==
  ASSUME RecordingInv, Aging, sweeper' = sweeper,
         \A c \in RecCalls : committed(c) /\ objects[c] = "none" => objects'[c] = "none"
  PROVE  Sweeps'
<1>1. ASSUME NEW w \in Workers, NEW i \in 1..Len(sweeper[w].todo)
      PROVE  listable(sweeper[w].pc, sweeper[w].todo[i])'
  <2>1. sweeper[w].todo[i] \in RecCalls /\ listable(sweeper[w].pc, sweeper[w].todo[i])
    BY DEF RecordingInv, Sweeps, SweepState
  <2>2. QED
    BY <2>1, StaysListable, Zenon DEF listable
<1>2. ASSUME NEW w \in Workers, sweeper[w].pc = "erase"
      PROVE  Len(sweeper[w].todo) > 0 /\ objects'[sweeper[w].todo[1]] = "none"
  <2>1. Len(sweeper[w].todo) > 0 /\ objects[sweeper[w].todo[1]] = "none"
    BY <1>2, ZenonT(40) DEF RecordingInv, Sweeps
  <2>2. sweeper[w].todo[1] \in RecCalls /\ committed(sweeper[w].todo[1])
    BY <1>2, <2>1, 1 \in 1..Len(sweeper[w].todo), SMTT(30)
       DEF RecordingInv, Sweeps, SweepState, listable
  <2>3. QED
    BY <2>1, <2>2, Zenon
<1>3. QED
  BY <1>1, <1>2, Zenon DEF RecordingInv, Sweeps

(* The samples of the integrity passes stay good while others act.         *)
LEMMA SameChecks ==
  ASSUME RecordingInv, Aging, checker' = checker
  PROVE  Checks'
BY DEF RecordingInv, Checks, CheckState, Aging, committed


-----------------------------------------------------------------------------
(* The steps of the agent, the callers, the storage and the clock.         *)

(* The clock goes on.                                                      *)
LEMMA PassDayStep ==
  ASSUME RecordingInv, PassDay, UNCHANGED passVars
  PROVE  RecordingInv' /\ Aging
<1>1. Rows' /\ Aging
  BY DEF PassDay, RecordingInv, Rows, RecRow, Aging, committed
<1>2. Trails'
  BY SameTrails, Zenon DEF PassDay
<1>3. Requests'
  BY <1>1, SameRequests, Zenon DEF PassDay
<1>4. Audio'
  BY <1>1, SameAudio, Zenon DEF PassDay
<1>5. Sweeps'
  BY <1>1, SameSweeps, Zenon DEF PassDay, passVars
<1>6. Checks'
  BY <1>1, SameChecks, Zenon DEF passVars
<1>7. QED
  BY <1>1, <1>2, <1>3, <1>4, <1>5, <1>6, ZenonT(40) DEF RecordingInv

(* The agent uploads, or the object store damages an object.               *)
LEMMA StorageStep ==
  ASSUME RecordingInv, NEW c \in RecCalls, Upload(c) \/ Rot(c), UNCHANGED passVars
  PROVE  RecordingInv' /\ Aging
<1>0. /\ recRows' = recRows /\ rday' = rday /\ creq' = creq
      /\ sweeper' = sweeper /\ checker' = checker
  BY Zenon DEF Upload, Rot, passVars
<1>1. Rows' /\ Aging
  BY <1>0, SameRows, Zenon
<1>2. Trails'
  <2>1. CASE Upload(c)
    BY <2>1, <1>0, SameTrails, Zenon DEF Upload
  <2>2. CASE Rot(c)
    BY <2>2, <1>0 DEF Rot, RecordingInv, Trails, Trail, committed
  <2>3. QED
    BY <2>1, <2>2, Zenon
<1>3. \A d \in RecCalls : objects'[d] = objects[d] \/ (objects[d] = "none" /\ ~committed(d))
                          \/ (objects[d] = "audio" /\ objects'[d] = "damaged")
  BY DEF Upload, Rot, RecordingInv, Audio, NoRec, committed
<1>4. Requests'
  BY <1>0, <1>1, <1>3, SameRequests, Zenon
<1>5. Audio'
  BY <1>0, <1>1, <1>3 DEF Upload, Rot, RecordingInv, Audio, Rows, NoRec, committed
<1>6. Sweeps'
  BY <1>0, <1>1, <1>3, SameSweeps, Zenon
<1>7. Checks'
  BY <1>0, <1>1, SameChecks, Zenon
<1>8. QED
  BY <1>1, <1>2, <1>4, <1>5, <1>6, <1>7, Zenon DEF RecordingInv

(* Somebody listens to a recording, and the access is audited.             *)
LEMMA StreamStep ==
  ASSUME RecordingInv, NEW who \in RecCallers, NEW c \in RecCalls, streamRecording(who, c),
         UNCHANGED passVars
  PROVE  RecordingInv' /\ Aging
<1>1. Rows' /\ Aging
  BY SameRows, Zenon DEF streamRecording
<1>2. Trails'
  BY DEF streamRecording, writeAccessAudit, RecordingInv, Trails, Trail, committed
<1>3. Requests'
  BY <1>1, SameRequests, Zenon DEF streamRecording
<1>4. Audio'
  BY <1>1, SameAudio, Zenon DEF streamRecording
<1>5. Sweeps'
  BY <1>1, SameSweeps, Zenon DEF streamRecording, passVars
<1>6. Checks'
  BY <1>1, SameChecks, Zenon DEF passVars
<1>7. QED
  BY <1>1, <1>2, <1>3, <1>4, <1>5, <1>6, Zenon DEF RecordingInv

(* The steps of a request that change nothing but the request.             *)
LEMMA RequestFrame ==
  ASSUME RecordingInv, Requests', UNCHANGED <<recRows, objects, rectrail, rday>>, UNCHANGED passVars
  PROVE  RecordingInv' /\ Aging
<1>1. Rows' /\ Aging
  BY SameRows, Zenon
<1>2. Trails' /\ Audio'
  BY <1>1, SameTrails, SameAudio, Zenon
<1>3. Sweeps' /\ Checks'
  BY <1>1, SameSweeps, SameChecks, Zenon DEF passVars
<1>4. QED
  BY <1>1, <1>2, <1>3, Zenon DEF RecordingInv

(* The days of a plan are days: one that is left out becomes the epoch.    *)
LEMMA PlanDays == \A d \in planDays : d \in Int
<1>1. ASSUME NEW p \in Plans PROVE AsTime(p.cold) \in Int /\ AsTime(p.delete) \in Int
  BY RecordingsAssumption DEF AsTime, Unset, Epoch
<1>2. QED
  BY <1>1, Zenon DEF planDays

(* A Commit request is checked and accepted.                               *)
LEMMA CommitStep ==
  ASSUME RecordingInv, NEW q \in CommitRequests, NEW cert \in Certificates, NEW in \in CommitInputs,
         Commit(q, cert, in), UNCHANGED passVars
  PROVE  RecordingInv' /\ Aging
<1>1. in.call \in RecCalls
  BY Zenon DEF CommitInputs
<1>2. objects[in.call] # "none" \/ committed(in.call)
  BY <1>1, Zenon DEF Commit, RecordingInv, Rows, committed
<1>3. rday \in 0..rday /\ rday \in Int
  BY DEF RecordingInv, Rows
<1> DEFINE cold == AsTime(in.plan.cold)
           delete == AsTime(in.plan.delete)
<1>a. cold \in planDays /\ delete \in planDays
  BY Zenon DEF CommitInputs, planDays
<1>b. cold \in Int /\ delete \in Int
  BY <1>a, PlanDays, Zenon
<1>c. creq' = [creq EXCEPT ![q] = [pc |-> "insert", call |-> in.call, now |-> rday,
                                   cold |-> cold, delete |-> delete]]
      /\ recRows' = recRows /\ objects' = objects /\ rday' = rday
  BY Zenon DEF Commit
<1> HIDE DEF cold, delete
<1>4. Requests'
  BY <1>1, <1>2, <1>3, <1>a, <1>b, <1>c, ZenonT(40) DEF RecordingInv, Requests, Request, committed
<1>5. QED
  BY <1>4, RequestFrame, Zenon DEF Commit

(* The idempotent insert replays, waits for another or holds the new row.  *)
LEMMA InsertStep ==
  ASSUME RecordingInv, NEW q \in CommitRequests, InsertRecordingIdempotent(q) \/ InsertResumes(q),
         UNCHANGED passVars
  PROVE  RecordingInv' /\ Aging
<1>1. creq[q].call \in RecCalls /\ (recRows[creq[q].call] = NoRec <=> ~committed(creq[q].call))
  BY DEF InsertRecordingIdempotent, InsertResumes, RecordingInv, Requests, Rows, NoRec, committed
<1>2. \/ creq' = [creq EXCEPT ![q] = NoCommit]
      \/ creq' = [creq EXCEPT ![q].pc = "wait"]
      \/ /\ creq' = [creq EXCEPT ![q].pc = "announce"]
         /\ ~committed(creq[q].call)
         /\ \A p \in CommitRequests : ~(creq[p].pc = "announce" /\ creq[p].call = creq[q].call)
  BY <1>1, Zenon DEF InsertRecordingIdempotent, InsertResumes, inserting, RecordingInv, Requests
<1>3. /\ creq[q].pc # "idle"
      /\ UNCHANGED <<recRows, objects, rectrail, rday>>
  BY Zenon DEF InsertRecordingIdempotent, InsertResumes
<1>4. Requests'
  <2>1. CASE creq' = [creq EXCEPT ![q] = NoCommit]
    BY <1>3, <2>1, SMTT(30) DEF RecordingInv, Requests, Request, NoCommit, Never, Epoch, committed
  <2>2. CASE creq' = [creq EXCEPT ![q].pc = "wait"]
    BY <1>3, <2>2 DEF RecordingInv, Requests, Request, committed
  <2>3. CASE /\ creq' = [creq EXCEPT ![q].pc = "announce"]
             /\ ~committed(creq[q].call)
             /\ \A p \in CommitRequests : ~(creq[p].pc = "announce" /\ creq[p].call = creq[q].call)
    BY <1>3, <2>3, ZenonT(40) DEF RecordingInv, Requests, Request, committed
  <2>4. QED
    BY <1>2, <2>1, <2>2, <2>3, ZenonT(40)
<1>5. QED
  BY <1>3, <1>4, RequestFrame, Zenon


(* The transaction of a commit writes one audit row and one event.         *)
LEMMA CommittedTrail ==
  ASSUME NEW t \in Trail
  PROVE  LET u == buildOutboxEvent(writeAuditRow(t))
         IN /\ u \in Trail
            /\ u.committed = t.committed + 1 /\ u.uploaded = t.uploaded + 1
            /\ u.erased = t.erased /\ u.deleted = t.deleted
<1>1. /\ writeAuditRow(t) \in Trail
      /\ writeAuditRow(t).committed = t.committed + 1 /\ writeAuditRow(t).uploaded = t.uploaded
      /\ writeAuditRow(t).erased = t.erased /\ writeAuditRow(t).deleted = t.deleted
  BY DEF writeAuditRow, Trail
<1>2. ASSUME NEW v \in Trail
      PROVE  /\ buildOutboxEvent(v) \in Trail
             /\ buildOutboxEvent(v).committed = v.committed
             /\ buildOutboxEvent(v).uploaded = v.uploaded + 1
             /\ buildOutboxEvent(v).erased = v.erased /\ buildOutboxEvent(v).deleted = v.deleted
  BY DEF buildOutboxEvent, Trail
<1>3. QED
  BY <1>1, <1>2, Zenon

(* The transaction of a commit: nobody else holds a row of this call, so   *)
(* the row is new.                                                         *)
LEMMA FinishCommitStep ==
  ASSUME RecordingInv, NEW q \in CommitRequests, FinishCommit(q), UNCHANGED passVars
  PROVE  RecordingInv' /\ Aging
<1> DEFINE c == creq[q].call
<1>0. /\ creq[q].pc = "announce" /\ c \in RecCalls /\ creq[q].now \in 0..rday
      /\ creq[q].cold \in planDays /\ creq[q].delete \in planDays
      /\ ~committed(c) /\ objects[c] # "none"
  BY Zenon DEF FinishCommit, RecordingInv, Requests
<1>a. /\ creq' = [creq EXCEPT ![q] = NoCommit] /\ objects' = objects /\ rday' = rday
      /\ sweeper' = sweeper /\ checker' = checker
  BY Zenon DEF FinishCommit, passVars
<1>1. CASE commitTx(q)
  <2>1. /\ recRows' = [recRows EXCEPT ![c] = storeRowFromInput(q)]
        /\ rectrail' = [rectrail EXCEPT ![c] = buildOutboxEvent(writeAuditRow(@))]
    BY <1>1, Zenon DEF commitTx
  <2>2. /\ storeRowFromInput(q) \in RecRow
        /\ storeRowFromInput(q).status = "stored"
        /\ storeRowFromInput(q).committedAt = creq[q].now
        /\ storeRowFromInput(q).coldAt = creq[q].cold
        /\ storeRowFromInput(q).deleteAt = creq[q].delete
    <3>1. creq[q].now \in Int /\ Never \in Int
      BY <1>0 DEF Never
    <3>2. creq[q].cold \in Int /\ creq[q].delete \in Int
      BY <1>0, PlanDays, Zenon
    <3>3. QED
      BY <3>1, <3>2, SMTT(30) DEF storeRowFromInput, RecRow, Statuses, Verdicts
  <2>3. Rows' /\ Aging
    <3> HIDE DEF c
    <3>1. \A d \in RecCalls : d # c => recRows'[d] = recRows[d]
      BY <2>1, Zenon DEF RecordingInv, Rows
    <3>2. recRows'[c] = storeRowFromInput(q) /\ recRows' \in [RecCalls -> RecRow]
      BY <1>0, <2>1, <2>2, ZenonT(40) DEF RecordingInv, Rows
    <3>3. QED
      BY <1>0, <1>a, <2>2, <3>1, <3>2, SMTT(30) DEF RecordingInv, Rows, Aging, committed
  <2>4. Trails'
    <3> HIDE DEF c
    <3>1. \A d \in RecCalls : d # c => rectrail'[d] = rectrail[d] /\ recRows'[d] = recRows[d]
      BY <2>1, Zenon DEF RecordingInv, Rows, Trails
    <3>2. /\ rectrail'[c] = buildOutboxEvent(writeAuditRow(rectrail[c]))
          /\ rectrail[c] \in Trail /\ rectrail[c].committed = 0 /\ rectrail[c].uploaded = 0
          /\ rectrail[c].erased = 0 /\ rectrail[c].deleted = 0
      BY <1>0, <2>1, Zenon DEF RecordingInv, Trails, committed
    <3>3. /\ rectrail'[c] \in Trail /\ rectrail'[c].committed = 1 /\ rectrail'[c].uploaded = 1
          /\ rectrail'[c].erased = 0 /\ rectrail'[c].deleted = 0
      BY <3>2, CommittedTrail
    <3>4. recRows'[c].status = "stored" /\ rectrail' \in [RecCalls -> Trail]
      BY <1>0, <2>1, <2>2, <3>3, Zenon DEF RecordingInv, Rows, Trails
    <3>5. QED
      BY <3>1, <3>3, <3>4 DEF RecordingInv, Trails, committed
  <2>5. Requests'
    <3>1. \A p \in CommitRequests \ {q} : creq'[p] = creq[p]
      BY <1>a, Zenon DEF RecordingInv, Requests
    <3>2. creq'[q] = NoCommit /\ creq' \in [CommitRequests -> Request]
      BY <1>a DEF RecordingInv, Requests, Request, NoCommit, Never, Epoch
    <3>3. \A p \in CommitRequests \ {q} : creq[p].pc = "announce" => creq[p].call # c
      BY <1>0, Zenon DEF RecordingInv, Requests
    <3>4. \A d \in RecCalls : d # c => (committed(d)' <=> committed(d))
      BY <2>1, Zenon DEF RecordingInv, Rows, committed
    <3>5. \A d \in RecCalls : committed(d) => committed(d)'
      BY <2>3, Zenon DEF Aging
    <3>6. QED
      BY <1>a, <3>1, <3>2, <3>3, <3>4, <3>5, ZenonT(40) DEF RecordingInv, Requests, NoCommit
  <2>6. Audio'
    BY <1>0, <1>a, <2>1, <2>2, Zenon DEF RecordingInv, Rows, Audio, committed
  <2>7. Sweeps' /\ Checks'
    BY <1>a, <2>3, SameSweeps, SameChecks, Zenon
  <2>8. QED
    BY <2>3, <2>4, <2>5, <2>6, <2>7, Zenon DEF RecordingInv
<1>2. CASE UNCHANGED <<recRows, rectrail>>
  <2>1. Requests'
    BY <1>0, <1>a, <1>2, SMTT(30) DEF RecordingInv, Requests, Request, NoCommit, Never, Epoch, committed
  <2>2. QED
    BY <1>a, <1>2, <2>1, RequestFrame, ZenonT(40) DEF FinishCommit
<1>3. QED
  BY <1>1, <1>2, Zenon DEF FinishCommit

-----------------------------------------------------------------------------
(* The retention pass.                                                     *)

(* A step of the sweeps that leaves rows and objects alone.                *)
LEMMA SweepFrame ==
  ASSUME RecordingInv, Sweeps', UNCHANGED <<recRows, objects, rectrail, creq, rday, checker>>
  PROVE  RecordingInv' /\ Aging
<1>1. Rows' /\ Aging
  BY SameRows, Zenon
<1>2. Trails' /\ Audio' /\ Requests' /\ Checks'
  BY <1>1, SameTrails, SameAudio, SameRequests, SameChecks, Zenon
<1>3. QED
  BY <1>1, <1>2, Zenon DEF RecordingInv

(* A worker takes over a listing, and the others go on with theirs.        *)
LEMMA SweepLists ==
  ASSUME RecordingInv, NEW w \in Workers, NEW pc \in {"cold", "delete"}, NEW s,
         \A i \in 1..Len(s) : listable(pc, s[i]),
         sweeper' \in [Workers -> SweepState], sweeper'[w].pc = pc, sweeper'[w].todo = s,
         \A p \in Workers \ {w} : sweeper'[p] = sweeper[p],
         UNCHANGED <<recRows, objects, rday>>
  PROVE  Sweeps'
<1>1. ASSUME NEW p \in Workers
      PROVE  /\ \A i \in 1..Len(sweeper'[p].todo) : listable(sweeper'[p].pc, sweeper'[p].todo[i])
             /\ sweeper'[p].pc = "erase" =>
                  Len(sweeper'[p].todo) > 0 /\ objects[sweeper'[p].todo[1]] = "none"
  <2>1. CASE p = w
    BY <2>1, Zenon
  <2>2. CASE p # w
    BY <2>2, Zenon DEF RecordingInv, Sweeps
  <2>3. QED
    BY <2>1, <2>2, Zenon
<1>2. QED
  BY <1>1, Zenon DEF Sweeps, listable, committed

(* A listing holds due rows only.                                          *)
LEMMA Listings ==
  ASSUME NEW S, NEW at, NEW n, NEW s \in listings(S, at, n)
  PROVE  s \in Seq(S)
BY DEF listings

(* A sweep lists the rows due for the cold move.                           *)
LEMMA RetentionTickStep ==
  ASSUME RecordingInv, NEW w \in Workers, RetentionTick(w)
  PROVE  RecordingInv' /\ Aging
<1>1. PICK s \in ListDueColdMoves :
        sweeper' = [sweeper EXCEPT ![w] = [conn |-> TRUE, pc |-> "cold", todo |-> s]]
  BY Zenon DEF RetentionTick, sweepColdMoves
<1>2. s \in Seq(dueColdMoves)
  BY Listings, Zenon DEF ListDueColdMoves
<1>3. \A i \in 1..Len(s) : s[i] \in RecCalls /\ listable("cold", s[i])
  BY <1>2 DEF dueColdMoves, listable, committed
<1>4. s \in Seq(RecCalls)
  BY <1>2 DEF dueColdMoves
<1>5. \A p \in Workers \ {w} : sweeper'[p] = sweeper[p]
  BY <1>1, Zenon DEF RecordingInv, Sweeps
<1>6. /\ sweeper' \in [Workers -> SweepState]
      /\ sweeper'[w].pc = "cold" /\ sweeper'[w].todo = s
  BY <1>1, <1>4, Zenon DEF RecordingInv, Sweeps, SweepState
<1>7. UNCHANGED <<recRows, objects, rectrail, creq, rday, checker>>
  BY Zenon DEF RetentionTick, recordingVars
<1>8. Sweeps'
  BY <1>3, <1>5, <1>6, <1>7, SweepLists, Zenon
<1>9. QED
  BY <1>7, <1>8, SweepFrame, Zenon


(* The first of a list and the rest of it.                                 *)
LEMMA TailFacts ==
  ASSUME NEW S, NEW s \in Seq(S), s # <<>>
  PROVE  /\ Head(s) \in S /\ Head(s) = s[1] /\ Len(s) > 0
         /\ Tail(s) \in Seq(S) /\ Len(Tail(s)) = Len(s) - 1
         /\ \A i \in 1..Len(Tail(s)) : Tail(s)[i] = s[i + 1] /\ i + 1 \in 1..Len(s)
OBVIOUS

(* What stands first on a sweep's list.                                    *)
LEMMA FirstListed ==
  ASSUME RecordingInv, NEW w \in Workers, sweeper[w].todo # <<>>
  PROVE  /\ Head(sweeper[w].todo) \in RecCalls
         /\ listable(sweeper[w].pc, Head(sweeper[w].todo))
<1>1. sweeper[w].todo \in Seq(RecCalls)
  BY Zenon DEF RecordingInv, Sweeps, SweepState
<1>2. Head(sweeper[w].todo) = sweeper[w].todo[1] /\ 1 \in 1..Len(sweeper[w].todo)
      /\ Head(sweeper[w].todo) \in RecCalls
  BY <1>1, TailFacts
<1>3. QED
  BY <1>2, Zenon DEF RecordingInv, Sweeps

(* A sweep done with a row keeps a good list, and so do the others.        *)
LEMMA SweepAdvances ==
  ASSUME RecordingInv, Aging, NEW w \in Workers, NEW pc \in {"cold", "delete"},
         sweeper[w].todo # <<>>,
         \/ pc = "cold" /\ sweeper[w].pc = "cold"
         \/ pc = "delete" /\ sweeper[w].pc \in {"delete", "erase"},
         sweeper' \in [Workers -> SweepState],
         sweeper'[w].pc = pc /\ sweeper'[w].todo = Tail(sweeper[w].todo),
         \A p \in Workers \ {w} : sweeper'[p] = sweeper[p],
         \A c \in RecCalls : committed(c) /\ objects[c] = "none" => objects'[c] = "none"
  PROVE  Sweeps'
<1>1. ASSUME NEW p \in Workers, NEW i \in 1..Len(sweeper[p].todo)
      PROVE  listable(sweeper[p].pc, sweeper[p].todo[i]) /\ sweeper[p].todo[i] \in RecCalls
  BY <1>1 DEF RecordingInv, Sweeps, SweepState
<1>2. ASSUME NEW p \in Workers \ {w}, NEW i \in 1..Len(sweeper'[p].todo)
      PROVE  listable(sweeper[p].pc, sweeper[p].todo[i])'
  <2>1. i \in 1..Len(sweeper[p].todo)
    BY Zenon
  <2>2. /\ sweeper[p].todo[i] \in RecCalls /\ sweeper'[p].todo[i] = sweeper[p].todo[i]
        /\ sweeper'[p].pc = sweeper[p].pc
        /\ listable(sweeper[p].pc, sweeper[p].todo[i])
    BY <1>1, <2>1, Zenon
  <2>3. QED
    BY <2>2, StaysListable, Zenon DEF listable
<1>3. ASSUME NEW i \in 1..Len(sweeper'[w].todo)
      PROVE  listable(sweeper[w].pc, sweeper[w].todo[i])'
  <2>1. sweeper[w].todo \in Seq(RecCalls)
    BY Zenon DEF RecordingInv, Sweeps, SweepState
  <2>2. sweeper'[w].todo[i] = sweeper[w].todo[i + 1] /\ i + 1 \in 1..Len(sweeper[w].todo)
    BY <2>1, TailFacts
  <2>3. /\ sweeper[w].todo[i + 1] \in RecCalls
        /\ listable(sweeper[w].pc, sweeper[w].todo[i + 1])
    BY <1>1, <2>2, Zenon
  <2>4. listable(pc, sweeper[w].todo[i + 1])
    BY <2>3, Zenon DEF listable
  <2>5. QED
    BY <2>2, <2>3, <2>4, StaysListable, Zenon DEF listable
<1>4. ASSUME NEW p \in Workers, sweeper'[p].pc = "erase"
      PROVE  Len(sweeper'[p].todo) > 0 /\ objects'[sweeper'[p].todo[1]] = "none"
  <2>1. p # w /\ sweeper'[p] = sweeper[p]
    BY <1>4, Zenon
  <2>2. Len(sweeper[p].todo) > 0 /\ objects[sweeper[p].todo[1]] = "none"
    BY <1>4, <2>1, Zenon DEF RecordingInv, Sweeps
  <2>3. sweeper[p].todo[1] \in RecCalls /\ committed(sweeper[p].todo[1])
    BY <1>1, <1>4, <2>1, <2>2, 1 \in 1..Len(sweeper[p].todo), ZenonT(40)
       DEF RecordingInv, Sweeps, SweepState, listable
  <2>4. QED
    BY <2>1, <2>2, <2>3, Zenon
<1>5. QED
  BY <1>2, <1>3, <1>4, ZenonT(40) DEF Sweeps

(* A statement that updates the row of one committed call, and its trail.  *)
LEMMA RowAges ==
  ASSUME RecordingInv, NEW c \in RecCalls, committed(c), NEW r \in RecRow, r.status # "none",
         /\ r.committedAt = recRows[c].committedAt
         /\ r.coldAt = recRows[c].coldAt /\ r.deleteAt = recRows[c].deleteAt,
         recRows' = [recRows EXCEPT ![c] = r], rday' = rday
  PROVE  Rows' /\ Aging
<1>1. \A d \in RecCalls : d # c => recRows'[d] = recRows[d]
  BY Zenon DEF RecordingInv, Rows
<1>2. recRows'[c] = r /\ recRows' \in [RecCalls -> RecRow]
  BY Zenon DEF RecordingInv, Rows
<1>3. QED
  BY <1>1, <1>2 DEF RecordingInv, Rows, Aging, committed

(* A statement that updates a row writes what its new status calls for.    *)
LEMMA TrailGrows ==
  ASSUME RecordingInv, NEW c \in RecCalls, committed(c), NEW r \in RecRow, NEW t \in Trail,
         r.status # "none",
         recRows' = [recRows EXCEPT ![c] = r], rectrail' = [rectrail EXCEPT ![c] = t],
         t.committed = rectrail[c].committed /\ t.uploaded = rectrail[c].uploaded,
         t.erased = (IF r.status = "deleted" THEN 1 ELSE 0),
         t.deleted = (IF r.status = "deleted" THEN 1 ELSE 0)
  PROVE  Trails'
<1>1. \A d \in RecCalls : d # c => recRows'[d] = recRows[d] /\ rectrail'[d] = rectrail[d]
  BY Zenon DEF RecordingInv, Rows, Trails
<1>2. recRows'[c] = r /\ rectrail'[c] = t /\ rectrail' \in [RecCalls -> Trail]
  BY Zenon DEF RecordingInv, Rows, Trails
<1>3. rectrail[c].committed = 1 /\ rectrail[c].uploaded = 1
  BY Zenon DEF RecordingInv, Trails
<1>4. QED
  BY <1>1, <1>2, <1>3 DEF RecordingInv, Trails, committed

(* handleColdMove changes a row that is still stored, and no other.        *)
LEMMA ColdMoveStep ==
  ASSUME RecordingInv, NEW w \in Workers, handleColdMove(w)
  PROVE  RecordingInv' /\ Aging
<1> DEFINE c == Head(sweeper[w].todo)
<1>0. c \in RecCalls /\ sweeper[w].pc = "cold" /\ sweeper[w].todo # <<>>
  BY FirstListed, Zenon DEF handleColdMove
<1>a. UNCHANGED <<objects, creq, rday, checker>>
  BY Zenon DEF handleColdMove
<1>1. \/ UNCHANGED <<recRows, rectrail>>
      \/ /\ recRows[c].status = "stored"
         /\ recRows' = [recRows EXCEPT ![c].status = "cold"]
         /\ rectrail' = [rectrail EXCEPT ![c].cold = @ + 1]
  BY Zenon DEF handleColdMove, MarkColdTx
<1> HIDE DEF c
<1>b. ASSUME UNCHANGED <<recRows, rectrail>>
      PROVE  Rows' /\ Aging /\ Trails'
  BY <1>a, <1>b, SameRows, SameTrails, Zenon
<1>c. ASSUME recRows[c].status = "stored",
             recRows' = [recRows EXCEPT ![c].status = "cold"],
             rectrail' = [rectrail EXCEPT ![c].cold = @ + 1]
      PROVE  Rows' /\ Aging /\ Trails'
  <2> DEFINE r == [recRows[c] EXCEPT !.status = "cold"]
             t == [rectrail[c] EXCEPT !.cold = @ + 1]
  <2>1. recRows' = [recRows EXCEPT ![c] = r] /\ rectrail' = [rectrail EXCEPT ![c] = t]
    BY <1>0, <1>c, Zenon DEF RecordingInv, Rows, Trails
  <2>2. recRows[c] \in RecRow /\ rectrail[c] \in Trail /\ committed(c)
    BY <1>0, <1>c, Zenon DEF RecordingInv, Rows, Trails, committed
  <2>3. /\ r \in RecRow /\ r.status = "cold" /\ r.committedAt = recRows[c].committedAt
        /\ r.coldAt = recRows[c].coldAt /\ r.deleteAt = recRows[c].deleteAt
    BY <2>2, Zenon DEF RecRow, Statuses
  <2>4. /\ t \in Trail /\ t.committed = rectrail[c].committed /\ t.uploaded = rectrail[c].uploaded
        /\ t.erased = rectrail[c].erased /\ t.deleted = rectrail[c].deleted
    BY <2>2 DEF Trail
  <2>5. rectrail[c].erased = 0 /\ rectrail[c].deleted = 0
    BY <1>0, <1>c, Zenon DEF RecordingInv, Trails
  <2> HIDE DEF r, t
  <2>6. QED
    BY <1>0, <1>a, <2>1, <2>2, <2>3, <2>4, <2>5, RowAges, TrailGrows, ZenonT(40)
<1>2. Rows' /\ Aging /\ Trails'
  BY <1>1, <1>b, <1>c, Zenon
<1>3. \A d \in RecCalls : \/ recRows'[d] = recRows[d]
                          \/ committed(d) /\ recRows'[d].status = "cold"
  BY <1>0, <1>1, ZenonT(40) DEF RecordingInv, Rows, RecRow, committed
<1>4. Requests' /\ Audio' /\ Checks'
  BY <1>a, <1>2, <1>3, SameRequests, SameAudio, SameChecks, Zenon
<1>5. Sweeps'
  <2>1. sweeper' = [sweeper EXCEPT ![w].todo = Tail(@)]
    BY Zenon DEF handleColdMove
  <2>2. sweeper[w].todo \in Seq(RecCalls) /\ Tail(sweeper[w].todo) \in Seq(RecCalls)
    BY <1>0, TailFacts, Zenon DEF RecordingInv, Sweeps, SweepState
  <2>3. /\ sweeper' \in [Workers -> SweepState]
        /\ sweeper'[w].pc = "cold" /\ sweeper'[w].todo = Tail(sweeper[w].todo)
        /\ \A p \in Workers \ {w} : sweeper'[p] = sweeper[p]
    BY <1>0, <2>1, <2>2, Zenon DEF RecordingInv, Sweeps, SweepState
  <2>4. QED
    BY <1>0, <1>a, <1>2, <2>3, SweepAdvances, Zenon
<1>6. QED
  BY <1>2, <1>4, <1>5, Zenon DEF RecordingInv

(* A sweep lists the rows due for deletion.                                *)
LEMMA SweepDeletesStep ==
  ASSUME RecordingInv, NEW w \in Workers, sweepDeletes(w)
  PROVE  RecordingInv' /\ Aging
<1>1. PICK s \in ListDueDeletes :
        sweeper' = [sweeper EXCEPT ![w].pc = "delete", ![w].todo = s]
  BY Zenon DEF sweepDeletes
<1>2. s \in Seq(dueDeletes)
  BY Listings, Zenon DEF ListDueDeletes
<1>3. \A i \in 1..Len(s) : s[i] \in RecCalls /\ listable("delete", s[i])
  BY <1>2 DEF dueDeletes, listable, committed
<1>4. s \in Seq(RecCalls)
  BY <1>2 DEF dueDeletes
<1>5. \A p \in Workers \ {w} : sweeper'[p] = sweeper[p]
  BY <1>1, Zenon DEF RecordingInv, Sweeps
<1>6. /\ sweeper' \in [Workers -> SweepState]
      /\ sweeper'[w].pc = "delete" /\ sweeper'[w].todo = s
  BY <1>1, <1>4, Zenon DEF RecordingInv, Sweeps, SweepState
<1>7. UNCHANGED <<recRows, objects, rectrail, creq, rday, checker>>
  BY Zenon DEF sweepDeletes, recordingVars
<1>8. Sweeps'
  BY <1>3, <1>5, <1>6, <1>7, SweepLists, Zenon
<1>9. QED
  BY <1>7, <1>8, SweepFrame, Zenon

(* The list goes on to its next row.                                       *)
LEMMA NextDelete ==
  ASSUME RecordingInv, NEW w \in Workers, sweeper[w].todo # <<>>, nextDelete(w)
  PROVE  /\ sweeper' \in [Workers -> SweepState]
         /\ sweeper'[w].pc = "delete" /\ sweeper'[w].todo = Tail(sweeper[w].todo)
         /\ \A p \in Workers \ {w} : sweeper'[p] = sweeper[p]
<1>1. sweeper[w].todo \in Seq(RecCalls) /\ Tail(sweeper[w].todo) \in Seq(RecCalls)
  BY TailFacts, Zenon DEF RecordingInv, Sweeps, SweepState
<1>2. QED
  BY <1>1, Zenon DEF nextDelete, RecordingInv, Sweeps, SweepState

(* The object of a row due for deletion goes first.                        *)
LEMMA DeleteObjectStep ==
  ASSUME RecordingInv, NEW w \in Workers, DeleteObject(w)
  PROVE  RecordingInv' /\ Aging
<1> DEFINE c == Head(sweeper[w].todo)
<1>0. /\ sweeper[w].pc = "delete" /\ sweeper[w].todo # <<>>
      /\ c \in RecCalls /\ committed(c) /\ recRows[c].deleteAt <= rday
  BY FirstListed, Zenon DEF DeleteObject, listable
<1>a. UNCHANGED <<recRows, rectrail, creq, rday, checker>>
  BY Zenon DEF DeleteObject
<1>1. Rows' /\ Aging /\ Trails' /\ Checks'
  BY <1>a, SameRows, SameTrails, SameChecks, Zenon
<1>2. CASE /\ objects' = [objects EXCEPT ![c] = "none"]
           /\ sweeper' = [sweeper EXCEPT ![w].pc = "erase"]
  <2> HIDE DEF c
  <2>1. \A d \in RecCalls : objects'[d] = (IF d = c THEN "none" ELSE objects[d])
    BY <1>2, Zenon DEF RecordingInv, Audio
  <2>2. Requests'
    BY <1>0, <1>1, <1>a, <2>1, SameRequests, Zenon
  <2>3. Audio'
    BY <1>0, <1>2, <1>a, <2>1, Zenon DEF RecordingInv, Audio, Rows, committed
  <2>4. Sweeps'
    <3>1. sweeper[w].todo \in Seq(RecCalls) /\ Len(sweeper[w].todo) > 0 /\ c = sweeper[w].todo[1]
      BY <1>0, TailFacts, Zenon DEF RecordingInv, Sweeps, SweepState, c
    <3>2. /\ sweeper' \in [Workers -> SweepState]
          /\ sweeper'[w].pc = "erase" /\ sweeper'[w].todo = sweeper[w].todo
          /\ \A p \in Workers \ {w} : sweeper'[p] = sweeper[p]
      BY <1>2, ZenonT(40) DEF RecordingInv, Sweeps, SweepState
    <3>3. ASSUME NEW p \in Workers, NEW i \in 1..Len(sweeper'[p].todo)
          PROVE  listable(sweeper[p].pc, sweeper[p].todo[i])'
      <4>1. i \in 1..Len(sweeper[p].todo) /\ listable(sweeper[p].pc, sweeper[p].todo[i])
        BY <3>2, <3>3, Zenon DEF RecordingInv, Sweeps
      <4>2. QED
        BY <1>0, <1>a, <3>2, <4>1, Zenon DEF listable, committed
    <3>4. ASSUME NEW p \in Workers, sweeper'[p].pc = "erase"
          PROVE  Len(sweeper'[p].todo) > 0 /\ objects'[sweeper'[p].todo[1]] = "none"
      <4>1. CASE p = w
        BY <1>0, <2>1, <3>1, <3>2, <4>1, Zenon
      <4>2. CASE p # w
        <5>1. sweeper'[p] = sweeper[p] /\ Len(sweeper[p].todo) > 0 /\ objects[sweeper[p].todo[1]] = "none"
          BY <3>2, <3>4, <4>2, Zenon DEF RecordingInv, Sweeps
        <5>2. sweeper[p].todo[1] \in RecCalls
          BY <5>1, SMTT(30) DEF RecordingInv, Sweeps, SweepState
        <5>3. QED
          BY <2>1, <5>1, <5>2, Zenon
      <4>3. QED
        BY <4>1, <4>2, Zenon
    <3>5. QED
      BY <3>2, <3>3, <3>4, Zenon DEF Sweeps
  <2>5. QED
    BY <1>1, <2>2, <2>3, <2>4, Zenon DEF RecordingInv
<1>3. CASE nextDelete(w) /\ UNCHANGED objects
  <2>1. Requests' /\ Audio'
    BY <1>1, <1>3, <1>a, SameRequests, SameAudio, Zenon
  <2>2. Sweeps'
    BY <1>0, <1>1, <1>3, NextDelete, SweepAdvances, Zenon
  <2>3. QED
    BY <1>1, <2>1, <2>2, Zenon DEF RecordingInv
<1>4. QED
  BY <1>2, <1>3, Zenon DEF DeleteObject

(* The transaction of a deletion writes one audit row and one event.       *)
LEMMA ErasedTrail ==
  ASSUME NEW t \in Trail
  PROVE  LET u == appendDeletedOutbox(writeAudit(t))
         IN /\ u \in Trail
            /\ u.committed = t.committed /\ u.uploaded = t.uploaded
            /\ u.erased = t.erased + 1 /\ u.deleted = t.deleted + 1
<1>1. /\ writeAudit(t) \in Trail
      /\ writeAudit(t).committed = t.committed /\ writeAudit(t).uploaded = t.uploaded
      /\ writeAudit(t).erased = t.erased + 1 /\ writeAudit(t).deleted = t.deleted
  BY DEF writeAudit, Trail
<1>2. ASSUME NEW v \in Trail
      PROVE  /\ appendDeletedOutbox(v) \in Trail
             /\ appendDeletedOutbox(v).committed = v.committed
             /\ appendDeletedOutbox(v).uploaded = v.uploaded
             /\ appendDeletedOutbox(v).erased = v.erased
             /\ appendDeletedOutbox(v).deleted = v.deleted + 1
  BY DEF appendDeletedOutbox, Trail
<1>3. QED
  BY <1>1, <1>2, Zenon

(* handleDelete closes the row of an object that is gone, once.            *)
LEMMA DeleteStep ==
  ASSUME RecordingInv, NEW w \in Workers, handleDelete(w)
  PROVE  RecordingInv' /\ Aging
<1> DEFINE c == Head(sweeper[w].todo)
<1>0. /\ sweeper[w].pc = "erase" /\ sweeper[w].todo # <<>>
      /\ c \in RecCalls /\ committed(c) /\ recRows[c].deleteAt <= rday /\ objects[c] = "none"
  <2>1. sweeper[w].pc = "erase" /\ Len(sweeper[w].todo) > 0 /\ objects[sweeper[w].todo[1]] = "none"
        /\ sweeper[w].todo \in Seq(RecCalls)
    BY Zenon DEF handleDelete, RecordingInv, Sweeps, SweepState
  <2>2. sweeper[w].todo # <<>> /\ c = sweeper[w].todo[1]
    BY <2>1
  <2>3. QED
    BY <2>1, <2>2, FirstListed, Zenon DEF listable
<1>a. UNCHANGED <<objects, creq, rday, checker>> /\ nextDelete(w)
  BY Zenon DEF handleDelete
<1>1. \/ UNCHANGED <<recRows, rectrail>>
      \/ /\ recRows[c].status \in {"stored", "cold"}
         /\ recRows' = [recRows EXCEPT ![c].status = "deleted"]
         /\ rectrail' = [rectrail EXCEPT ![c] = appendDeletedOutbox(writeAudit(@))]
  BY Zenon DEF handleDelete, MarkDeletedTx
<1> HIDE DEF c
<1>b. ASSUME UNCHANGED <<recRows, rectrail>>
      PROVE  Rows' /\ Aging /\ Trails' /\ Requests' /\ Audio'
  BY <1>a, <1>b, SameRows, SameTrails, SameRequests, SameAudio, Zenon
<1>c. ASSUME recRows[c].status \in {"stored", "cold"},
             recRows' = [recRows EXCEPT ![c].status = "deleted"],
             rectrail' = [rectrail EXCEPT ![c] = appendDeletedOutbox(writeAudit(@))]
      PROVE  Rows' /\ Aging /\ Trails' /\ Requests' /\ Audio'
  <2> DEFINE r == [recRows[c] EXCEPT !.status = "deleted"]
             t == appendDeletedOutbox(writeAudit(rectrail[c]))
  <2>1. recRows' = [recRows EXCEPT ![c] = r] /\ rectrail' = [rectrail EXCEPT ![c] = t]
    BY <1>0, <1>c, Zenon DEF RecordingInv, Rows, Trails
  <2>2. recRows[c] \in RecRow /\ rectrail[c] \in Trail
    BY <1>0, Zenon DEF RecordingInv, Rows, Trails
  <2>3. /\ r \in RecRow /\ r.status = "deleted" /\ r.committedAt = recRows[c].committedAt
        /\ r.coldAt = recRows[c].coldAt /\ r.deleteAt = recRows[c].deleteAt
    BY <2>2, Zenon DEF RecRow, Statuses
  <2>4. rectrail[c].erased = 0 /\ rectrail[c].deleted = 0
    BY <1>0, <1>c, Zenon DEF RecordingInv, Trails
  <2>5. /\ t \in Trail /\ t.committed = rectrail[c].committed /\ t.uploaded = rectrail[c].uploaded
        /\ t.erased = 1 /\ t.deleted = 1
    BY <2>2, <2>4, ErasedTrail, SMTT(30)
  <2> HIDE DEF r, t
  <2>6. Rows' /\ Aging /\ Trails'
    BY <1>0, <1>a, <2>1, <2>3, <2>5, RowAges, TrailGrows, ZenonT(40)
  <2>7. \A d \in RecCalls : recRows'[d] = (IF d = c THEN r ELSE recRows[d])
    BY <2>1, Zenon DEF RecordingInv, Rows
  <2>8. Requests'
    BY <1>0, <1>a, <2>6, <2>7, SameRequests, ZenonT(40)
  <2>9. Audio'
    BY <1>0, <1>a, <2>3, <2>7, ZenonT(40) DEF RecordingInv, Audio, committed
  <2>10. QED
    BY <2>6, <2>8, <2>9, Zenon
<1>2. Rows' /\ Aging /\ Trails' /\ Requests' /\ Audio'
  BY <1>1, <1>b, <1>c, Zenon
<1>3. Sweeps' /\ Checks'
  BY <1>0, <1>2, <1>a, NextDelete, SweepAdvances, SameChecks, ZenonT(40)
<1>4. QED
  BY <1>2, <1>3, Zenon DEF RecordingInv

(* A sweep comes to its end.                                               *)
LEMMA SweepEndsStep ==
  ASSUME RecordingInv, NEW w \in Workers, SweepEnds(w)
  PROVE  RecordingInv' /\ Aging
<1>1. /\ sweeper' \in [Workers -> SweepState]
      /\ sweeper'[w].pc = "idle" /\ sweeper'[w].todo = <<>>
      /\ \A p \in Workers \ {w} : sweeper'[p] = sweeper[p]
  BY ZenonT(40) DEF SweepEnds, RecordingInv, Sweeps, SweepState
<1>2. UNCHANGED <<recRows, objects, rectrail, creq, rday, checker>>
  BY Zenon DEF SweepEnds, recordingVars
<1>3. Sweeps'
  BY <1>1, <1>2, ZenonT(40) DEF RecordingInv, Sweeps, listable, committed
<1>4. QED
  BY <1>2, <1>3, SweepFrame, Zenon

(* A worker dies between any two steps of its passes.                      *)
LEMMA CrashStep ==
  ASSUME RecordingInv, NEW w \in Workers, WorkerCrash(w)
  PROVE  RecordingInv' /\ Aging
<1>1. UNCHANGED <<recRows, objects, rectrail, creq, rday>>
  BY Zenon DEF WorkerCrash
<1>2. Rows' /\ Aging /\ Trails'
  BY <1>1, SameRows, SameTrails, Zenon
<1>3. Requests' /\ Audio'
  BY <1>1, <1>2, SameRequests, SameAudio, Zenon
<1>4. /\ sweeper' \in [Workers -> SweepState]
      /\ sweeper'[w].pc = "idle" /\ sweeper'[w].todo = <<>>
      /\ \A p \in Workers \ {w} : sweeper'[p] = sweeper[p]
  <2>1. Asleep \in SweepState /\ Asleep.pc = "idle" /\ Asleep.todo = <<>>
    BY DEF SweepState, Asleep
  <2>2. sweeper \in [Workers -> SweepState] /\ sweeper' = [sweeper EXCEPT ![w] = Asleep]
    BY ZenonT(40) DEF WorkerCrash, RecordingInv, Sweeps
  <2>3. QED
    BY <2>1, <2>2, ZenonT(40)
<1>5. Sweeps'
  BY <1>1, <1>4 DEF RecordingInv, Sweeps, listable, committed
<1>6. /\ checker' \in [Workers -> CheckState]
      /\ checker'[w].pc = "idle"
      /\ \A p \in Workers \ {w} : checker'[p] = checker[p]
  <2>1. Unsampled \in CheckState /\ Unsampled.pc = "idle"
    BY DEF CheckState, Unsampled, Verdicts
  <2>2. checker \in [Workers -> CheckState] /\ checker' = [checker EXCEPT ![w] = Unsampled]
    BY Zenon DEF WorkerCrash, RecordingInv, Checks
  <2>3. QED
    BY <2>1, <2>2, ZenonT(40)
<1>7. Checks'
  BY <1>1, <1>6, ZenonT(40) DEF RecordingInv, Checks, committed
<1>8. QED
  BY <1>2, <1>3, <1>5, <1>7, Zenon DEF RecordingInv

(* A lost session frees the lock while the pass goes on.                   *)
LEMMA SessionStep ==
  ASSUME RecordingInv, NEW pass, SessionLost(pass)
  PROVE  RecordingInv' /\ Aging
<1>1. UNCHANGED <<recRows, objects, rectrail, creq, rday, sweeper, checker>>
  BY Zenon DEF SessionLost
<1>2. Sweeps'
  BY <1>1, ZenonT(40) DEF RecordingInv, Sweeps, listable, committed
<1>3. QED
  BY <1>1, <1>2, SweepFrame, Zenon

-----------------------------------------------------------------------------
(* The integrity pass.                                                     *)

(* A step of the integrity pass that leaves rows and objects alone.        *)
LEMMA CheckFrame ==
  ASSUME RecordingInv, Checks', UNCHANGED <<recRows, objects, rectrail, creq, rday, sweeper>>
  PROVE  RecordingInv' /\ Aging
<1>1. Rows' /\ Aging
  BY SameRows, Zenon
<1>2. Trails' /\ Audio' /\ Requests' /\ Sweeps'
  BY <1>1, SameTrails, SameAudio, SameRequests, SameSweeps, ZenonT(40)
<1>3. QED
  BY <1>1, <1>2, Zenon DEF RecordingInv

(* An integrity pass samples committed recordings.                         *)
LEMMA IntegrityTickStep ==
  ASSUME RecordingInv, NEW w \in Workers, IntegrityTick(w)
  PROVE  RecordingInv' /\ Aging
<1>1. PICK s \in SampleForVerify :
        checker' = [checker EXCEPT ![w].conn = TRUE, ![w].todo = s,
                                   ![w].pc = IF s = <<>> THEN "idle" ELSE "verify"]
  BY Zenon DEF IntegrityTick
<1>2. s \in Seq({c \in RecCalls : committed(c)})
  BY DEF SampleForVerify, committed
<1>3. s \in Seq(RecCalls) /\ \A i \in 1..Len(s) : s[i] \in RecCalls /\ committed(s[i])
  BY <1>2
<1>4. /\ checker' \in [Workers -> CheckState]
      /\ checker'[w].todo = s /\ checker'[w].pc = (IF s = <<>> THEN "idle" ELSE "verify")
      /\ \A p \in Workers \ {w} : checker'[p] = checker[p]
  BY <1>1, <1>3, ZenonT(40) DEF RecordingInv, Checks, CheckState
<1>5. UNCHANGED <<recRows, objects, rectrail, creq, rday, sweeper>>
  BY Zenon DEF IntegrityTick, recordingVars
<1>6. Checks'
  BY <1>3, <1>4, <1>5, SMTT(30) DEF RecordingInv, Checks, committed
<1>7. QED
  BY <1>5, <1>6, CheckFrame, Zenon

(* The sample goes on to its next recording.                               *)
LEMMA NextCheck ==
  ASSUME RecordingInv, Aging, NEW w \in Workers, checker[w].pc # "idle", checker' = nextCheck(w)
  PROVE  Checks'
<1>1. /\ checker[w].todo \in Seq(RecCalls) /\ checker[w].todo # <<>>
      /\ \A i \in 1..Len(checker[w].todo) : committed(checker[w].todo[i])
  BY DEF RecordingInv, Checks, CheckState
<1>2. /\ Tail(checker[w].todo) \in Seq(RecCalls)
      /\ Len(Tail(checker[w].todo)) = Len(checker[w].todo) - 1 /\ Len(checker[w].todo) > 0
      /\ \A i \in 1..Len(Tail(checker[w].todo)) :
           Tail(checker[w].todo)[i] \in RecCalls /\ committed(Tail(checker[w].todo)[i])
  BY <1>1, TailFacts
<1>3. /\ checker' \in [Workers -> CheckState]
      /\ checker'[w].todo = Tail(checker[w].todo)
      /\ checker'[w].pc = (IF Len(checker[w].todo) = 1 THEN "idle" ELSE "verify")
      /\ \A p \in Workers \ {w} : checker'[p] = checker[p]
  BY <1>2, ZenonT(40) DEF nextCheck, RecordingInv, Checks, CheckState, Verdicts
<1>4. ASSUME NEW p \in Workers, checker'[p].pc # "idle"
      PROVE  /\ Len(checker'[p].todo) > 0
             /\ \A i \in 1..Len(checker'[p].todo) : committed(checker[p].todo[i])'
  <2>1. CASE p = w
    <3>0. Len(checker[w].todo) # 1
      BY <1>3, <1>4, <2>1, Zenon
    <3>1. Len(Tail(checker[w].todo)) > 0
      <4> DEFINE n == Len(checker[w].todo)
                 m == Len(Tail(checker[w].todo))
      <4>1. n \in Nat /\ m = n - 1 /\ n > 0 /\ n # 1
        BY <1>1, <1>2, <3>0, SMTT(30)
      <4> HIDE DEF n, m
      <4>2. m > 0
        BY <4>1
      <4>3. QED
        BY <4>2, Zenon DEF m
    <3>2. ASSUME NEW i \in 1..Len(Tail(checker[w].todo))
          PROVE  recRows'[Tail(checker[w].todo)[i]].status # "none"
      BY <1>2, Zenon DEF Aging, committed
    <3>3. checker'[p].todo = Tail(checker[w].todo)
      BY <1>3, <2>1, Zenon
    <3>4. QED
      BY <3>1, <3>2, <3>3, Zenon DEF committed
  <2>2. CASE p # w
    BY <1>3, <1>4, <2>2, SMTT(30) DEF RecordingInv, Checks, CheckState, Aging, committed
  <2>3. QED
    BY <2>1, <2>2, Zenon
<1>5. QED
  BY <1>3, <1>4, Zenon DEF Checks

(* The bytes are compared with the committed hash.                         *)
LEMMA CheckBytesStep ==
  ASSUME RecordingInv, NEW w \in Workers, CheckBytes(w)
  PROVE  RecordingInv' /\ Aging
<1> DEFINE verdict == verdictOf(VerifyChecksum(CallOrg[Head(checker[w].todo)], Head(checker[w].todo)))
<1>1. /\ checker[w].pc = "verify"
      /\ UNCHANGED <<recRows, objects, rectrail, creq, rday, sweeper>>
  BY Zenon DEF CheckBytes, recordingVars
<1>2. verdict \in Verdicts
  BY Zenon DEF verdictOf, Verdicts
<1>3. \/ checker' = nextCheck(w)
      \/ checker' = [checker EXCEPT ![w].pc = "persist", ![w].verdict = verdict]
  BY Zenon DEF CheckBytes
<1> HIDE DEF verdict
<1>4. Checks'
  <2>1. CASE checker' = nextCheck(w)
    BY <1>1, <2>1, NextCheck, SameRows, ZenonT(40)
  <2>2. CASE checker' = [checker EXCEPT ![w].pc = "persist", ![w].verdict = verdict]
    <3>1. /\ checker' \in [Workers -> CheckState]
          /\ checker'[w].todo = checker[w].todo
          /\ \A p \in Workers \ {w} : checker'[p] = checker[p]
      BY <1>2, <2>2, ZenonT(40) DEF RecordingInv, Checks, CheckState
    <3>2. QED
      BY <1>1, <3>1, SMTT(30) DEF RecordingInv, Checks, committed
  <2>3. QED
    BY <1>3, <2>1, <2>2, Zenon
<1>5. QED
  BY <1>1, <1>4, CheckFrame, Zenon

(* handleVerify records the verdict on the row, deleted meanwhile or not.  *)
LEMMA VerifyStep ==
  ASSUME RecordingInv, NEW w \in Workers, handleVerify(w)
  PROVE  RecordingInv' /\ Aging
<1> DEFINE c == Head(checker[w].todo)
           v == checker[w].verdict
<1>0. /\ checker[w].pc = "persist" /\ c \in RecCalls /\ committed(c) /\ v \in Verdicts
  <2>1. /\ checker[w].pc = "persist" /\ checker[w].todo \in Seq(RecCalls)
        /\ checker[w].todo # <<>> /\ v \in Verdicts
        /\ \A i \in 1..Len(checker[w].todo) : committed(checker[w].todo[i])
    BY DEF handleVerify, RecordingInv, Checks, CheckState
  <2>2. QED
    BY <2>1, TailFacts, SMTT(30)
<1>a. UNCHANGED <<objects, creq, rday, sweeper>> /\ checker' = nextCheck(w)
  BY Zenon DEF handleVerify
<1>1. \/ UNCHANGED <<recRows, rectrail>>
      \/ /\ recRows' = [recRows EXCEPT ![c].verifiedAt = rday, ![c].integrity = v]
         /\ rectrail' = [rectrail EXCEPT ![c].verified = @ + 1]
  BY Zenon DEF handleVerify, UpdateVerifyResultTx
<1> HIDE DEF c, v
<1>b. ASSUME UNCHANGED <<recRows, rectrail>>
      PROVE  Rows' /\ Aging /\ Trails' /\ Requests' /\ Audio'
  BY <1>a, <1>b, SameRows, SameTrails, SameRequests, SameAudio, Zenon
<1>c. ASSUME recRows' = [recRows EXCEPT ![c].verifiedAt = rday, ![c].integrity = v],
             rectrail' = [rectrail EXCEPT ![c].verified = @ + 1]
      PROVE  Rows' /\ Aging /\ Trails' /\ Requests' /\ Audio'
  <2> DEFINE r == [recRows[c] EXCEPT !.verifiedAt = rday, !.integrity = v]
             t == [rectrail[c] EXCEPT !.verified = @ + 1]
  <2>1. recRows' = [recRows EXCEPT ![c] = r] /\ rectrail' = [rectrail EXCEPT ![c] = t]
    BY <1>0, <1>c, ZenonT(40) DEF RecordingInv, Rows, Trails
  <2>2. recRows[c] \in RecRow /\ rectrail[c] \in Trail /\ rday \in Int
    BY <1>0, SMTT(30) DEF RecordingInv, Rows, Trails
  <2>3. /\ r \in RecRow /\ r.status = recRows[c].status /\ r.committedAt = recRows[c].committedAt
        /\ r.coldAt = recRows[c].coldAt /\ r.deleteAt = recRows[c].deleteAt
    BY <1>0, <2>2, Zenon DEF RecRow, Statuses
  <2>4. /\ t \in Trail /\ t.committed = rectrail[c].committed /\ t.uploaded = rectrail[c].uploaded
        /\ t.erased = rectrail[c].erased /\ t.deleted = rectrail[c].deleted
    BY <2>2 DEF Trail
  <2> HIDE DEF r, t
  <2>5. /\ t.erased = (IF r.status = "deleted" THEN 1 ELSE 0)
        /\ t.deleted = (IF r.status = "deleted" THEN 1 ELSE 0)
    BY <1>0, <2>3, <2>4, Zenon DEF RecordingInv, Trails
  <2>6. Rows' /\ Aging /\ Trails'
    BY <1>0, <1>a, <2>1, <2>3, <2>4, <2>5, RowAges, TrailGrows, ZenonT(40) DEF committed
  <2>7. \A d \in RecCalls : recRows'[d] = (IF d = c THEN r ELSE recRows[d])
    BY <2>1, Zenon DEF RecordingInv, Rows
  <2>8. Requests' /\ Audio'
    BY <1>0, <1>a, <2>3, <2>6, <2>7, SameRequests, SameAudio, Zenon
  <2>9. QED
    BY <2>6, <2>8, Zenon
<1>2. Rows' /\ Aging /\ Trails' /\ Requests' /\ Audio'
  BY <1>1, <1>b, <1>c, Zenon
<1>3. Sweeps' /\ Checks'
  BY <1>0, <1>2, <1>a, SameSweeps, NextCheck, Zenon
<1>4. QED
  BY <1>2, <1>3, Zenon DEF RecordingInv

-----------------------------------------------------------------------------
(* Every step.                                                             *)
LEMMA StepHolds == RecordingInv /\ [RetentionNext]_retentionVars => RecordingInv' /\ Aging
<1> SUFFICES ASSUME RecordingInv, [RetentionNext]_retentionVars PROVE RecordingInv' /\ Aging
  BY Zenon
<1>1. ASSUME RecordingsNext, UNCHANGED passVars PROVE RecordingInv' /\ Aging
  BY <1>1, PassDayStep, StorageStep, StreamStep, CommitStep, InsertStep, FinishCommitStep, Zenon
     DEF RecordingsNext, StorageNext, CommitNext
<1>2. ASSUME SweepsNext PROVE RecordingInv' /\ Aging
  BY <1>2, RetentionTickStep, ColdMoveStep, SweepDeletesStep, DeleteObjectStep, DeleteStep,
     SweepEndsStep, CrashStep, SessionStep, ZenonT(40)
     DEF SweepsNext, RetentionStep
<1>3. ASSUME ChecksNext PROVE RecordingInv' /\ Aging
  BY <1>3, SessionStep, IntegrityTickStep, CheckBytesStep, VerifyStep, Zenon
     DEF ChecksNext, IntegrityStep
<1>4. CASE UNCHANGED retentionVars
  <2>1. UNCHANGED <<recRows, objects, rectrail, creq, rday, sweeper, checker>>
    BY <1>4, Zenon DEF retentionVars, recordingVars
  <2>2. Sweeps'
    BY <2>1, Zenon DEF RecordingInv, Sweeps, listable, committed
  <2>3. QED
    BY <2>1, <2>2, SweepFrame, Zenon
<1>5. QED
  BY <1>1, <1>2, <1>3, <1>4, Zenon DEF RetentionNext

(* The invariant of the recordings, for every number of requests, workers, *)
(* calls and faults.                                                       *)
THEOREM Invariance == RetentionSpec => []RecordingInv
<1>1. RetentionInit => RecordingInv
  BY InitHolds, Zenon
<1>2. RecordingInv /\ [RetentionNext]_retentionVars => RecordingInv'
  BY StepHolds, Zenon
<1>3. QED
  BY <1>1, <1>2, PTL DEF RetentionSpec

-----------------------------------------------------------------------------
(* The steps of RecordingLife.                                             *)

lifeSame == lifeOf' = lifeOf /\ planOf' = planOf /\ rday' = rday

(* The transaction of a commit is Keep.                                    *)
LEMMA CommitLives ==
  ASSUME RecordingInv, NEW q \in CommitRequests, FinishCommit(q)
  PROVE  lifeSame \/ \E c \in RecCalls : Life!Keep(c)
<1> DEFINE c == creq[q].call
<1> DEFINE p == [born |-> creq[q].now, cold |-> creq[q].cold, erase |-> creq[q].delete]
<1>0. /\ c \in RecCalls /\ ~committed(c) /\ rday' = rday
      /\ p \in Life!PlansBy(rday)
  BY Zenon DEF FinishCommit, RecordingInv, Requests, Life!PlansBy
<1>1. CASE commitTx(q)
  <2>1. recRows' = [recRows EXCEPT ![c] = storeRowFromInput(q)]
    BY <1>1, Zenon DEF commitTx
  <2> HIDE DEF c
  <2>2. /\ lifeOf' = [lifeOf EXCEPT ![c] = "stored"]
        /\ planOf' = [planOf EXCEPT ![c] = p]
    BY <1>0, <2>1, Zenon DEF lifeOf, planOf, storeRowFromInput, RecordingInv, Rows
  <2> HIDE DEF p
  <2>3. Life!Keep(c)
    BY <1>0, <2>2, Zenon DEF Life!Keep, lifeOf, committed
  <2>4. QED
    BY <1>0, <2>3, Zenon
<1>2. CASE UNCHANGED <<recRows, rectrail>>
  BY <1>0, <1>2, Zenon DEF lifeSame, lifeOf, planOf
<1>3. QED
  BY <1>1, <1>2, Zenon DEF FinishCommit

(* handleColdMove is Cool, on its day or after it, or changes nothing.     *)
LEMMA ColdMoveLives ==
  ASSUME RecordingInv, NEW w \in Workers, handleColdMove(w)
  PROVE  lifeSame \/ \E c \in RecCalls : Life!Cool(c)
<1> DEFINE c == Head(sweeper[w].todo)
<1>0. c \in RecCalls /\ committed(c) /\ recRows[c].coldAt <= rday /\ rday' = rday
  BY FirstListed, Zenon DEF handleColdMove, listable
<1>1. \/ recRows' = recRows
      \/ recRows[c].status = "stored" /\ recRows' = [recRows EXCEPT ![c].status = "cold"]
  BY Zenon DEF handleColdMove, MarkColdTx
<1> HIDE DEF c
<1>2. CASE recRows' = recRows
  BY <1>0, <1>2, Zenon DEF lifeSame, lifeOf, planOf
<1>3. CASE recRows[c].status = "stored" /\ recRows' = [recRows EXCEPT ![c].status = "cold"]
  <2>1. lifeOf' = [lifeOf EXCEPT ![c] = "cold"] /\ planOf' = planOf
    BY <1>0, <1>3, Zenon DEF lifeOf, planOf, RecordingInv, Rows, RecRow
  <2>2. planOf[c].cold <= rday /\ lifeOf[c] = "stored"
    BY <1>0, <1>3, Zenon DEF lifeOf, planOf, RecordingInv, Rows
  <2>3. QED
    BY <1>0, <2>1, <2>2, Zenon DEF Life!Cool
<1>4. QED
  BY <1>1, <1>2, <1>3, Zenon

(* handleDelete is Erase, on its day or after it, or changes nothing.      *)
LEMMA DeleteLives ==
  ASSUME RecordingInv, NEW w \in Workers, handleDelete(w)
  PROVE  lifeSame \/ \E c \in RecCalls : Life!Erase(c)
<1> DEFINE c == Head(sweeper[w].todo)
<1>0. c \in RecCalls /\ committed(c) /\ recRows[c].deleteAt <= rday /\ rday' = rday
  <2>1. sweeper[w].pc = "erase" /\ sweeper[w].todo # <<>> /\ rday' = rday
    BY DEF handleDelete, RecordingInv, Sweeps, SweepState
  <2>2. QED
    BY <2>1, FirstListed, Zenon DEF listable
<1>1. \/ recRows' = recRows
      \/ /\ recRows[c].status \in {"stored", "cold"}
         /\ recRows' = [recRows EXCEPT ![c].status = "deleted"]
  BY Zenon DEF handleDelete, MarkDeletedTx
<1> HIDE DEF c
<1>2. CASE recRows' = recRows
  BY <1>0, <1>2, Zenon DEF lifeSame, lifeOf, planOf
<1>3. CASE /\ recRows[c].status \in {"stored", "cold"}
           /\ recRows' = [recRows EXCEPT ![c].status = "deleted"]
  <2>1. lifeOf' = [lifeOf EXCEPT ![c] = "deleted"] /\ planOf' = planOf
    BY <1>0, <1>3, Zenon DEF lifeOf, planOf, RecordingInv, Rows, RecRow
  <2>2. planOf[c].erase <= rday /\ lifeOf[c] \in {"stored", "cold"}
    BY <1>0, <1>3, Zenon DEF lifeOf, planOf, RecordingInv, Rows
  <2>3. QED
    BY <1>0, <2>1, <2>2, Zenon DEF Life!Erase, Life!Kept
<1>4. QED
  BY <1>1, <1>2, <1>3, Zenon

(* A verdict is no event in the life of a recording.                       *)
LEMMA VerifyLives ==
  ASSUME RecordingInv, NEW w \in Workers, handleVerify(w)
  PROVE  lifeSame
<1> DEFINE c == Head(checker[w].todo)
<1>1. \/ recRows' = recRows
      \/ recRows' = [recRows EXCEPT ![c].verifiedAt = rday, ![c].integrity = checker[w].verdict]
  BY Zenon DEF handleVerify, UpdateVerifyResultTx
<1> HIDE DEF c
<1>2. \A d \in RecCalls : /\ recRows'[d].status = recRows[d].status
                          /\ recRows'[d].committedAt = recRows[d].committedAt
                          /\ recRows'[d].coldAt = recRows[d].coldAt
                          /\ recRows'[d].deleteAt = recRows[d].deleteAt
  BY <1>1 DEF RecordingInv, Rows, RecRow
<1>3. QED
  BY <1>2, Zenon DEF handleVerify, lifeSame, lifeOf, planOf

(* Every step is a step of RecordingLife or none of its business.          *)
LEMMA StepLives == RecordingInv /\ [RetentionNext]_retentionVars => [Life!LifeNext]_Life!lifeVars
<1> SUFFICES ASSUME RecordingInv, [RetentionNext]_retentionVars PROVE lifeSame \/ Life!LifeNext
  BY Zenon DEF lifeSame, Life!lifeVars
<1>a. ASSUME recRows' = recRows, rday' = rday PROVE lifeSame
  BY <1>a, Zenon DEF lifeSame, lifeOf, planOf
<1>1. ASSUME RecordingsNext PROVE lifeSame \/ Life!LifeNext
  <2>1. ASSUME PassDay PROVE Life!Tomorrow
    BY <2>1, Zenon DEF PassDay, Life!Tomorrow, lifeOf, planOf
  <2>2. ASSUME NEW c \in RecCalls, Upload(c) \/ Rot(c) PROVE lifeSame
    BY <2>2, <1>a, Zenon DEF Upload, Rot
  <2>3. ASSUME NEW who \in RecCallers, NEW c \in RecCalls, streamRecording(who, c) PROVE lifeSame
    BY <2>3, <1>a, Zenon DEF streamRecording
  <2>4. ASSUME NEW q \in CommitRequests, NEW cert \in Certificates, NEW in \in CommitInputs,
               Commit(q, cert, in)
        PROVE  lifeSame
    BY <2>4, <1>a, Zenon DEF Commit
  <2>5. ASSUME NEW q \in CommitRequests, InsertRecordingIdempotent(q) \/ InsertResumes(q)
        PROVE  lifeSame
    BY <2>5, <1>a, Zenon DEF InsertRecordingIdempotent, InsertResumes
  <2>6. QED
    BY <1>1, <2>1, <2>2, <2>3, <2>4, <2>5, CommitLives, ZenonT(40)
       DEF RecordingsNext, StorageNext, CommitNext, Life!LifeNext
<1>2. ASSUME SweepsNext PROVE lifeSame \/ Life!LifeNext
  <2>1. ASSUME NEW w \in Workers,
               RetentionTick(w) \/ sweepDeletes(w) \/ DeleteObject(w) \/ SweepEnds(w) \/ WorkerCrash(w)
        PROVE  lifeSame
    BY <2>1, <1>a, Zenon
       DEF RetentionTick, sweepDeletes, DeleteObject, SweepEnds, WorkerCrash, recordingVars
  <2>2. ASSUME SessionLost("retention") PROVE lifeSame
    BY <2>2, <1>a, Zenon DEF SessionLost
  <2>3. QED
    BY <1>2, <2>1, <2>2, ColdMoveLives, DeleteLives, Zenon
       DEF SweepsNext, RetentionStep, Life!LifeNext
<1>3. ASSUME ChecksNext PROVE lifeSame
  <2>1. ASSUME NEW w \in Workers, IntegrityTick(w) \/ CheckBytes(w) PROVE lifeSame
    BY <2>1, <1>a, Zenon DEF IntegrityTick, CheckBytes, recordingVars
  <2>2. ASSUME SessionLost("integrity") PROVE lifeSame
    BY <2>2, <1>a, Zenon DEF SessionLost
  <2>3. QED
    BY <1>3, <2>1, <2>2, VerifyLives, Zenon DEF ChecksNext, IntegrityStep
<1>4. CASE UNCHANGED retentionVars
  BY <1>4, <1>a, Zenon DEF retentionVars, recordingVars
<1>5. QED
  BY <1>1, <1>2, <1>3, <1>4, Zenon DEF RetentionNext

(* The recordings implement RecordingLife for every number of requests,    *)
(* workers, calls, plans and faults: commits, replays, sweeps by several   *)
(* workers and integrity passes never age a recording before the days its  *)
(* commit asked for, bring it back or move those days.                     *)
THEOREM Refinement == RetentionSpec => ImplementsRecordingLife
<1>1. RetentionInit => Life!LifeInit
  BY SMTT(30) DEF RetentionInit, RecordingsInit, NoRec, Life!LifeInit, lifeOf
<1>2. QED
  BY <1>1, StepLives, Invariance, PTL DEF RetentionSpec, ImplementsRecordingLife, Life!LifeSpec

(* A recording is committed once and announced once, and erased once and   *)
(* completely, for every number of requests, workers, calls and faults.    *)
THEOREM Accounted == RetentionSpec => [](RecordedOnce /\ ErasedIsAccounted)
<1>1. RecordingInv => RecordedOnce
  BY SMTT(30) DEF RecordingInv, Rows, Trails, RecordedOnce, NoRec, committed
<1>2. RecordingInv => ErasedIsAccounted
  BY SMTT(30) DEF RecordingInv, Rows, Trails, Audio, ErasedIsAccounted, NoRec, committed
<1>3. QED
  BY <1>1, <1>2, Invariance, PTL

=============================================================================
